------------------------------- MODULE Shamir -------------------------------
(***************************************************************************)
(* The pure algorithms of golden-core: Shamir sharing (shamir.rs), Feldman *)
(* commitments (feldman.rs) and participant indexes (participant.rs).      *)
(*                                                                         *)
(* The code is generic over a prime-order group.  The model is the repo's  *)
(* own TinyGroup shape: scalars are the integers modulo a prime P, group   *)
(* elements are the additive group Z_P, and Gen is its generator, so       *)
(* "g^s" is Gen*s.  Nothing here relies on discrete logarithms being hard. *)
(***************************************************************************)
EXTENDS Integers, Sequences, FiniteSets, SequencesExt

CONSTANTS
    P,      \* order of the scalar field and of the group
    Gen     \* the generator

ASSUME PAssumption ==
    P \in Nat /\ P > 1 /\ \A a \in 2..(P - 1) : P % a # 0

ASSUME GenAssumption == Gen \in 1..(P - 1)

Scalars == 0..(P - 1)

(***************************************************************************)
(* GoldenScalar and GoldenGroup.                                           *)
(***************************************************************************)
Add(a, b) == (a + b) % P
Sub(a, b) == (a - b) % P
Mul(a, b) == (a * b) % P
Invert(a) == CHOOSE b \in Scalars : Mul(a, b) = 1

Identity == 0
GAdd(x, y) == (x + y) % P
GSub(x, y) == (x - y) % P
GMul(x, s) == (x * s) % P
MulGenerator(s) == GMul(Gen, s)

(* Participant indexes convert to scalars by value (ParticipantIndex::to_scalar). *)
ToScalar(participant) == participant % P

(* Participant indexes in ascending order, as a registry (a BTreeMap) iterates. *)
InOrder(S) ==
    [i \in 1..Cardinality(S) |-> CHOOSE x \in S : Cardinality({y \in S : y < x}) = i - 1]

(***************************************************************************)
(* Polynomials, as sequences of coefficients in ascending degree order.    *)
(***************************************************************************)
EvaluateAtScalar(coefficients, x) ==
    FoldRight(LAMBDA coeff, result : Add(Mul(result, x), coeff), coefficients, 0)

Evaluate(coefficients, participant) ==
    EvaluateAtScalar(coefficients, ToScalar(participant))

(***************************************************************************)
(* batch_invert: one inversion of the running product, then a backward     *)
(* pass.  prefix[i] is the product of the values before i.  The backward   *)
(* pass starts from the inverse of the whole product and multiplies it by  *)
(* the values already passed, so at i it is the inverse of prefix[i] *     *)
(* values[i].  Returns << >> for None, which no caller confuses with the   *)
(* result for an empty list: the only caller has at least one value.       *)
(***************************************************************************)
Product(values) == FoldLeft(Mul, 1, values)

BatchInvert(values) ==
    IF Product(values) = 0
    THEN << >>
    ELSE LET n == Len(values)
             prefix[i \in 1..(n + 1)] ==
                 IF i = 1 THEN 1 ELSE Mul(prefix[i - 1], values[i - 1])
             accInv[i \in 0..n] ==
                 IF i = n THEN Invert(prefix[n + 1]) ELSE Mul(accInv[i + 1], values[i + 1])
         IN  [i \in 1..n |-> Mul(accInv[i], prefix[i])]

(* lagrange_coefficients_at_zero; << >> for NonInvertibleDenominator. *)
LagrangeCoefficientsAtZero(xs) ==
    LET others(i)      == RemoveAt(xs, i)
        numerator(i)   == Product([j \in DOMAIN others(i) |-> Sub(0, others(i)[j])])
        denominator(i) == Product([j \in DOMAIN others(i) |-> Sub(xs[i], others(i)[j])])
        inverses       == BatchInvert([i \in 1..Len(xs) |-> denominator(i)])
    IN  [i \in 1..Len(inverses) |-> Mul(numerator(i), inverses[i])]

(***************************************************************************)
(* Shares are records [participant, value].  Results are records [kind,    *)
(* value]; kind is "Ok" or the name of the error.                          *)
(***************************************************************************)
HasDuplicates(s) == \E i, j \in DOMAIN s : i # j /\ s[i] = s[j]

LagrangeInterpolateAtZero(shares) ==
    LET participants == [i \in DOMAIN shares |-> shares[i].participant]
        coefficients == LagrangeCoefficientsAtZero(
                            [i \in DOMAIN shares |-> ToScalar(participants[i])])
        sum == FoldLeft(Add, 0, [i \in DOMAIN shares |-> Mul(shares[i].value, coefficients[i])])
    IN  IF shares = << >> THEN [kind |-> "InvalidThreshold", value |-> 0]
        ELSE IF HasDuplicates(participants)
             THEN [kind |-> "DuplicateParticipantIndex", value |-> 0]
        ELSE IF coefficients = << >>
             THEN [kind |-> "NonInvertibleDenominator", value |-> 0]
        ELSE [kind |-> "Ok", value |-> sum]

(* Mutants: the minimum count is off by one, in either direction. *)
ReconstructSecret_OneTooFew(shares, threshold) ==
    IF threshold = 0 \/ Len(shares) + 1 < threshold
    THEN [kind |-> "InvalidThreshold", value |-> 0]
    ELSE LagrangeInterpolateAtZero(shares)

ReconstructSecret_OneTooMany(shares, threshold) ==
    IF threshold = 0 \/ Len(shares) <= threshold
    THEN [kind |-> "InvalidThreshold", value |-> 0]
    ELSE LagrangeInterpolateAtZero(shares)

ReconstructSecret(shares, threshold) ==
    IF threshold = 0 \/ Len(shares) < threshold
    THEN [kind |-> "InvalidThreshold", value |-> 0]
    ELSE LagrangeInterpolateAtZero(shares)

(***************************************************************************)
(* Feldman commitments.                                                    *)
(***************************************************************************)
Commit(coefficients) == [i \in DOMAIN coefficients |-> MulGenerator(coefficients[i])]

(* The bits of n from the most significant one down; << >> for 0. *)
BitsFromMsb(n) ==
    LET bits[k \in 0..n] == IF k = 0 THEN << >> ELSE Append(bits[k \div 2], k % 2)
    IN  bits[n]

(* Double-and-add over the bits of a small public scalar. *)
MulBySmallScalar(point, scalar) ==
    FoldLeft(LAMBDA acc, bit :
                 LET doubled == GAdd(acc, acc)
                 IN  IF bit = 1 THEN GAdd(doubled, point) ELSE doubled,
             Identity, BitsFromMsb(scalar))

PublicKeyShare(commitment, participant) ==
    FoldRight(LAMBDA coefficient, result :
                  GAdd(MulBySmallScalar(result, participant), coefficient),
              commitment, Identity)

VerifyShare(commitment, participant, value) ==
    PublicKeyShare(commitment, participant) = MulGenerator(value)
=============================================================================
