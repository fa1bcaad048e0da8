---------------------------- MODULE InnerProduct ----------------------------
(***************************************************************************)
(* The inner-product argument of bulletproofs-cycle (util.rs, transcript.rs *)
(* and inner_product_proof.rs) as operators.                               *)
(*                                                                         *)
(* Generators are independent, so a point is the list of its coordinates   *)
(* over them: two points are equal exactly when no relation among the      *)
(* generators is needed to see it.  Fiat-Shamir challenges are arguments.  *)
(***************************************************************************)
EXTENDS Shamir

CONSTANTS
    MaxGens,                \* generators that exist of each kind
    SmallProof,             \* 4096: below it bases are never collapsed
    ORIGINAL_BASE_ROUNDS    \* 8: rounds over the original bases above it

ASSUME InnerProductAssumption ==
    /\ MaxGens \in Nat \ {0}
    /\ SmallProof \in Nat /\ ORIGINAL_BASE_ROUNDS \in Nat
    /\ 2^ORIGINAL_BASE_ROUNDS <= SmallProof

(***************************************************************************)
(* Points over the bases B, B_blinding, G_1.., H_1..                       *)
(***************************************************************************)
NoCoordinates == [i \in 1..MaxGens |-> 0]
IdentityPoint == [B |-> 0, B_blinding |-> 0, G |-> NoCoordinates, H |-> NoCoordinates]
BasePoint == [IdentityPoint EXCEPT !.B = 1]
BlindingPoint == [IdentityPoint EXCEPT !.B_blinding = 1]
GPoint(i) == [IdentityPoint EXCEPT !.G[i] = 1]
HPoint(i) == [IdentityPoint EXCEPT !.H[i] = 1]

PAdd(p, q) ==
    [B |-> Add(p.B, q.B), B_blinding |-> Add(p.B_blinding, q.B_blinding),
     G |-> [i \in 1..MaxGens |-> Add(p.G[i], q.G[i])],
     H |-> [i \in 1..MaxGens |-> Add(p.H[i], q.H[i])]]

PMul(p, s) ==
    [B |-> Mul(p.B, s), B_blinding |-> Mul(p.B_blinding, s),
     G |-> [i \in 1..MaxGens |-> Mul(p.G[i], s)],
     H |-> [i \in 1..MaxGens |-> Mul(p.H[i], s)]]

(* Cycle::vartime_msm and vartime_msm_affine. *)
Msm(scalars, points) ==
    FoldLeftDomain(LAMBDA sum, i : PAdd(sum, PMul(points[i], scalars[i])), IdentityPoint, scalars)

(* PedersenGens::commit *)
Commitment(value, blinding) == Msm(<<value, blinding>>, <<BasePoint, BlindingPoint>>)

(***************************************************************************)
(* Vectors.                                                                *)
(***************************************************************************)
Neg(a) == Sub(0, a)
Sum(values) == FoldLeft(Add, 0, values)
Prefix(s, n) == SubSeq(s, 1, n)
Suffix(s, n) == SubSeq(s, n + 1, Len(s))

(* inner_product: the shorter argument decides. *)
Inner(a, b) ==
    LET n == IF Len(a) <= Len(b) THEN Len(a) ELSE Len(b)
    IN  Sum([i \in 1..n |-> Mul(a[i], b[i])])

(* The first n powers of x, from the zeroth (exp_iter). *)
ExpIter(x, n) ==
    LET power[i \in 1..n] == IF i = 1 THEN 1 ELSE Mul(x, power[i - 1])
    IN  [i \in 1..n |-> power[i]]

(* usize::next_power_of_two, which is one for zero. *)
NextPowerOfTwo(n) ==
    LET next[m \in 0..n] == IF m <= 1 THEN 1 ELSE 2 * next[(m + 1) \div 2]
    IN  next[n]

(* How often n can be halved: the logarithm of a power of two. *)
Log2(n) ==
    LET halvings[m \in 1..n] == IF m = 1 THEN 0 ELSE 1 + halvings[m \div 2]
    IN  halvings[n]

(***************************************************************************)
(* create.  A round splits both vectors into halves, commits to the two    *)
(* cross products and folds the halves together with the challenge u.      *)
(***************************************************************************)
FoldedVector(low, high, lowFactor, highFactor) ==
    [i \in DOMAIN low |-> Add(Mul(low[i], lowFactor), Mul(high[i], highFactor))]

(* A round over the original bases.  Generator j belongs to the high half   *)
(* when its bit of this round is set; g and h are the factors it has so far. *)
Round(st, u, Q, G, H) ==
    LET n == Len(G)
        m == Len(st.a) \div 2
        aL == Prefix(st.a, m)   aR == Suffix(st.a, m)
        bL == Prefix(st.b, m)   bR == Suffix(st.b, m)
        high(j) == ((j - 1) \div m) % 2 = 1
        at(v, j) == v[((j - 1) % m) + 1]
        L == PAdd(PMul(Q, Inner(aL, bR)),
                  Msm([j \in 1..n |-> IF high(j) THEN Mul(at(aL, j), st.g[j])
                                                ELSE Mul(at(bR, j), st.h[j])],
                      [j \in 1..n |-> IF high(j) THEN G[j] ELSE H[j]]))
        R == PAdd(PMul(Q, Inner(aR, bL)),
                  Msm([j \in 1..n |-> IF high(j) THEN Mul(at(bL, j), st.h[j])
                                                ELSE Mul(at(aR, j), st.g[j])],
                      [j \in 1..n |-> IF high(j) THEN H[j] ELSE G[j]]))
    IN  [a |-> FoldedVector(aL, aR, u, Invert(u)),
         b |-> FoldedVector(bL, bR, Invert(u), u),
         g |-> [j \in 1..n |-> Mul(st.g[j], IF high(j) THEN u ELSE Invert(u))],
         h |-> [j \in 1..n |-> Mul(st.h[j], IF high(j) THEN Invert(u) ELSE u)],
         L_vec |-> Append(st.L_vec, L), R_vec |-> Append(st.R_vec, R)]

(* The bases collapsed to as many as the vectors have entries left. *)
Collapsed(coefficients, bases, remaining) ==
    LET steps == Len(bases) \div remaining
        at(s, i) == [k \in 1..steps |-> s[(k - 1) * remaining + i]]
    IN  [i \in 1..remaining |-> Msm(at(coefficients, i), at(bases, i))]

(* Mutant: the collapsed H bases are folded like the G bases. *)
TailRound_SameFold(st, u, Q) ==
    LET m == Len(st.a) \div 2
        aL == Prefix(st.a, m)   aR == Suffix(st.a, m)
        bL == Prefix(st.b, m)   bR == Suffix(st.b, m)
        GL == Prefix(st.G, m)   GR == Suffix(st.G, m)
        HL == Prefix(st.H, m)   HR == Suffix(st.H, m)
    IN  [a |-> FoldedVector(aL, aR, u, Invert(u)),
         b |-> FoldedVector(bL, bR, Invert(u), u),
         G |-> [i \in 1..m |-> Msm(<<Invert(u), u>>, <<GL[i], GR[i]>>)],
         H |-> [i \in 1..m |-> Msm(<<Invert(u), u>>, <<HL[i], HR[i]>>)],
         L_vec |-> Append(st.L_vec, Msm(aL \o bR \o <<Inner(aL, bR)>>, GR \o HL \o <<Q>>)),
         R_vec |-> Append(st.R_vec, Msm(aR \o bL \o <<Inner(aR, bL)>>, GL \o HR \o <<Q>>))]

(* A round of create_folded_tail, over the collapsed bases. *)
TailRound(st, u, Q) ==
    LET m == Len(st.a) \div 2
        aL == Prefix(st.a, m)   aR == Suffix(st.a, m)
        bL == Prefix(st.b, m)   bR == Suffix(st.b, m)
        GL == Prefix(st.G, m)   GR == Suffix(st.G, m)
        HL == Prefix(st.H, m)   HR == Suffix(st.H, m)
    IN  [a |-> FoldedVector(aL, aR, u, Invert(u)),
         b |-> FoldedVector(bL, bR, Invert(u), u),
         G |-> [i \in 1..m |-> Msm(<<Invert(u), u>>, <<GL[i], GR[i]>>)],
         H |-> [i \in 1..m |-> Msm(<<u, Invert(u)>>, <<HL[i], HR[i]>>)],
         L_vec |-> Append(st.L_vec, Msm(aL \o bR \o <<Inner(aL, bR)>>, GR \o HL \o <<Q>>)),
         R_vec |-> Append(st.R_vec, Msm(aR \o bL \o <<Inner(aR, bL)>>, GL \o HR \o <<Q>>))]

(* The rounds that run over the original bases, for n generators. *)
OriginalRounds(n) == IF n < SmallProof THEN Log2(n) ELSE ORIGINAL_BASE_ROUNDS

(* What create and create_folded_tail return once one entry is left. *)
ArgumentOf(st) == [L_vec |-> st.L_vec, R_vec |-> st.R_vec, a |-> st.a[1], b |-> st.b[1]]

(* create_folded_tail: the bases collapsed once, then the other rounds     *)
(* over them, after a number of rounds that is done.                       *)
FoldedTail(st, Q, G, H, challenges, done) ==
    LET folded[k \in 0..Log2(Len(st.a))] ==
            IF k = 0
            THEN [a |-> st.a, b |-> st.b, L_vec |-> st.L_vec, R_vec |-> st.R_vec,
                  G |-> Collapsed(st.g, G, Len(st.a)), H |-> Collapsed(st.h, H, Len(st.a))]
            ELSE TailRound(folded[k - 1], challenges[done + k], Q)
    IN  folded[Log2(Len(st.a))]

AfterRounds(st, Q, G, H, challenges, done) ==
    ArgumentOf(IF Len(st.a) > 1 THEN FoldedTail(st, Q, G, H, challenges, done) ELSE st)

(* The whole argument with a given number of rounds over the original bases. *)
CreateWith(originalRounds, Q, Gfactors, Hfactors, G, H, a, b, challenges) ==
    LET state[k \in 0..originalRounds] ==
            IF k = 0
            THEN [a |-> a, b |-> b, g |-> Gfactors, h |-> Hfactors,
                  L_vec |-> << >>, R_vec |-> << >>]
            ELSE Round(state[k - 1], challenges[k], Q, G, H)
    IN  AfterRounds(state[originalRounds], Q, G, H, challenges, originalRounds)

Create(Q, Gfactors, Hfactors, G, H, a, b, challenges) ==
    CreateWith(OriginalRounds(Len(G)), Q, Gfactors, Hfactors, G, H, a, b, challenges)

(***************************************************************************)
(* verification_scalars.  The weight s_i of generator i is built from the  *)
(* weight of the index without its highest bit.  Callers check that the    *)
(* proof has as many rounds as n asks for and no identity among them.      *)
(***************************************************************************)
SWeights(n, challenges) ==
    LET lg == Log2(n)
        highest(i) == CHOOSE k \in 0..i : 2^k <= i /\ i < 2^(k + 1)
        s[i \in 0..(n - 1)] ==
            IF i = 0 THEN Product([k \in DOMAIN challenges |-> Invert(challenges[k])])
            ELSE LET k == highest(i) IN Mul(s[i - 2^k], Mul(challenges[lg - k], challenges[lg - k]))
    IN  [i \in 1..n |-> s[i - 1]]

(***************************************************************************)
(* InnerProductProof::verify, for n generators and their factors.          *)
(***************************************************************************)
Squares(values) == [k \in DOMAIN values |-> Mul(values[k], values[k])]
Inverses(values) == [k \in DOMAIN values |-> Invert(values[k])]

VerifyArgument(ipp, Gfactors, Hfactors, point, Q, G, H, challenges) ==
    LET n == Len(G)
        u == Prefix(challenges, Len(ipp.L_vec))
        s == SWeights(n, u)
        negated(values) == [k \in DOMAIN values |-> Neg(values[k])]
    IN  /\ Len(H) = n /\ Len(Gfactors) = n /\ Len(Hfactors) = n
        /\ n = 2^Len(ipp.L_vec)
        /\ \A k \in DOMAIN ipp.L_vec : IdentityPoint \notin {ipp.L_vec[k], ipp.R_vec[k]}
        /\ point = Msm(<<Mul(ipp.a, ipp.b)>>
                         \o [i \in 1..n |-> Mul(Mul(ipp.a, s[i]), Gfactors[i])]
                         \o [i \in 1..n |-> Mul(Mul(ipp.b, s[n + 1 - i]), Hfactors[i])]
                         \o negated(Squares(u)) \o negated(Squares(Inverses(u))),
                       <<Q>> \o G \o H \o ipp.L_vec \o ipp.R_vec)
=============================================================================
