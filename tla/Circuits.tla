------------------------------- MODULE Circuits -----------------------------
(***************************************************************************)
(* What the circuits of golden-evrf's two paper backends have in common:   *)
(* bits, range checks and the selection of a point by bits.                *)
(*                                                                         *)
(* A gadget is the set of results its wires can take when its constraints  *)
(* hold, whoever chose them.  Wires are elements of the field of p         *)
(* elements; a committed or allocated wire that the constraints leave free *)
(* is quantified over the field, an output they determine is computed.     *)
(* How many multipliers a gadget allocates stands beside it.               *)
(*                                                                         *)
(* A suite c is a record: kind, the moduli p and q, k_bits, interval, the  *)
(* bounds p_le, q_le and rest_le (p - q, or p - 8q) as little-endian       *)
(* bytes, the coordinates of the points 0..q-1, hashes (the two bases of a *)
(* message), and for the chord law correction, the hash of a base to its   *)
(* correction generator, for the Edwards law the coefficient d.            *)
(***************************************************************************)
EXTENDS Integers, Sequences, SequencesExt, FiniteSets, FiniteSetsExt

Field(c) == 0..(c.p - 1)
Generator == 1
IsIdentity(point) == point = 0

(* affine fails on the identity: callers check IsIdentity first. *)
Affine(c, point) == c.coordinates[point + 1]

(* 2^j times a point. *)
Doubled(c, point, times) == (point * 2^times) % c.q

ModulusBit(modulus_le, j) ==
    IF j \div 8 < Len(modulus_le) THEN (modulus_le[j \div 8 + 1] \div 2^(j % 8)) % 2 ELSE 0

(* One past the highest set bit of a bound among n bits. *)
LowerBitsStart(bound, n) == 1 + Max({-1} \cup {j \in 0..(n - 1) : ModulusBit(bound, j) = 1})

(* fp_to_fq: the canonical integer of a field element, modulo q. *)
FpToFq(c, x) == x % c.q

(* decompose_k_fp: the k_bits + 1 bits of the canonical integer. *)
DecomposeK(c, k) == [j \in 0..c.k_bits |-> (k \div 2^j) % 2]

-----------------------------------------------------------------------------
(* One multiplier per bit: left * (1 - left) = 0. *)
BitWires(c) == {bit \in Field(c) : (bit * (1 - bit)) % c.p = 0}

BitVectors(c, n) == [0..(n - 1) -> BitWires(c)]

Recomposed(c, bits, n) ==
    MapThenSumSet(LAMBDA j : bits[j] * 2^j, 0..(n - 1)) % c.p

(* prefix_equal before bit j - 1, scanning from bit n - 1 down: 1 as long  *)
(* as all bits from j up are those of the bound.                           *)
PrefixEqual(c, bits, bound, n) ==
    LET equal[j \in 0..n] ==
            CASE j = n -> 1
              [] j < n /\ ModulusBit(bound, j) = 1 -> (equal[j + 1] * bits[j]) % c.p
              [] OTHER -> (equal[j + 1] * (1 - bits[j])) % c.p
    IN  [j \in 0..n |-> equal[j]]

(* The scan of the n lowest bits, each violation multiplied by condition. *)
ScanBelow(c, bits, bound, n, condition) ==
    LET equal == PrefixEqual(c, bits, bound, n)
    IN  /\ \A j \in 0..(n - 1) :
            ModulusBit(bound, j) = 0 => (condition * equal[j + 1] * bits[j]) % c.p = 0
        /\ (condition * equal[0]) % c.p = 0

BitsLtBoundWhen_Never(c, bits, bound, n, condition) == TRUE

(* constrain_bits_lt_bound_when: where the condition wire is 1, the bits   *)
(* are below the bound.                                                    *)
BitsLtBoundWhen(c, bits, bound, n, condition) ==
    LET start == LowerBitsStart(bound, n)
    IN  /\ (condition * MapThenSumSet(LAMBDA j : bits[j], start..(n - 1))) % c.p = 0
        /\ ScanBelow(c, bits, bound, start, condition)

BitsLtBoundWhenGates(bound, n) ==
    LET start == LowerBitsStart(bound, n)
    IN  (IF start < n THEN 1 ELSE 0) + start
            + Cardinality({j \in 0..(start - 1) : ModulusBit(bound, j) = 0}) + 1

-----------------------------------------------------------------------------
(* An exponentiation takes bit 0 alone, then two bits at a time. *)
Windows(c) == c.k_bits \div 2

(* One multiplier per window, shared by all exponentiations by these bits. *)
WindowProducts(c, bits) ==
    [w \in 1..Windows(c) |-> (bits[2 * w - 1] * bits[2 * w]) % c.p]

(* The coordinates that the bits s0 and s1 with product both select from   *)
(* four points, linear in the three wires.                                 *)
WindowDelta(c, q00, q10, q01, q11, s0, s1, both) ==
    [i \in 1..2 |->
        (q00[i] + s0 * (q10[i] - q00[i]) + s1 * (q01[i] - q00[i])
           + both * (q11[i] - q10[i] - q01[i] + q00[i])) % c.p]

(* r = beta * T_1.x + T_2.x *)
Output(c, beta, T1, T2) == (beta * T1[1] + T2[1]) % c.p

(* Two allocated wires share one multiplier. *)
Halves(allocations) == (allocations + 1) \div 2
=============================================================================
