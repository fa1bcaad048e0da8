-------------------------------- MODULE Curves ------------------------------
(***************************************************************************)
(* The embedded curves of the two paper backends, on fields small enough   *)
(* to enumerate: a short Weierstrass curve y^2 = x^3 + ax + b of prime     *)
(* order q < p for secp_secq, and a twisted Edwards curve                  *)
(* -u^2 + v^2 = 1 + d u^2 v^2 of order 8q < p for bls_jubjub.              *)
(*                                                                         *)
(* A point of the prime-order group is its discrete logarithm in           *)
(* 0..q-1; what the circuits see of it are its coordinates, which the      *)
(* tables below give.  The curve libraries are outside the repository.     *)
(***************************************************************************)
EXTENDS Integers, Sequences, SequencesExt

FieldInverse(x, p) == CHOOSE y \in 0..(p - 1) : (x * y) % p = 1

(* The point at infinity has no affine coordinates. *)
Infinity == << >>

WeierstrassAdd(P, Q, a, p) ==
    LET slope == IF P = Q THEN (3 * P[1] * P[1] + a) * FieldInverse((2 * P[2]) % p, p)
                          ELSE (P[2] - Q[2]) * FieldInverse((P[1] - Q[1]) % p, p)
        x == (slope * slope - P[1] - Q[1]) % p
    IN  CASE P = Infinity -> Q
          [] Q = Infinity -> P
          [] P # Infinity /\ Q # Infinity /\ P[1] = Q[1] /\ (P[2] + Q[2]) % p = 0 -> Infinity
          [] OTHER -> <<x, (slope * (P[1] - x) - P[2]) % p>>

EdwardsAdd(P, Q, d, p) ==
    LET t == (d * ((P[1] * Q[1]) % p) * ((P[2] * Q[2]) % p)) % p
    IN  <<((P[1] * Q[2] + P[2] * Q[1]) * FieldInverse((1 + t) % p, p)) % p,
          ((P[2] * Q[2] + P[1] * Q[1]) * FieldInverse((1 - t) % p, p)) % p>>

(* The coordinates of the multiples 0, 1, .. q of the generator g. *)
WeierstrassTable(g, a, p, q) ==
    FoldLeft(LAMBDA table, n : Append(table, WeierstrassAdd(Last(table), g, a, p)),
             <<Infinity>>, [n \in 1..q |-> n])

EdwardsTable(g, d, p, q) ==
    FoldLeft(LAMBDA table, n : Append(table, EdwardsAdd(Last(table), g, d, p)),
             <<(<<0, 1>>)>>, [n \in 1..q |-> n])
=============================================================================
