------------------------------ MODULE SigmaProofs ---------------------------
(***************************************************************************)
(* The Schnorr-style proofs beside the circuits, on the proof stream's     *)
(* transcript.                                                             *)
(*                                                                         *)
(* A response nonce + challenge * secret is the record of its secret and   *)
(* of the transcript the challenge was drawn from: another transcript      *)
(* gives another challenge, and the equation of a verifier then holds only *)
(* if the challenge is multiplied by zero on both sides.                   *)
(***************************************************************************)
EXTENDS Integers

Response(transcript, secret) == [transcript |-> transcript, secret |-> secret]

(* g * z = nonce * g + challenge * point, for a base of order q. *)
Equation(response, transcript, base, point, q) ==
    /\ (response.secret * base) % q = point
    /\ response.transcript = transcript \/ point = 0

(* Chaum-Pedersen: one secret is the logarithm of pk1 and of s to pk2. *)
ChaumPedersenProve(transcript, sk1) == Response(transcript, sk1)

ChaumPedersenVerify(response, transcript, pk1, pk2, s, q) ==
    /\ Equation(response, transcript, 1, pk1, q)
    /\ Equation(response, transcript, pk2, s, q)

(* Knowledge of the constant coefficient of the dealer's polynomial. *)
ConstantTermProve(transcript, polynomial_constant) == Response(transcript, polynomial_constant)

ConstantTermVerify(response, transcript, constant_commitment, q) ==
    Equation(response, transcript, 1, constant_commitment, q)

(* Knowledge of r with R = r * g_out. *)
DlogProve(transcript, r) == Response(transcript, r)

DlogVerify(response, transcript, r_point, p) == Equation(response, transcript, 1, r_point, p)

(* A commitment to value with blinding; R is committed with blinding 1. *)
Committed(value, blinding) == [value |-> value, blinding |-> blinding]

PedersenPrefixLink(r_point, v_r) == v_r = Committed(r_point, 1)
=============================================================================
