-------------------------- MODULE MCSecretSharing ---------------------------
(* Small instance of SecretSharing and of the key sets on top of it. *)
EXTENDS KeySets

(* 7 and 2 are the same point modulo 5. *)
MCIndexes == {1, 2, 3, 7}

MCHash(inputs) == 1
=============================================================================
