--------------------------- MODULE MCSharedParams ---------------------------
(* Small instances of SharedParams. *)
EXTENDS SharedParams

CONSTANTS t1, t2

MCCapacity == [s \in ValidShapes |-> IF s = "slow" THEN 4 ELSE 2]
=============================================================================
