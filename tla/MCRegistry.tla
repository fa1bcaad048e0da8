----------------------------- MODULE MCRegistry -----------------------------
(* Small instance of Registry and WireSession: the group of order 5        *)
(* generated by 2, and bytes of four bits.                                 *)
EXTENDS WireSession

MCProofNonce(secret) == 1 + (secret % (P - 1))

MCProofChallenge(key, noncePoint) == 1

MCHash(inputs) == 1

MCDeriveSession(session) == (session + 7) % Base

\* One backend id is a beginning of the other.
MCBackends == {<<1>>, <<1, 2>>}

MCPayload == <<2, 2>>
=============================================================================
