------------------------------- MODULE MCDkg --------------------------------
(* Small instances of Dkg: the group of order 5 generated by 2. *)
EXTENDS Dkg

MCSecret == <<1, 2, 4>>
PairSecret == <<1, 2>>
PairSendTwice == <<2, 2>>

MCRegistry(ps) == [p \in ps |-> MulGenerator(MCSecret[p])]

(* A pad that depends on every input of the hash. *)
MCPadHash(n, beta, key, dh) == (n + 2 * beta + 3 * key + dh) % P

MCConfig(s, ps, t, beta) ==
    [session |-> s, registry |-> MCRegistry(ps), threshold |-> t, beta |-> beta]

SendOnce == <<1, 1, 1>>
ThirdSendsTwice == <<1, 1, 2>>

OneConfig == {MCConfig("s1", {1, 2, 3}, 2, 1)}
PairConfig == {MCConfig("s1", {1, 2}, 2, 1)}

(* The same parties in two sessions with different registries. *)
TwoConfigs == {MCConfig("s1", {1, 2, 3}, 2, 1), MCConfig("s2", {1, 2}, 2, 1)}

(* And a session the first party runs alone, whose proofs are empty. *)
ThreeConfigs == TwoConfigs \cup {MCConfig("s3", {1}, 1, 1)}

AllTampers == TamperKinds
AllMisuses == MisuseKinds
=============================================================================
