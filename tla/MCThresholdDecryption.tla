----------------------- MODULE MCThresholdDecryption ------------------------
(* Small instances of ThresholdDecryption: the group of order 5 generated by 2. *)
EXTENDS ThresholdDecryption

(* The value of a hash varies with what the properties tell apart. *)
MCHashToGroup(inputs) ==
    1 + ((IF inputs.tag = "hdgd" THEN inputs.dc + inputs.setup.epoch ELSE inputs.R) % (P - 1))

MCHashToScalar(inputs) ==
    1 + ((IF inputs.tag = "hecd" THEN inputs.V ELSE inputs.X_i + inputs.S.value) % (P - 1))

MCRegistry == [v \in {1, 2, 3} |-> v]

MCRun(session, root, polynomial) ==
    [session |-> session, threshold |-> Len(polynomial), registry |-> MCRegistry,
     root |-> root, polynomial |-> polynomial]

Key == MCRun(<<"s">>, "key", <<1, 2>>)
Zero == MCRun(<<"zero-sharing", "s">>, "zero", <<0, 3>>)

OneSetup == {Key, Zero}

(* A second zero sharing of the key's session, and runs that do not fit: a *)
(* key of another session, a key that is the identity, a zero sharing of    *)
(* something else, another threshold and another registry.                  *)
SeveralRuns ==
    OneSetup \cup {MCRun(<<"zero-sharing", "s">>, "zero again", <<0, 1>>),
                   MCRun(<<"t">>, "other key", <<3, 1>>),
                   MCRun(<<"s">>, "identity key", <<0, 2>>),
                   MCRun(<<"zero-sharing", "s">>, "not zero", <<2, 3>>),
                   MCRun(<<"zero-sharing", "s">>, "higher threshold", <<0, 1, 1>>),
                   [Zero EXCEPT !.registry = [v \in {1, 2} |-> v], !.root = "fewer"]}

OneSealNonce == {<<1, 2>>}
OneShareNonce == {<<2, 3>>}

(* Shares for two contexts go astray, one of them corrupted. *)
ManyShares ==
    [runs |-> OneSetup, epochs |-> {0}, plaintexts |-> {"m"}, associated_data |-> {0},
     contexts |-> {0, 1}, cipher_tampers |-> {}, share_tampers |-> ShareTamperKinds,
     max_sealed |-> 1, max_issued |-> 2, max_inbox |-> 3, max_corrupted |-> 1]

(* Shares of two epochs and two contexts go astray. *)
ManyEpochs ==
    [ManyShares EXCEPT !.epochs = {0, 1}, !.share_tampers = {}, !.max_corrupted = 0]

(* Ciphertexts change, and validators pair DKG runs in every way. *)
ManyCiphertexts ==
    [runs |-> SeveralRuns, epochs |-> {0}, plaintexts |-> {"m", "n"}, associated_data |-> {0, 1},
     contexts |-> {0}, cipher_tampers |-> CipherTamperKinds, share_tampers |-> {},
     max_sealed |-> 1, max_issued |-> 2, max_inbox |-> 2, max_corrupted |-> 0]

(* Nothing goes wrong. *)
Faultless ==
    [runs |-> OneSetup, epochs |-> {0}, plaintexts |-> {"m"}, associated_data |-> {0},
     contexts |-> {0}, cipher_tampers |-> {}, share_tampers |-> {},
     max_sealed |-> 1, max_issued |-> 3, max_inbox |-> 3, max_corrupted |-> 0]

FaultyDeployments == {ManyShares, ManyEpochs, ManyCiphertexts}
FaultlessDeployment == {Faultless}
=============================================================================
