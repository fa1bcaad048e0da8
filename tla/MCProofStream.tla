--------------------------- MODULE MCProofStream ----------------------------
(* Small instance of ProofStream. *)
EXTENDS ProofStream

MCProofId == <<1, 0>>

(* The scripts of a share-opening proof, of a batched proof with a nested    *)
(* one, and of a proof that ends with two nested ones.                      *)
MCScripts == {<<"observe", "point", "point", "challenge", "scalar", "scalar">>,
              <<"observe", "nested", "any_point", "challenge", "scalar">>,
              <<"point", "nested", "nested">>}

(* Payloads of different lengths of which the child absorbs the same, two   *)
(* that it tells apart, and one that it refuses.                           *)
MCPayloads == {<< >>, <<0>>, <<1, 0>>, <<1, 0, 1>>, <<0, 1, 1>>, <<1, 2>>}

(* The R1CS proof's version byte comes first and the scalars of the inner   *)
(* product come last; neither is absorbed.                                 *)
MCChildAbsorbs(payload) == SubSeq(payload, 2, Len(payload) - 1)
=============================================================================
