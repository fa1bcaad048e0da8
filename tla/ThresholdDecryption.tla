------------------------- MODULE ThresholdDecryption ------------------------
(***************************************************************************)
(* Validators that completed DKG runs, clients that seal to their key, and *)
(* a combiner that collects decryption shares over an unreliable           *)
(* transport.  Validators set up from whatever pair of runs they have,     *)
(* decrypt for whatever context they are asked for, and the combiner gets  *)
(* their shares in any order, repeated, corrupted, and mixed with shares   *)
(* for other ciphertexts, contexts and setups.                             *)
(***************************************************************************)
EXTENDS Ehtdh1

CONSTANTS
    Validators,     \* participant indexes
    SealNonces,     \* pairs <<r, r_prime>> drawn by clients
    ShareNonces,    \* pairs <<x_prime, z_prime>> drawn by validators
    Deployments     \* the situations explored, records with the fields below

CipherTamperKinds == {"associated_data", "payload", "ephemeral_public",
                      "encryption_point", "response"}
ShareTamperKinds == {"participant", "share", "challenge", "decryption_response",
                     "context_response"}

ASSUME DecryptionAssumption ==
    /\ IsFiniteSet(Validators) /\ Validators \subseteq Nat \ {0}
    /\ \A p, q \in Validators : ToScalar(p) = ToScalar(q) => p = q
    /\ SealNonces \subseteq Scalars \X Scalars /\ ShareNonces \subseteq Scalars \X Scalars
    /\ \A dep \in Deployments :
        /\ \A run \in dep.runs : /\ run.threshold \in Nat
                               /\ run.polynomial \in [1..run.threshold -> Scalars]
                               /\ DOMAIN run.registry \subseteq Validators
        \* Module IdealDkg promises one polynomial for each transcript root.
        /\ \A run, other \in dep.runs : run.root = other.root => run.polynomial = other.polynomial
        /\ dep.cipher_tampers \subseteq CipherTamperKinds
        /\ dep.share_tampers \subseteq ShareTamperKinds

VARIABLES
    deployment, \* which runs, data, faults and bounds this behaviour has
    material,   \* each validator's Ehtdh1Material, or NoMaterial
    sealed,     \* the ciphertexts made, with the plaintext and the key
    issued,     \* the decryption shares made, with what they were made for
    inbox,      \* the slice of shares the combiner collects
    result      \* the outcome of its call, with the arguments

vars == <<deployment, material, sealed, issued, inbox, result>>

Runs == deployment.runs                     \* DKG runs: [session, threshold, registry, root, polynomial]
Epochs == deployment.epochs                 \* epochs of the setup contexts
Plaintexts == deployment.plaintexts
AssociatedData == deployment.associated_data
Contexts == deployment.contexts             \* decryption contexts
CipherTampers == deployment.cipher_tampers  \* ways the transport corrupts ciphertexts
ShareTampers == deployment.share_tampers    \* ways it corrupts shares
MaxSealed == deployment.max_sealed          \* bound on the ciphertexts
MaxIssued == deployment.max_issued          \* bound on the decryption shares issued
MaxInbox == deployment.max_inbox            \* bound on the shares the combiner collects
MaxCorrupted == deployment.max_corrupted    \* bound on the corrupted ones among them

NoMaterial == Fail("None")
NoResult == [outcome |-> Fail("None")]

Init ==
    /\ deployment \in Deployments
    /\ material = [v \in Validators |-> NoMaterial]
    /\ sealed = {}
    /\ issued = {}
    /\ inbox = << >>
    /\ result = NoResult

Ready == {v \in Validators : material[v].kind = "Ok"}

(***************************************************************************)
(* Setup.  The output of a completed run, as the ideal DKG promises it.    *)
(***************************************************************************)
RunOutput(run, v) ==
    [public_key |-> MulGenerator(run.polynomial[1]),
     secret_share |-> [participant |-> v, value |-> Evaluate(run.polynomial, v)],
     public_key_shares |-> [p \in DOMAIN run.registry |->
                              MulGenerator(Evaluate(run.polynomial, p))],
     transcript_root |-> run.root]

SetUp(v) ==
    /\ material[v] = NoMaterial
    /\ \E dec, ctx \in {run \in Runs : v \in DOMAIN run.registry}, epoch \in Epochs :
        LET made == MaterialFromDkgOutputs(dec, RunOutput(dec, v), ctx, RunOutput(ctx, v), epoch)
        IN  /\ made.kind = "Ok"
            /\ material' = [material EXCEPT ![v] = made]
    /\ UNCHANGED <<deployment, sealed, issued, inbox, result>>

(***************************************************************************)
(* Sealing, and ciphertexts as validators and the combiner see them.       *)
(***************************************************************************)
Seal ==
    /\ Cardinality(sealed) < MaxSealed
    /\ \E v \in Ready, m \in Plaintexts, ad \in AssociatedData, n \in SealNonces :
        LET key == material[v].public_key_set.joint_public_key
        IN  sealed' = sealed \cup {[ct |-> SealBytes(key, m, ad, n[1], n[2]),
                                    plaintext |-> m, key |-> key]}
    /\ UNCHANGED <<deployment, material, issued, inbox, result>>

CipherTamper(kind, ct) ==
    CASE kind = "associated_data" -> {[ct EXCEPT !.associated_data = ad] : ad \in AssociatedData}
      [] kind = "payload" -> {[ct EXCEPT !.encrypted_payload.plain = m] : m \in Plaintexts}
      [] kind = "ephemeral_public" -> {[ct EXCEPT !.ephemeral_public = GAdd(@, Gen)]}
      [] kind = "encryption_point" -> {[ct EXCEPT !.encryption_point = GAdd(@, Gen)]}
      [] kind = "response" -> {[ct EXCEPT !.response = Add(@, 1)]}

Ciphertexts ==
    LET made == {s.ct : s \in sealed}
    IN  made \cup UNION {CipherTamper(kind, ct) : kind \in CipherTampers, ct \in made}

(***************************************************************************)
(* Decryption shares.                                                      *)
(***************************************************************************)
DecryptShare(v) ==
    /\ v \in Ready
    /\ result = NoResult
    /\ Cardinality(issued) < MaxIssued
    /\ \E ct \in Ciphertexts, dc \in Contexts, ad \in AssociatedData, n \in ShareNonces :
        LET made == DecryptShareWithAssociatedData(material[v].secret_share,
                        material[v].setup_context, ct, dc, ad, n[1], n[2])
        IN  /\ made.kind = "Ok"
            /\ issued' = issued \cup {[share |-> made.share, validator |-> v, ct |-> ct, dc |-> dc,
                                       setup |-> material[v].setup_context]}
    /\ UNCHANGED <<deployment, material, sealed, inbox, result>>

ShareTamper(kind, s) ==
    CASE kind = "participant" -> {[s EXCEPT !.participant = @ + 1]}
      [] kind = "share" -> {[s EXCEPT !.share = GAdd(@, Gen)]}
      [] kind = "challenge" -> {[s EXCEPT !.challenge = i.share.challenge] : i \in issued}
      [] kind = "decryption_response" -> {[s EXCEPT !.decryption_response = Add(@, 1)]}
      [] kind = "context_response" -> {[s EXCEPT !.context_response = Add(@, 1)]}

Arrive ==
    /\ result = NoResult
    /\ Len(inbox) < MaxInbox
    /\ \E i \in issued :
        \E s \in {i.share} \cup UNION {ShareTamper(kind, i.share) : kind \in ShareTampers} :
            inbox' = Append(inbox, s)
    /\ Cardinality({k \in DOMAIN inbox' : inbox'[k] \notin {i.share : i \in issued}})
         <= MaxCorrupted
    /\ UNCHANGED <<deployment, material, sealed, issued, result>>

(***************************************************************************)
(* Combining, with the key set and setup context of some validator.        *)
(***************************************************************************)
Combine(v, call, Combined(_, _, _, _)) ==
    /\ v \in Ready
    /\ result = NoResult
    /\ \E ct \in Ciphertexts, dc \in Contexts, ad \in AssociatedData :
        LET made == NewCombiner(material[v].public_key_set, material[v].setup_context)
        IN  result' = [outcome |-> IF made.kind # "Ok" THEN made
                                   ELSE WithAssociatedData(ct, ad,
                                            Combined(made.combiner, ct, dc, inbox)),
                       call |-> call, combiner |-> v, ct |-> ct, dc |-> dc, ad |-> ad]
    /\ UNCHANGED <<deployment, material, sealed, issued, inbox>>

CallCombineQuorum(v) == Combine(v, "quorum", CombineQuorum)

CallCombineExact(v) == Combine(v, "exact", CombineExact)

Next ==
    \/ Seal
    \/ Arrive
    \/ \E v \in Validators :
        SetUp(v) \/ DecryptShare(v) \/ CallCombineQuorum(v) \/ CallCombineExact(v)

Spec == Init /\ [][Next]_vars

-----------------------------------------------------------------------------
(***************************************************************************)
(* Properties.                                                             *)
(***************************************************************************)
Opened == result # NoResult /\ result.outcome.kind = "Ok"

(* What opens is a ciphertext some client made, not one the transport      *)
(* changed, and when it was sealed to the combiner's key the plaintext is  *)
(* what the client sealed under the associated data the caller expects.    *)
OpensWhatWasSealed ==
    Opened =>
        /\ result.ct \in {s.ct : s \in sealed}
        /\ \A s \in sealed :
            (s.ct = result.ct /\ s.key = material[result.combiner].public_key_set.joint_public_key)
                => /\ result.outcome.plaintext = [plain |-> s.plaintext, masks |-> {}]
                   /\ s.ct.associated_data = result.ad

(* Validators who issued a share for exactly what the combiner opens. *)
Approvers ==
    {i.validator : i \in {i \in issued :
        /\ i.ct = result.ct /\ i.dc = result.dc
        /\ i.setup = material[result.combiner].setup_context}}

(* No plaintext opens unless a threshold of validators decrypted this      *)
(* ciphertext, in this decryption context, under the combiner's setup:     *)
(* shares for other contexts, epochs, runs or ciphertexts do not add up.   *)
ThresholdApproved ==
    Opened => Cardinality(Approvers) >= material[result.combiner].public_key_set.threshold

(* The intact shares for the combiner's question that reached it. *)
GoodSenders ==
    {i.validator : i \in {i \in issued :
        /\ i.ct = result.ct /\ i.dc = result.dc
        /\ i.setup = material[result.combiner].setup_context
        /\ i.share \in ToSet(inbox)}}

(* combine_quorum opens whenever a threshold of good shares is somewhere   *)
(* in the list, whatever else is in it and in whatever order: a bad, stale *)
(* or repeated share, even from the same participant, blocks nobody.       *)
QuorumNotBlocked ==
    (/\ result # NoResult /\ result.call = "quorum"
     /\ result.ad = result.ct.associated_data /\ VerifyCiphertext(result.ct)
     /\ Cardinality(GoodSenders) >= material[result.combiner].public_key_set.threshold)
        => Opened

(* Validators with the same setup context hold shares of one key and one   *)
(* zero sharing: any threshold of them reconstructs the secret of the      *)
(* joint key, and zero.                                                    *)
SetupsAgree ==
    \A Q \in SUBSET Ready :
        (Q # {} /\ \A v, w \in Q :
            /\ material[v].setup_context = material[w].setup_context
            /\ Cardinality(Q) = material[v].public_key_set.threshold)
        => LET members == InOrder(Q)
               recovered(field) == ReconstructSecret(
                   [i \in DOMAIN members |->
                       [participant |-> members[i],
                        value |-> material[members[i]].secret_share[field]]], Len(members))
           IN  /\ recovered("context") = [kind |-> "Ok", value |-> 0]
               /\ {material[v].public_key_set.joint_public_key : v \in Q}
                    = {MulGenerator(recovered("decryption").value)}

(* CombineError::InsufficientShares is documented as "Not enough valid     *)
(* shares were provided": the caller has to collect more of them.          *)
InsufficientMeansTooFew ==
    (result # NoResult /\ result.outcome.kind = "InsufficientShares")
        => result.outcome.provided < result.outcome.required
=============================================================================
