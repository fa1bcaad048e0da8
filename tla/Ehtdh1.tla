------------------------------- MODULE Ehtdh1 -------------------------------
(***************************************************************************)
(* The functions of golden-ehtdh1: turning two DKG runs into key material  *)
(* (dkg_bridge.rs, context.rs), sealing (encrypt.rs), and partial          *)
(* decryption and combining (decrypt.rs).  They are pure; module           *)
(* ThresholdDecryption runs them in a system of validators.                *)
(*                                                                         *)
(* Hashing to the group or to a scalar returns a record of the hashed      *)
(* inputs and a value: arithmetic uses the value, and two hashes are equal *)
(* when their inputs are (no collisions).  So every proof equation is      *)
(* computed as the code computes it, and no wrong proof passes by the      *)
(* accident of a small group.                                              *)
(***************************************************************************)
EXTENDS Shamir, Functions

CONSTANTS
    HashToGroup(_),     \* a non-identity element for every input
    HashToScalar(_)     \* a non-zero scalar for every input

Point(inputs)  == [inputs |-> inputs, value |-> HashToGroup(inputs)]
Scalar(inputs) == [inputs |-> inputs, value |-> HashToScalar(inputs)]

Fail(kind) == [kind |-> kind]

(***************************************************************************)
(* context.rs                                                              *)
(***************************************************************************)
(* Sessions are tuples, so that a derived session is never a drawn one. *)
DeriveContextSessionId(session) == <<"zero-sharing">> \o session

(* One Lagrange basis polynomial, for distinct points. *)
LagrangeAt(participant, participants, x) ==
    LET factor(j) == Mul(Sub(x, ToScalar(j)),
                         Invert(Sub(ToScalar(participant), ToScalar(j))))
    IN  FoldFunction(Mul, 1, [j \in participants \ {participant} |-> factor(j)])

InterpolatePublicKeyShare(basis, x, shares) ==
    FoldFunction(GAdd, Identity, [i \in basis |-> GMul(shares[i], LagrangeAt(i, basis, x))])

FirstParticipants(n, participants) ==
    {p \in participants : Cardinality({q \in participants : q < p}) < n}

(* Mutant: the shares outside the basis are not interpolated. *)
ValidatePublicShares_BasisOnly(threshold, key, shares) ==
    LET basis      == FirstParticipants(threshold, DOMAIN shares)
        decryption == [i \in DOMAIN shares |-> shares[i].decryption]
        context    == [i \in DOMAIN shares |-> shares[i].context]
    IN  /\ InterpolatePublicKeyShare(basis, 0, decryption) = key
        /\ InterpolatePublicKeyShare(basis, 0, context) = Identity

ValidatePublicShares(threshold, key, shares) ==
    LET basis      == FirstParticipants(threshold, DOMAIN shares)
        decryption == [i \in DOMAIN shares |-> shares[i].decryption]
        context    == [i \in DOMAIN shares |-> shares[i].context]
    IN  /\ InterpolatePublicKeyShare(basis, 0, decryption) = key
        /\ InterpolatePublicKeyShare(basis, 0, context) = Identity
        /\ \A p \in DOMAIN shares \ basis :
            /\ InterpolatePublicKeyShare(basis, ToScalar(p), decryption) = decryption[p]
            /\ InterpolatePublicKeyShare(basis, ToScalar(p), context) = context[p]

(* PublicKeySet::new. *)
NewPublicKeySet(threshold, key, shares) ==
    IF threshold = 0 \/ Cardinality(DOMAIN shares) < threshold
    THEN Fail("InvalidThreshold")
    ELSE IF key = Identity THEN Fail("InvalidJointPublicKey")
    ELSE IF ~ValidatePublicShares(threshold, key, shares) THEN Fail("InvalidPublicKeySet")
    ELSE [kind |-> "Ok",
          set |-> [threshold |-> threshold, joint_public_key |-> key, public_shares |-> shares]]

(***************************************************************************)
(* dkg_bridge.rs: configurations and outputs are those of the DKG.  The    *)
(* setup context's root binds every field, so it is the record itself.     *)
(***************************************************************************)
(* Mutant: the zero sharing's completion root is not bound. *)
SetupContext_NoContextRoot(decConfig, decOutput, ctxConfig, ctxOutput, epoch) ==
    [threshold |-> decConfig.threshold, registry_root |-> decConfig.registry,
     participants |-> DOMAIN decConfig.registry,
     decryption_session_id |-> decConfig.session, context_session_id |-> ctxConfig.session,
     decryption_transcript_root |-> decOutput.transcript_root, epoch |-> epoch]

SetupContext(decConfig, decOutput, ctxConfig, ctxOutput, epoch) ==
    [threshold |-> decConfig.threshold, registry_root |-> decConfig.registry,
     participants |-> DOMAIN decConfig.registry,
     decryption_session_id |-> decConfig.session, context_session_id |-> ctxConfig.session,
     decryption_transcript_root |-> decOutput.transcript_root,
     context_transcript_root |-> ctxOutput.transcript_root, epoch |-> epoch]

MaterialFromDkgOutputs(decConfig, decOutput, ctxConfig, ctxOutput, epoch) ==
    LET participants == DOMAIN decConfig.registry
        dec == decOutput.public_key_shares
        ctx == ctxOutput.public_key_shares
        keys == NewPublicKeySet(decConfig.threshold, decOutput.public_key,
                    [p \in participants |-> [decryption |-> dec[p], context |-> ctx[p]]])
    IN  IF decConfig.threshold # ctxConfig.threshold THEN Fail("threshold mismatch")
        ELSE IF decConfig.registry # ctxConfig.registry THEN Fail("registry root mismatch")
        ELSE IF ctxConfig.session # DeriveContextSessionId(decConfig.session)
             THEN Fail("context session mismatch")
        ELSE IF decOutput.secret_share.participant # ctxOutput.secret_share.participant
             THEN Fail("local participant mismatch")
        ELSE IF DOMAIN dec # DOMAIN ctx THEN Fail("public share participant mismatch")
        ELSE IF ctxOutput.public_key # Identity
             THEN Fail("zero-sharing public key is not identity")
        ELSE IF decOutput.public_key = Identity
             THEN Fail("decryption public key is identity")
        ELSE IF ~(participants \subseteq DOMAIN dec)
             THEN Fail("missing decryption public share")
        ELSE IF keys.kind # "Ok" THEN keys
        ELSE [kind |-> "Ok",
              public_key_set |-> keys.set,
              secret_share |-> [participant |-> decOutput.secret_share.participant,
                                decryption |-> decOutput.secret_share.value,
                                context |-> ctxOutput.secret_share.value],
              setup_context |->
                SetupContext(decConfig, decOutput, ctxConfig, ctxOutput, epoch)]

(***************************************************************************)
(* encrypt.rs.  A payload is the plaintext and the set of key streams      *)
(* applied to it: applying one twice removes it.                           *)
(***************************************************************************)
ApplyPayloadMask(payload, ephemeralPublic, dhPoint) ==
    LET mask == <<ephemeralPublic, dhPoint>>
    IN  [payload EXCEPT !.masks = IF mask \in @ THEN @ \ {mask} ELSE @ \cup {mask}]

(* Mutant: the associated data is not hashed. *)
EncryptionGroup_NoAssociatedData(R, R_prime, ad, payload) ==
    Point([tag |-> "hegd", R |-> R, R_prime |-> R_prime, ad |-> 0, ciphertext |-> payload])

EncryptionGroup(R, R_prime, ad, payload) ==
    Point([tag |-> "hegd", R |-> R, R_prime |-> R_prime, ad |-> ad, ciphertext |-> payload])

EncryptionChallenge(Y, V, V_prime) ==
    Scalar([tag |-> "hecd", Y |-> Y, V |-> V, V_prime |-> V_prime])

(* seal_bytes_with_associated_data, for the randomness r, r_prime. *)
SealBytes(jointPublicKey, plaintext, ad, r, r_prime) ==
    LET R == MulGenerator(r)
        payload == ApplyPayloadMask([plain |-> plaintext, masks |-> {}],
                                    R, GMul(jointPublicKey, r))
        Y == EncryptionGroup(R, MulGenerator(r_prime), ad, payload)
        V == GMul(Y.value, r)
        challenge == EncryptionChallenge(Y, V, GMul(Y.value, r_prime))
    IN  [associated_data |-> ad, encrypted_payload |-> payload, ephemeral_public |-> R,
         encryption_point |-> V, challenge |-> challenge,
         response |-> Add(r_prime, Mul(r, challenge.value))]

VerifyCiphertext(ct) ==
    LET e == ct.challenge.value
        R_prime == GSub(MulGenerator(ct.response), GMul(ct.ephemeral_public, e))
        Y == EncryptionGroup(ct.ephemeral_public, R_prime, ct.associated_data,
                             ct.encrypted_payload)
        V_prime == GSub(GMul(Y.value, ct.response), GMul(ct.encryption_point, e))
    IN  /\ ct.ephemeral_public # Identity
        /\ ct.encryption_point # Identity
        /\ EncryptionChallenge(Y, ct.encryption_point, V_prime) = ct.challenge

(***************************************************************************)
(* decrypt.rs: partial decryption.                                         *)
(***************************************************************************)
(* Mutant: the decryption context is left out of the hash. *)
DecryptionGroup_NoContext(setup, ct, dc) ==
    Point([tag |-> "hdgd", setup |-> setup, dc |-> 0, ctxt |-> ct])

DecryptionGroup(setup, ct, dc) ==
    Point([tag |-> "hdgd", setup |-> setup, dc |-> dc, ctxt |-> ct])

ShareChallenge(setup, S, X_i, Z_i, W_i, X_prime, Z_prime, W_prime) ==
    Scalar([tag |-> "hdcd", setup |-> setup, S |-> S, X_i |-> X_i, Z_i |-> Z_i, W_i |-> W_i,
            X_prime |-> X_prime, Z_prime |-> Z_prime, W_prime |-> W_prime])

(* decrypt_share_with_associated_data, for the nonces x_prime, z_prime. *)
DecryptShareWithAssociatedData(share, setup, ct, dc, expectedAd, x_prime, z_prime) ==
    LET S == DecryptionGroup(setup, ct, dc)
        inR(x, z) == GAdd(GMul(ct.ephemeral_public, x), GMul(S.value, z))
        W == inR(share.decryption, share.context)
        e == ShareChallenge(setup, S, MulGenerator(share.decryption),
                            MulGenerator(share.context), W, MulGenerator(x_prime),
                            MulGenerator(z_prime), inR(x_prime, z_prime))
    IN  IF ct.associated_data # expectedAd THEN Fail("AssociatedDataMismatch")
        ELSE IF ~VerifyCiphertext(ct) THEN Fail("InvalidCiphertextProof")
        ELSE [kind |-> "Ok",
              share |-> [participant |-> share.participant, share |-> W, challenge |-> e,
                         decryption_response |-> Add(x_prime, Mul(e.value, share.decryption)),
                         context_response |-> Add(z_prime, Mul(e.value, share.context))]]

VerifyDecryptionShare(setup, S, ct, s, public) ==
    LET e == s.challenge.value
        X_prime == GSub(MulGenerator(s.decryption_response), GMul(public.decryption, e))
        Z_prime == GSub(MulGenerator(s.context_response), GMul(public.context, e))
        W_prime == GSub(GAdd(GMul(ct.ephemeral_public, s.decryption_response),
                             GMul(S.value, s.context_response)),
                        GMul(s.share, e))
    IN  ShareChallenge(setup, S, public.decryption, public.context, s.share,
                       X_prime, Z_prime, W_prime) = s.challenge

(***************************************************************************)
(* decrypt.rs: the combiner, a record [public_key_set, setup_context].     *)
(***************************************************************************)
NewCombiner(keys, setup) ==
    IF setup.threshold # keys.threshold THEN Fail("setup threshold mismatch")
    ELSE IF setup.participants # DOMAIN keys.public_shares
         THEN Fail("setup participant mismatch")
    ELSE IF setup.context_session_id # DeriveContextSessionId(setup.decryption_session_id)
         THEN Fail("setup context session mismatch")
    ELSE [kind |-> "Ok",
          combiner |-> [public_key_set |-> keys, setup_context |-> setup]]

ShareIsValid(combiner, ct, dc, s) ==
    LET public == combiner.public_key_set.public_shares
    IN  /\ s.participant \in DOMAIN public
        /\ VerifyDecryptionShare(combiner.setup_context,
                                 DecryptionGroup(combiner.setup_context, ct, dc),
                                 ct, s, public[s.participant])

CombineVerified(ct, shares) ==
    LET lambdas == LagrangeCoefficientsAtZero(
                       [i \in DOMAIN shares |-> ToScalar(shares[i].participant)])
        U == FoldFunction(GAdd, Identity,
                 [i \in DOMAIN lambdas |-> GMul(shares[i].share, lambdas[i])])
    IN  IF lambdas = << >> THEN Fail("InvalidThreshold")
        ELSE [kind |-> "Ok",
              plaintext |-> ApplyPayloadMask(ct.encrypted_payload, ct.ephemeral_public, U)]

(* The shares at the positions in taken are kept, in input order. *)
Sorted(shares, taken) ==
    LET kept == InOrder(taken)
        rest == InOrder(DOMAIN shares \ taken)
    IN  [valid |-> [k \in DOMAIN kept |-> shares[kept[k]]],
         malformed |-> [k \in DOMAIN rest |-> shares[rest[k]].participant]]

(* Mutant: a participant is settled by its first share, valid or not. *)
VerifyShares_FirstOnly(combiner, ct, dc, shares) ==
    Sorted(shares, {i \in DOMAIN shares :
        /\ ShareIsValid(combiner, ct, dc, shares[i])
        /\ \A j \in 1..(i - 1) : shares[j].participant # shares[i].participant})

(* verify_shares: the first valid share of each participant. *)
VerifyShares(combiner, ct, dc, shares) ==
    Sorted(shares, {i \in DOMAIN shares :
        /\ ShareIsValid(combiner, ct, dc, shares[i])
        /\ \A j \in 1..(i - 1) : ShareIsValid(combiner, ct, dc, shares[j])
                => shares[j].participant # shares[i].participant})

Insufficient(required, provided) ==
    [kind |-> "InsufficientShares", required |-> required, provided |-> provided]

Malformed(participants) == [kind |-> "MalformedShares", participants |-> participants]

CombineQuorum(combiner, ct, dc, shares) ==
    LET threshold == combiner.public_key_set.threshold
        checked   == VerifyShares(combiner, ct, dc, shares)
    IN  IF ~VerifyCiphertext(ct) THEN Fail("InvalidCiphertextProof")
        ELSE IF Len(checked.valid) < threshold
             THEN IF checked.malformed # << >> THEN Malformed(checked.malformed)
                  ELSE Insufficient(threshold, Len(checked.valid))
        ELSE CombineVerified(ct, SubSeq(checked.valid, 1, threshold))

CombineSelected(combiner, ct, dc, shares) ==
    LET public   == combiner.public_key_set.public_shares
        unknown  == {i \in DOMAIN shares : shares[i].participant \notin DOMAIN public}
        repeated(i) == \E j \in 1..(i - 1) : shares[j].participant = shares[i].participant
        bad      == InOrder({i \in DOMAIN shares :
                        repeated(i) \/ ~ShareIsValid(combiner, ct, dc, shares[i])})
    IN  IF ~VerifyCiphertext(ct) THEN Fail("InvalidCiphertextProof")
        ELSE IF unknown # {} THEN Fail("UnknownParticipant")
        ELSE IF bad # << >>
             THEN Malformed([i \in DOMAIN bad |-> shares[bad[i]].participant])
        ELSE CombineVerified(ct, shares)

CombineExact(combiner, ct, dc, shares) ==
    LET threshold == combiner.public_key_set.threshold
    IN  IF Len(shares) # threshold THEN Insufficient(threshold, Len(shares))
        ELSE CombineSelected(combiner, ct, dc, shares)

(* The ..._with_associated_data variants of both. *)
WithAssociatedData(ct, expectedAd, result) ==
    IF ct.associated_data # expectedAd THEN Fail("AssociatedDataMismatch") ELSE result
=============================================================================
