---------------------------- MODULE DkgMessages -----------------------------
(***************************************************************************)
(* The functions of golden-core's dkg.rs: building a dealing, verifying    *)
(* one, verifying several, decrypting a share and completing the DKG.      *)
(* They are pure; module Dkg runs them in a system of participants.        *)
(*                                                                         *)
(* Transcript roots are SHA-256 over length-prefixed, labelled fields; a   *)
(* root is modelled as the record of the fields it hashes, so two roots    *)
(* are equal exactly when the hashed fields are.  The backend id and the   *)
(* protocol version are the same everywhere and are left out.              *)
(*                                                                         *)
(* A configuration (DkgConfig) is a record [session, registry, threshold,  *)
(* beta]; the registry maps participant indexes to identity public keys.   *)
(***************************************************************************)
EXTENDS Shamir, Functions

CONSTANTS
    Nonces,             \* dealer message nonces (msg_i)
    Betas,              \* public eVRF tweaks (beta)
    PadHash(_, _, _, _),\* the pad as a function of msg_i, beta, the receiver's
                        \* key and the Diffie-Hellman secret
    BindsPad            \* TRUE: the backend proves pads (paper eVRF circuit)
                        \* FALSE: it proves openings only (ShareOpeningBackend)

ASSUME PadHashAssumption ==
    \A n \in Nonces, b \in Betas, k, s \in Scalars : PadHash(n, b, k, s) \in Scalars

ASSUME BindsPadAssumption == BindsPad \in BOOLEAN

(***************************************************************************)
(* Results: "Ok" or the name of an error variant, with the participant the *)
(* variant carries (0 when it carries none).                               *)
(***************************************************************************)
Result(kind, who) == [kind |-> kind, who |-> who]
Ok == Result("Ok", 0)
Err(kind) == Result(kind, 0)

(***************************************************************************)
(* Transcript roots.                                                       *)
(***************************************************************************)
RegistryRoot(registry) == registry

DealingRoot(m) ==
    [session |-> m.session, registry_root |-> m.registry_root, dealer |-> m.dealer,
     msg_i |-> m.msg_i, commitment |-> m.commitment,
     encrypted_shares |-> m.encrypted_shares]

(* Mutant: the loop absorbs the first dealing's root every time. *)
CompletionRoot_SameRoot(dealings) ==
    [d \in DOMAIN dealings |-> dealings[Min(DOMAIN dealings)].transcript_root]

CompletionRoot(dealings) == [d \in DOMAIN dealings |-> dealings[d].transcript_root]

(***************************************************************************)
(* Pads.  The dealer's peer is the receiver and the receiver's peer is the *)
(* dealer; both hash the receiver's key.                                   *)
(***************************************************************************)
DerivePad(msg_i, beta, identitySecret, peerKey, receiverKey) ==
    PadHash(msg_i, beta, receiverKey, GMul(peerKey, identitySecret))

DealerPad(config, receiver, secret, msg_i) ==
    DerivePad(msg_i, config.beta, secret, config.registry[receiver],
              config.registry[receiver])

(* Mutant: the receiver hashes its peer's key, mirroring the dealer's call. *)
ReceiverPad_HashesPeerKey(config, dealer, receiver, secret, msg_i) ==
    DerivePad(msg_i, config.beta, secret, config.registry[dealer],
              config.registry[dealer])

ReceiverPad(config, dealer, receiver, secret, msg_i) ==
    DerivePad(msg_i, config.beta, secret, config.registry[dealer],
              config.registry[receiver])

(***************************************************************************)
(* eVRF statements and the proof backend.                                  *)
(***************************************************************************)
PublicShareReceivers(config, dealer) == DOMAIN config.registry \ {dealer}

StatementForReceiver(config, m, receiver, shareCommitment) ==
    [session |-> config.session, registry_root |-> RegistryRoot(config.registry),
     threshold |-> config.threshold, dealer |-> m.dealer, receiver |-> receiver,
     msg_i |-> m.msg_i, beta |-> config.beta,
     dealer_public_key |-> config.registry[m.dealer],
     receiver_public_key |-> config.registry[receiver],
     commitment |-> m.commitment, share_commitment |-> shareCommitment,
     pad_commitment |-> m.encrypted_shares[receiver].pad_commitment,
     encrypted_share |-> m.encrypted_shares[receiver].encrypted_share,
     transcript_root |-> m.transcript_root]

(* Mutant: the circuit leaves the pad unconstrained. *)
StatementHolds_PadUnbound(st) ==
    /\ Len(st.commitment) = st.threshold
    /\ st.share_commitment = PublicKeyShare(st.commitment, st.receiver)
    /\ MulGenerator(st.encrypted_share) = GAdd(st.share_commitment, st.pad_commitment)

(* What a proof attests to for one receiver: the share lies on the committed *)
(* polynomial, it is what was encrypted, and (paper backend) the pad is the  *)
(* eVRF output of the dealer's registered key.                               *)
StatementHolds(st) ==
    /\ Len(st.commitment) = st.threshold
    /\ st.share_commitment = PublicKeyShare(st.commitment, st.receiver)
    /\ MulGenerator(st.encrypted_share) = GAdd(st.share_commitment, st.pad_commitment)
    /\ BindsPad =>
        \E sk \in Scalars :
            /\ MulGenerator(sk) = st.dealer_public_key
            /\ st.pad_commitment =
                 MulGenerator(DerivePad(st.msg_i, st.beta, sk,
                                        st.receiver_public_key, st.receiver_public_key))

(* A proof is what it proves: the statements, by receiver.  The empty proof  *)
(* is the function with an empty domain.                                     *)
ProveBatch(statements) == statements

(* Mutant: the relations are checked, but not against the proof's transcript. *)
VerifyBatch_AnyTranscript(statements, proof) ==
    \A r \in DOMAIN statements : StatementHolds(statements[r])

VerifyBatch(statements, proof) ==
    /\ proof = statements
    /\ \A r \in DOMAIN statements : StatementHolds(statements[r])

(* The trait's default for several proofs; backends may fold them into one check. *)
VerifyProofBatch(statements, proofs) ==
    \A d \in DOMAIN statements : VerifyBatch(statements[d], proofs[d])

(***************************************************************************)
(* create_dealing_with_secret, once its randomness is drawn.               *)
(***************************************************************************)
EncryptShare(share, pad) ==
    [pad_commitment |-> MulGenerator(pad), encrypted_share |-> Add(share, pad)]

(* The dealer's root and proof over the fields it has chosen. *)
SealMessage(config, dealer, msg_i, commitment, encryptedShares, shareCommitments) ==
    LET fields == [session |-> config.session,
                   registry_root |-> RegistryRoot(config.registry),
                   dealer |-> dealer, msg_i |-> msg_i, commitment |-> commitment,
                   encrypted_shares |-> encryptedShares,
                   proof |-> << >>, transcript_root |-> << >>]
        rooted == [fields EXCEPT !.transcript_root = DealingRoot(fields)]
        statements == [r \in PublicShareReceivers(config, dealer) |->
                         StatementForReceiver(config, rooted, r, shareCommitments[r])]
    IN  [rooted EXCEPT !.proof = ProveBatch(statements)]

MakeDealing(config, dealer, secret, polynomial, msg_i) ==
    LET receivers == PublicShareReceivers(config, dealer)
        share == [r \in DOMAIN config.registry |-> Evaluate(polynomial, r)]
        encrypted == [r \in receivers |->
                        EncryptShare(share[r], DealerPad(config, r, secret, msg_i))]
    IN  [message |-> SealMessage(config, dealer, msg_i, Commit(polynomial), encrypted,
                                 [r \in receivers |-> MulGenerator(share[r])]),
         private_share |-> [participant |-> dealer, value |-> share[dealer]]]

(***************************************************************************)
(* Verifying one dealing.                                                  *)
(***************************************************************************)
UnexpectedShares(m, config) ==
    {r \in DOMAIN m.encrypted_shares : r = m.dealer \/ r \notin DOMAIN config.registry}

MissingShares(m, config) ==
    PublicShareReceivers(config, m.dealer) \ DOMAIN m.encrypted_shares

(* The checks dealing_statements makes before it builds the statements, in order. *)
CheckDealing(m, config) ==
    IF m.session # config.session THEN Err("SessionMismatch")
    ELSE IF m.registry_root # RegistryRoot(config.registry) THEN Err("RegistryMismatch")
    ELSE IF m.dealer \notin DOMAIN config.registry THEN Result("UnknownParticipant", m.dealer)
    ELSE IF Len(m.commitment) # config.threshold THEN Err("InvalidCommitmentDegree")
    ELSE IF m.transcript_root # DealingRoot(m) THEN Err("ProofVerificationFailed")
    ELSE IF UnexpectedShares(m, config) # {}
         THEN Result("UnexpectedShare", Min(UnexpectedShares(m, config)))
    ELSE IF MissingShares(m, config) # {}
         THEN Result("MissingShare", Min(MissingShares(m, config)))
    ELSE Ok

DealingStatements(m, config) ==
    [r \in PublicShareReceivers(config, m.dealer) |->
        StatementForReceiver(config, m, r,
            GSub(MulGenerator(m.encrypted_shares[r].encrypted_share),
                 m.encrypted_shares[r].pad_commitment))]

VerifyDealing(m, config) ==
    LET statements == DealingStatements(m, config)
    IN  IF CheckDealing(m, config) # Ok THEN CheckDealing(m, config)
        ELSE IF \/ DOMAIN statements = {} /\ m.proof = << >>
                \/ DOMAIN statements # {} /\ VerifyBatch(statements, m.proof)
             THEN Ok
             ELSE Err("ProofVerificationFailed")

(***************************************************************************)
(* verify_dealings, on the messages of the registered dealers.             *)
(***************************************************************************)
(* Mutant: a failed batch blames the first dealer without checking who failed. *)
VerifyDealings_BlamesFirst(messages, config) ==
    LET rejected == {d \in DOMAIN messages : CheckDealing(messages[d], config) # Ok}
    IN  IF DOMAIN messages = {} THEN Err("ProofVerificationFailed")
        ELSE IF rejected # {} THEN CheckDealing(messages[Min(rejected)], config)
        ELSE IF \A d \in DOMAIN messages : VerifyDealing(messages[d], config) = Ok THEN Ok
        ELSE Result("DealerProofVerificationFailed", Min(DOMAIN messages))

VerifyDealings(messages, config) ==
    LET rejected   == {d \in DOMAIN messages : CheckDealing(messages[d], config) # Ok}
        statements == [d \in DOMAIN messages |-> DealingStatements(messages[d], config)]
        proofs     == [d \in DOMAIN messages |-> messages[d].proof]
        nonEmpty   == {d \in DOMAIN messages : proofs[d] # << >>}
        failing    == {d \in DOMAIN messages : ~VerifyBatch(statements[d], proofs[d])}
    IN  IF DOMAIN messages = {} THEN Err("ProofVerificationFailed")
        ELSE IF rejected # {} THEN CheckDealing(messages[Min(rejected)], config)
        ELSE IF \A d \in DOMAIN messages : DOMAIN statements[d] = {}
             THEN IF nonEmpty = {} THEN Ok
                  ELSE Result("DealerProofVerificationFailed", Min(nonEmpty))
        ELSE IF VerifyProofBatch(statements, proofs) THEN Ok
        ELSE IF failing # {} THEN Result("DealerProofVerificationFailed", Min(failing))
        ELSE Err("ProofVerificationFailed")

(***************************************************************************)
(* decrypt_share_for_receiver: a result and, when it is Ok, the share.     *)
(***************************************************************************)
DecryptedValue(receiver, secret, m, config) ==
    Sub(m.encrypted_shares[receiver].encrypted_share,
        ReceiverPad(config, m.dealer, receiver, secret, m.msg_i))

DecryptShare(receiver, secret, m, config) ==
    IF receiver \notin DOMAIN m.encrypted_shares THEN Result("MissingShare", receiver)
    ELSE IF m.dealer \notin DOMAIN config.registry
         THEN Result("UnknownParticipant", m.dealer)
    ELSE IF receiver \notin DOMAIN config.registry
         THEN Result("UnknownParticipant", receiver)
    ELSE IF ~VerifyShare(m.commitment, receiver,
                         DecryptedValue(receiver, secret, m, config))
         THEN Err("CommitmentVerificationFailed")
    ELSE Ok

(* The checks create_dealing, verify_dealing_for_receiver and complete start with. *)
CheckIdentity(participant, secret, config) ==
    IF participant \notin DOMAIN config.registry
    THEN Result("UnknownParticipant", participant)
    ELSE IF MulGenerator(secret) # config.registry[participant]
         THEN Err("IdentityKeyMismatch")
    ELSE Ok

(* Mutant: the receiver relies on the public check alone. *)
VerifyDealingForReceiver_PublicOnly(receiver, secret, m, config) ==
    IF CheckIdentity(receiver, secret, config) # Ok
    THEN CheckIdentity(receiver, secret, config)
    ELSE VerifyDealing(m, config)

VerifyDealingForReceiver(receiver, secret, m, config) ==
    IF CheckIdentity(receiver, secret, config) # Ok
    THEN CheckIdentity(receiver, secret, config)
    ELSE IF VerifyDealing(m, config) # Ok THEN VerifyDealing(m, config)
    ELSE IF receiver # m.dealer THEN DecryptShare(receiver, secret, m, config)
    ELSE Ok

(***************************************************************************)
(* complete.  peers maps the caller's keys to messages.                    *)
(***************************************************************************)
AllDealings(own, peers) ==
    [d \in {own.message.dealer} \cup DOMAIN peers |->
        IF d = own.message.dealer THEN own.message ELSE peers[d]]

(* Mutant: the map's key is not compared with the message's dealer. *)
CheckPeers_NoKeyCheck(own, peers) ==
    IF own.message.dealer \in DOMAIN peers
    THEN Result("DuplicateParticipantIndex", own.message.dealer)
    ELSE Ok

(* Inserting the peers next to the own dealing, in key order. *)
CheckPeers(own, peers) ==
    LET bad == {k \in DOMAIN peers : k # peers[k].dealer \/ k = own.message.dealer}
    IN  IF bad = {} THEN Ok
        ELSE IF Min(bad) # peers[Min(bad)].dealer
             THEN Result("DealerKeyMismatch", Min(bad))
        ELSE Result("DuplicateParticipantIndex", Min(bad))

(* Mutant: the party's private share is taken as it is. *)
CheckContribution_TrustsOwn(receiver, secret, own, m, config) ==
    IF m.dealer # receiver THEN DecryptShare(receiver, secret, m, config) ELSE Ok

(* The share a dealing contributes, and whether it may be used. *)
CheckContribution(receiver, secret, own, m, config) ==
    IF m.dealer # receiver THEN DecryptShare(receiver, secret, m, config)
    ELSE IF ~VerifyShare(m.commitment, own.private_share.participant,
                         own.private_share.value)
         THEN Err("CommitmentVerificationFailed")
    ELSE Ok

Contribution(receiver, secret, own, m, config) ==
    IF m.dealer = receiver THEN own.private_share.value
    ELSE DecryptedValue(receiver, secret, m, config)

CheckComplete(receiver, secret, own, peers, config) ==
    LET all      == AllDealings(own, peers)
        missing  == DOMAIN config.registry \ DOMAIN all
        verified == VerifyDealings(Restrict(all, DOMAIN config.registry), config)
        unusable == {d \in DOMAIN all :
                       CheckContribution(receiver, secret, own, all[d], config) # Ok}
    IN  IF CheckIdentity(receiver, secret, config) # Ok
        THEN CheckIdentity(receiver, secret, config)
        ELSE IF own.message.dealer # receiver THEN Result("DealerKeyMismatch", receiver)
        ELSE IF own.private_share.participant # receiver
             THEN Result("PrivateShareParticipantMismatch", receiver)
        ELSE IF CheckPeers(own, peers) # Ok THEN CheckPeers(own, peers)
        ELSE IF missing # {} THEN Result("MissingDealing", Min(missing))
        ELSE IF verified # Ok THEN verified
        ELSE IF unusable # {}
             THEN CheckContribution(receiver, secret, own, all[Min(unusable)], config)
        ELSE Ok

(* Mutant: the sum leaves out the last dealer. *)
AggregateCommitment_DropsLast(commitments, threshold) ==
    [j \in 1..threshold |->
        FoldFunction(GAdd, Identity,
            [d \in DOMAIN commitments \ {Max(DOMAIN commitments)} |-> commitments[d][j]])]

(* Coefficient-wise sum of the commitments. *)
AggregateCommitment(commitments, threshold) ==
    [j \in 1..threshold |->
        FoldFunction(GAdd, Identity, [d \in DOMAIN commitments |-> commitments[d][j]])]

(* Mutant: the public key is the wrong end of the aggregated commitment. *)
CompleteOutput_LastCoefficient(receiver, secret, own, peers, config) ==
    LET all       == AllDealings(own, peers)
        aggregate == AggregateCommitment([d \in DOMAIN all |-> all[d].commitment],
                                         config.threshold)
    IN  [public_key |-> aggregate[config.threshold],
         secret_share |->
            [participant |-> receiver,
             value |-> FoldFunction(Add, 0,
                         [d \in DOMAIN all |->
                            Contribution(receiver, secret, own, all[d], config)])],
         public_key_shares |->
            [p \in DOMAIN config.registry |-> PublicKeyShare(aggregate, p)],
         transcript_root |-> CompletionRoot(all)]

CompleteOutput(receiver, secret, own, peers, config) ==
    LET all       == AllDealings(own, peers)
        aggregate == AggregateCommitment([d \in DOMAIN all |-> all[d].commitment],
                                         config.threshold)
    IN  [public_key |-> aggregate[1],
         secret_share |->
            [participant |-> receiver,
             value |-> FoldFunction(Add, 0,
                         [d \in DOMAIN all |->
                            Contribution(receiver, secret, own, all[d], config)])],
         public_key_shares |->
            [p \in DOMAIN config.registry |-> PublicKeyShare(aggregate, p)],
         transcript_root |-> CompletionRoot(all)]
=============================================================================
