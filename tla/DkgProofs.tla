----------------------------- MODULE DkgProofs ------------------------------
(***************************************************************************)
(* Theorems about the DKG for every registry, threshold, group and number  *)
(* of parties, whatever the dealers and the transport do: first what the   *)
(* functions of dkg.rs compute and establish, then the protocol.           *)
(***************************************************************************)
EXTENDS Dkg, ShamirProofs, SequenceTheorems

(***************************************************************************)
(* The functions of dkg.rs.                                                *)
(***************************************************************************)
(* No error is a success. *)
LEMMA ErrIsNotOk ==
    ASSUME NEW kind, kind # "Ok"
    PROVE  \A who : Result(kind, who) # Ok
BY DEF Result, Ok

(* The peers' keys are the dealers of their messages, and not the own key. *)
LEMMA CheckedPeers ==
    ASSUME NEW o, NEW ps, DOMAIN ps \subseteq Nat, CheckPeers(o, ps) = Ok
    PROVE  \A k \in DOMAIN ps : k = ps[k].dealer /\ k # o.message.dealer
<1> DEFINE bad == {k \in DOMAIN ps : k # ps[k].dealer \/ k = o.message.dealer}
<1>1. bad = {}
    BY ErrIsNotOk DEF CheckPeers
<1>2. QED
    BY <1>1

(* The dealing root holds the session, registry root, dealer and commitment. *)
LEMMA DealingRootFields ==
    ASSUME NEW m
    PROVE  /\ DealingRoot(m).session = m.session
           /\ DealingRoot(m).registry_root = m.registry_root
           /\ DealingRoot(m).dealer = m.dealer
           /\ DealingRoot(m).commitment = m.commitment
BY DEF DealingRoot

(* What dealing_statements has compared when it does not fail. *)
LEMMA CheckedDealing ==
    ASSUME NEW m, NEW c, CheckDealing(m, c) = Ok
    PROVE  /\ m.session = c.session
           /\ m.registry_root = RegistryRoot(c.registry)
           /\ m.dealer \in DOMAIN c.registry
           /\ Len(m.commitment) = c.threshold
           /\ m.transcript_root = DealingRoot(m)
           /\ DOMAIN m.encrypted_shares = PublicShareReceivers(c, m.dealer)
<1>1. /\ m.session = c.session
      /\ m.registry_root = RegistryRoot(c.registry)
      /\ m.dealer \in DOMAIN c.registry
      /\ Len(m.commitment) = c.threshold
      /\ m.transcript_root = DealingRoot(m)
      /\ UnexpectedShares(m, c) = {}
      /\ MissingShares(m, c) = {}
    BY ErrIsNotOk DEF CheckDealing, Err
<1>2. QED
    BY <1>1 DEF UnexpectedShares, MissingShares, PublicShareReceivers

(***************************************************************************)
(* Messages and configurations.                                            *)
(***************************************************************************)
(* A DkgDealerMessage: its fields, with nonces, commitments and ciphertexts *)
(* of their types; nothing is said about the root and the proof.            *)
IsMessage(m) ==
    /\ m = [session |-> m.session, registry_root |-> m.registry_root, dealer |-> m.dealer,
            msg_i |-> m.msg_i, commitment |-> m.commitment,
            encrypted_shares |-> m.encrypted_shares,
            proof |-> m.proof, transcript_root |-> m.transcript_root]
    /\ m.dealer \in Nat /\ m.msg_i \in Nonces
    /\ m.commitment \in Seq(Scalars)
    /\ DOMAIN m.encrypted_shares \subseteq Nat
    /\ m.encrypted_shares \in
         [DOMAIN m.encrypted_shares -> [pad_commitment : Scalars, encrypted_share : Scalars]]

(* A DkgConfig with a validated registry. *)
IsConfig(c) ==
    /\ IsFiniteSet(DOMAIN c.registry) /\ DOMAIN c.registry \subseteq Nat
    /\ \A p \in DOMAIN c.registry : c.registry[p] \in Scalars
    /\ c.threshold \in Nat /\ c.beta \in Betas

(* What the dealer publishes: the root is the root of the fields and the   *)
(* proof is about the statements of these fields.                          *)
Sealed(m, c, d, n, comm, enc, sc) ==
    /\ m = [session |-> c.session, registry_root |-> RegistryRoot(c.registry),
            dealer |-> d, msg_i |-> n, commitment |-> comm,
            encrypted_shares |-> enc, proof |-> m.proof,
            transcript_root |-> m.transcript_root]
    /\ m.transcript_root = DealingRoot(m)
    /\ m.proof = [r \in PublicShareReceivers(c, d) |->
                    StatementForReceiver(c, m, r, sc[r])]

(* A sealed message is what Sealed says. *)
LEMMA SealedMessage ==
    ASSUME NEW c, NEW d, NEW n, NEW comm, NEW enc, NEW sc
    PROVE  Sealed(SealMessage(c, d, n, comm, enc, sc), c, d, n, comm, enc, sc)
<1> DEFINE fields == [session |-> c.session,
                      registry_root |-> RegistryRoot(c.registry),
                      dealer |-> d, msg_i |-> n, commitment |-> comm,
                      encrypted_shares |-> enc,
                      proof |-> << >>, transcript_root |-> << >>]
           rooted == [fields EXCEPT !.transcript_root = DealingRoot(fields)]
           statements == [r \in PublicShareReceivers(c, d) |->
                            StatementForReceiver(c, rooted, r, sc[r])]
<1>1. PICK m : m = SealMessage(c, d, n, comm, enc, sc)
    OBVIOUS
<1>2. m = [rooted EXCEPT !.proof = statements]
    BY <1>1, Zenon DEF SealMessage, ProveBatch
<1>3. rooted = [session |-> c.session,
                registry_root |-> RegistryRoot(c.registry),
                dealer |-> d, msg_i |-> n, commitment |-> comm,
                encrypted_shares |-> enc,
                proof |-> << >>, transcript_root |-> DealingRoot(fields)]
    OBVIOUS
<1> HIDE DEF rooted, statements
<1>4. m = [session |-> c.session,
           registry_root |-> RegistryRoot(c.registry),
           dealer |-> d, msg_i |-> n, commitment |-> comm,
           encrypted_shares |-> enc,
           proof |-> statements, transcript_root |-> DealingRoot(fields)]
    BY <1>2, <1>3
<1>5. DealingRoot(fields) = DealingRoot(m)
    BY <1>4 DEF DealingRoot
<1>6. \A r : StatementForReceiver(c, rooted, r, sc[r]) = StatementForReceiver(c, m, r, sc[r])
    BY <1>3, <1>4 DEF StatementForReceiver
<1>7. statements = [r \in PublicShareReceivers(c, d) |-> StatementForReceiver(c, m, r, sc[r])]
    BY <1>6 DEF statements
<1> HIDE DEF fields
<1>8. m.proof = statements /\ m.transcript_root = DealingRoot(fields)
    BY <1>4
<1>9. QED
    BY <1>1, <1>4, <1>5, <1>7, <1>8 DEF Sealed

(* Typed fields make a typed message. *)
LEMMA SealedIsMessage ==
    ASSUME NEW c, NEW d \in Nat, NEW n \in Nonces, NEW comm \in Seq(Scalars),
           NEW R \in SUBSET Nat,
           NEW enc \in [R -> [pad_commitment : Scalars, encrypted_share : Scalars]],
           NEW sc
    PROVE  IsMessage(SealMessage(c, d, n, comm, enc, sc))
<1>1. PICK m : m = SealMessage(c, d, n, comm, enc, sc)
    OBVIOUS
<1>2. m = [session |-> c.session, registry_root |-> RegistryRoot(c.registry),
           dealer |-> d, msg_i |-> n, commitment |-> comm,
           encrypted_shares |-> enc, proof |-> m.proof,
           transcript_root |-> m.transcript_root]
    <2>1. Sealed(m, c, d, n, comm, enc, sc)
        BY <1>1, SealedMessage
    <2>2. QED
        BY <2>1 DEF Sealed
<1>3. /\ m.session = c.session /\ m.registry_root = RegistryRoot(c.registry)
      /\ m.dealer = d /\ m.msg_i = n /\ m.commitment = comm /\ m.encrypted_shares = enc
    BY <1>2
<1>4. DOMAIN enc = R
    OBVIOUS
<1>5. IsMessage(m)
    BY <1>2, <1>3, <1>4 DEF IsMessage
<1>6. QED
    BY <1>1, <1>5

(* A polynomial of scalars has scalar values and a commitment of group elements. *)
LEMMA EvaluateClosed ==
    ASSUME NEW C \in Seq(Scalars), NEW p \in Nat
    PROVE  /\ Evaluate(C, p) \in Scalars
           /\ Commit(C) \in Seq(Scalars) /\ Len(Commit(C)) = Len(C)
           /\ PublicKeyShare(Commit(C), p) = MulGenerator(Evaluate(C, p))
           /\ PublicKeyShare(C, p) \in Scalars
<1>1. PICK n \in Nat : n = Len(C) /\ C \in [1..n -> Scalars]
    BY LenProperties
<1>2. /\ Evaluate(C, p) \in Scalars /\ PublicKeyShare(C, p) \in Scalars
      /\ PublicKeyShare(Commit(C), p) = MulGenerator(Evaluate(C, p))
    BY <1>1, PublicKeyShareEvaluates, FeldmanCommitment
<1>3. Commit(C) \in [1..n -> Scalars]
    BY <1>1, GeneratorHomomorphism, ScalarsAreInts DEF Commit
<1>4. Commit(C) \in Seq(Scalars) /\ Len(Commit(C)) = n
    BY <1>3
<1>5. QED
    BY <1>1, <1>2, <1>4

(* Pads are scalars. *)
LEMMA PadClosed ==
    ASSUME NEW n \in Nonces, NEW b \in Betas, NEW sk \in Scalars, NEW peer \in Scalars,
           NEW key \in Scalars
    PROVE  DerivePad(n, b, sk, peer, key) \in Scalars
<1>1. GMul(peer, sk) \in Scalars
    BY Closed, ScalarsAreInts
<1>2. QED
    BY <1>1, PadHashAssumption DEF DerivePad

(* An encrypted share and its pad commitment are scalars and group elements. *)
LEMMA EncryptClosed ==
    ASSUME NEW share \in Int, NEW pad \in Int
    PROVE  EncryptShare(share, pad) \in [pad_commitment : Scalars, encrypted_share : Scalars]
BY Closed, GeneratorHomomorphism DEF EncryptShare

(* create_dealing's message and private share. *)
Made(dealing, c, d, sk, poly, n) ==
    /\ dealing = [message |-> dealing.message, private_share |-> dealing.private_share]
    /\ dealing.private_share = [participant |-> d, value |-> Evaluate(poly, d)]
    /\ Sealed(dealing.message, c, d, n, Commit(poly),
              [r \in PublicShareReceivers(c, d) |->
                  EncryptShare(Evaluate(poly, r), DealerPad(c, r, sk, n))],
              [r \in PublicShareReceivers(c, d) |-> MulGenerator(Evaluate(poly, r))])

(* create_dealing returns what Made says. *)
LEMMA MakeDealingMade ==
    ASSUME NEW c, NEW d \in DOMAIN c.registry, NEW sk, NEW poly, NEW n
    PROVE  Made(MakeDealing(c, d, sk, poly, n), c, d, sk, poly, n)
<1> DEFINE receivers == PublicShareReceivers(c, d)
           share == [r \in DOMAIN c.registry |-> Evaluate(poly, r)]
           enc == [r \in receivers |-> EncryptShare(share[r], DealerPad(c, r, sk, n))]
           sc == [r \in receivers |-> MulGenerator(share[r])]
           m == SealMessage(c, d, n, Commit(poly), enc, sc)
<1>1. MakeDealing(c, d, sk, poly, n) =
        [message |-> m, private_share |-> [participant |-> d, value |-> share[d]]]
    BY Zenon DEF MakeDealing
<1>2. receivers \subseteq DOMAIN c.registry
    BY DEF PublicShareReceivers
<1> HIDE DEF receivers
<1>3. \A r \in DOMAIN c.registry : share[r] = Evaluate(poly, r)
    OBVIOUS
<1> HIDE DEF share
<1>4. /\ enc = [r \in receivers |-> EncryptShare(Evaluate(poly, r), DealerPad(c, r, sk, n))]
      /\ sc = [r \in receivers |-> MulGenerator(Evaluate(poly, r))]
    BY <1>2, <1>3
<1>5. Sealed(m, c, d, n, Commit(poly), enc, sc)
    BY SealedMessage
<1> HIDE DEF m, enc, sc
<1>6. PICK dealing : dealing = MakeDealing(c, d, sk, poly, n)
    OBVIOUS
<1>7. /\ dealing = [message |-> m, private_share |-> [participant |-> d, value |-> Evaluate(poly, d)]]
      /\ dealing.message = m
      /\ dealing.private_share = [participant |-> d, value |-> Evaluate(poly, d)]
    BY <1>1, <1>3, <1>6
<1>8. Made(dealing, c, d, sk, poly, n)
    BY <1>4, <1>5, <1>7 DEF Made, receivers
<1>9. QED
    BY <1>6, <1>8

(* create_dealing makes typed messages and shares. *)
LEMMA MadeIsMessage ==
    ASSUME NEW c, IsConfig(c), NEW d \in DOMAIN c.registry, NEW sk \in Scalars,
           NEW poly \in Seq(Scalars), NEW n \in Nonces
    PROVE  LET dealing == MakeDealing(c, d, sk, poly, n)
           IN  /\ IsMessage(dealing.message)
               /\ dealing.private_share.value \in Scalars
<1> DEFINE receivers == PublicShareReceivers(c, d)
           share == [r \in DOMAIN c.registry |-> Evaluate(poly, r)]
           enc == [r \in receivers |-> EncryptShare(share[r], DealerPad(c, r, sk, n))]
           sc == [r \in receivers |-> MulGenerator(share[r])]
           m == SealMessage(c, d, n, Commit(poly), enc, sc)
<1>1. MakeDealing(c, d, sk, poly, n) =
        [message |-> m, private_share |-> [participant |-> d, value |-> share[d]]]
    BY Zenon DEF MakeDealing
<1>2. receivers \subseteq DOMAIN c.registry /\ receivers \subseteq Nat /\ d \in Nat
    BY DEF PublicShareReceivers, IsConfig
<1> HIDE DEF receivers
<1>3. \A r \in DOMAIN c.registry : share[r] \in Scalars
    BY EvaluateClosed DEF IsConfig
<1> HIDE DEF share
<1>4. ASSUME NEW r \in receivers
      PROVE  EncryptShare(share[r], DealerPad(c, r, sk, n))
               \in [pad_commitment : Scalars, encrypted_share : Scalars]
    <2>1. c.registry[r] \in Scalars /\ c.beta \in Betas
        BY <1>2 DEF IsConfig
    <2>2. DealerPad(c, r, sk, n) \in Scalars
        BY <2>1, PadClosed DEF DealerPad
    <2>3. share[r] \in Int /\ DealerPad(c, r, sk, n) \in Int
        BY <1>2, <1>3, <2>2, ScalarsAreInts
    <2>4. QED
        BY <2>3, EncryptClosed
<1>5. enc \in [receivers -> [pad_commitment : Scalars, encrypted_share : Scalars]]
    BY <1>4
<1>6. Commit(poly) \in Seq(Scalars)
    BY <1>2, EvaluateClosed
<1> HIDE DEF enc, sc
<1>7. IsMessage(m)
    BY <1>2, <1>5, <1>6, SealedIsMessage
<1>8. QED
    BY <1>1, <1>3, <1>7

(* A batch of no statements is proved by the empty proof, and by no other. *)
LEMMA EmptyBatch ==
    ASSUME NEW m, NEW c, DOMAIN DealingStatements(m, c) = {}
    PROVE  VerifyBatch(DealingStatements(m, c), m.proof) <=> m.proof = << >>
<1>1. DealingStatements(m, c) = << >>
    BY DEF DealingStatements
<1>2. QED
    BY <1>1 DEF VerifyBatch

(* A dealing verifies on its own exactly when it passes the checks and its *)
(* statements are proved.                                                  *)
LEMMA VerifiedDealing ==
    ASSUME NEW m, NEW c
    PROVE  VerifyDealing(m, c) = Ok <=>
             /\ CheckDealing(m, c) = Ok
             /\ VerifyBatch(DealingStatements(m, c), m.proof)
<1> DEFINE proved == \/ DOMAIN DealingStatements(m, c) = {} /\ m.proof = << >>
                     \/ /\ DOMAIN DealingStatements(m, c) # {}
                        /\ VerifyBatch(DealingStatements(m, c), m.proof)
<1>1. proved <=> VerifyBatch(DealingStatements(m, c), m.proof)
    BY EmptyBatch
<1> HIDE DEF proved
<1>2. VerifyDealing(m, c) = IF CheckDealing(m, c) # Ok THEN CheckDealing(m, c)
                            ELSE IF proved THEN Ok ELSE Err("ProofVerificationFailed")
    BY Zenon DEF VerifyDealing, proved
<1>3. Err("ProofVerificationFailed") # Ok
    BY ErrIsNotOk DEF Err
<1>4. QED
    BY <1>1, <1>2, <1>3

(* Verifying several dealings at once, with the backend's folded check     *)
(* (verify_dealings), accepts exactly when verify_dealing accepts each of  *)
(* them; and a dealer it blames for its proof is one whose dealing passes  *)
(* the other checks and is rejected by verify_dealing.                     *)
THEOREM BatchAgreesWithSingle ==
    ASSUME NEW messages, NEW c, DOMAIN messages \subseteq Nat, DOMAIN messages # {}
    PROVE  /\ VerifyDealings(messages, c) = Ok <=>
                \A d \in DOMAIN messages : VerifyDealing(messages[d], c) = Ok
           /\ VerifyDealings(messages, c).kind = "DealerProofVerificationFailed" =>
                /\ VerifyDealings(messages, c).who \in DOMAIN messages
                /\ CheckDealing(messages[VerifyDealings(messages, c).who], c) = Ok
                /\ VerifyDealing(messages[VerifyDealings(messages, c).who], c) # Ok
<1> DEFINE D == DOMAIN messages
           St(d) == DealingStatements(messages[d], c)
           statements == [d \in D |-> DealingStatements(messages[d], c)]
           proofs     == [d \in D |-> messages[d].proof]
           rejected == {d \in D : CheckDealing(messages[d], c) # Ok}
           nonEmpty   == {d \in D : proofs[d] # << >>}
           failing    == {d \in D : ~VerifyBatch(statements[d], proofs[d])}
           result == VerifyDealings(messages, c)
<1>1. result = IF D = {} THEN Err("ProofVerificationFailed")
        ELSE IF rejected # {} THEN CheckDealing(messages[Min(rejected)], c)
        ELSE IF \A d \in D : DOMAIN statements[d] = {}
             THEN IF nonEmpty = {} THEN Ok
                  ELSE Result("DealerProofVerificationFailed", Min(nonEmpty))
        ELSE IF VerifyProofBatch(statements, proofs) THEN Ok
        ELSE IF failing # {} THEN Result("DealerProofVerificationFailed", Min(failing))
        ELSE Err("ProofVerificationFailed")
    BY Zenon DEF VerifyDealings
<1>2. failing = {d \in D : ~VerifyBatch(St(d), messages[d].proof)}
    OBVIOUS
<1>3. nonEmpty = {d \in D : messages[d].proof # << >>}
    OBVIOUS
<1>4. \A d \in D : DOMAIN statements[d] = DOMAIN St(d)
    OBVIOUS
<1>5. VerifyProofBatch(statements, proofs) <=> failing = {}
    BY DEF VerifyProofBatch
<1> HIDE DEF result, D, statements, proofs, failing, nonEmpty, rejected
<1>6. /\ rejected # {} => Min(rejected) \in rejected
      /\ nonEmpty # {} => Min(nonEmpty) \in nonEmpty
      /\ failing # {} => Min(failing) \in failing
    <2>1. rejected \subseteq Nat /\ nonEmpty \subseteq Nat /\ failing \subseteq Nat
        BY <1>2, <1>3 DEF rejected, D
    <2>2. QED
        BY <2>1, MinInSet
<1>7. /\ Result("DealerProofVerificationFailed", Min(nonEmpty)) # Ok
      /\ Result("DealerProofVerificationFailed", Min(failing)) # Ok
      /\ \A w : /\ Result("DealerProofVerificationFailed", w).who = w
    BY ErrIsNotOk DEF Result
<1>8. ASSUME NEW d \in D
      PROVE  VerifyDealing(messages[d], c) = Ok <=> d \notin rejected /\ d \notin failing
    BY <1>2, VerifiedDealing DEF rejected
<1>9. CASE rejected # {}
    <2>1. result = CheckDealing(messages[Min(rejected)], c) /\ Min(rejected) \in rejected
        BY <1>1, <1>6, <1>9 DEF D
    <2>2. result # Ok /\ Min(rejected) \in D
        BY <2>1 DEF rejected
    <2>3. ASSUME NEW m PROVE CheckDealing(m, c).kind # "DealerProofVerificationFailed"
        BY DEF CheckDealing, Err, Ok, Result
    <2>4. QED
        BY <1>8, <2>1, <2>2, <2>3 DEF D, result
<1>10. CASE rejected = {} /\ \A d \in D : DOMAIN St(d) = {}
    <2>1. failing = nonEmpty
        BY <1>2, <1>3, <1>10, EmptyBatch
    <2>2. result = IF nonEmpty = {} THEN Ok
                   ELSE Result("DealerProofVerificationFailed", Min(nonEmpty))
        BY <1>1, <1>4, <1>10 DEF D
    <2>3. result = Ok <=> failing = {}
        BY <1>7, <2>1, <2>2
    <2>4. result = Ok \/ result.who \in failing
        BY <1>6, <1>7, <2>1, <2>2
    <2>5. QED
        BY <1>2, <1>8, <1>10, <2>3, <2>4 DEF D, result, rejected, Ok, Result
<1>11. CASE rejected = {} /\ ~ \A d \in D : DOMAIN St(d) = {}
    <2>1. result = IF failing = {} THEN Ok
                   ELSE Result("DealerProofVerificationFailed", Min(failing))
        BY <1>1, <1>4, <1>5, <1>11 DEF D
    <2>2. result = Ok <=> failing = {}
        BY <1>7, <2>1
    <2>3. result = Ok \/ result.who \in failing
        BY <1>6, <1>7, <2>1
    <2>4. QED
        BY <1>2, <1>8, <1>11, <2>2, <2>3 DEF D, result, rejected, Ok, Result
<1>12. QED
    BY <1>9, <1>10, <1>11

(* What a successful complete has established about the dealings it uses. *)
LEMMA CompletedDealings ==
    ASSUME NEW r, NEW sk, NEW o, NEW ps, NEW c,
           DOMAIN ps \subseteq Nat, DOMAIN c.registry \subseteq Nat,
           CheckComplete(r, sk, o, ps, c) = Ok
    PROVE  LET all == AllDealings(o, ps)
           IN  /\ DOMAIN all = DOMAIN c.registry
               /\ r \in DOMAIN all /\ all[r] = o.message
               /\ o.private_share.participant = r
               /\ \A d \in DOMAIN all : /\ all[d].dealer = d
                                        /\ VerifyDealing(all[d], c) = Ok
                                        /\ CheckContribution(r, sk, o, all[d], c) = Ok
<1> DEFINE all == AllDealings(o, ps)
           missing == DOMAIN c.registry \ DOMAIN all
           verified == VerifyDealings(Restrict(all, DOMAIN c.registry), c)
           unusable == {d \in DOMAIN all : CheckContribution(r, sk, o, all[d], c) # Ok}
<1>1. /\ CheckIdentity(r, sk, c) = Ok
      /\ o.message.dealer = r
      /\ o.private_share.participant = r
      /\ CheckPeers(o, ps) = Ok
      /\ missing = {}
      /\ verified = Ok
      /\ unusable # {} => CheckContribution(r, sk, o, all[Min(unusable)], c) = Ok
    <2> HIDE DEF all, missing, verified, unusable
    <2>1. CheckComplete(r, sk, o, ps, c) =
            IF CheckIdentity(r, sk, c) # Ok
            THEN CheckIdentity(r, sk, c)
            ELSE IF o.message.dealer # r THEN Result("DealerKeyMismatch", r)
            ELSE IF o.private_share.participant # r
                 THEN Result("PrivateShareParticipantMismatch", r)
            ELSE IF CheckPeers(o, ps) # Ok THEN CheckPeers(o, ps)
            ELSE IF missing # {} THEN Result("MissingDealing", Min(missing))
            ELSE IF verified # Ok THEN verified
            ELSE IF unusable # {}
                 THEN CheckContribution(r, sk, o, all[Min(unusable)], c)
            ELSE Ok
        BY DEF CheckComplete, all, missing, verified, unusable
    <2>2. QED
        BY <2>1, ErrIsNotOk
<1>2. DOMAIN all = {r} \cup DOMAIN ps
    BY <1>1 DEF AllDealings
<1>3. r \in DOMAIN c.registry
    BY <1>1, ErrIsNotOk DEF CheckIdentity
<1>4. \A d \in DOMAIN all : all[d].dealer = d
    BY <1>1, CheckedPeers DEF AllDealings
<1>5. \A d \in DOMAIN all : CheckContribution(r, sk, o, all[d], c) = Ok
    <2>1. DOMAIN all \subseteq Nat
        BY <1>2, <1>3
    <2>2. unusable # {} => Min(unusable) \in unusable
        BY <2>1, MinInSet
    <2>3. QED
        BY <1>1, <2>2
<1>6. ASSUME NEW d \in DOMAIN all PROVE d \in DOMAIN c.registry
    <2>1. CASE d = r
        BY <2>1, <1>3
    <2>2. CASE d # r
        <3>1. DecryptShare(r, sk, all[d], c) = Ok
            BY <2>2, <1>4, <1>5 DEF CheckContribution
        <3>2. QED
            BY <3>1, <1>4, ErrIsNotOk DEF DecryptShare
    <2>3. QED
        BY <2>1, <2>2
<1>7. DOMAIN all = DOMAIN c.registry
    BY <1>1, <1>6
<1>8. ASSUME NEW d \in DOMAIN all PROVE VerifyDealing(all[d], c) = Ok
    <2> DEFINE messages == Restrict(all, DOMAIN c.registry)
    <2>1. /\ DOMAIN messages = DOMAIN c.registry
          /\ \A x \in DOMAIN c.registry : messages[x] = all[x]
        BY DEF Restrict
    <2>2. VerifyDealings(messages, c) = Ok
        BY <1>1
    <2> HIDE DEF messages
    <2>3. VerifyDealing(messages[d], c) = Ok
        BY <2>1, <2>2, <1>3, <1>7, BatchAgreesWithSingle
    <2>4. QED
        BY <2>1, <2>3, <1>7
<1>9. r \in DOMAIN all /\ all[r] = o.message
    BY <1>1 DEF AllDealings
<1>10. QED
    BY <1>1, <1>4, <1>5, <1>7, <1>8, <1>9

(* A dealer that complete blames for its proof is registered, dealt the    *)
(* message complete was given for it, and that message passes every check  *)
(* but the proof.                                                          *)
LEMMA BlamedDealing ==
    ASSUME NEW r, NEW sk, NEW o, NEW ps, NEW c, NEW result,
           DOMAIN ps \subseteq Nat, DOMAIN c.registry \subseteq Nat,
           result = CheckComplete(r, sk, o, ps, c),
           result.kind = "DealerProofVerificationFailed"
    PROVE  LET m == AllDealings(o, ps)[result.who]
           IN  /\ result.who \in DOMAIN AllDealings(o, ps)
               /\ m.dealer = result.who
               /\ CheckDealing(m, c) = Ok /\ VerifyDealing(m, c) # Ok
<1> DEFINE all == AllDealings(o, ps)
           messages == Restrict(all, DOMAIN c.registry)
           missing == DOMAIN c.registry \ DOMAIN all
           verified == VerifyDealings(messages, c)
           unusable == {d \in DOMAIN all : CheckContribution(r, sk, o, all[d], c) # Ok}
           Blames(x) == x.kind = "DealerProofVerificationFailed"
<1>1. /\ ~Blames(CheckIdentity(r, sk, c))
      /\ ~Blames(Result("DealerKeyMismatch", r))
      /\ ~Blames(Result("PrivateShareParticipantMismatch", r))
      /\ ~Blames(CheckPeers(o, ps))
      /\ ~Blames(Result("MissingDealing", Min(missing)))
      /\ ~Blames(Ok)
    BY DEF CheckIdentity, CheckPeers, Err, Ok, Result
<1>2. \A m : ~Blames(CheckContribution(r, sk, o, m, c))
    BY DEF CheckContribution, DecryptShare, Err, Ok, Result
<1>3. /\ DOMAIN messages = DOMAIN c.registry
      /\ \A x \in DOMAIN c.registry : messages[x] = all[x]
    BY DEF Restrict
<1>4. result =
        IF CheckIdentity(r, sk, c) # Ok
        THEN CheckIdentity(r, sk, c)
        ELSE IF o.message.dealer # r THEN Result("DealerKeyMismatch", r)
        ELSE IF o.private_share.participant # r
             THEN Result("PrivateShareParticipantMismatch", r)
        ELSE IF CheckPeers(o, ps) # Ok THEN CheckPeers(o, ps)
        ELSE IF missing # {} THEN Result("MissingDealing", Min(missing))
        ELSE IF verified # Ok THEN verified
        ELSE IF unusable # {}
             THEN CheckContribution(r, sk, o, all[Min(unusable)], c)
        ELSE Ok
    <2> HIDE DEF all, messages, missing, verified, unusable
    <2>1. QED
        BY DEF CheckComplete, all, messages, missing, verified, unusable
<1>5. Blames(result)
    OBVIOUS
<1> HIDE DEF all, messages, missing, verified, unusable, Blames
<1>6. /\ result = verified /\ CheckIdentity(r, sk, c) = Ok /\ o.message.dealer = r
      /\ CheckPeers(o, ps) = Ok /\ missing = {}
    BY <1>1, <1>2, <1>4, <1>5
<1>7. r \in DOMAIN c.registry
    BY <1>6, ErrIsNotOk DEF CheckIdentity
<1>8. /\ result.who \in DOMAIN c.registry
      /\ CheckDealing(messages[result.who], c) = Ok
      /\ VerifyDealing(messages[result.who], c) # Ok
    BY <1>3, <1>5, <1>6, <1>7, BatchAgreesWithSingle DEF verified, Blames
<1>9. \A d \in DOMAIN all : all[d].dealer = d
    BY <1>6, CheckedPeers DEF AllDealings, all
<1>10. result.who \in DOMAIN all
    BY <1>6, <1>8 DEF missing
<1>11. QED
    BY <1>3, <1>8, <1>9, <1>10 DEF all

(* An output that uses the registered dealers' dealings of configuration c *)
(* and whose public part is computed from its root.                        *)
SoundOutput(output, c) ==
    LET root == output.transcript_root
        aggregate == AggregateCommitment([d \in DOMAIN root |-> root[d].commitment],
                                         c.threshold)
    IN  /\ DOMAIN root = DOMAIN c.registry
        /\ \A d \in DOMAIN root :
             /\ root[d].session = c.session
             /\ root[d].registry_root = RegistryRoot(c.registry)
             /\ root[d].dealer = d
             /\ Len(root[d].commitment) = c.threshold
        /\ output.public_key = aggregate[1]
        /\ output.public_key_shares =
             [q \in DOMAIN c.registry |-> PublicKeyShare(aggregate, q)]

(* The completion root of a successful complete names exactly the          *)
(* registered dealers, and determines the public part of the output.       *)
LEMMA CompletedOutput ==
    ASSUME NEW r, NEW sk, NEW o, NEW ps, NEW c,
           DOMAIN ps \subseteq Nat, DOMAIN c.registry \subseteq Nat,
           CheckComplete(r, sk, o, ps, c) = Ok
    PROVE  SoundOutput(CompleteOutput(r, sk, o, ps, c), c)
<1> DEFINE all == AllDealings(o, ps)
           output == CompleteOutput(r, sk, o, ps, c)
           root == output.transcript_root
           fromDealings == AggregateCommitment([d \in DOMAIN all |-> all[d].commitment],
                                               c.threshold)
           fromRoot == AggregateCommitment([d \in DOMAIN root |-> root[d].commitment],
                                           c.threshold)
<1>1. /\ DOMAIN all = DOMAIN c.registry
      /\ \A d \in DOMAIN all : all[d].dealer = d /\ CheckDealing(all[d], c) = Ok
    BY CompletedDealings, VerifiedDealing
<1>2. /\ output.public_key = fromDealings[1]
      /\ output.public_key_shares =
           [q \in DOMAIN c.registry |-> PublicKeyShare(fromDealings, q)]
      /\ root = CompletionRoot(all)
    BY DEF CompleteOutput
<1>3. /\ DOMAIN root = DOMAIN all
      /\ \A d \in DOMAIN all : root[d] = all[d].transcript_root
    BY <1>2 DEF CompletionRoot
<1> HIDE DEF all, output, root
<1>4. \A d \in DOMAIN all : root[d] = DealingRoot(all[d])
    BY <1>1, <1>3, CheckedDealing
<1>5. \A d \in DOMAIN all :
        /\ root[d].session = c.session
        /\ root[d].registry_root = RegistryRoot(c.registry)
        /\ root[d].dealer = d
        /\ root[d].commitment = all[d].commitment
        /\ Len(root[d].commitment) = c.threshold
    <2> SUFFICES ASSUME NEW d \in DOMAIN all
                 PROVE  /\ root[d].session = c.session
                        /\ root[d].registry_root = RegistryRoot(c.registry)
                        /\ root[d].dealer = d
                        /\ root[d].commitment = all[d].commitment
                        /\ Len(root[d].commitment) = c.threshold
        OBVIOUS
    <2>1. /\ root[d].session = all[d].session
          /\ root[d].registry_root = all[d].registry_root
          /\ root[d].dealer = all[d].dealer
          /\ root[d].commitment = all[d].commitment
        BY <1>4, DealingRootFields
    <2>2. /\ all[d].session = c.session
          /\ all[d].registry_root = RegistryRoot(c.registry)
          /\ all[d].dealer = d
          /\ Len(all[d].commitment) = c.threshold
        BY <1>1, CheckedDealing
    <2>3. QED
        BY <2>1, <2>2
<1>6. [d \in DOMAIN root |-> root[d].commitment] = [d \in DOMAIN all |-> all[d].commitment]
    BY <1>3, <1>5
<1>7. fromRoot = fromDealings
    BY <1>6
<1>8. QED
    BY <1>1, <1>2, <1>3, <1>5, <1>7 DEF output, root, SoundOutput

(***************************************************************************)
(* The share of a completed party.                                         *)
(***************************************************************************)
(* Every contribution passed Feldman's check. *)
LEMMA ContributionVerified ==
    ASSUME NEW r, NEW sk, NEW o, NEW m, NEW c,
           o.private_share.participant = r,
           CheckContribution(r, sk, o, m, c) = Ok
    PROVE  PublicKeyShare(m.commitment, r) = MulGenerator(Contribution(r, sk, o, m, c))
<1>1. CASE m.dealer = r
    <2>1. VerifyShare(m.commitment, r, o.private_share.value)
        BY <1>1, ErrIsNotOk DEF CheckContribution, Err
    <2>2. QED
        BY <1>1, <2>1 DEF VerifyShare, Contribution
<1>2. CASE m.dealer # r
    <2>1. DecryptShare(r, sk, m, c) = Ok
        BY <1>2 DEF CheckContribution
    <2>2. VerifyShare(m.commitment, r, DecryptedValue(r, sk, m, c))
        BY <2>1, ErrIsNotOk DEF DecryptShare, Err
    <2>3. QED
        BY <1>2, <2>2 DEF VerifyShare, Contribution
<1>3. QED
    BY <1>1, <1>2

(* A contribution is a scalar. *)
LEMMA ContributionClosed ==
    ASSUME NEW c, IsConfig(c), NEW r \in DOMAIN c.registry, NEW sk \in Scalars,
           NEW o, o.private_share.value \in Scalars, NEW m, IsMessage(m),
           m.dealer \in DOMAIN c.registry, m.dealer # r => r \in DOMAIN m.encrypted_shares
    PROVE  Contribution(r, sk, o, m, c) \in Scalars
<1>1. CASE m.dealer = r
    BY <1>1 DEF Contribution
<1>2. CASE m.dealer # r
    <2>1. c.registry[r] \in Scalars /\ c.registry[m.dealer] \in Scalars /\ c.beta \in Betas
        BY DEF IsConfig
    <2>2. m.msg_i \in Nonces
        BY DEF IsMessage
    <2>3. ReceiverPad(c, m.dealer, r, sk, m.msg_i) \in Scalars
        BY <2>1, <2>2, PadClosed DEF ReceiverPad
    <2>4. m.encrypted_shares[r].encrypted_share \in Scalars
        BY <1>2 DEF IsMessage
    <2>5. DecryptedValue(r, sk, m, c) \in Scalars
        BY <2>3, <2>4, Closed, ScalarsAreInts DEF DecryptedValue
    <2>6. QED
        BY <1>2, <2>5 DEF Contribution
<1>3. QED
    BY <1>1, <1>2

(* The commitments of verified dealings have one entry per coefficient. *)
LEMMA AggregateIsEntrySums ==
    ASSUME NEW commitments, NEW t
    PROVE  AggregateCommitment(commitments, t) = EntrySums(commitments, t)
BY GroupSum DEF AggregateCommitment, EntrySums

(* The arguments of complete, as far as their types go. *)
IsArgument(sk, o, ps, c) ==
    /\ IsConfig(c) /\ sk \in Scalars
    /\ IsMessage(o.message) /\ o.private_share.value \in Scalars
    /\ DOMAIN ps \subseteq Nat /\ \A k \in DOMAIN ps : IsMessage(ps[k])

(* complete sums the decrypted shares; the sum is the discrete logarithm   *)
(* of the public key share computed from the summed commitments, for       *)
(* every number of dealers, threshold and group.                           *)
THEOREM CompletedShare ==
    ASSUME NEW r, NEW sk, NEW o, NEW ps, NEW c, IsArgument(sk, o, ps, c),
           CheckComplete(r, sk, o, ps, c) = Ok
    PROVE  LET output == CompleteOutput(r, sk, o, ps, c)
           IN  /\ r \in DOMAIN output.public_key_shares
               /\ output.secret_share.value \in Scalars
               /\ MulGenerator(output.secret_share.value) = output.public_key_shares[r]
<1> DEFINE all == AllDealings(o, ps)
           D == DOMAIN c.registry
           t == c.threshold
           commitments == [d \in D |-> all[d].commitment]
           parts == [d \in D |-> Contribution(r, sk, o, all[d], c)]
           publics == [d \in D |-> PublicKeyShare(commitments[d], r)]
           aggregate == AggregateCommitment(commitments, t)
           sum == FoldFunction(Add, 0, parts)
           output == CompleteOutput(r, sk, o, ps, c)
<1>1. /\ DOMAIN all = D /\ r \in D
      /\ o.private_share.participant = r
      /\ \A d \in D : /\ all[d].dealer = d
                      /\ VerifyDealing(all[d], c) = Ok
                      /\ CheckContribution(r, sk, o, all[d], c) = Ok
    <2>1. DOMAIN ps \subseteq Nat /\ DOMAIN c.registry \subseteq Nat
        BY DEF IsArgument, IsConfig
    <2>2. QED
        BY <2>1, CompletedDealings
<1>2. \A d \in D : IsMessage(all[d])
    BY <1>1 DEF AllDealings, IsArgument
<1>3. /\ output.secret_share = [participant |-> r, value |-> sum]
      /\ output.public_key_shares = [p \in D |-> PublicKeyShare(aggregate, p)]
    <2> HIDE DEF sum, aggregate
    <2>1. output = [public_key |-> aggregate[1],
                    secret_share |-> [participant |-> r, value |-> sum],
                    public_key_shares |-> [p \in D |-> PublicKeyShare(aggregate, p)],
                    transcript_root |-> CompletionRoot(all)]
        BY <1>1, Zenon DEF CompleteOutput, aggregate, sum
    <2> HIDE DEF output, D
    <2>2. QED
        BY <2>1
<1> HIDE DEF all, output
<1>4. IsFiniteSet(D) /\ t \in Nat /\ r \in Nat /\ IsConfig(c)
    BY <1>1 DEF IsArgument, IsConfig
<1>5. commitments \in [D -> [1..t -> Scalars]]
    <2>1. ASSUME NEW d \in D PROVE all[d].commitment \in [1..t -> Scalars]
        <3>1. CheckDealing(all[d], c) = Ok
            BY <1>1, VerifiedDealing
        <3>2. Len(all[d].commitment) = t
            BY <3>1, CheckedDealing
        <3>3. all[d].commitment \in Seq(Scalars)
            BY <1>2 DEF IsMessage
        <3>4. QED
            BY <3>2, <3>3
    <2>2. QED
        BY <2>1
<1>6. parts \in [D -> Scalars]
    <2>1. ASSUME NEW d \in D PROVE Contribution(r, sk, o, all[d], c) \in Scalars
        <3>1. CheckDealing(all[d], c) = Ok
            BY <1>1, VerifiedDealing
        <3>2. d # r => r \in DOMAIN all[d].encrypted_shares
            BY <1>1, <3>1, CheckedDealing DEF PublicShareReceivers
        <3>3. sk \in Scalars /\ o.private_share.value \in Scalars
            BY DEF IsArgument
        <3>4. QED
            BY <1>1, <1>2, <1>4, <3>2, <3>3, ContributionClosed
    <2>2. QED
        BY <2>1
<1>7. publics = [d \in D |-> MulGenerator(parts[d])]
    <2>1. ASSUME NEW d \in D
          PROVE  PublicKeyShare(commitments[d], r) = MulGenerator(parts[d])
        <3>1. PublicKeyShare(all[d].commitment, r)
                = MulGenerator(Contribution(r, sk, o, all[d], c))
            BY <1>1, ContributionVerified, SMTT(30)
        <3>2. QED
            BY <3>1
    <2>2. QED
        BY <2>1
<1> HIDE DEF parts, commitments, D, t
<1>8. MulGenerator(sum) = FoldFunction(Add, 0, publics)
    BY <1>4, <1>6, <1>7, SumGenerator
<1>9. PublicKeyShare(EntrySums(commitments, t), r) = FoldFunction(Add, 0, publics)
    BY <1>4, <1>5, PublicKeyShareOfSum
<1>10. aggregate = EntrySums(commitments, t)
    BY AggregateIsEntrySums
<1>11. sum \in Scalars
    BY <1>4, <1>6, SumClosed
<1> HIDE DEF sum, aggregate
<1>12. output.public_key_shares[r] = PublicKeyShare(aggregate, r)
    BY <1>1, <1>3
<1>13. MulGenerator(sum) = output.public_key_shares[r]
    BY <1>8, <1>9, <1>10, <1>12
<1>14. r \in DOMAIN output.public_key_shares
    BY <1>1, <1>3 DEF D
<1>15. QED
    BY <1>3, <1>11, <1>13, <1>14 DEF output

(* An output whose secret share is for participant p. *)
OutputFor(output, p) ==
    output = [public_key |-> output.public_key,
              secret_share |-> [participant |-> p, value |-> output.secret_share.value],
              public_key_shares |-> output.public_key_shares,
              transcript_root |-> output.transcript_root]

(* complete returns the caller's own share. *)
LEMMA CompletedFor ==
    ASSUME NEW r, NEW sk, NEW o, NEW ps, NEW c
    PROVE  OutputFor(CompleteOutput(r, sk, o, ps, c), r)
BY DEF CompleteOutput, OutputFor

(***************************************************************************)
(* Public verification.                                                    *)
(***************************************************************************)
(* Both ends of a Diffie-Hellman exchange compute the same secret. *)
LEMMA SharedSecret ==
    ASSUME NEW a \in Int, NEW b \in Int
    PROVE  GMul(MulGenerator(a), b) = GMul(MulGenerator(b), a)
<1>1. Gen \in Int
    BY ScalarsAreInts
<1>2. PICK u \in Int : u = Gen * a
    BY <1>1
<1>3. PICK v \in Int : v = Gen * b
    BY <1>1
<1>4. u * b = v * a
    BY <1>1, <1>2, <1>3
<1>5. ((u % P) * b) % P = (u * b) % P /\ ((v % P) * a) % P = (v * a) % P
    BY RemainderOfProduct
<1>6. QED
    BY <1>2, <1>3, <1>4, <1>5 DEF GMul, MulGenerator

(* Dealer and receiver derive the same pad from their own secret and the   *)
(* other's key.                                                            *)
LEMMA PadsMatch ==
    ASSUME NEW c, NEW d, NEW r, NEW n, NEW skd \in Scalars, NEW skr \in Scalars,
           c.registry[d] = MulGenerator(skd), c.registry[r] = MulGenerator(skr)
    PROVE  DealerPad(c, r, skd, n) = ReceiverPad(c, d, r, skr, n)
<1>1. GMul(MulGenerator(skr), skd) = GMul(MulGenerator(skd), skr)
    BY SharedSecret, ScalarsAreInts
<1>2. QED
    BY <1>1 DEF DealerPad, ReceiverPad, DerivePad

(* A dealing that passes public verification under a backend that proves   *)
(* pads decrypts to a share on the committed polynomial for every          *)
(* registered receiver: verify_dealing is enough to know that nobody will  *)
(* complain, for every group, registry and threshold.                      *)
THEOREM VerifiedIsDecryptable ==
    ASSUME BindsPad, NEW c, IsConfig(c), NEW m, IsMessage(m), VerifyDealing(m, c) = Ok,
           NEW r \in PublicShareReceivers(c, m.dealer),
           NEW sk \in Scalars, c.registry[r] = MulGenerator(sk)
    PROVE  DecryptShare(r, sk, m, c) = Ok
<1> DEFINE e == m.encrypted_shares[r].encrypted_share
           pc == m.encrypted_shares[r].pad_commitment
           st == StatementForReceiver(c, m, r, GSub(MulGenerator(e), pc))
           pad == ReceiverPad(c, m.dealer, r, sk, m.msg_i)
<1>1. /\ m.dealer \in DOMAIN c.registry /\ r \in DOMAIN c.registry
      /\ r \in DOMAIN m.encrypted_shares
      /\ StatementHolds(st)
    <2>1. CheckDealing(m, c) = Ok /\ VerifyBatch(DealingStatements(m, c), m.proof)
        BY VerifiedDealing
    <2>2. /\ m.dealer \in DOMAIN c.registry
          /\ DOMAIN m.encrypted_shares = PublicShareReceivers(c, m.dealer)
        BY <2>1, CheckedDealing
    <2>3. StatementHolds(DealingStatements(m, c)[r])
        BY <2>1 DEF VerifyBatch, DealingStatements
    <2>4. DealingStatements(m, c)[r] = st
        BY DEF DealingStatements
    <2> HIDE DEF st
    <2>5. QED
        BY <2>2, <2>3, <2>4 DEF PublicShareReceivers
<1>2. /\ GSub(MulGenerator(e), pc) = PublicKeyShare(m.commitment, r)
      /\ \E x \in Scalars : /\ MulGenerator(x) = c.registry[m.dealer]
                            /\ pc = MulGenerator(DealerPad(c, r, x, m.msg_i))
    <2>1. /\ st.share_commitment = GSub(MulGenerator(e), pc)
          /\ st.commitment = m.commitment /\ st.receiver = r
          /\ st.dealer_public_key = c.registry[m.dealer] /\ st.pad_commitment = pc
          /\ st.receiver_public_key = c.registry[r]
          /\ st.msg_i = m.msg_i /\ st.beta = c.beta
        BY DEF StatementForReceiver
    <2> HIDE DEF st, e, pc
    <2>2. st.share_commitment = PublicKeyShare(st.commitment, st.receiver)
        BY <1>1 DEF StatementHolds
    <2>3. \E x \in Scalars :
            /\ MulGenerator(x) = st.dealer_public_key
            /\ st.pad_commitment =
                 MulGenerator(DerivePad(st.msg_i, st.beta, x,
                                        st.receiver_public_key, st.receiver_public_key))
        BY <1>1 DEF StatementHolds
    <2>4. QED
        BY <2>1, <2>2, <2>3 DEF DealerPad
<1>3. PICK x \in Scalars : /\ MulGenerator(x) = c.registry[m.dealer]
                           /\ pc = MulGenerator(DealerPad(c, r, x, m.msg_i))
    BY <1>2
<1>4. DealerPad(c, r, x, m.msg_i) = pad
    <2>1. c.registry[m.dealer] = MulGenerator(x)
        BY <1>3
    <2>2. GMul(MulGenerator(sk), x) = GMul(MulGenerator(x), sk)
        BY SharedSecret, ScalarsAreInts
    <2>3. GMul(c.registry[r], x) = GMul(c.registry[m.dealer], sk)
        BY <2>1, <2>2
    <2>4. QED
        BY <2>3, Zenon DEF DealerPad, ReceiverPad, DerivePad
<1>5. e \in Int /\ pad \in Int
    <2>1. m.msg_i \in Nonces /\ e \in Scalars
        BY <1>1 DEF IsMessage
    <2>2. c.registry[r] \in Scalars /\ c.registry[m.dealer] \in Scalars /\ c.beta \in Betas
        BY <1>1 DEF IsConfig
    <2>3. pad \in Scalars
        BY <2>1, <2>2, PadClosed DEF ReceiverPad
    <2>4. QED
        BY <2>1, <2>3, ScalarsAreInts
<1>6. DecryptedValue(r, sk, m, c) = Sub(e, pad)
    BY DEF DecryptedValue
<1> HIDE DEF e, pc, pad
<1>7. MulGenerator(Sub(e, pad)) = GSub(MulGenerator(e), MulGenerator(pad))
    BY <1>5, GeneratorHomomorphism
<1>8. VerifyShare(m.commitment, r, DecryptedValue(r, sk, m, c))
    BY <1>2, <1>3, <1>4, <1>6, <1>7 DEF VerifyShare
<1>9. QED
    BY <1>1, <1>8 DEF DecryptShare

(***************************************************************************)
(* Honest dealings.                                                        *)
(***************************************************************************)
(* A dealing passes the checks of dealing_statements when its fields fit   *)
(* the configuration.                                                      *)
LEMMA CheckPasses ==
    ASSUME NEW m, NEW c, m.session = c.session,
           m.registry_root = RegistryRoot(c.registry), m.dealer \in DOMAIN c.registry,
           Len(m.commitment) = c.threshold, m.transcript_root = DealingRoot(m),
           DOMAIN m.encrypted_shares = PublicShareReceivers(c, m.dealer)
    PROVE  CheckDealing(m, c) = Ok
<1>1. UnexpectedShares(m, c) = {} /\ MissingShares(m, c) = {}
    BY DEF UnexpectedShares, MissingShares, PublicShareReceivers
<1>2. QED
    BY <1>1 DEF CheckDealing

(* A dealing of create_dealing is accepted by everybody: it verifies, and  *)
(* every registered receiver decrypts exactly its evaluation of the        *)
(* dealer's polynomial, for every group, registry and threshold and        *)
(* whether or not the backend proves pads.                                 *)
THEOREM HonestDealingAccepted ==
    ASSUME NEW c, IsConfig(c), NEW d \in DOMAIN c.registry, NEW sk \in Scalars,
           c.registry[d] = MulGenerator(sk), NEW n \in Nonces,
           NEW poly \in [1..c.threshold -> Scalars],
           NEW m, m = MakeDealing(c, d, sk, poly, n).message
    PROVE  /\ VerifyDealing(m, c) = Ok
           /\ \A r \in PublicShareReceivers(c, d) : \A skr \in Scalars :
                c.registry[r] = MulGenerator(skr) =>
                    /\ DecryptedValue(r, skr, m, c) = Evaluate(poly, r)
                    /\ DecryptShare(r, skr, m, c) = Ok
<1> DEFINE R == PublicShareReceivers(c, d)
           pad(r) == DealerPad(c, r, sk, n)
           enc == [r \in R |-> EncryptShare(Evaluate(poly, r), pad(r))]
           sc == [r \in R |-> MulGenerator(Evaluate(poly, r))]
<1>1. Sealed(m, c, d, n, Commit(poly), enc, sc)
    BY MakeDealingMade DEF Made
<1>2. /\ m.session = c.session /\ m.registry_root = RegistryRoot(c.registry)
      /\ m.dealer = d /\ m.msg_i = n /\ m.commitment = Commit(poly)
      /\ m.encrypted_shares = enc
      /\ m.transcript_root = DealingRoot(m)
      /\ m.proof = [r \in R |-> StatementForReceiver(c, m, r, sc[r])]
    <2> HIDE DEF enc, sc, R
    <2>1. QED
        BY <1>1 DEF Sealed, R
<1>3. R \subseteq DOMAIN c.registry /\ R \subseteq Nat /\ d \in Nat /\ c.threshold \in Nat
    BY DEF PublicShareReceivers, IsConfig
<1>4. poly \in Seq(Scalars) /\ Len(poly) = c.threshold
    BY <1>3
<1>5. ASSUME NEW r \in R
      PROVE  /\ Evaluate(poly, r) \in Scalars /\ pad(r) \in Scalars
             /\ PublicKeyShare(Commit(poly), r) = MulGenerator(Evaluate(poly, r))
    <2>1. c.registry[r] \in Scalars /\ c.beta \in Betas /\ r \in Nat
        BY <1>3 DEF IsConfig
    <2>2. pad(r) \in Scalars
        BY <2>1, PadClosed DEF DealerPad
    <2>3. QED
        BY <1>4, <2>1, <2>2, EvaluateClosed
<1>6. ASSUME NEW r \in R
      PROVE  /\ m.encrypted_shares[r].encrypted_share = Add(Evaluate(poly, r), pad(r))
             /\ m.encrypted_shares[r].pad_commitment = MulGenerator(pad(r))
    BY <1>2 DEF EncryptShare
<1> HIDE DEF enc, R
<1>7. ASSUME NEW r \in R
      PROVE  /\ MulGenerator(Add(Evaluate(poly, r), pad(r)))
                  = GAdd(MulGenerator(Evaluate(poly, r)), MulGenerator(pad(r)))
             /\ GSub(MulGenerator(Add(Evaluate(poly, r), pad(r))), MulGenerator(pad(r)))
                  = MulGenerator(Evaluate(poly, r))
    <2>1. PICK s \in Scalars : s = Evaluate(poly, r)
        BY <1>5
    <2>2. PICK x \in Scalars : x = pad(r)
        BY <1>5
    <2>3. s \in Int /\ x \in Int
        BY ScalarsAreInts
    <2>4. Add(s, x) \in Int
        BY <2>3, Closed, ScalarsAreInts
    <2>5. MulGenerator(Add(s, x)) = GAdd(MulGenerator(s), MulGenerator(x))
        BY <2>3, GeneratorHomomorphism
    <2>6. MulGenerator(Sub(Add(s, x), x)) = GSub(MulGenerator(Add(s, x)), MulGenerator(x))
        BY <2>3, <2>4, GeneratorHomomorphism
    <2>7. Sub(Add(s, x), x) = s
        BY <2>3, AddThenSub
    <2>8. QED
        BY <2>1, <2>2, <2>5, <2>6, <2>7
<1>8. CheckDealing(m, c) = Ok
    <2>1. DOMAIN m.encrypted_shares = PublicShareReceivers(c, m.dealer)
        BY <1>2 DEF enc, R
    <2>2. Len(m.commitment) = c.threshold
        BY <1>2, <1>3, <1>4, EvaluateClosed
    <2>3. QED
        BY <1>2, <2>1, <2>2, CheckPasses
<1>9. \A r \in R : sc[r] = GSub(MulGenerator(m.encrypted_shares[r].encrypted_share),
                               m.encrypted_shares[r].pad_commitment)
    BY <1>6, <1>7
<1>10. m.proof = DealingStatements(m, c)
    BY <1>2, <1>9 DEF DealingStatements, R
<1>11. ASSUME NEW r \in R
       PROVE  StatementHolds(StatementForReceiver(c, m, r, sc[r]))
    <2> DEFINE st == StatementForReceiver(c, m, r, sc[r])
    <2>1. sc[r] = MulGenerator(Evaluate(poly, r))
        OBVIOUS
    <2>2. /\ st.share_commitment = MulGenerator(Evaluate(poly, r))
          /\ st.commitment = Commit(poly) /\ st.receiver = r /\ st.threshold = c.threshold
          /\ st.dealer_public_key = c.registry[d]
          /\ st.pad_commitment = MulGenerator(pad(r))
          /\ st.encrypted_share = Add(Evaluate(poly, r), pad(r))
          /\ st.receiver_public_key = c.registry[r]
          /\ st.msg_i = n /\ st.beta = c.beta
        <3> HIDE DEF sc, pad
        <3>1. QED
            BY <1>2, <1>6, <2>1 DEF StatementForReceiver
    <2>3. Len(Commit(poly)) = c.threshold
        BY <1>3, <1>4, EvaluateClosed
    <2>4. pad(r) = DerivePad(n, c.beta, sk, c.registry[r], c.registry[r])
        BY DEF DealerPad
    <2> HIDE DEF st, pad
    <2>5. QED
        <3>1. st.share_commitment = PublicKeyShare(st.commitment, st.receiver)
            BY <1>5, <2>2
        <3>2. MulGenerator(st.encrypted_share) = GAdd(st.share_commitment, st.pad_commitment)
            BY <1>7, <2>2
        <3>3. /\ MulGenerator(sk) = st.dealer_public_key
              /\ st.pad_commitment =
                   MulGenerator(DerivePad(st.msg_i, st.beta, sk,
                                          st.receiver_public_key, st.receiver_public_key))
            BY <2>2, <2>4
        <3>4. StatementHolds(st)
            BY <2>2, <2>3, <3>1, <3>2, <3>3, Zenon DEF StatementHolds
        <3>5. QED
            BY <3>4 DEF st
<1>12. VerifyBatch(DealingStatements(m, c), m.proof)
    <2>1. DOMAIN DealingStatements(m, c) = R
        BY <1>2 DEF DealingStatements, R
    <2>2. \A r \in R : DealingStatements(m, c)[r] = StatementForReceiver(c, m, r, sc[r])
        BY <1>2, <1>10
    <2>3. QED
        BY <1>10, <1>11, <2>1, <2>2 DEF VerifyBatch
<1>13. VerifyDealing(m, c) = Ok
    BY <1>8, <1>12, VerifiedDealing
<1>14. ASSUME NEW r \in R, NEW skr \in Scalars, c.registry[r] = MulGenerator(skr)
       PROVE  /\ DecryptedValue(r, skr, m, c) = Evaluate(poly, r)
              /\ DecryptShare(r, skr, m, c) = Ok
    <2>1. pad(r) = ReceiverPad(c, d, r, skr, n)
        BY <1>14, PadsMatch
    <2>2. DecryptedValue(r, skr, m, c) = Sub(Add(Evaluate(poly, r), pad(r)), pad(r))
        BY <1>2, <1>6, <2>1 DEF DecryptedValue
    <2>3. Sub(Add(Evaluate(poly, r), pad(r)), pad(r)) = Evaluate(poly, r)
        BY <1>5, AddThenSub, ScalarsAreInts
    <2>4. VerifyShare(m.commitment, r, DecryptedValue(r, skr, m, c))
        BY <1>2, <1>5, <2>2, <2>3 DEF VerifyShare
    <2>5. r \in DOMAIN m.encrypted_shares /\ r \in DOMAIN c.registry
        BY <1>2, <1>3 DEF enc
    <2>6. QED
        BY <1>2, <2>2, <2>3, <2>4, <2>5 DEF DecryptShare
<1>15. QED
    BY <1>13, <1>14 DEF R

(***************************************************************************)
(* The inductive invariant.                                                *)
(***************************************************************************)
(* What create_dealing returned to p, in some configuration. *)
Created(dealing, p) ==
    \E c \in Configs, n \in Nonces : \E poly \in [1..c.threshold -> Scalars] :
        /\ p \in DOMAIN c.registry
        /\ dealing = MakeDealing(c, p, Secret[p], poly, n)

(* The proof of a published message is about that message's root. *)
Authored(m) ==
    /\ m.transcript_root = DealingRoot(m)
    /\ \A r \in DOMAIN m.proof :
        m.proof[r].dealer = m.dealer /\ m.proof[r].transcript_root = m.transcript_root

(* What is published: typed messages with proofs about themselves, and from *)
(* an honest dealer only what create_dealing returned.                      *)
Published ==
    \A p \in Parties :
        /\ \A m \in sent[p] :
            /\ IsMessage(m) /\ Authored(m)
            /\ p \in Honest => \E dealing : Created(dealing, p) /\ m = dealing.message
        /\ own[p] # NoDealing => Created(own[p], p)

(* The proofs there are: the transport can copy a proof, not make one. *)
ProofPool == {<< >>} \cup {s.proof : s \in Sent}

(* What is delivered: typed messages with proofs from the pool and, in an  *)
(* application that checks, only messages that were accepted.              *)
Delivered ==
    \A r \in Completers : \A k \in DOMAIN peers[r] :
        /\ IsMessage(peers[r][k]) /\ peers[r][k].proof \in ProofPool
        /\ Checked => /\ k # r /\ peers[r][k].dealer = k
                      /\ VerifyDealingForReceiver(r, Secret[r], peers[r][k], config[r]) = Ok

(* Every root in a completion root was published by its dealer. *)
RootsPublished(output) ==
    \A d \in DOMAIN output.transcript_root :
        \E m \in sent[d] : m.transcript_root = output.transcript_root[d]

(* The output is p's, and its secret share belongs to p's public key share. *)
ShareOf(output, p) ==
    /\ OutputFor(output, p)
    /\ p \in DOMAIN output.public_key_shares
    /\ output.secret_share.value \in Scalars
    /\ MulGenerator(output.secret_share.value) = output.public_key_shares[p]

(* What complete has returned. *)
Finished ==
    \A p \in Completed : /\ SoundOutput(out[p].output, config[p])
                         /\ ShareOf(out[p].output, p)
                         /\ RootsPublished(out[p].output)

(* The inductive invariant. *)
IInv == TypeOK /\ Published /\ Delivered /\ Finished

(***************************************************************************)
(* The constants.                                                          *)
(***************************************************************************)
(* Every configuration in use is a typed one, of parties with known secrets. *)
LEMMA ConfigsAreConfigs ==
    ASSUME NEW c \in Configs
    PROVE  /\ IsConfig(c) /\ c.threshold \in Nat \ {0}
           /\ DOMAIN c.registry # {} /\ DOMAIN c.registry \subseteq Parties
           /\ \A p \in DOMAIN c.registry : c.registry[p] = MulGenerator(Secret[p])
<1>1. /\ IsFiniteSet(DOMAIN c.registry) /\ DOMAIN c.registry \subseteq Parties
      /\ c.threshold \in 1..Cardinality(DOMAIN c.registry) /\ c.beta \in Betas
      /\ \A p \in DOMAIN c.registry : c.registry[p] = MulGenerator(Secret[p])
    BY DkgAssumption
<1>2. \A p \in Parties : p \in Nat /\ Secret[p] \in Scalars
    BY DkgAssumption
<1>3. \A p \in DOMAIN c.registry : c.registry[p] \in Scalars
    BY <1>1, <1>2, GeneratorHomomorphism, ScalarsAreInts
<1>4. Cardinality(DOMAIN c.registry) \in Nat
    BY <1>1, FS_CardinalityType
<1>5. c.threshold \in Nat \ {0} /\ DOMAIN c.registry # {}
    <2>1. Cardinality({}) = 0
        BY FS_EmptySet
    <2>2. QED
        BY <1>1, <1>4, <2>1
<1>6. QED
    BY <1>1, <1>2, <1>3, <1>5 DEF IsConfig

(* Polynomials are drawn with scalar coefficients. *)
LEMMA DrawnPolynomial ==
    ASSUME NEW c \in Configs, NEW poly \in DrawnPolynomials(c)
    PROVE  poly \in [1..c.threshold -> Scalars]
<1> DEFINE Rests == [1..(c.threshold - 1) -> SampledCoeffs]
           Joined(s, rest) == <<s>> \o rest
<1>1. DrawnPolynomials(c) = {Joined(s, rest) : s \in SampledSecrets, rest \in Rests}
    BY DEF DrawnPolynomials
<1> HIDE DEF Joined, Rests
<1>2. PICK s \in SampledSecrets, rest \in Rests : poly = Joined(s, rest)
    BY <1>1
<1> USE DEF Joined, Rests
<1>3. PICK t : t = c.threshold /\ t \in Nat \ {0}
    BY ConfigsAreConfigs
<1>4. s \in Scalars /\ SampledCoeffs \subseteq Scalars
    BY DkgAssumption
<1>5. <<s>> \in Seq(Scalars) /\ Len(<<s>>) = 1
    BY <1>4
<1>6. rest \in [1..(t - 1) -> Scalars] /\ t - 1 \in Nat
    BY <1>3, <1>4
<1>7. rest \in Seq(Scalars) /\ Len(rest) = t - 1
    BY <1>6
<1>8. poly \in Seq(Scalars) /\ Len(poly) = 1 + (t - 1)
    BY <1>2, <1>5, <1>7, ConcatProperties
<1>9. QED
    BY <1>3, <1>8

(* What create_dealing returns. *)
LEMMA CreatedDealing ==
    ASSUME NEW p \in Parties, NEW dealing, Created(dealing, p)
    PROVE  /\ IsMessage(dealing.message) /\ Authored(dealing.message)
           /\ dealing.message.dealer = p
           /\ dealing = [message |-> dealing.message,
                         private_share |-> [participant |-> p,
                                            value |-> dealing.private_share.value]]
           /\ dealing.private_share.participant = p
           /\ dealing.private_share.value \in Scalars
<1>1. PICK c \in Configs, n \in Nonces :
        \E poly \in [1..c.threshold -> Scalars] :
            p \in DOMAIN c.registry /\ dealing = MakeDealing(c, p, Secret[p], poly, n)
    BY DEF Created
<1>2. PICK poly \in [1..c.threshold -> Scalars] :
        p \in DOMAIN c.registry /\ dealing = MakeDealing(c, p, Secret[p], poly, n)
    BY <1>1
<1>3. poly \in Seq(Scalars) /\ Secret[p] \in Scalars /\ IsConfig(c)
    BY ConfigsAreConfigs, DkgAssumption
<1>4. IsMessage(dealing.message) /\ dealing.private_share.value \in Scalars
    BY <1>2, <1>3, MadeIsMessage
<1>5. Made(dealing, c, p, Secret[p], poly, n)
    BY <1>2, MakeDealingMade
<1>6. dealing = [message |-> dealing.message, private_share |-> dealing.private_share]
      /\ dealing.private_share = [participant |-> p, value |-> Evaluate(poly, p)]
    BY <1>5 DEF Made
<1>7. PICK enc, sc : Sealed(dealing.message, c, p, n, Commit(poly), enc, sc)
    BY <1>5 DEF Made
<1>8. dealing.message.dealer = p /\ Authored(dealing.message)
    BY <1>7 DEF Sealed, Authored, StatementForReceiver
<1>9. QED
    BY <1>4, <1>6, <1>8

(* What a faulty dealer sends is typed, and proved about itself. *)
LEMMA FaultySent ==
    ASSUME NEW c \in Configs, NEW p \in DOMAIN c.registry, NEW n \in Nonces,
           NEW poly \in [1..c.threshold -> Scalars], NEW m \in FaultyMessages(c, p, poly, n)
    PROVE  IsMessage(m) /\ Authored(m) /\ m.dealer = p
<1>1. /\ IsConfig(c) /\ p \in Parties /\ p \in Nat /\ Secret[p] \in Scalars
      /\ c.threshold \in Nat /\ 1 \in Scalars
    <2>1. 1 \in Scalars
        BY PAssumption DEF Scalars
    <2>2. QED
        BY <2>1, ConfigsAreConfigs, DkgAssumption
<1>2. poly \in Seq(Scalars) /\ Append(poly, 1) \in Seq(Scalars)
    BY <1>1
<1>3. ASSUME NEW dealing, dealing = MakeDealing(c, p, Secret[p], Append(poly, 1), n)
      PROVE  IsMessage(dealing.message) /\ Authored(dealing.message)
             /\ dealing.message.dealer = p
    <2>1. IsMessage(dealing.message)
        BY <1>1, <1>2, <1>3, MadeIsMessage
    <2>2. Made(dealing, c, p, Secret[p], Append(poly, 1), n)
        BY <1>3, MakeDealingMade
    <2>3. PICK comm, enc, sc : Sealed(dealing.message, c, p, n, comm, enc, sc)
        BY <2>2 DEF Made
    <2>4. QED
        BY <2>1, <2>3 DEF Sealed, Authored, StatementForReceiver
<1>4. ASSUME NEW victim, NEW so \in {0, 1}, NEW po \in {0, 1},
             NEW x, x = FaultyMessage(c, p, poly, n, victim, so, po)
      PROVE  IsMessage(x) /\ Authored(x) /\ x.dealer = p
    <2> DEFINE receivers == PublicShareReceivers(c, p)
               offset(r, amount) == IF r = victim THEN amount ELSE 0
               share == [r \in receivers |-> Add(Evaluate(poly, r), offset(r, so))]
               pad(r) == Add(DealerPad(c, r, Secret[p], n), offset(r, po))
               enc == [r \in receivers |-> EncryptShare(share[r], pad(r))]
               sc == [r \in receivers |-> MulGenerator(share[r])]
    <2>1. x = SealMessage(c, p, n, Commit(poly), enc, sc)
        BY <1>4, Zenon DEF FaultyMessage
    <2>2. receivers \subseteq DOMAIN c.registry /\ receivers \subseteq Nat
        BY <1>1 DEF PublicShareReceivers, IsConfig
    <2> HIDE DEF receivers
    <2>3. \A r : offset(r, so) \in Int /\ offset(r, po) \in Int
        OBVIOUS
    <2> HIDE DEF offset
    <2>4. ASSUME NEW r \in receivers PROVE share[r] \in Int /\ pad(r) \in Int
        <3>1. Evaluate(poly, r) \in Int
            BY <1>2, <2>2, EvaluateClosed, ScalarsAreInts
        <3>2. c.registry[r] \in Scalars /\ c.beta \in Betas
            BY <1>1, <2>2 DEF IsConfig
        <3>3. DealerPad(c, r, Secret[p], n) \in Int
            BY <1>1, <3>2, PadClosed, ScalarsAreInts DEF DealerPad
        <3>4. share[r] = Add(Evaluate(poly, r), offset(r, so))
            OBVIOUS
        <3>5. Add(Evaluate(poly, r), offset(r, so)) \in Scalars /\ pad(r) \in Scalars
            BY <2>3, <3>1, <3>3, Closed
        <3>6. QED
            BY <3>4, <3>5, ScalarsAreInts
    <2> HIDE DEF share, pad
    <2>5. enc \in [receivers -> [pad_commitment : Scalars, encrypted_share : Scalars]]
        BY <2>4, EncryptClosed
    <2>6. Commit(poly) \in Seq(Scalars)
        BY <1>1, <1>2, EvaluateClosed
    <2> HIDE DEF enc, sc
    <2>7. IsMessage(x)
        BY <1>1, <2>1, <2>2, <2>5, <2>6, SealedIsMessage
    <2>8. Sealed(x, c, p, n, Commit(poly), enc, sc)
        BY <2>1, SealedMessage
    <2>9. QED
        BY <2>7, <2>8 DEF Sealed, Authored, StatementForReceiver
<1>5. ASSUME NEW victim, NEW offsets \in {<<1, 0>>, <<0, 1>>},
             m = FaultyMessage(c, p, poly, n, victim, offsets[1], offsets[2])
      PROVE  IsMessage(m) /\ Authored(m) /\ m.dealer = p
    <2>1. offsets[1] \in {0, 1} /\ offsets[2] \in {0, 1}
        OBVIOUS
    <2>2. QED
        BY <1>4, <1>5, <2>1
<1>6. QED
    BY <1>3, <1>5 DEF FaultyMessages

(***************************************************************************)
(* The transport.                                                          *)
(***************************************************************************)

(* A message from its fields. *)
Message(session, registry_root, dealer, msg_i, commitment, encrypted_shares, proof, root) ==
    [session |-> session, registry_root |-> registry_root, dealer |-> dealer,
     msg_i |-> msg_i, commitment |-> commitment, encrypted_shares |-> encrypted_shares,
     proof |-> proof, transcript_root |-> root]

(* Typed fields make a typed message. *)
LEMMA TypedFields ==
    ASSUME NEW s, NEW g, NEW d \in Nat, NEW n \in Nonces,
           NEW comm \in Seq(Scalars), NEW enc, DOMAIN enc \in SUBSET Nat,
           enc \in [DOMAIN enc -> [pad_commitment : Scalars, encrypted_share : Scalars]],
           NEW pf, NEW root
    PROVE  /\ IsMessage(Message(s, g, d, n, comm, enc, pf, root))
           /\ Message(s, g, d, n, comm, enc, pf, root).proof = pf
BY DEF IsMessage, Message

(* Replacing one field of a message leaves the others alone. *)
LEMMA WithField ==
    ASSUME NEW m, IsMessage(m), NEW v
    PROVE  /\ [m EXCEPT !.session = v] =
                Message(v, m.registry_root, m.dealer, m.msg_i, m.commitment, m.encrypted_shares, m.proof, m.transcript_root)
           /\ [m EXCEPT !.registry_root = v] =
                Message(m.session, v, m.dealer, m.msg_i, m.commitment, m.encrypted_shares, m.proof, m.transcript_root)
           /\ [m EXCEPT !.dealer = v] =
                Message(m.session, m.registry_root, v, m.msg_i, m.commitment, m.encrypted_shares, m.proof, m.transcript_root)
           /\ [m EXCEPT !.msg_i = v] =
                Message(m.session, m.registry_root, m.dealer, v, m.commitment, m.encrypted_shares, m.proof, m.transcript_root)
           /\ [m EXCEPT !.commitment = v] =
                Message(m.session, m.registry_root, m.dealer, m.msg_i, v, m.encrypted_shares, m.proof, m.transcript_root)
           /\ [m EXCEPT !.encrypted_shares = v] =
                Message(m.session, m.registry_root, m.dealer, m.msg_i, m.commitment, v, m.proof, m.transcript_root)
           /\ [m EXCEPT !.proof = v] =
                Message(m.session, m.registry_root, m.dealer, m.msg_i, m.commitment, m.encrypted_shares, v, m.transcript_root)
           /\ [m EXCEPT !.transcript_root = v] =
                Message(m.session, m.registry_root, m.dealer, m.msg_i, m.commitment, m.encrypted_shares, m.proof, v)
BY DEF IsMessage, Message

(* A map of encrypted shares. *)
IsCiphertexts(e) ==
    /\ DOMAIN e \in SUBSET Nat
    /\ e \in [DOMAIN e -> [pad_commitment : Scalars, encrypted_share : Scalars]]

(* A message's fields are typed. *)
LEMMA MessageFields ==
    ASSUME NEW m, IsMessage(m)
    PROVE  /\ m.dealer \in Nat /\ m.msg_i \in Nonces /\ m.commitment \in Seq(Scalars)
           /\ IsCiphertexts(m.encrypted_shares)
BY DEF IsMessage, IsCiphertexts

(* Replacing a field by a typed value keeps a message typed. *)
LEMMA RetypedField ==
    ASSUME NEW m, IsMessage(m)
    PROVE  \A x :
             \/ \E v : x = [m EXCEPT !.session = v]
             \/ \E v : x = [m EXCEPT !.registry_root = v]
             \/ \E v : x = [m EXCEPT !.transcript_root = v]
             \/ \E v \in Nat : x = [m EXCEPT !.dealer = v]
             \/ \E v \in Nonces : x = [m EXCEPT !.msg_i = v]
             \/ \E v \in Seq(Scalars) : x = [m EXCEPT !.commitment = v]
             \/ \E v : IsCiphertexts(v) /\ x = [m EXCEPT !.encrypted_shares = v]
             => IsMessage(x) /\ x.proof = m.proof
<1> TAKE x
<1>1. /\ m.dealer \in Nat /\ m.msg_i \in Nonces /\ m.commitment \in Seq(Scalars)
      /\ IsCiphertexts(m.encrypted_shares)
    BY MessageFields
<1>2. ASSUME NEW s, NEW g, NEW d \in Nat, NEW n \in Nonces, NEW comm \in Seq(Scalars),
             NEW enc, IsCiphertexts(enc), NEW root,
             x = Message(s, g, d, n, comm, enc, m.proof, root)
      PROVE  IsMessage(x) /\ x.proof = m.proof
    BY <1>2, TypedFields DEF IsCiphertexts
<1>3. ASSUME NEW v, x = [m EXCEPT !.session = v]
      PROVE  IsMessage(x) /\ x.proof = m.proof
    <2>1. x = Message(v, m.registry_root, m.dealer, m.msg_i, m.commitment, m.encrypted_shares, m.proof, m.transcript_root)
        BY <1>3, WithField, ZenonT(30)
    <2>2. QED
        BY <1>1, <1>2, <2>1
<1>4. ASSUME NEW v, x = [m EXCEPT !.registry_root = v]
      PROVE  IsMessage(x) /\ x.proof = m.proof
    <2>1. x = Message(m.session, v, m.dealer, m.msg_i, m.commitment, m.encrypted_shares, m.proof, m.transcript_root)
        BY <1>4, WithField, ZenonT(30)
    <2>2. QED
        BY <1>1, <1>2, <2>1
<1>5. ASSUME NEW v, x = [m EXCEPT !.transcript_root = v]
      PROVE  IsMessage(x) /\ x.proof = m.proof
    <2>1. x = Message(m.session, m.registry_root, m.dealer, m.msg_i, m.commitment, m.encrypted_shares, m.proof, v)
        BY <1>5, WithField, ZenonT(30)
    <2>2. QED
        BY <1>1, <1>2, <2>1
<1>6. ASSUME NEW v \in Nat, x = [m EXCEPT !.dealer = v]
      PROVE  IsMessage(x) /\ x.proof = m.proof
    <2>1. x = Message(m.session, m.registry_root, v, m.msg_i, m.commitment, m.encrypted_shares, m.proof, m.transcript_root)
        BY <1>6, WithField, ZenonT(30)
    <2>2. QED
        BY <1>1, <1>2, <2>1
<1>7. ASSUME NEW v \in Nonces, x = [m EXCEPT !.msg_i = v]
      PROVE  IsMessage(x) /\ x.proof = m.proof
    <2>1. x = Message(m.session, m.registry_root, m.dealer, v, m.commitment, m.encrypted_shares, m.proof, m.transcript_root)
        BY <1>7, WithField, ZenonT(30)
    <2>2. QED
        BY <1>1, <1>2, <2>1
<1>8. ASSUME NEW v \in Seq(Scalars), x = [m EXCEPT !.commitment = v]
      PROVE  IsMessage(x) /\ x.proof = m.proof
    <2>1. x = Message(m.session, m.registry_root, m.dealer, m.msg_i, v, m.encrypted_shares, m.proof, m.transcript_root)
        BY <1>8, WithField, ZenonT(30)
    <2>2. QED
        BY <1>1, <1>2, <2>1
<1>9. ASSUME NEW v, IsCiphertexts(v), x = [m EXCEPT !.encrypted_shares = v]
      PROVE  IsMessage(x) /\ x.proof = m.proof
    <2>1. x = Message(m.session, m.registry_root, m.dealer, m.msg_i, m.commitment, v, m.proof, m.transcript_root)
        BY <1>9, WithField, ZenonT(30)
    <2>2. IsCiphertexts(v)
        BY <1>9
    <2>3. QED
        BY <1>1, <1>2, <2>1, <2>2
<1>10. QED
    BY <1>3, <1>4, <1>5, <1>6, <1>7, <1>8, <1>9, Zenon

(* Replacing the proof. *)
LEMMA WithProof ==
    ASSUME NEW m, IsMessage(m), NEW v, NEW x, x = [m EXCEPT !.proof = v]
    PROVE  IsMessage(x) /\ x.proof = v
<1>1. x = Message(m.session, m.registry_root, m.dealer, m.msg_i, m.commitment, m.encrypted_shares, v, m.transcript_root)
    BY WithField
<1>2. QED
    BY <1>1, MessageFields, TypedFields DEF IsCiphertexts

(* Replacing an encrypted share, or a pad commitment. *)
LEMMA WithCiphertext ==
    ASSUME NEW e, IsCiphertexts(e), NEW r \in DOMAIN e, NEW v \in Scalars
    PROVE  /\ IsCiphertexts([e EXCEPT ![r] = [e[r] EXCEPT !.encrypted_share = v]])
           /\ IsCiphertexts([e EXCEPT ![r] = [e[r] EXCEPT !.pad_commitment = v]])
<1> DEFINE S == [pad_commitment : Scalars, encrypted_share : Scalars]
<1>1. e \in [DOMAIN e -> S] /\ DOMAIN e \in SUBSET Nat /\ e[r] \in S
    BY DEF IsCiphertexts
<1>2. [e[r] EXCEPT !.encrypted_share = v] \in S /\ [e[r] EXCEPT !.pad_commitment = v] \in S
    <2>1. PICK a \in Scalars, b \in Scalars : e[r] = [pad_commitment |-> a, encrypted_share |-> b]
        BY <1>1
    <2>2. /\ [e[r] EXCEPT !.encrypted_share = v] = [pad_commitment |-> a, encrypted_share |-> v]
          /\ [e[r] EXCEPT !.pad_commitment = v] = [pad_commitment |-> v, encrypted_share |-> b]
        BY <2>1
    <2>3. /\ [pad_commitment |-> a, encrypted_share |-> v] \in S
          /\ [pad_commitment |-> v, encrypted_share |-> b] \in S
        OBVIOUS
    <2> HIDE DEF S
    <2>4. QED
        BY <2>2, <2>3, Zenon
<1> HIDE DEF S
<1>3. ASSUME NEW s \in S PROVE IsCiphertexts([e EXCEPT ![r] = s])
    <2>1. [e EXCEPT ![r] = s] \in [DOMAIN e -> S]
        BY <1>1
    <2>2. QED
        BY <1>1, <2>1 DEF IsCiphertexts, S
<1>4. QED
    BY <1>2, <1>3

(* A tampered message is still a typed message, and its proof is the old   *)
(* one or another one there is: nobody forges proofs.                      *)
LEMMA Tampered ==
    ASSUME NEW m, IsMessage(m), NEW kind \in TamperKinds, NEW x \in Tamper(kind, m)
    PROVE  IsMessage(x) /\ (x.proof = m.proof \/ x.proof \in ProofPool)
<1> DEFINE E == m.encrypted_shares
           Session == {[m EXCEPT !.session = c.session] : c \in Configs}
           Registry == {[m EXCEPT !.registry_root = RegistryRoot(c.registry)] : c \in Configs}
           Dealer == {[m EXCEPT !.dealer = p] : p \in Parties}
           Msg == {[m EXCEPT !.msg_i = n] : n \in Nonces}
           Comm == {[m EXCEPT !.commitment[1] = GAdd(@, Gen)]}
           Degree == {[m EXCEPT !.commitment = Append(@, Identity)]}
           EncShare == {[m EXCEPT !.encrypted_shares[r].encrypted_share = Add(@, 1)] :
                          r \in DOMAIN m.encrypted_shares}
           PadComm == {[m EXCEPT !.encrypted_shares[r].pad_commitment = GAdd(@, Gen)] :
                         r \in DOMAIN m.encrypted_shares}
           Both == {[m EXCEPT !.encrypted_shares[r].encrypted_share = Add(@, 1),
                              !.encrypted_shares[r].pad_commitment = GAdd(@, Gen)] :
                      r \in DOMAIN m.encrypted_shares}
           Drop == {[m EXCEPT !.encrypted_shares = Restrict(@, DOMAIN @ \ {r})] :
                      r \in DOMAIN m.encrypted_shares}
           Extra == {[m EXCEPT !.encrypted_shares =
                        WithShare(@, p, [pad_commitment |-> Identity, encrypted_share |-> 0])] :
                      p \in Parties \ DOMAIN m.encrypted_shares}
           Proof == {[m EXCEPT !.proof = v] : v \in {<< >>} \cup {s.proof : s \in Sent}}
           Root == {[m EXCEPT !.transcript_root =
                       DealingRoot([m EXCEPT !.commitment[1] = GAdd(@, Gen)])]}
<1>1. Tamper(kind, m) =
        CASE kind = "session"  -> Session
          [] kind = "registry" -> Registry
          [] kind = "dealer"   -> Dealer
          [] kind = "msg_i"    -> Msg
          [] kind = "commitment" -> Comm
          [] kind = "degree"   -> Degree
          [] kind = "encrypted_share" -> EncShare
          [] kind = "pad_commitment" -> PadComm
          [] kind = "share_and_pad" -> Both
          [] kind = "drop_share" -> Drop
          [] kind = "extra_share" -> Extra
          [] kind = "proof"    -> Proof
          [] kind = "root"     -> Root
    BY DEF Tamper
<1>2. /\ m.dealer \in Nat /\ m.msg_i \in Nonces /\ m.commitment \in Seq(Scalars)
      /\ IsCiphertexts(E)
    BY MessageFields
<1>3. x \in Session => \E v : x = [m EXCEPT !.session = v]
    BY Zenon
<1>4. x \in Registry => \E v : x = [m EXCEPT !.registry_root = v]
    BY Zenon
<1>5. x \in Dealer => \E v \in Nat : x = [m EXCEPT !.dealer = v]
    <2>1. \A p \in Parties : p \in Nat
        BY DkgAssumption
    <2>2. QED
        BY <2>1, Zenon
<1>6. x \in Msg => \E v \in Nonces : x = [m EXCEPT !.msg_i = v]
    BY Zenon
<1>7. x \in Comm => \E v \in Seq(Scalars) : x = [m EXCEPT !.commitment = v]
    <2>1. [m.commitment EXCEPT ![1] = GAdd(m.commitment[1], Gen)] \in Seq(Scalars)
        <3>1. CASE 1 \in 1..Len(m.commitment)
            <4>1. m.commitment[1] \in Int /\ Gen \in Int
                BY <1>2, <3>1, ElementOfSeq, ScalarsAreInts
            <4>2. GAdd(m.commitment[1], Gen) \in Scalars
                BY <4>1, Closed
            <4>3. QED
                BY <1>2, <3>1, <4>2, ExceptSeq
        <3>2. CASE 1 \notin DOMAIN m.commitment
            <4>1. [m.commitment EXCEPT ![1] = GAdd(m.commitment[1], Gen)] = m.commitment
                BY <1>2, <3>2
            <4>2. QED
                BY <1>2, <4>1
        <3>3. QED
            BY <1>2, <3>1, <3>2
    <2>2. QED
        BY <2>1, Zenon
<1>8. x \in Degree => \E v \in Seq(Scalars) : x = [m EXCEPT !.commitment = v]
    <2>1. Append(m.commitment, Identity) \in Seq(Scalars)
        BY <1>2, ScalarsAreInts
    <2>2. QED
        BY <2>1, Zenon
<1>9. ASSUME NEW e, IsCiphertexts(e), NEW r \in DOMAIN e
      PROVE  /\ IsCiphertexts([e EXCEPT ![r] =
                    [e[r] EXCEPT !.encrypted_share = Add(e[r].encrypted_share, 1)]])
             /\ IsCiphertexts([e EXCEPT ![r] =
                    [e[r] EXCEPT !.pad_commitment = GAdd(e[r].pad_commitment, Gen)]])
    <2>1. e[r].encrypted_share \in Int /\ e[r].pad_commitment \in Int /\ 1 \in Int /\ Gen \in Int
        BY <1>9, ScalarsAreInts DEF IsCiphertexts
    <2>2. Add(e[r].encrypted_share, 1) \in Scalars /\ GAdd(e[r].pad_commitment, Gen) \in Scalars
        BY <2>1, Closed
    <2>3. QED
        BY <1>9, <2>2, WithCiphertext, Zenon
<1>10. x \in EncShare => \E v : IsCiphertexts(v) /\ x = [m EXCEPT !.encrypted_shares = v]
    BY <1>2, <1>9, Zenon
<1>11. x \in PadComm => \E v : IsCiphertexts(v) /\ x = [m EXCEPT !.encrypted_shares = v]
    BY <1>2, <1>9, Zenon
<1>12. ASSUME x \in Both PROVE IsMessage(x) /\ x.proof = m.proof
    <2>1. PICK r \in DOMAIN E :
            x = [m EXCEPT !.encrypted_shares[r].encrypted_share = Add(@, 1),
                          !.encrypted_shares[r].pad_commitment = GAdd(@, Gen)]
        BY <1>12, Zenon
    <2> DEFINE A == [E EXCEPT ![r] = [E[r] EXCEPT !.encrypted_share = Add(E[r].encrypted_share, 1)]]
               y == [m EXCEPT !.encrypted_shares = A]
               w == GAdd(E[r].pad_commitment, Gen)
               ye == y.encrypted_shares
    <2>2. x = [y EXCEPT !.encrypted_shares = [ye EXCEPT ![r] = [ye[r] EXCEPT !.pad_commitment = w]]]
        BY <2>1, Zenon
    <2>3. IsCiphertexts(A)
        BY <1>2, <1>9, Zenon
    <2>4. IsMessage(y) /\ y.proof = m.proof
        BY <2>3, RetypedField, Zenon
    <2>5. w \in Scalars
        <3>1. E[r].pad_commitment \in Int /\ Gen \in Int
            BY <1>2, ScalarsAreInts DEF IsCiphertexts
        <3>2. QED
            BY <3>1, Closed
    <2>6. ye = A
        <3>1. y = Message(m.session, m.registry_root, m.dealer, m.msg_i, m.commitment, A, m.proof, m.transcript_root)
            BY WithField, ZenonT(30)
        <3> HIDE DEF A, y
        <3>2. QED
            BY <3>1 DEF Message
    <2>7. r \in DOMAIN A
        BY <2>3 DEF IsCiphertexts
    <2> HIDE DEF y, w, A, Both
    <2>8. IsCiphertexts([ye EXCEPT ![r] = [ye[r] EXCEPT !.pad_commitment = w]])
        BY <2>3, <2>5, <2>6, <2>7, WithCiphertext, Zenon
    <2>9. QED
        BY <2>2, <2>4, <2>8, RetypedField, Zenon
<1>13. x \in Drop => \E v : IsCiphertexts(v) /\ x = [m EXCEPT !.encrypted_shares = v]
    <2>1. ASSUME NEW r \in DOMAIN E PROVE IsCiphertexts(Restrict(E, DOMAIN E \ {r}))
        BY <1>2 DEF IsCiphertexts, Restrict
    <2>2. QED
        BY <2>1, Zenon
<1>14. x \in Extra => \E v : IsCiphertexts(v) /\ x = [m EXCEPT !.encrypted_shares = v]
    <2>1. ASSUME NEW p \in Parties \ DOMAIN E
          PROVE  IsCiphertexts(WithShare(E, p, [pad_commitment |-> Identity, encrypted_share |-> 0]))
        <3>1. p \in Nat /\ Identity \in Scalars /\ 0 \in Scalars
            BY DkgAssumption, ScalarsAreInts
        <3>2. QED
            BY <1>2, <3>1 DEF IsCiphertexts, WithShare
    <2>2. QED
        BY <2>1, Zenon
<1>15. ASSUME x \in Proof PROVE IsMessage(x) /\ x.proof \in ProofPool
    <2>1. PICK v \in ProofPool : x = [m EXCEPT !.proof = v]
        BY <1>15, Zenon DEF ProofPool
    <2> HIDE DEF Proof
    <2>2. IsMessage(x) /\ x.proof = v
        BY <2>1, WithProof, Zenon
    <2>3. QED
        BY <2>2
<1>16. x \in Root => \E v : x = [m EXCEPT !.transcript_root = v]
    BY Zenon
<1> HIDE DEF Session, Registry, Dealer, Msg, Comm, Degree, EncShare, PadComm, Both, Drop, Extra, Proof, Root
<1>17. x \in Session \cup Registry \cup Dealer \cup Msg \cup Comm \cup Degree
              \cup EncShare \cup PadComm \cup Both \cup Drop \cup Extra \cup Proof \cup Root
    BY <1>1 DEF TamperKinds
<1>18. QED
    BY <1>3, <1>4, <1>5, <1>6, <1>7, <1>8, <1>10, <1>11, <1>12, <1>13, <1>14, <1>15, <1>16,
       <1>17, RetypedField, Zenon

(* Whatever the transport delivers is a typed message with a proof that    *)
(* some dealer made, or none.                                              *)
LEMMA DeliverableMessage ==
    ASSUME Published, NEW m \in Deliverable
    PROVE  IsMessage(m) /\ m.proof \in ProofPool
<1>1. ASSUME NEW s \in Sent PROVE IsMessage(s) /\ s.proof \in ProofPool
    BY DEF Sent, Published, ProofPool
<1>2. CASE m \in Sent
    BY <1>1, <1>2
<1>3. ASSUME NEW s \in Sent, m \in Corrupted(s)
      PROVE  IsMessage(m) /\ m.proof \in ProofPool
    <2> DEFINE changed == UNION {Tamper(kind, s) : kind \in Tampers}
    <2>1. ASSUME NEW x \in changed PROVE IsMessage(x) /\ x.proof \in ProofPool
        <3>1. PICK kind \in Tampers : x \in Tamper(kind, s)
            BY Zenon
        <3>2. kind \in TamperKinds
            BY DkgAssumption
        <3>3. QED
            BY <1>1, <3>1, <3>2, Tampered
    <2>2. ASSUME NEW x \in changed, m = Rerooted(x)
          PROVE  IsMessage(m) /\ m.proof \in ProofPool
        <3>1. \E v : m = [x EXCEPT !.transcript_root = v]
            BY <2>2, Zenon DEF Rerooted
        <3>2. IsMessage(x) /\ x.proof \in ProofPool
            BY <2>1
        <3> HIDE DEF changed
        <3>3. IsMessage(m) /\ m.proof = x.proof
            BY <3>1, <3>2, RetypedField, Zenon
        <3>4. QED
            BY <3>2, <3>3
    <2>3. m \in changed \cup {Rerooted(x) : x \in changed}
        BY <1>3, Zenon DEF Corrupted
    <2> HIDE DEF changed
    <2>4. QED
        BY <2>1, <2>2, <2>3
<1>4. QED
    BY <1>2, <1>3, Zenon DEF Deliverable

(***************************************************************************)
(* The state machine.                                                      *)
(***************************************************************************)
(* A completed party's output is never the placeholder of a failed call. *)
LEMMA OutputIsSome ==
    ASSUME NEW r, NEW sk, NEW o, NEW ps, NEW c
    PROVE  CompleteOutput(r, sk, o, ps, c) # NoOutput
BY DEF CompleteOutput, NoOutput

(* What create_dealing or a faulty dealer adds to what was sent, and       *)
(* nothing else.                                                           *)
Deals(p, m) ==
    /\ sent' = [sent EXCEPT ![p] = @ \cup {m}]
    /\ UNCHANGED <<config, peers, out>>
    /\ IsMessage(m) /\ Authored(m) /\ m.dealer = p
    /\ \/ \E dealing : /\ own' = [own EXCEPT ![p] = dealing]
                       /\ Created(dealing, p) /\ m = dealing.message
       \/ p \in Faulty /\ UNCHANGED own

(* A party keeps a message. *)
Keeps(r, k, m) ==
    /\ peers' = [peers EXCEPT ![r] = WithShare(@, k, m)]
    /\ m \in Deliverable
    /\ Checked => /\ k # r /\ m.dealer = k
                  /\ VerifyDealingForReceiver(r, Secret[r], m, config[r]) = Ok
    /\ UNCHANGED <<config, own, sent, out>>

(* A party calls complete. *)
Completes(r, o, sk) ==
    /\ out[r].result # Ok
    /\ out' = [out EXCEPT ![r] =
                [result |-> CheckComplete(r, sk, o, peers[r], config[r]),
                 output |-> IF CheckComplete(r, sk, o, peers[r], config[r]) = Ok
                            THEN CompleteOutput(r, sk, o, peers[r], config[r])
                            ELSE NoOutput]]
    /\ own[r] # NoDealing
    /\ o \in OwnArguments(r) /\ sk \in SecretArguments(r)
    /\ UNCHANGED <<config, own, sent, peers>>

(* Every step deals, keeps a message, or completes. *)
LEMMA StepCases ==
    ASSUME [Next]_vars
    PROVE  \/ UNCHANGED vars
           \/ \E p \in Parties : \E m : Deals(p, m)
           \/ \E r \in Completers, k \in Parties : \E m : Keeps(r, k, m)
           \/ \E r \in Completers : \E o, sk : Completes(r, o, sk)
<1>1. ASSUME NEW p \in Parties, CreateDealing(p) PROVE \E m : Deals(p, m)
    <2>1. PICK c \in Configs, n \in DrawnNonces :
            /\ CheckIdentity(p, Secret[p], c) = Ok
            /\ \E poly \in DrawnPolynomials(c) :
                LET dealing == MakeDealing(c, p, Secret[p], poly, n)
                IN  /\ own' = [own EXCEPT ![p] = dealing]
                    /\ sent' = [sent EXCEPT ![p] = @ \cup {dealing.message}]
        BY <1>1 DEF CreateDealing
    <2>2. PICK poly \in DrawnPolynomials(c) :
                LET dealing == MakeDealing(c, p, Secret[p], poly, n)
                IN  /\ own' = [own EXCEPT ![p] = dealing]
                    /\ sent' = [sent EXCEPT ![p] = @ \cup {dealing.message}]
        BY <2>1
    <2> DEFINE dealing == MakeDealing(c, p, Secret[p], poly, n)
    <2>3. p \in DOMAIN c.registry
        BY <2>1, ErrIsNotOk DEF CheckIdentity
    <2>4. Created(dealing, p)
        <3>1. n \in Nonces
            BY DkgAssumption
        <3>2. poly \in [1..c.threshold -> Scalars]
            BY DrawnPolynomial
        <3>3. QED
            BY <2>3, <3>1, <3>2 DEF Created
    <2>5. /\ own' = [own EXCEPT ![p] = dealing]
          /\ sent' = [sent EXCEPT ![p] = @ \cup {dealing.message}]
        BY <2>2
    <2> HIDE DEF dealing
    <2>6. UNCHANGED <<config, peers, out>>
        BY <1>1 DEF CreateDealing
    <2>7. Deals(p, dealing.message)
        BY <2>4, <2>5, <2>6, CreatedDealing DEF Deals
    <2>8. QED
        BY <2>7
<1>2. ASSUME NEW p \in Parties, FaultyDealing(p) PROVE \E m : Deals(p, m)
    <2>1. PICK c \in Configs, n \in DrawnNonces :
            /\ p \in DOMAIN c.registry
            /\ \E poly \in DrawnPolynomials(c) : \E m \in FaultyMessages(c, p, poly, n) :
                sent' = [sent EXCEPT ![p] = @ \cup {m}]
        BY <1>2 DEF FaultyDealing
    <2>2. PICK poly \in DrawnPolynomials(c) : \E m \in FaultyMessages(c, p, poly, n) :
            sent' = [sent EXCEPT ![p] = @ \cup {m}]
        BY <2>1
    <2>3. PICK m \in FaultyMessages(c, p, poly, n) : sent' = [sent EXCEPT ![p] = @ \cup {m}]
        BY <2>2
    <2>4. n \in Nonces /\ poly \in [1..c.threshold -> Scalars]
        BY DrawnPolynomial, DkgAssumption
    <2>5. IsMessage(m) /\ Authored(m) /\ m.dealer = p
        BY <2>1, <2>3, <2>4, FaultySent
    <2>6. p \in Faulty /\ UNCHANGED <<config, own, peers, out>>
        BY <1>2 DEF FaultyDealing
    <2>7. QED
        BY <2>3, <2>5, <2>6 DEF Deals
<1>3. ASSUME NEW r \in Completers, Store(r) PROVE \E k \in Parties : \E m : Keeps(r, k, m)
    BY <1>3 DEF Store, Keep, Keeps
<1>4. ASSUME NEW r \in Completers, NEW d \in Parties, Receive(r, d) PROVE \E m : Keeps(r, d, m)
    BY <1>4 DEF Receive, Keep, Keeps
<1>5. ASSUME NEW r \in Completers, Complete(r) PROVE \E o, sk : Completes(r, o, sk)
    BY <1>5 DEF Complete, Completes
<1>6. QED
    BY <1>1, <1>2, <1>3, <1>4, <1>5, Zenon DEF Next

(* What was sent stays sent. *)
LEMMA SentGrows ==
    ASSUME TypeOK, [Next]_vars
    PROVE  /\ \A p \in Parties : sent[p] \subseteq sent'[p]
           /\ ProofPool \subseteq ProofPool'
<1>1. \A p \in Parties : sent[p] \subseteq sent'[p]
    BY StepCases DEF TypeOK, Deals, Keeps, Completes, vars
<1>2. Sent \subseteq Sent'
    BY <1>1 DEF Sent
<1>3. QED
    BY <1>1, <1>2 DEF ProofPool

(* Every step of dealing, receiving and completing keeps the state's shape. *)
LEMMA TypeInductive == TypeOK /\ [Next]_vars => TypeOK'
<1> SUFFICES ASSUME TypeOK, [Next]_vars PROVE TypeOK'
    OBVIOUS
<1>1. CASE UNCHANGED vars
    BY <1>1 DEF vars, TypeOK
<1>2. ASSUME NEW p \in Parties, NEW m, Deals(p, m) PROVE TypeOK'
    <2>1. CASE p \in Faulty /\ UNCHANGED own
        BY <1>2, <2>1 DEF Deals, TypeOK
    <2>2. ASSUME NEW dealing, own' = [own EXCEPT ![p] = dealing], Created(dealing, p),
                 m = dealing.message
          PROVE  TypeOK'
        <3>1. dealing.private_share.participant = p
            BY <2>2, CreatedDealing
        <3>2. QED
            BY <1>2, <2>2, <3>1 DEF Deals, TypeOK
    <2>3. QED
        BY <1>2, <2>1, <2>2 DEF Deals
<1>3. ASSUME NEW r \in Completers, NEW k \in Parties, NEW m, Keeps(r, k, m) PROVE TypeOK'
    <2>1. DOMAIN WithShare(peers[r], k, m) \subseteq Parties
        BY DEF WithShare, TypeOK
    <2>2. QED
        BY <1>3, <2>1 DEF Keeps, TypeOK
<1>4. ASSUME NEW r \in Completers, NEW o, NEW sk, Completes(r, o, sk) PROVE TypeOK'
    BY <1>4, OutputIsSome DEF Completes, TypeOK
<1>5. QED
    BY <1>1, <1>2, <1>3, <1>4, StepCases

(* Only dealing changes what is published. *)
LEMMA PublishedInductive == TypeOK /\ Published /\ [Next]_vars => Published'
<1> SUFFICES ASSUME TypeOK, Published, [Next]_vars PROVE Published'
    OBVIOUS
<1>1. CASE UNCHANGED <<sent, own>>
    BY <1>1 DEF Published
<1>2. ASSUME NEW p \in Parties, NEW m, Deals(p, m) PROVE Published'
    <2>1. /\ sent' = [sent EXCEPT ![p] = @ \cup {m}] /\ DOMAIN sent = Parties
          /\ IsMessage(m) /\ Authored(m) /\ DOMAIN own = Parties
        BY <1>2 DEF Deals, TypeOK
    <2>2. CASE p \in Faulty /\ UNCHANGED own
        BY <2>1, <2>2 DEF Published, Honest
    <2>3. ASSUME NEW dealing, own' = [own EXCEPT ![p] = dealing], Created(dealing, p),
                 m = dealing.message
          PROVE  Published'
        BY <2>1, <2>3 DEF Published
    <2>4. QED
        BY <1>2, <2>2, <2>3 DEF Deals
<1>3. QED
    BY <1>1, <1>2, StepCases DEF Keeps, Completes, vars

(* Only receiving changes what is delivered. *)
LEMMA DeliveredInductive == TypeOK /\ Published /\ Delivered /\ [Next]_vars => Delivered'
<1> SUFFICES ASSUME TypeOK, Published, Delivered, [Next]_vars PROVE Delivered'
    OBVIOUS
<1>1. ProofPool \subseteq ProofPool'
    BY SentGrows
<1>2. CASE UNCHANGED <<config, peers>>
    BY <1>1, <1>2 DEF Delivered
<1>3. ASSUME NEW r \in Completers, NEW d \in Parties, NEW m, Keeps(r, d, m)
      PROVE  Delivered'
    <2>1. IsMessage(m) /\ m.proof \in ProofPool
        BY <1>3, DeliverableMessage DEF Keeps
    <2>2. ASSUME NEW q \in Completers, NEW k \in DOMAIN peers'[q]
          PROVE  /\ IsMessage(peers'[q][k]) /\ peers'[q][k].proof \in ProofPool'
                 /\ Checked => /\ k # q /\ peers'[q][k].dealer = k
                               /\ VerifyDealingForReceiver(q, Secret[q], peers'[q][k], config'[q]) = Ok
        <3>1. config' = config /\ DOMAIN peers = Completers
            BY <1>3 DEF Keeps, TypeOK
        <3>2. CASE q = r /\ k = d
            <4>1. peers'[q][k] = m
                BY <1>3, <3>1, <3>2 DEF Keeps, WithShare
            <4>2. QED
                BY <1>1, <1>3, <2>1, <3>1, <3>2, <4>1 DEF Keeps
        <3>3. CASE ~(q = r /\ k = d)
            <4>1. k \in DOMAIN peers[q] /\ peers'[q][k] = peers[q][k]
                BY <1>3, <3>1, <3>3 DEF Keeps, WithShare
            <4>2. QED
                BY <1>1, <3>1, <4>1 DEF Delivered
        <3>4. QED
            BY <3>2, <3>3
    <2>3. QED
        BY <2>2 DEF Delivered
<1>4. QED
    BY <1>2, <1>3, StepCases DEF Deals, Completes, vars

(* Replacing one field of a private share. *)
LEMMA WithPrivateShare ==
    ASSUME NEW m, NEW q, NEW v, NEW p, NEW d,
           d = [message |-> m, private_share |-> [participant |-> q, value |-> v]]
    PROVE  /\ [d EXCEPT !.private_share.participant = p]
                = [message |-> m, private_share |-> [participant |-> p, value |-> v]]
           /\ [d EXCEPT !.private_share.value = p]
                = [message |-> m, private_share |-> [participant |-> q, value |-> p]]
<1> DEFINE s == [participant |-> q, value |-> v]
<1>1. d = [message |-> m, private_share |-> s] /\ d.private_share = s
    OBVIOUS
<1>2. \A x : [d EXCEPT !.private_share = x] = [message |-> m, private_share |-> x]
    <2> HIDE DEF s
    <2>1. QED
        BY <1>1
<1>3. /\ [s EXCEPT !.participant = p] = [participant |-> p, value |-> v]
      /\ [s EXCEPT !.value = p] = [participant |-> q, value |-> p]
    OBVIOUS
<1>4. /\ [d.private_share EXCEPT !.participant = p] = [participant |-> p, value |-> v]
      /\ [d.private_share EXCEPT !.value = p] = [participant |-> q, value |-> p]
    BY <1>1, <1>3, Zenon
<1>5. QED
    BY <1>2, <1>4, Zenon

(* The arguments an application passes to complete are typed, and the own  *)
(* dealing's message was published by its dealer.                          *)
LEMMA CompletionArguments ==
    ASSUME TypeOK, Published, Delivered, NEW r \in Completers, own[r] # NoDealing,
           NEW o \in OwnArguments(r), NEW sk \in SecretArguments(r)
    PROVE  /\ IsArgument(sk, o, peers[r], config[r])
           /\ o.message.dealer \in Parties /\ o.message \in sent[o.message.dealer]
<1>1. r \in Parties /\ config[r] \in Configs
    BY DkgAssumption DEF TypeOK
<1>2. sk \in Scalars
    BY <1>1, DkgAssumption DEF SecretArguments
<1>3. ASSUME NEW p \in Parties, own[p] # NoDealing
      PROVE  /\ IsMessage(own[p].message) /\ own[p].private_share.value \in Scalars
             /\ own[p].message.dealer = p /\ own[p].message \in sent[p]
             /\ own[p] = [message |-> own[p].message,
                          private_share |-> [participant |-> p,
                                             value |-> own[p].private_share.value]]
    BY <1>3, CreatedDealing DEF Published, TypeOK
<1> DEFINE m == own[r].message
           v == own[r].private_share.value
<1>4. own[r] = [message |-> m, private_share |-> [participant |-> r, value |-> v]]
    BY <1>1, <1>3, Zenon
<1>5. IsMessage(m) /\ v \in Scalars /\ v \in Int /\ m.dealer = r /\ m \in sent[r]
    BY <1>1, <1>3, ScalarsAreInts
<1> HIDE DEF m
<1>6. PICK d : d = own[r] /\ d = [message |-> m, private_share |-> [participant |-> r, value |-> v]]
    BY <1>4, Zenon
<1> HIDE DEF v
<1>7. /\ IsMessage(o.message) /\ o.private_share.value \in Scalars
      /\ o.message.dealer \in Parties /\ o.message \in sent[o.message.dealer]
    <2>1. CASE \E p \in Parties : own[p] # NoDealing /\ o = own[p]
        BY <1>3, <2>1
    <2>2. ASSUME NEW p, o = [own[r] EXCEPT !.private_share.participant = p]
          PROVE  o.message = m /\ o.private_share.value \in Scalars
        <3>1. o = [message |-> m, private_share |-> [participant |-> p, value |-> v]]
            <4>1. [d EXCEPT !.private_share.participant = p]
                    = [message |-> m, private_share |-> [participant |-> p, value |-> v]]
                BY <1>6, WithPrivateShare
            <4>2. QED
                BY <1>6, <2>2, <4>1, Zenon
        <3>2. QED
            BY <1>5, <3>1
    <2>3. ASSUME o = [own[r] EXCEPT !.private_share.value = Add(@, 1)]
          PROVE  o.message = m /\ o.private_share.value \in Scalars
        <3>1. o = [message |-> m, private_share |-> [participant |-> r, value |-> Add(v, 1)]]
            <4>1. [d EXCEPT !.private_share.value = Add(v, 1)]
                    = [message |-> m, private_share |-> [participant |-> r, value |-> Add(v, 1)]]
                BY <1>6, WithPrivateShare
            <4>2. own[r].private_share.value = v
                BY DEF v
            <4>3. QED
                BY <1>6, <2>3, <4>1, <4>2, Zenon
        <3>2. Add(v, 1) \in Scalars
            BY <1>5, Closed
        <3>3. QED
            BY <3>1, <3>2
    <2>4. \/ \E p \in Parties : own[p] # NoDealing /\ o = own[p]
          \/ \E p : o = [own[r] EXCEPT !.private_share.participant = p]
          \/ o = [own[r] EXCEPT !.private_share.value = Add(@, 1)]
        BY <1>1, Zenon DEF OwnArguments
    <2>5. QED
        BY <1>1, <1>5, <2>1, <2>2, <2>3, <2>4, Zenon
<1>8. IsConfig(config[r])
    BY <1>1, ConfigsAreConfigs
<1>9. DOMAIN peers[r] \subseteq Nat
    BY DkgAssumption DEF TypeOK
<1>10. QED
    BY <1>2, <1>7, <1>8, <1>9 DEF IsArgument, Delivered

(* Verification ties every dealing to a published one: its proof was made  *)
(* by its dealer, about its root.                                          *)
LEMMA CompletedRoots ==
    ASSUME TypeOK, Published, Delivered, NEW r \in Completers, own[r] # NoDealing,
           NEW o \in OwnArguments(r), NEW sk \in SecretArguments(r),
           CheckComplete(r, sk, o, peers[r], config[r]) = Ok
    PROVE  RootsPublished(CompleteOutput(r, sk, o, peers[r], config[r]))
<1> DEFINE c == config[r]
           all == AllDealings(o, peers[r])
           output == CompleteOutput(r, sk, o, peers[r], c)
<1>1. IsArgument(sk, o, peers[r], c) /\ o.message \in sent[o.message.dealer]
    BY CompletionArguments
<1>2. /\ DOMAIN all = DOMAIN c.registry /\ r \in DOMAIN all /\ all[r] = o.message
      /\ \A d \in DOMAIN all : all[d].dealer = d /\ VerifyDealing(all[d], c) = Ok
    <2>1. DOMAIN peers[r] \subseteq Nat /\ DOMAIN c.registry \subseteq Nat
        BY <1>1 DEF IsArgument, IsConfig
    <2>2. QED
        BY <2>1, CompletedDealings
<1>3. output.transcript_root = [d \in DOMAIN all |-> all[d].transcript_root]
    BY DEF CompleteOutput, CompletionRoot
<1>4. \A d \in DOMAIN all : d # r => d \in DOMAIN peers[r] /\ all[d] = peers[r][d]
    <2>1. o.message.dealer = r
        BY <1>2
    <2>2. QED
        BY <2>1 DEF AllDealings
<1> HIDE DEF all, output
<1>5. ASSUME NEW d \in DOMAIN all PROVE \E m \in sent[d] : m.transcript_root = all[d].transcript_root
    <2>1. CASE d = r
        BY <1>1, <1>2, <2>1
    <2>2. CASE d # r
        <3> DEFINE statements == DealingStatements(all[d], c)
        <3>1. IsMessage(all[d]) /\ all[d].proof \in ProofPool
            BY <1>4, <2>2 DEF Delivered
        <3>2. all[d].proof = statements
            BY <1>2, VerifiedDealing DEF VerifyBatch
        <3>3. r \in DOMAIN statements
            BY <1>2, <2>2 DEF DealingStatements, PublicShareReceivers
        <3>4. statements[r].dealer = d /\ statements[r].transcript_root = all[d].transcript_root
            BY <1>2, <3>3 DEF DealingStatements, StatementForReceiver
        <3> HIDE DEF statements
        <3>5. all[d].proof # << >>
            BY <3>2, <3>3
        <3>6. PICK q \in Parties : \E s \in sent[q] : all[d].proof = s.proof
            BY <3>1, <3>5 DEF ProofPool, Sent
        <3>7. PICK s \in sent[q] : all[d].proof = s.proof
            BY <3>6
        <3>8. s.proof[r].dealer = s.dealer /\ s.proof[r].transcript_root = s.transcript_root
            BY <3>2, <3>3, <3>7 DEF Published, Authored
        <3>9. s.dealer = q
            BY DEF TypeOK
        <3>10. QED
            BY <3>2, <3>4, <3>7, <3>8, <3>9
    <2>3. QED
        BY <2>1, <2>2
<1>6. RootsPublished(output)
    BY <1>3, <1>5 DEF RootsPublished
<1>7. QED
    BY <1>6 DEF output

(* Only complete can disturb Finished, and what it returns is as promised. *)
LEMMA FinishedInductive == IInv /\ [Next]_vars => Finished'
<1> SUFFICES ASSUME IInv, [Next]_vars PROVE Finished'
    OBVIOUS
<1> USE DEF IInv
<1>1. \A p \in Parties : sent[p] \subseteq sent'[p]
    BY SentGrows
<1>2. ASSUME NEW p \in Completed, out'[p] = out[p], config'[p] = config[p]
      PROVE  /\ SoundOutput(out'[p].output, config'[p])
             /\ ShareOf(out'[p].output, p)
             /\ \A d \in DOMAIN out'[p].output.transcript_root :
                  \E m \in sent'[d] : m.transcript_root = out'[p].output.transcript_root[d]
    <2>1. /\ SoundOutput(out[p].output, config[p]) /\ ShareOf(out[p].output, p)
          /\ RootsPublished(out[p].output)
        BY DEF Finished
    <2>2. DOMAIN out[p].output.transcript_root \subseteq Parties
        BY <2>1, ConfigsAreConfigs DEF SoundOutput, TypeOK, Completed
    <2>3. QED
        BY <1>1, <1>2, <2>1, <2>2 DEF RootsPublished
<1>3. CASE UNCHANGED <<config, out>>
    BY <1>2, <1>3 DEF Finished, RootsPublished, Completed
<1>4. ASSUME NEW r \in Completers, NEW o, NEW sk, Completes(r, o, sk)
      PROVE  Finished'
    <2> DEFINE c == config[r]
               output == CompleteOutput(r, sk, o, peers[r], c)
    <2>1. /\ own[r] # NoDealing /\ o \in OwnArguments(r) /\ sk \in SecretArguments(r)
          /\ config' = config /\ sent' = sent
        BY <1>4 DEF Completes
    <2>2. \A p \in Completers : p # r => out'[p] = out[p]
        BY <1>4 DEF Completes, TypeOK
    <2>3. ASSUME out'[r].result = Ok
          PROVE  CheckComplete(r, sk, o, peers[r], c) = Ok /\ out'[r].output = output
        BY <1>4, <2>3 DEF Completes, TypeOK
    <2>4. ASSUME CheckComplete(r, sk, o, peers[r], c) = Ok
          PROVE  SoundOutput(output, c) /\ ShareOf(output, r) /\ RootsPublished(output)
        <3>1. IsArgument(sk, o, peers[r], c)
            BY <2>1, CompletionArguments
        <3>2. SoundOutput(output, c)
            BY <2>4, <3>1, CompletedOutput DEF IsArgument, IsConfig
        <3>3. ShareOf(output, r)
            BY <2>4, <3>1, CompletedShare, CompletedFor DEF ShareOf
        <3>4. RootsPublished(output)
            BY <2>1, <2>4, CompletedRoots
        <3>5. QED
            BY <3>2, <3>3, <3>4
    <2> HIDE DEF output
    <2>5. ASSUME NEW p \in Completers, out'[p].result = Ok
          PROVE  /\ SoundOutput(out'[p].output, config'[p])
                 /\ ShareOf(out'[p].output, p)
                 /\ \A d \in DOMAIN out'[p].output.transcript_root :
                      \E m \in sent'[d] : m.transcript_root = out'[p].output.transcript_root[d]
        <3>1. CASE p = r
            BY <2>1, <2>3, <2>4, <2>5, <3>1 DEF RootsPublished
        <3>2. CASE p # r
            BY <1>2, <2>1, <2>2, <2>5, <3>2 DEF Completed
        <3>3. QED
            BY <3>1, <3>2
    <2>6. QED
        BY <2>5 DEF Finished, Completed, RootsPublished
<1>5. QED
    BY <1>3, <1>4, StepCases DEF Deals, Keeps, vars

(* The three facts of the inductive argument. *)
LEMMA InitIInv == Init => IInv
<1> SUFFICES ASSUME Init PROVE IInv
    OBVIOUS
<1>1. TypeOK
    BY ErrIsNotOk DEF Init, TypeOK, Pending, Err
<1>2. Completed = {}
    BY ErrIsNotOk DEF Init, Completed, Pending, Err
<1>3. Published
    BY DEF Init, Published
<1>4. Delivered
    BY DEF Init, Delivered
<1>5. QED
    BY <1>1, <1>2, <1>3, <1>4 DEF IInv, Finished

(* Each part of the invariant is preserved by every step. *)
LEMMA IInvInductive == IInv /\ [Next]_vars => IInv'
BY TypeInductive, PublishedInductive, DeliveredInductive, FinishedInductive DEF IInv

(* The inductive invariant holds in every reachable state. *)
LEMMA Invariance == Spec => []IInv
BY InitIInv, IInvInductive, PTL DEF Spec

(* The state keeps its shape (the data structures of dkg.rs). *)
THEOREM TypeCorrect == Spec => []TypeOK
<1>1. IInv => TypeOK
    BY DEF IInv
<1>2. QED
    BY <1>1, Invariance, PTL

(* In every reachable state, completed outputs aggregate exactly the       *)
(* registered dealers' dealings of the party's own session, registry and   *)
(* threshold (complete in dkg.rs).                                         *)
THEOREM OwnSessionDealings == Spec => []OnlyOwnSessionDealings
<1>1. IInv => OnlyOwnSessionDealings
    BY DEF IInv, Finished, SoundOutput, OnlyOwnSessionDealings
<1>2. QED
    BY <1>1, Invariance, PTL

(* One root, one registry and one threshold: the root of a nonempty        *)
(* registry holds both.                                                    *)
LEMMA RootDeterminesSetup ==
    ASSUME NEW o1, NEW c1, SoundOutput(o1, c1),
           NEW o2, NEW c2, SoundOutput(o2, c2),
           o1.transcript_root = o2.transcript_root, DOMAIN c1.registry # {}
    PROVE  c1.registry = c2.registry /\ c1.threshold = c2.threshold
<1> DEFINE root == o1.transcript_root
<1>1. PICK d \in DOMAIN root : TRUE
    BY DEF SoundOutput
<1>2. root[d].registry_root = c1.registry /\ Len(root[d].commitment) = c1.threshold
    BY DEF SoundOutput, RegistryRoot
<1>3. root[d].registry_root = c2.registry /\ Len(root[d].commitment) = c2.threshold
    BY DEF SoundOutput, RegistryRoot
<1>4. QED
    BY <1>2, <1>3

(* One root, one public key and one set of public key shares. *)
LEMMA SoundOutputsAgree ==
    ASSUME NEW o1, NEW c1, SoundOutput(o1, c1),
           NEW o2, NEW c2, SoundOutput(o2, c2),
           o1.transcript_root = o2.transcript_root,
           DOMAIN c1.registry # {}
    PROVE  /\ o1.public_key = o2.public_key
           /\ o1.public_key_shares = o2.public_key_shares
<1> DEFINE root == o1.transcript_root
           Aggregate(t) == AggregateCommitment([d \in DOMAIN root |-> root[d].commitment], t)
<1>1. c1.registry = c2.registry /\ c1.threshold = c2.threshold
    BY RootDeterminesSetup
<1>2. /\ o1.public_key = Aggregate(c1.threshold)[1]
      /\ o1.public_key_shares =
           [q \in DOMAIN c1.registry |-> PublicKeyShare(Aggregate(c1.threshold), q)]
    BY DEF SoundOutput
<1>3. /\ o2.public_key = Aggregate(c2.threshold)[1]
      /\ o2.public_key_shares =
           [q \in DOMAIN c2.registry |-> PublicKeyShare(Aggregate(c2.threshold), q)]
    BY DEF SoundOutput
<1> HIDE DEF Aggregate
<1>4. QED
    BY <1>1, <1>2, <1>3

(* The inductive invariant is strong enough for Agreement. *)
LEMMA AgreementFromIInv == IInv => Agreement
<1> SUFFICES ASSUME IInv, NEW p \in Completed, NEW q \in Completed,
                    out[p].output.transcript_root = out[q].output.transcript_root
             PROVE  /\ out[p].output.public_key = out[q].output.public_key
                    /\ out[p].output.public_key_shares = out[q].output.public_key_shares
    BY DEF Agreement
<1>1. SoundOutput(out[p].output, config[p]) /\ SoundOutput(out[q].output, config[q])
    BY DEF IInv, Finished
<1>2. DOMAIN config[p].registry # {}
    BY ConfigsAreConfigs DEF IInv, TypeOK, Completed
<1>3. QED
    BY <1>1, <1>2, SoundOutputsAgree

(* Parties that completed with the same transcript root hold the same      *)
(* public key and public key shares, for every registry, threshold and     *)
(* group, whatever dealers and transport do (complete in dkg.rs).          *)
THEOREM RootAgreement == Spec => []Agreement
BY Invariance, AgreementFromIInv, PTL


(* A completed party's secret share is the discrete logarithm of its       *)
(* public key share, for any number of dealers, honest or not, and any     *)
(* threshold and group (complete in dkg.rs).                               *)
THEOREM SharesMatch == Spec => []ShareMatchesPublicShare
<1>1. IInv => ShareMatchesPublicShare
    BY DEF IInv, Finished, ShareOf, ShareMatchesPublicShare
<1>2. QED
    BY <1>1, Invariance, PTL

(* Whatever the transport corrupts, what a completed output takes from an  *)
(* honest dealer is a dealing that dealer published (verify_dealings and   *)
(* complete in dkg.rs).                                                    *)
THEOREM DealingsIntact == Spec => []HonestDealingsIntact
<1>1. IInv => HonestDealingsIntact
    BY DEF IInv, Finished, RootsPublished, HonestDealingsIntact
<1>2. QED
    BY <1>1, Invariance, PTL

(* When the backend proves pads, whatever is delivered and verifies        *)
(* publicly under any configuration in use can be decrypted by all its     *)
(* registered receivers (verify_dealing and decrypt_share_for_receiver).   *)
THEOREM VerifiedDealingsDecrypt == Spec => []PubliclyVerifiable
<1>1. IInv => PubliclyVerifiable
    <2> SUFFICES ASSUME IInv, BindsPad, NEW c \in Configs, NEW m \in Deliverable,
                        VerifyDealing(m, c) = Ok, NEW r \in PublicShareReceivers(c, m.dealer)
                 PROVE  DecryptShare(r, Secret[r], m, c) = Ok
        BY DEF PubliclyVerifiable
    <2>1. IsMessage(m)
        BY DeliverableMessage DEF IInv
    <2>2. r \in DOMAIN c.registry
        BY DEF PublicShareReceivers
    <2>3. IsConfig(c) /\ Secret[r] \in Scalars /\ c.registry[r] = MulGenerator(Secret[r])
        BY <2>2, ConfigsAreConfigs, DkgAssumption
    <2>4. QED
        BY <2>1, <2>3, VerifiedIsDecryptable
<1>2. QED
    BY <1>1, Invariance, PTL

(***************************************************************************)
(* Completeness.                                                           *)
(***************************************************************************)
(* The application uses a session identifier for one configuration per     *)
(* registry.  The library cannot check it: DkgConfig takes the session,    *)
(* the threshold and beta independently of one another, and a dealing root *)
(* holds the session and the registry.                                     *)
OneConfigPerSession ==
    \A c1, c2 \in Configs :
        c1.session = c2.session /\ c1.registry = c2.registry => c1 = c2

(* The session and registry a dealing was created for are in its message. *)
LEMMA CreatedFor ==
    ASSUME OneConfigPerSession, NEW p \in Parties, NEW dealing, Created(dealing, p),
           NEW c \in Configs, dealing.message.session = c.session,
           dealing.message.registry_root = RegistryRoot(c.registry)
    PROVE  /\ p \in DOMAIN c.registry
           /\ VerifyDealing(dealing.message, c) = Ok
           /\ VerifyShare(dealing.message.commitment, p, dealing.private_share.value)
<1>1. PICK b \in Configs, n \in Nonces :
        \E poly \in [1..b.threshold -> Scalars] :
            p \in DOMAIN b.registry /\ dealing = MakeDealing(b, p, Secret[p], poly, n)
    BY DEF Created
<1>2. PICK poly \in [1..b.threshold -> Scalars] :
        p \in DOMAIN b.registry /\ dealing = MakeDealing(b, p, Secret[p], poly, n)
    BY <1>1
<1>3. Made(dealing, b, p, Secret[p], poly, n)
    BY <1>2, MakeDealingMade
<1>4. PICK enc, sc : Sealed(dealing.message, b, p, n, Commit(poly), enc, sc)
    BY <1>3 DEF Made
<1>5. /\ dealing.message.session = b.session
      /\ dealing.message.registry_root = RegistryRoot(b.registry)
      /\ dealing.message.commitment = Commit(poly)
    BY <1>4 DEF Sealed
<1>6. b = c
    BY <1>5 DEF OneConfigPerSession, RegistryRoot
<1>7. /\ IsConfig(b) /\ Secret[p] \in Scalars /\ b.registry[p] = MulGenerator(Secret[p])
      /\ p \in Nat
    BY <1>2, ConfigsAreConfigs, DkgAssumption
<1>8. poly \in Seq(Scalars)
    <2>1. b.threshold \in Nat
        BY <1>7 DEF IsConfig
    <2>2. QED
        BY <2>1
<1>9. VerifyDealing(dealing.message, b) = Ok
    BY <1>2, <1>7, HonestDealingAccepted
<1>10. dealing.private_share.value = Evaluate(poly, p)
    BY <1>3 DEF Made
<1>11. QED
    BY <1>2, <1>5, <1>6, <1>7, <1>8, <1>9, <1>10, EvaluateClosed DEF VerifyShare

(* complete succeeds when each of its checks passes. *)
LEMMA CompletePasses ==
    ASSUME NEW r, NEW sk, NEW o, NEW ps, NEW c, DOMAIN c.registry \subseteq Nat,
           CheckIdentity(r, sk, c) = Ok, o.message.dealer = r,
           o.private_share.participant = r,
           DOMAIN ps = PublicShareReceivers(c, r),
           \A d \in DOMAIN ps : ps[d].dealer = d /\ VerifyDealing(ps[d], c) = Ok
                                /\ DecryptShare(r, sk, ps[d], c) = Ok,
           VerifyDealing(o.message, c) = Ok,
           VerifyShare(o.message.commitment, r, o.private_share.value)
    PROVE  CheckComplete(r, sk, o, ps, c) = Ok
<1> DEFINE all == AllDealings(o, ps)
           messages == Restrict(all, DOMAIN c.registry)
           missing == DOMAIN c.registry \ DOMAIN all
           verified == VerifyDealings(messages, c)
           unusable == {d \in DOMAIN all : CheckContribution(r, sk, o, all[d], c) # Ok}
<1>1. r \in DOMAIN c.registry
    BY ErrIsNotOk DEF CheckIdentity
<1>2. /\ DOMAIN all = DOMAIN c.registry /\ all[r] = o.message
      /\ \A d \in DOMAIN ps : all[d] = ps[d] /\ d # r
    BY <1>1 DEF AllDealings, PublicShareReceivers
<1>3. \A d \in DOMAIN all : /\ VerifyDealing(all[d], c) = Ok
                            /\ CheckContribution(r, sk, o, all[d], c) = Ok
    <2>1. /\ VerifyDealing(all[r], c) = Ok
          /\ CheckContribution(r, sk, o, all[r], c) = Ok
        BY <1>2 DEF CheckContribution
    <2>2. ASSUME NEW d \in DOMAIN ps
          PROVE  VerifyDealing(all[d], c) = Ok /\ CheckContribution(r, sk, o, all[d], c) = Ok
        BY <1>2 DEF CheckContribution
    <2>3. DOMAIN all = {r} \cup DOMAIN ps
        BY <1>1, <1>2 DEF PublicShareReceivers
    <2>4. QED
        BY <2>1, <2>2, <2>3
<1>4. CheckPeers(o, ps) = Ok
    <2>1. {k \in DOMAIN ps : k # ps[k].dealer \/ k = o.message.dealer} = {}
        BY <1>2
    <2>2. QED
        BY <2>1 DEF CheckPeers
<1>5. verified = Ok
    <2>1. DOMAIN messages = DOMAIN c.registry /\ \A d \in DOMAIN c.registry : messages[d] = all[d]
        BY DEF Restrict
    <2> HIDE DEF messages, all
    <2>2. QED
        BY <1>1, <1>2, <1>3, <2>1, BatchAgreesWithSingle
<1>6. missing = {} /\ unusable = {}
    BY <1>2, <1>3
<1> HIDE DEF all, messages, missing, verified, unusable
<1>7. CheckComplete(r, sk, o, ps, c) =
        IF CheckIdentity(r, sk, c) # Ok
        THEN CheckIdentity(r, sk, c)
        ELSE IF o.message.dealer # r THEN Result("DealerKeyMismatch", r)
        ELSE IF o.private_share.participant # r
             THEN Result("PrivateShareParticipantMismatch", r)
        ELSE IF CheckPeers(o, ps) # Ok THEN CheckPeers(o, ps)
        ELSE IF missing # {} THEN Result("MissingDealing", Min(missing))
        ELSE IF verified # Ok THEN verified
        ELSE IF unusable # {}
             THEN CheckContribution(r, sk, o, all[Min(unusable)], c)
        ELSE Ok
    BY DEF CheckComplete, all, messages, missing, verified, unusable
<1>8. QED
    BY <1>4, <1>5, <1>6, <1>7

(* verify_dealing_for_receiver is as strict as complete, as long as a      *)
(* session and registry stand for one configuration: a party that has      *)
(* accepted a dealing of every other registered dealer completes.          *)
THEOREM AcceptedIsEnough ==
    ASSUME OneConfigPerSession
    PROVE  Spec => []AcceptedDealingsComplete
<1>1. IInv => AcceptedDealingsComplete
    <2> SUFFICES ASSUME IInv, Checked, NEW r \in Completers,
                        own[r] # NoDealing,
                        own[r].message.session = config[r].session,
                        own[r].message.registry_root = RegistryRoot(config[r].registry),
                        r \in DOMAIN config[r].registry,
                        DOMAIN peers[r] = PublicShareReceivers(config[r], r)
                 PROVE  CheckComplete(r, Secret[r], own[r], peers[r], config[r]) = Ok
        BY DEF AcceptedDealingsComplete
    <2>1. PICK c : c = config[r]
        OBVIOUS
    <2>2. c \in Configs /\ r \in Parties /\ Created(own[r], r)
        BY <2>1, DkgAssumption DEF IInv, TypeOK, Published
    <2>3. /\ VerifyDealing(own[r].message, c) = Ok
          /\ VerifyShare(own[r].message.commitment, r, own[r].private_share.value)
        BY <2>1, <2>2, CreatedFor
    <2>4. own[r].message.dealer = r /\ own[r].private_share.participant = r
        BY <2>2, CreatedDealing
    <2>5. CheckIdentity(r, Secret[r], c) = Ok /\ DOMAIN c.registry \subseteq Nat
        BY <2>1, <2>2, ConfigsAreConfigs, DkgAssumption DEF CheckIdentity, IsConfig
    <2>6. ASSUME NEW d \in DOMAIN peers[r]
          PROVE  /\ peers[r][d].dealer = d /\ VerifyDealing(peers[r][d], c) = Ok
                 /\ DecryptShare(r, Secret[r], peers[r][d], c) = Ok
        <3>1. /\ d # r /\ peers[r][d].dealer = d
              /\ VerifyDealingForReceiver(r, Secret[r], peers[r][d], c) = Ok
            <4>1. Delivered
                BY DEF IInv
            <4>2. QED
                BY <2>1, <4>1 DEF Delivered
        <3>2. QED
            BY <3>1, <2>1, <2>5 DEF VerifyDealingForReceiver
    <2>7. QED
        <3>1. PICK o, ps, sk : o = own[r] /\ ps = peers[r] /\ sk = Secret[r]
            OBVIOUS
        <3>2. /\ DOMAIN c.registry \subseteq Nat /\ CheckIdentity(r, sk, c) = Ok
              /\ o.message.dealer = r /\ o.private_share.participant = r
              /\ VerifyDealing(o.message, c) = Ok
              /\ VerifyShare(o.message.commitment, r, o.private_share.value)
              /\ DOMAIN ps = PublicShareReceivers(c, r)
            BY <2>1, <2>3, <2>4, <2>5, <3>1, Zenon
        <3>3. \A d \in DOMAIN ps : ps[d].dealer = d /\ VerifyDealing(ps[d], c) = Ok
                                    /\ DecryptShare(r, sk, ps[d], c) = Ok
            BY <2>6, <3>1, Zenon
        <3>4. CheckComplete(r, sk, o, ps, c) = Ok
            BY <3>2, <3>3, CompletePasses, SMTT(30)
        <3>5. QED
            BY <2>1, <3>1, <3>4
<1>2. QED
    BY <1>1, Invariance, PTL

(* A dealer that complete blames for its proof deserves it, as long as a   *)
(* session and registry stand for one configuration: the dealing fails     *)
(* verify_dealing, and it is not one that an honest dealer published.      *)
THEOREM BlameDeserved ==
    ASSUME OneConfigPerSession
    PROVE  Spec => []BlameIsDeserved
<1>1. IInv => BlameIsDeserved
    <2> SUFFICES ASSUME IInv, NEW r \in Completers, own[r] # NoDealing,
                        NEW result,
                        result = CheckComplete(r, Secret[r], own[r], peers[r], config[r]),
                        result.kind = "DealerProofVerificationFailed",
                        NEW m, m = AllDealings(own[r], peers[r])[result.who]
                 PROVE  /\ VerifyDealing(m, config[r]) # Ok
                        /\ m.dealer = result.who
                        /\ m.dealer \in Honest => m \notin sent[m.dealer]
        BY DEF BlameIsDeserved
    <2>1. PICK c, o, ps, sk : c = config[r] /\ o = own[r] /\ ps = peers[r] /\ sk = Secret[r]
        OBVIOUS
    <2>2. c \in Configs /\ DOMAIN ps \subseteq Nat
        BY <2>1, DkgAssumption DEF IInv, TypeOK
    <2>3. DOMAIN c.registry \subseteq Nat
        BY <2>2, ConfigsAreConfigs DEF IsConfig
    <2>4. result = CheckComplete(r, sk, o, ps, c) /\ m = AllDealings(o, ps)[result.who]
        BY <2>1
    <2>5. m.dealer = result.who /\ CheckDealing(m, c) = Ok /\ VerifyDealing(m, c) # Ok
        BY <2>2, <2>3, <2>4, BlamedDealing
    <2>6. ASSUME m.dealer \in Honest, m \in sent[m.dealer] PROVE FALSE
        <3>1. m.dealer \in Parties
            BY <2>6 DEF Honest
        <3>2. PICK dealing : Created(dealing, m.dealer) /\ m = dealing.message
            BY <2>6, <3>1 DEF IInv, Published
        <3>3. m.session = c.session /\ m.registry_root = RegistryRoot(c.registry)
            BY <2>5, CheckedDealing
        <3>4. VerifyDealing(m, c) = Ok
            BY <2>2, <3>1, <3>2, <3>3, CreatedFor
        <3>5. QED
            BY <2>5, <3>4
    <2>7. QED
        BY <2>1, <2>5, <2>6
<1>2. QED
    BY <1>1, Invariance, PTL

(***************************************************************************)
(* The DKG implements the ideal functionality of IdealDkg: behind the      *)
(* outputs there is one secret polynomial per transcript root, although no *)
(* party ever computes it.                                                 *)
(***************************************************************************)

(* The aggregated commitment a transcript root stands for. *)
AggregateOf(root, t) == AggregateCommitment([d \in DOMAIN root |-> root[d].commitment], t)

(* An output of p in configuration c when the polynomial is poly. *)
IdealOutput(output, p, c, poly) ==
    output = [public_key |-> MulGenerator(poly[1]),
              secret_share |-> [participant |-> p, value |-> Evaluate(poly, p)],
              public_key_shares |-> [q \in DOMAIN c.registry |-> MulGenerator(Evaluate(poly, q))],
              transcript_root |-> output.transcript_root]

(* The commitments in a completed party's root are typed, and so is their  *)
(* sum.                                                                    *)
LEMMA AggregateTyped ==
    ASSUME Published, NEW c \in Configs, NEW output, SoundOutput(output, c),
           RootsPublished(output)
    PROVE  AggregateOf(output.transcript_root, c.threshold) \in [1..c.threshold -> Scalars]
<1> DEFINE root == output.transcript_root
           t == c.threshold
           commitments == [d \in DOMAIN root |-> root[d].commitment]
<1>1. DOMAIN root = DOMAIN c.registry /\ IsFiniteSet(DOMAIN root)
      /\ DOMAIN root \subseteq Parties /\ t \in Nat
    BY ConfigsAreConfigs DEF SoundOutput, IsConfig
<1>2. ASSUME NEW d \in DOMAIN root PROVE root[d].commitment \in [1..t -> Scalars]
    <2>1. PICK m \in sent[d] : m.transcript_root = root[d]
        BY DEF RootsPublished
    <2>2. IsMessage(m) /\ m.transcript_root = DealingRoot(m)
        BY <1>1 DEF Published, Authored
    <2>3. root[d].commitment = m.commitment /\ m.commitment \in Seq(Scalars)
        BY <2>1, <2>2, DealingRootFields, MessageFields
    <2>4. Len(root[d].commitment) = t
        BY DEF SoundOutput
    <2>5. QED
        BY <2>3, <2>4
<1>3. commitments \in [DOMAIN root -> [1..t -> Scalars]] /\ DOMAIN commitments = DOMAIN root
    BY <1>2
<1> HIDE DEF commitments
<1>4. ASSUME NEW j \in 1..t
      PROVE  FoldFunction(Add, 0, [d \in DOMAIN commitments |-> commitments[d][j]]) \in Scalars
    <2>1. [d \in DOMAIN commitments |-> commitments[d][j]] \in [DOMAIN root -> Scalars]
        BY <1>3
    <2>2. QED
        BY <1>1, <2>1, SumClosed
<1>5. EntrySums(commitments, t) \in [1..t -> Scalars]
    BY <1>4 DEF EntrySums
<1>6. QED
    BY <1>5, AggregateIsEntrySums DEF AggregateOf, commitments

(* Every commitment is the commitment of a polynomial. *)
LEMMA PolynomialExists ==
    ASSUME NEW t \in Nat, NEW A \in [1..t -> Scalars]
    PROVE  \E poly \in [1..t -> Scalars] : Commit(poly) = A
<1> DEFINE poly == [j \in 1..t |-> CHOOSE x \in Scalars : MulGenerator(x) = A[j]]
<1>1. ASSUME NEW j \in 1..t PROVE poly[j] \in Scalars /\ MulGenerator(poly[j]) = A[j]
    <2>1. \E x \in Scalars : MulGenerator(x) = A[j]
        BY DiscreteLogarithm
    <2>2. QED
        BY <2>1
<1>2. DOMAIN poly = 1..t
    OBVIOUS
<1>3. poly \in [1..t -> Scalars]
    BY <1>1
<1> HIDE DEF poly
<1>4. Commit(poly) = A
    BY <1>1, <1>2 DEF Commit
<1>5. QED
    BY <1>3, <1>4

(* The polynomial behind the root determines the output. *)
LEMMA PolynomialDetermines ==
    ASSUME NEW c \in Configs, NEW p, NEW output, SoundOutput(output, c), ShareOf(output, p),
           NEW poly \in [1..c.threshold -> Scalars],
           Commit(poly) = AggregateOf(output.transcript_root, c.threshold)
    PROVE  IdealOutput(output, p, c, poly)
<1> DEFINE t == c.threshold
           A == AggregateOf(output.transcript_root, t)
<1>1. /\ output.public_key = A[1]
      /\ output.public_key_shares = [q \in DOMAIN c.registry |-> PublicKeyShare(A, q)]
    BY DEF SoundOutput, AggregateOf
<1>2. t \in Nat \ {0} /\ DOMAIN c.registry \subseteq Nat
    BY ConfigsAreConfigs DEF IsConfig
<1>3. A[1] = MulGenerator(poly[1])
    BY <1>2 DEF Commit
<1>4. ASSUME NEW q \in DOMAIN c.registry
      PROVE  /\ PublicKeyShare(A, q) = MulGenerator(Evaluate(poly, q))
             /\ Evaluate(poly, q) \in Scalars
    BY <1>2, FeldmanCommitment, PublicKeyShareEvaluates
<1> HIDE DEF A, t
<1>5. output.public_key_shares = [q \in DOMAIN c.registry |-> MulGenerator(Evaluate(poly, q))]
    BY <1>1, <1>4
<1>6. p \in DOMAIN c.registry
    BY <1>1 DEF ShareOf
<1>7. MulGenerator(output.secret_share.value) = MulGenerator(Evaluate(poly, p))
      /\ output.secret_share.value \in Scalars
    BY <1>5, <1>6 DEF ShareOf
<1>8. output.secret_share.value = Evaluate(poly, p)
    BY <1>4, <1>6, <1>7, DiscreteLogarithm
<1>9. QED
    BY <1>1, <1>3, <1>5, <1>8 DEF IdealOutput, ShareOf, OutputFor

(***************************************************************************)
(* The refinement mapping.                                                 *)
(***************************************************************************)
(* What IdealDkg sees of the configurations: thresholds and receivers. *)
Setup == [p \in Completers |-> [threshold |-> config[p].threshold,
                                receivers |-> DOMAIN config[p].registry]]

(* The outputs, as IdealDkg sees them. *)
Output == [p \in Completers |-> out[p].output]

(* The initial states map to initial states. *)
LEMMA IdealInit == Init => Ideal!Init
<1> SUFFICES ASSUME Init PROVE Ideal!Init
    OBVIOUS
<1>1. ASSUME NEW p \in Completers
      PROVE  /\ config[p].threshold \in Nat \ {0}
             /\ DOMAIN config[p].registry \in SUBSET Nat
             /\ out[p].output = NoOutput
    <2>1. config[p] \in Configs
        BY DEF Init
    <2>2. out[p].output = NoOutput
        BY DEF Init, Pending
    <2>3. QED
        BY <2>1, <2>2, ConfigsAreConfigs DEF IsConfig
<1>2. QED
    BY <1>1 DEF Ideal!Init

(* A party that has an output has finished, and conversely. *)
LEMMA FinishedOutputs ==
    ASSUME IInv, NEW p \in Completers, out[p].output # NoOutput
    PROVE  /\ SoundOutput(out[p].output, config[p]) /\ ShareOf(out[p].output, p)
           /\ RootsPublished(out[p].output) /\ config[p] \in Configs
BY DEF IInv, TypeOK, Finished, Completed

(* IdealDkg computes in the same group. *)
LEMMA SameGroup ==
    /\ Ideal!Scalars = Scalars
    /\ \A s : Ideal!MulGenerator(s) = MulGenerator(s)
    /\ \A poly, q : Ideal!Evaluate(poly, q) = Evaluate(poly, q)
<1>1. Ideal!Scalars = Scalars /\ \A s : Ideal!MulGenerator(s) = MulGenerator(s)
    BY DEF Ideal!Scalars, Scalars, Ideal!MulGenerator, Ideal!GMul, MulGenerator, GMul
<1>2. ASSUME NEW poly, NEW q PROVE Ideal!Evaluate(poly, q) = Evaluate(poly, q)
    BY Zenon DEF Ideal!Evaluate, Ideal!EvaluateAtScalar, Ideal!ToScalar, Ideal!FoldRight,
                 Ideal!MapThenFoldSet, Ideal!Min, Ideal!Add, Ideal!Mul,
                 Evaluate, EvaluateAtScalar, ToScalar, FoldRight, MapThenFoldSet, Min, Add, Mul
<1>3. QED
    BY <1>1, <1>2

(* A call of complete that succeeds is a step of the ideal functionality. *)
LEMMA IdealFinish ==
    ASSUME IInv, IInv', NEW r \in Completers, out[r].result # Ok,
           NEW entry, out' = [out EXCEPT ![r] = entry], entry.result = Ok,
           config' = config, sent' = sent
    PROVE  Ideal!Finish(r)
<1>1. PICK c, output : c = config[r] /\ output = entry.output
    OBVIOUS
<1>2. out[r].output = NoOutput /\ c \in Configs /\ DOMAIN out = Completers
    BY <1>1 DEF IInv, TypeOK
<1>3. out'[r] = entry /\ output # NoOutput
    BY <1>1, <1>2 DEF IInv, TypeOK
<1>4. SoundOutput(output, c) /\ ShareOf(output, r) /\ RootsPublished(output)
    BY <1>1, <1>3 DEF IInv, Finished, Completed, RootsPublished
<1>5. PICK root, t : root = output.transcript_root /\ t = c.threshold
    OBVIOUS
<1>6. t \in Nat /\ DOMAIN c.registry # {}
    BY <1>2, <1>5, ConfigsAreConfigs
<1>7. PICK poly \in [1..t -> Scalars] : Commit(poly) = AggregateOf(root, t)
    <2>1. Published
        BY DEF IInv
    <2>2. AggregateOf(root, t) \in [1..t -> Scalars]
        BY <1>2, <1>4, <1>5, <2>1, AggregateTyped
    <2>3. QED
        BY <1>6, <2>2, PolynomialExists
<1>8. IdealOutput(output, r, c, poly)
    BY <1>2, <1>4, <1>5, <1>7, PolynomialDetermines
<1>9. ASSUME NEW q \in Completers, out[q].output # NoOutput,
             out[q].output.transcript_root = root
      PROVE  /\ config[q].threshold = t /\ config[q].registry = c.registry
             /\ IdealOutput(out[q].output, q, c, poly)
    <2>1. /\ SoundOutput(out[q].output, config[q]) /\ ShareOf(out[q].output, q)
          /\ config[q] \in Configs
        BY <1>9, FinishedOutputs
    <2>2. c.registry = config[q].registry /\ t = config[q].threshold
        BY <1>4, <1>5, <1>6, <1>9, <2>1, RootDeterminesSetup
    <2>3. IdealOutput(out[q].output, q, config[q], poly)
        BY <1>7, <1>9, <2>1, <2>2, PolynomialDetermines
    <2>4. QED
        BY <2>2, <2>3 DEF IdealOutput
<1>10. Setup[r] = [threshold |-> t, receivers |-> DOMAIN c.registry] /\ Setup' = Setup
    BY <1>1, <1>5 DEF Setup
<1>11. Output[r] = NoOutput /\ Output'[r] = output
    BY <1>1, <1>2, <1>3 DEF Output
<1>12. Output' = [Output EXCEPT ![r] = output]
    BY <1>1, <1>2 DEF Output
<1>13. \A p \in Completers : p = r \/ (out[p].output # NoOutput /\ out[p].output.transcript_root = root) =>
        Ideal!OutputOf(p, poly, root)
            = [public_key |-> MulGenerator(poly[1]),
               secret_share |-> [participant |-> p, value |-> Evaluate(poly, p)],
               public_key_shares |-> [q \in DOMAIN c.registry |-> MulGenerator(Evaluate(poly, q))],
               transcript_root |-> root]
    BY <1>1, <1>9, SameGroup DEF Ideal!OutputOf
<1>14. output = Ideal!OutputOf(r, poly, root)
    BY <1>5, <1>8, <1>13 DEF IdealOutput
<1>15. Ideal!Consistent(r, poly, root)
    <2>1. ASSUME NEW q \in Completers, out[q].output # NoOutput,
                 out[q].output.transcript_root = root
          PROVE  Setup[q] = Setup[r] /\ out[q].output = Ideal!OutputOf(q, poly, root)
        <3>1. Setup[q] = Setup[r]
            BY <1>9, <1>10, <2>1 DEF Setup
        <3>2. out[q].output = Ideal!OutputOf(q, poly, root)
            BY <1>9, <1>13, <2>1 DEF IdealOutput
        <3>3. QED
            BY <3>1, <3>2
    <2>2. QED
        BY <2>1 DEF Ideal!Consistent, Setup
<1>16. QED
    <2>1. Output'[r].transcript_root = root /\ Output'[r] # NoOutput
        BY <1>3, <1>5, <1>11
    <2>2. poly \in [1..Setup[r].threshold -> Ideal!Scalars]
        BY <1>7, <1>10, SameGroup
    <2>3. Output' = [Output EXCEPT ![r] = Ideal!OutputOf(r, poly, root)]
        BY <1>12, <1>14
    <2>4. QED
        BY <1>10, <1>11, <1>15, <2>1, <2>2, <2>3, Zenon DEF Ideal!Finish, Setup, Output

(* Every step of the DKG is a step of the ideal functionality or changes   *)
(* nothing that it sees.                                                   *)
LEMMA IdealStep == IInv /\ IInv' /\ [Next]_vars => [Ideal!Next]_<<Setup, Output>>
<1> SUFFICES ASSUME IInv, IInv', [Next]_vars PROVE [Ideal!Next]_<<Setup, Output>>
    OBVIOUS
<1>1. CASE UNCHANGED <<config, out>>
    BY <1>1 DEF Setup, Output
<1>2. ASSUME NEW r \in Completers, NEW o, NEW sk, Completes(r, o, sk)
      PROVE  [Ideal!Next]_<<Setup, Output>>
    <2>1. PICK entry : out' = [out EXCEPT ![r] = entry]
        BY <1>2 DEF Completes
    <2>2. out[r].result # Ok /\ config' = config /\ sent' = sent /\ DOMAIN out = Completers
        BY <1>2 DEF Completes, IInv, TypeOK
    <2>3. CASE entry.result = Ok
        BY <2>1, <2>2, <2>3, IdealFinish DEF Ideal!Next
    <2>4. CASE entry.result # Ok
        <3>1. out'[r] = entry
            BY <2>1, <2>2
        <3>2. out[r].output = NoOutput /\ out'[r].output = NoOutput
            BY <2>2, <2>4, <3>1 DEF IInv, TypeOK
        <3>3. \A p \in Completers : out'[p].output = out[p].output
            BY <2>1, <2>2, <3>2
        <3>4. QED
            BY <2>2, <3>3 DEF Setup, Output
    <2>5. QED
        BY <2>3, <2>4
<1>3. QED
    BY <1>1, <1>2, StepCases DEF Deals, Keeps, vars

(* The DKG implements the ideal functionality, for every registry,         *)
(* threshold, group and number of parties, whatever dealers and transport  *)
(* do: complete (dkg.rs) hands every party its evaluation of one           *)
(* polynomial per transcript root, and the public values of that           *)
(* polynomial.                                                             *)
THEOREM Refinement == Spec => ImplementsIdeal
<1>1. Spec => []IInv
    BY Invariance
<1>2. QED
    BY <1>1, IdealInit, IdealStep, PTL DEF Spec, ImplementsIdeal, Ideal!Spec, Setup, Output

(***************************************************************************)
(* A quorum holds the key.                                                 *)
(***************************************************************************)
(* Different participants have different points.  Their indexes are 32-bit *)
(* numbers and the scalar fields the code is used with have about 2^252    *)
(* elements or more.                                                       *)
DistinctPoints == \A p, q \in Parties : ToScalar(p) = ToScalar(q) => p = q

(* The shares of parties that completed with one root are shares of the    *)
(* polynomial behind that root.                                            *)
LEMMA QuorumShares ==
    ASSUME IInv, DistinctPoints, NEW Q \in SUBSET Completed, NEW p \in Q,
           Cardinality(Q) = config[p].threshold,
           \A q \in Q : out[q].output.transcript_root = out[p].output.transcript_root
    PROVE  \E poly \in [1..config[p].threshold -> Scalars] :
             /\ out[p].output.public_key = MulGenerator(poly[1])
             /\ SharesOfPolynomial(SharesOf(Q), poly, config[p].threshold)
             /\ Points(PointsOf(SharesOf(Q), config[p].threshold), 1..config[p].threshold)
<1>1. PICK c, t, root : c = config[p] /\ t = c.threshold /\ root = out[p].output.transcript_root
    OBVIOUS
<1>2. ASSUME NEW q \in Q
      PROVE  /\ SoundOutput(out[q].output, config[q]) /\ ShareOf(out[q].output, q)
             /\ RootsPublished(out[q].output) /\ config[q] \in Configs /\ q \in Parties
    BY DkgAssumption DEF IInv, TypeOK, Finished, Completed
<1>3. t \in Nat \ {0} /\ DOMAIN c.registry # {} /\ IsFiniteSet(DOMAIN c.registry)
      /\ DOMAIN c.registry \subseteq Nat /\ DOMAIN c.registry \subseteq Parties
    BY <1>1, <1>2, ConfigsAreConfigs DEF IsConfig
<1>4. PICK poly \in [1..t -> Scalars] : Commit(poly) = AggregateOf(root, t)
    <2>1. Published
        BY DEF IInv
    <2>2. AggregateOf(root, t) \in [1..t -> Scalars]
        BY <1>1, <1>2, <2>1, AggregateTyped
    <2>3. QED
        BY <1>3, <2>2, PolynomialExists
<1>5. ASSUME NEW q \in Q
      PROVE  /\ q \in DOMAIN c.registry /\ q \in Nat
             /\ IdealOutput(out[q].output, q, c, poly)
             /\ out[q].output.secret_share.value \in Scalars
    <2>1. out[q].output.transcript_root = root
        BY <1>1
    <2>2. c.registry = config[q].registry /\ t = config[q].threshold
        <3>1. SoundOutput(out[p].output, c) /\ SoundOutput(out[q].output, config[q])
            BY <1>1, <1>2
        <3>2. QED
            BY <1>1, <1>3, <2>1, <3>1, RootDeterminesSetup
    <2>3. IdealOutput(out[q].output, q, config[q], poly)
        BY <1>2, <1>4, <2>1, <2>2, PolynomialDetermines
    <2>4. IdealOutput(out[q].output, q, c, poly)
        BY <2>2, <2>3 DEF IdealOutput
    <2>5. q \in DOMAIN c.registry
        BY <1>2, <2>4 DEF IdealOutput, ShareOf
    <2>6. QED
        BY <1>2, <1>3, <2>4, <2>5 DEF ShareOf
<1>6. Q \subseteq Nat /\ IsFiniteSet(Q) /\ Cardinality(Q) = t
    <2>1. Q \in SUBSET DOMAIN c.registry
        BY <1>5
    <2>2. QED
        BY <1>1, <1>3, <2>1, FS_Subset
<1>7. PICK members \in [1..t -> Q] :
        members = InOrder(Q) /\ \A i, j \in 1..t : members[i] = members[j] => i = j
    <2>1. /\ InOrder(Q) \in [1..Cardinality(Q) -> Q]
          /\ \A i, j \in 1..Cardinality(Q) : InOrder(Q)[i] = InOrder(Q)[j] => i = j
        BY <1>6, InOrderLists
    <2>2. PICK n : n = Cardinality(Q)
        OBVIOUS
    <2>3. /\ n = t /\ InOrder(Q) \in [1..n -> Q]
          /\ \A i, j \in 1..n : InOrder(Q)[i] = InOrder(Q)[j] => i = j
        BY <1>6, <2>1, <2>2
    <2>4. QED
        BY <2>3
<1>8. SharesOf(Q) = [i \in 1..t |-> out[members[i]].output.secret_share]
    BY <1>6, <1>7 DEF SharesOf
<1>9. ASSUME NEW q \in Q
      PROVE  /\ out[q].output.public_key = MulGenerator(poly[1])
             /\ out[q].output.secret_share = [participant |-> q, value |-> Evaluate(poly, q)]
             /\ Evaluate(poly, q) \in Scalars
    <2>1. PICK key, v, shares :
            /\ key = MulGenerator(poly[1]) /\ v = Evaluate(poly, q)
            /\ shares = [r \in DOMAIN c.registry |-> MulGenerator(Evaluate(poly, r))]
        OBVIOUS
    <2>2. out[q].output = [public_key |-> key,
                           secret_share |-> [participant |-> q, value |-> v],
                           public_key_shares |-> shares,
                           transcript_root |-> out[q].output.transcript_root]
        BY <1>5, <2>1, Zenon DEF IdealOutput
    <2>3. out[q].output.public_key = key
          /\ out[q].output.secret_share = [participant |-> q, value |-> v]
        BY <2>2
    <2>4. out[q].output.secret_share.value = v
        BY <2>3
    <2>5. QED
        BY <1>5, <2>1, <2>3, <2>4
<1>10. \A i \in 1..t :
         SharesOf(Q)[i] = [participant |-> members[i], value |-> Evaluate(poly, members[i])]
    BY <1>7, <1>8, <1>9
<1>11. SharesOfPolynomial(SharesOf(Q), poly, t)
    <2>1. \A i \in 1..t : members[i] \in Nat /\ Evaluate(poly, members[i]) \in Scalars
        BY <1>6, <1>7, <1>9
    <2>2. SharesOf(Q) = [i \in 1..t |-> SharesOf(Q)[i]]
        BY <1>8
    <2>3. ASSUME NEW i \in 1..t
          PROVE  /\ SharesOf(Q)[i] \in [participant : Nat, value : Scalars]
                 /\ SharesOf(Q)[i].value = Evaluate(poly, SharesOf(Q)[i].participant)
        <3>1. PICK q \in Nat, v \in Scalars : q = members[i] /\ v = Evaluate(poly, q)
            BY <2>1
        <3>2. SharesOf(Q)[i] = [participant |-> q, value |-> v]
            BY <1>10, <3>1, Zenon
        <3>3. QED
            BY <3>1, <3>2
    <2>4. SharesOf(Q) \in [1..t -> [participant : Nat, value : Scalars]]
        BY <2>2, <2>3
    <2>5. QED
        BY <2>3, <2>4 DEF SharesOfPolynomial
<1>12. Points(PointsOf(SharesOf(Q), t), 1..t)
    <2>1. PICK X : X = PointsOf(SharesOf(Q), t)
        OBVIOUS
    <2>2. X = [i \in 1..t |-> ToScalar(members[i])]
        <3>1. ASSUME NEW i \in 1..t PROVE SharesOf(Q)[i].participant = members[i]
            <4>1. PICK v : v = Evaluate(poly, members[i])
                OBVIOUS
            <4>2. SharesOf(Q)[i] = [participant |-> members[i], value |-> v]
                BY <1>10, <4>1, Zenon
            <4>3. QED
                BY <4>2
        <3>2. \A i \in 1..t : ToScalar(SharesOf(Q)[i].participant) = ToScalar(members[i])
            BY <3>1, Zenon
        <3>3. X = [i \in 1..t |-> ToScalar(SharesOf(Q)[i].participant)]
            BY <2>1 DEF PointsOf
        <3>4. QED
            BY <3>2, <3>3
    <2>3. \A i \in 1..t : ToScalar(members[i]) \in Scalars
        <3>1. \A p1 \in Nat : ToScalar(p1) \in Scalars
            BY Remainder DEF ToScalar
        <3>2. QED
            BY <1>6, <1>7, <3>1
    <2>4. \A i, j \in 1..t : ToScalar(members[i]) = ToScalar(members[j]) => i = j
        BY <1>2, <1>7 DEF DistinctPoints
    <2>5. QED
        BY <2>1, <2>2, <2>3, <2>4 DEF Points
<1>13. QED
    BY <1>1, <1>4, <1>9, <1>11, <1>12

(* Any threshold of parties that completed with one transcript root        *)
(* reconstructs the secret key of the public key they hold, for every      *)
(* registry, threshold and group, whatever dealers and transport do:       *)
(* complete (dkg.rs) and reconstruct_secret (shamir.rs) fit together.      *)
THEOREM QuorumReconstructs ==
    ASSUME DistinctPoints
    PROVE  Spec => []QuorumHoldsKey
<1>1. ASSUME IInv PROVE QuorumHoldsKey
    <2> SUFFICES ASSUME NEW Q \in SUBSET Completed,
                        \A p, q \in Q : /\ Cardinality(Q) = config[p].threshold
                                        /\ out[p].output.transcript_root = out[q].output.transcript_root,
                        NEW p \in Q
                 PROVE  LET secret == ReconstructSecret(SharesOf(Q), config[p].threshold)
                        IN  secret.kind = "Ok" /\ MulGenerator(secret.value) = out[p].output.public_key
        BY DEF QuorumHoldsKey
    <2>1. PICK t : t = config[p].threshold
        OBVIOUS
    <2>2. t \in Nat \ {0}
        BY <1>1, <2>1, ConfigsAreConfigs DEF IInv, TypeOK, Completed, IsConfig
    <2>3. PICK poly \in [1..t -> Scalars] :
            /\ out[p].output.public_key = MulGenerator(poly[1])
            /\ SharesOfPolynomial(SharesOf(Q), poly, t)
            /\ Points(PointsOf(SharesOf(Q), t), 1..t)
        BY <1>1, <2>1, QuorumShares
    <2>4. /\ ReconstructSecret(SharesOf(Q), t).kind = "Ok"
                => ReconstructSecret(SharesOf(Q), t).value = poly[1]
          /\ t >= t /\ Points(PointsOf(SharesOf(Q), t), 1..t)
                => ReconstructSecret(SharesOf(Q), t).kind = "Ok"
        <3>1. t \in Nat
            BY <2>2
        <3>2. QED
            BY <2>2, <2>3, <3>1, ReconstructsSecret
    <2>5. QED
        BY <2>1, <2>2, <2>3, <2>4
<1>2. IInv => QuorumHoldsKey
    BY <1>1
<1>3. QED
    BY <1>2, Invariance, PTL
=============================================================================
