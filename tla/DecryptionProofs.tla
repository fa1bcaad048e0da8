-------------------------- MODULE DecryptionProofs --------------------------
(***************************************************************************)
(* Threshold decryption for every group, set of validators, deployment,    *)
(* ciphertext and list of shares: what opens was sealed, a threshold of    *)
(* validators decrypted it, and a threshold of good shares opens.          *)
(***************************************************************************)
EXTENDS ThresholdDecryption, ShamirProofs

(* Hashes are scalars and group elements. *)
HashesAreTyped ==
    \A inputs : HashToGroup(inputs) \in Scalars /\ HashToScalar(inputs) \in Scalars

(***************************************************************************)
(* Schnorr proofs.                                                         *)
(***************************************************************************)
(* The group's operations are those of the scalars. *)
LEMMA GroupIsField ==
    ASSUME NEW a \in Scalars, NEW b \in Scalars
    PROVE  /\ GAdd(a, b) = Add(a, b) /\ GSub(a, b) = Sub(a, b) /\ GMul(a, b) = Mul(a, b)
           /\ Add(a, b) \in Scalars /\ Sub(a, b) \in Scalars /\ Mul(a, b) \in Scalars
           /\ MulGenerator(a) = Mul(Gen, a) /\ MulGenerator(a) \in Scalars /\ Gen \in Scalars
<1>1. a \in Int /\ b \in Int
    BY ScalarsAreInts
<1>2. Add(a, b) \in Scalars /\ Sub(a, b) \in Scalars /\ Mul(a, b) \in Scalars
    BY <1>1, Closed
<1>3. MulGenerator(a) \in Scalars
    BY <1>1, GeneratorHomomorphism
<1>4. Gen \in Scalars
    BY GenAssumption DEF Scalars
<1>5. QED
    BY <1>2, <1>3, <1>4 DEF GAdd, GSub, GMul, MulGenerator, Add, Sub, Mul

(* A response x' + e x to the challenge e is checked by taking e times the *)
(* public value off.                                                       *)
LEMMA Response ==
    ASSUME NEW b \in Scalars, NEW x \in Scalars, NEW n \in Scalars, NEW e \in Scalars
    PROVE  /\ Mul(b, Add(n, Mul(e, x))) = Add(Mul(b, n), Mul(Mul(b, x), e))
           /\ Sub(Mul(b, Add(n, Mul(e, x))), Mul(Mul(b, x), e)) = Mul(b, n)
<1>1. PICK ex \in Scalars : ex = Mul(e, x)
    BY GroupIsField
<1>2. Add(n, ex) \in Scalars
    BY GroupIsField
<1>3. Mul(b, Add(n, ex)) = Add(Mul(n, b), Mul(ex, b))
    <2>1. Mul(Add(n, ex), b) = Add(Mul(n, b), Mul(ex, b))
        BY MulDistributes, ScalarsAreInts
    <2>2. QED
        BY <1>2, <2>1, MulLaws
<1>4. Mul(n, b) = Mul(b, n) /\ Mul(ex, b) = Mul(Mul(b, x), e)
    <2>1. Mul(Mul(e, x), b) = Mul(e, Mul(x, b)) /\ Mul(x, b) = Mul(b, x) /\ Mul(b, x) \in Scalars
        BY MulLaws
    <2>2. Mul(e, Mul(b, x)) = Mul(Mul(b, x), e) /\ Mul(n, b) = Mul(b, n)
        BY <2>1, MulLaws
    <2>3. QED
        BY <1>1, <2>1, <2>2
<1>5. Mul(b, n) \in Scalars /\ Mul(Mul(b, x), e) \in Int
    BY GroupIsField, ScalarsAreInts
<1>6. QED
    BY <1>1, <1>3, <1>4, <1>5, AddThenSub

(* verify_decryption_share recovers the nonces' commitment in the bases R  *)
(* and S from the two responses.                                           *)
ResponsesRecover(R, S, x, z, m, n, e) ==
    GSub(GAdd(GMul(R, Add(m, Mul(e, x))), GMul(S, Add(n, Mul(e, z)))),
         GMul(GAdd(GMul(R, x), GMul(S, z)), e))
        = GAdd(GMul(R, m), GMul(S, n))

(* Honest responses in two bases recover the commitment. *)
LEMMA DoubleResponse ==
    ASSUME NEW R \in Scalars, NEW S \in Scalars, NEW x \in Scalars, NEW z \in Scalars,
           NEW m \in Scalars, NEW n \in Scalars, NEW e \in Scalars
    PROVE  ResponsesRecover(R, S, x, z, m, n, e)
<1>1. PICK a \in Scalars, b \in Scalars, c \in Scalars, d \in Scalars :
        /\ a = Mul(R, m) /\ b = Mul(S, n)
        /\ c = Mul(Mul(R, x), e) /\ d = Mul(Mul(S, z), e)
    <2>1. /\ Mul(R, m) \in Scalars /\ Mul(S, n) \in Scalars
          /\ Mul(R, x) \in Scalars /\ Mul(S, z) \in Scalars
        BY GroupIsField
    <2>2. Mul(Mul(R, x), e) \in Scalars /\ Mul(Mul(S, z), e) \in Scalars
        BY <2>1, GroupIsField
    <2>3. QED
        BY <2>1, <2>2
<1>2. Mul(R, Add(m, Mul(e, x))) = Add(a, c) /\ Mul(S, Add(n, Mul(e, z))) = Add(b, d)
    <2>1. Mul(R, Add(m, Mul(e, x))) = Add(Mul(R, m), Mul(Mul(R, x), e))
        BY Response
    <2>2. Mul(S, Add(n, Mul(e, z))) = Add(Mul(S, n), Mul(Mul(S, z), e))
        BY Response
    <2>3. QED
        BY <1>1, <2>1, <2>2
<1>3. Mul(Add(Mul(R, x), Mul(S, z)), e) = Add(c, d)
    <2>1. Mul(R, x) \in Int /\ Mul(S, z) \in Int /\ e \in Int
        BY GroupIsField, ScalarsAreInts
    <2>2. QED
        BY <1>1, <2>1, MulDistributes
<1>4. Add(Add(a, c), Add(b, d)) = Add(Add(a, b), Add(c, d))
    BY AddRegroup, ScalarsAreInts
<1>5. Add(a, b) \in Scalars /\ Add(c, d) \in Int
    BY GroupIsField, ScalarsAreInts
<1>6. Sub(Add(Mul(R, Add(m, Mul(e, x))), Mul(S, Add(n, Mul(e, z)))),
          Mul(Add(Mul(R, x), Mul(S, z)), e)) = Add(Mul(R, m), Mul(S, n))
    BY <1>1, <1>2, <1>3, <1>4, <1>5, AddThenSub
<1>7. \A u, v : GSub(u, v) = Sub(u, v) /\ GAdd(u, v) = Add(u, v) /\ GMul(u, v) = Mul(u, v)
    BY DEF GSub, Sub, GAdd, Add, GMul, Mul
<1>8. QED
    BY <1>6, <1>7, Zenon DEF ResponsesRecover

(* A challenge binds everything it hashes. *)
LEMMA ChallengeBinds ==
    ASSUME NEW a, NEW b, NEW S1, NEW S2, NEW X1, NEW X2, NEW Z1, NEW Z2, NEW W1, NEW W2,
           NEW xp1, NEW xp2, NEW zp1, NEW zp2, NEW wp1, NEW wp2,
           ShareChallenge(a, S1, X1, Z1, W1, xp1, zp1, wp1)
               = ShareChallenge(b, S2, X2, Z2, W2, xp2, zp2, wp2)
    PROVE  a = b /\ S1 = S2 /\ X1 = X2 /\ Z1 = Z2 /\ W1 = W2
BY DEF ShareChallenge, Scalar

(* The point shares are made with binds the setup, the ciphertext and the  *)
(* decryption context.                                                     *)
LEMMA GroupBinds ==
    ASSUME NEW a, NEW b, NEW c1, NEW c2, NEW d1, NEW d2,
           DecryptionGroup(a, c1, d1) = DecryptionGroup(b, c2, d2)
    PROVE  a = b /\ c1 = c2 /\ d1 = d2
BY DEF DecryptionGroup, Point

(***************************************************************************)
(* The inductive invariant.                                                *)
(***************************************************************************)
(* Runs that a setup pairs. *)
Fits(dec, ctx) ==
    /\ dec.threshold = ctx.threshold /\ dec.registry = ctx.registry
    /\ ctx.session = DeriveContextSessionId(dec.session)

(* M is what the validator v computes from a sharing f of the key and a    *)
(* sharing g of zero.                                                      *)
Holds(M, v, f, g) ==
    LET keys == M.public_key_set
    IN  /\ M.kind = "Ok"
        /\ keys.threshold \in Nat \ {0}
        /\ f \in [1..keys.threshold -> Scalars] /\ g \in [1..keys.threshold -> Scalars]
        /\ g[1] = 0
        /\ v \in DOMAIN keys.public_shares /\ DOMAIN keys.public_shares \subseteq Validators
        /\ keys.joint_public_key = MulGenerator(f[1])
        /\ \A p \in DOMAIN keys.public_shares :
            keys.public_shares[p] = [decryption |-> MulGenerator(Evaluate(f, p)),
                                     context |-> MulGenerator(Evaluate(g, p))]
        /\ M.secret_share = [participant |-> v, decryption |-> Evaluate(f, v),
                             context |-> Evaluate(g, v)]

(* A validator with material has it from two runs that fit, which the      *)
(* setup context names.                                                    *)
SetUpFrom(M, v, dec, ctx) ==
    /\ Fits(dec, ctx)
    /\ Holds(M, v, dec.polynomial, ctx.polynomial)
    /\ \E epoch \in Epochs : M.setup_context = SetupContext(dec, [transcript_root |-> dec.root],
                                                 ctx, [transcript_root |-> ctx.root], epoch)
    /\ M.public_key_set.threshold = dec.threshold
    /\ DOMAIN M.public_key_set.public_shares = DOMAIN dec.registry

(* Every validator that is ready has set up from two of the runs. *)
Equipped ==
    /\ DOMAIN material = Validators
    /\ \A v \in Ready : \E dec, ctx \in Runs : SetUpFrom(material[v], v, dec, ctx)

(* s is what seal_bytes makes. *)
SealedFrom(s) ==
    \E m \in Plaintexts, ad \in AssociatedData : \E key, r, r_prime \in Scalars :
        s = [ct |-> SealBytes(key, m, ad, r, r_prime), plaintext |-> m, key |-> key]

(* The fields of what decrypt_share returns. *)
Answers(share, secret, setup, ct, dc, x_prime, z_prime) ==
    LET S == DecryptionGroup(setup, ct, dc)
        inR(x, z) == GAdd(GMul(ct.ephemeral_public, x), GMul(S.value, z))
    IN  /\ share = [participant |-> share.participant, share |-> share.share,
                    challenge |-> share.challenge,
                    decryption_response |-> share.decryption_response,
                    context_response |-> share.context_response]
        /\ share.participant = secret.participant
        /\ share.share = inR(secret.decryption, secret.context)
        /\ share.challenge = ShareChallenge(setup, S, MulGenerator(secret.decryption),
                                 MulGenerator(secret.context),
                                 inR(secret.decryption, secret.context),
                                 MulGenerator(x_prime), MulGenerator(z_prime),
                                 inR(x_prime, z_prime))
        /\ share.decryption_response
             = Add(x_prime, Mul(share.challenge.value, secret.decryption))
        /\ share.context_response = Add(z_prime, Mul(share.challenge.value, secret.context))

(* i was issued by a validator that is set up, for a ciphertext that verifies. *)
IssuedFrom(i) ==
    /\ i.validator \in Ready
    /\ i.setup = material[i.validator].setup_context
    /\ VerifyCiphertext(i.ct)
    /\ \E x_prime, z_prime \in Scalars :
        Answers(i.share, material[i.validator].secret_share, i.setup, i.ct, i.dc, x_prime, z_prime)

(* The combiner's shares: each has the challenge of some issued share. *)
InboxFrom ==
    /\ inbox \in Seq(ToSet(inbox))
    /\ \A k \in DOMAIN inbox : \E i \in issued : inbox[k].challenge = i.share.challenge

(* The combiner's answer is the one for the shares it has. *)
Answered ==
    LET M == material[result.combiner]
        made == NewCombiner(M.public_key_set, M.setup_context)
        combined == IF result.call = "quorum"
                    THEN CombineQuorum(made.combiner, result.ct, result.dc, inbox)
                    ELSE CombineExact(made.combiner, result.ct, result.dc, inbox)
    IN  /\ result.combiner \in Ready
        /\ result.ct \in Ciphertexts
        /\ result.outcome = IF made.kind # "Ok" THEN made
                            ELSE WithAssociatedData(result.ct, result.ad, combined)

(* The inductive invariant. *)
DecryptionInv ==
    /\ deployment \in Deployments
    /\ Equipped
    /\ \A s \in sealed : SealedFrom(s)
    /\ IsFiniteSet(issued) /\ \A i \in issued : IssuedFrom(i)
    /\ InboxFrom
    /\ result # NoResult => Answered

(***************************************************************************)
(* Setup.                                                                  *)
(***************************************************************************)
(* What is assumed about the runs of a deployment. *)
LEMMA RunTypes ==
    ASSUME deployment \in Deployments, NEW run \in Runs
    PROVE  /\ run.threshold \in Nat /\ run.polynomial \in [1..run.threshold -> Scalars]
           /\ DOMAIN run.registry \subseteq Validators
           /\ \A other \in Runs : run.root = other.root => run.polynomial = other.polynomial
BY DecryptionAssumption DEF Runs

(* Validators are indexes, and a polynomial has a scalar at each. *)
LEMMA ValueTypes ==
    ASSUME NEW n \in Nat, NEW C \in [1..n -> Scalars], NEW v \in Validators
    PROVE  v \in Nat /\ Evaluate(C, v) \in Scalars /\ MulGenerator(Evaluate(C, v)) \in Scalars
<1>1. v \in Nat
    BY DecryptionAssumption
<1>2. Evaluate(C, v) \in Scalars
    BY <1>1, PublicKeyShareEvaluates
<1>3. QED
    BY <1>1, <1>2, GroupIsField

(* The checks of from_dkg_outputs, and what it returns when they pass. *)
LEMMA MaterialFields ==
    ASSUME NEW dec, NEW do, NEW ctx, NEW co, NEW epoch, NEW M,
           M = MaterialFromDkgOutputs(dec, do, ctx, co, epoch), M.kind = "Ok"
    PROVE  /\ Fits(dec, ctx)
           /\ co.public_key = Identity
           /\ dec.threshold # 0
           /\ M = [kind |-> "Ok",
                   public_key_set |->
                     [threshold |-> dec.threshold, joint_public_key |-> do.public_key,
                      public_shares |-> [p \in DOMAIN dec.registry |->
                        [decryption |-> do.public_key_shares[p], context |-> co.public_key_shares[p]]]],
                   secret_share |-> [participant |-> do.secret_share.participant,
                                     decryption |-> do.secret_share.value,
                                     context |-> co.secret_share.value],
                   setup_context |-> SetupContext(dec, do, ctx, co, epoch)]
<1> DEFINE public == [p \in DOMAIN dec.registry |->
                        [decryption |-> do.public_key_shares[p], context |-> co.public_key_shares[p]]]
           keys == NewPublicKeySet(dec.threshold, do.public_key, public)
<1>1. /\ keys.kind = "Ok"
      /\ dec.threshold = ctx.threshold /\ dec.registry = ctx.registry
      /\ ctx.session = DeriveContextSessionId(dec.session) /\ co.public_key = Identity
      /\ M = [kind |-> "Ok", public_key_set |-> keys.set,
              secret_share |-> [participant |-> do.secret_share.participant,
                                decryption |-> do.secret_share.value,
                                context |-> co.secret_share.value],
              setup_context |-> SetupContext(dec, do, ctx, co, epoch)]
    <2> DEFINE passed == [kind |-> "Ok", public_key_set |-> keys.set,
                          secret_share |-> [participant |-> do.secret_share.participant,
                                            decryption |-> do.secret_share.value,
                                            context |-> co.secret_share.value],
                          setup_context |-> SetupContext(dec, do, ctx, co, epoch)]
    <2>1. M = IF dec.threshold # ctx.threshold THEN Fail("threshold mismatch")
        ELSE IF dec.registry # ctx.registry THEN Fail("registry root mismatch")
        ELSE IF ctx.session # DeriveContextSessionId(dec.session)
             THEN Fail("context session mismatch")
        ELSE IF do.secret_share.participant # co.secret_share.participant
             THEN Fail("local participant mismatch")
        ELSE IF DOMAIN do.public_key_shares # DOMAIN co.public_key_shares
             THEN Fail("public share participant mismatch")
        ELSE IF co.public_key # Identity
             THEN Fail("zero-sharing public key is not identity")
        ELSE IF do.public_key = Identity
             THEN Fail("decryption public key is identity")
        ELSE IF ~(DOMAIN dec.registry \subseteq DOMAIN do.public_key_shares)
             THEN Fail("missing decryption public share")
        ELSE IF keys.kind # "Ok" THEN keys
        ELSE passed
        <3> HIDE DEF keys
        <3>1. QED
            BY DEF MaterialFromDkgOutputs, keys
    <2>2. /\ Fail("threshold mismatch").kind # "Ok"
          /\ Fail("registry root mismatch").kind # "Ok"
          /\ Fail("context session mismatch").kind # "Ok"
          /\ Fail("local participant mismatch").kind # "Ok"
          /\ Fail("public share participant mismatch").kind # "Ok"
          /\ Fail("zero-sharing public key is not identity").kind # "Ok"
          /\ Fail("decryption public key is identity").kind # "Ok"
          /\ Fail("missing decryption public share").kind # "Ok"
        BY DEF Fail
    <2> HIDE DEF keys, passed
    <2>3. dec.threshold = ctx.threshold /\ dec.registry = ctx.registry
        BY <2>1, <2>2
    <2>4. ctx.session = DeriveContextSessionId(dec.session) /\ co.public_key = Identity
        BY <2>1, <2>2
    <2>5. keys.kind = "Ok" /\ M = passed
        BY <2>1, <2>2
    <2>6. QED
        BY <2>3, <2>4, <2>5 DEF passed
<1>2. /\ dec.threshold # 0
      /\ keys.set = [threshold |-> dec.threshold, joint_public_key |-> do.public_key,
                     public_shares |-> public]
    <2> HIDE DEF public
    <2>1. QED
        BY <1>1 DEF NewPublicKeySet, Fail
<1> HIDE DEF keys
<1>3. QED
    BY <1>1, <1>2 DEF Fits

(* What a validator sets up from two runs of the ideal key generation. *)
LEMMA MaterialFromRuns ==
    ASSUME deployment \in Deployments, NEW dec \in Runs, NEW ctx \in Runs,
           NEW v \in DOMAIN dec.registry, NEW epoch \in Epochs, NEW M,
           M = MaterialFromDkgOutputs(dec, RunOutput(dec, v), ctx, RunOutput(ctx, v), epoch),
           M.kind = "Ok"
    PROVE  SetUpFrom(M, v, dec, ctx)
<1> DEFINE f == dec.polynomial
           g == ctx.polynomial
           do == RunOutput(dec, v)
           co == RunOutput(ctx, v)
           public == [p \in DOMAIN dec.registry |->
                        [decryption |-> do.public_key_shares[p], context |-> co.public_key_shares[p]]]
<1>1. /\ dec.threshold \in Nat /\ f \in [1..dec.threshold -> Scalars]
      /\ ctx.threshold \in Nat /\ g \in [1..ctx.threshold -> Scalars]
      /\ DOMAIN dec.registry \subseteq Validators
    BY RunTypes
<1>2. /\ do.public_key = MulGenerator(f[1]) /\ co.public_key = MulGenerator(g[1])
      /\ do.secret_share = [participant |-> v, value |-> Evaluate(f, v)]
      /\ co.secret_share = [participant |-> v, value |-> Evaluate(g, v)]
      /\ do.public_key_shares = [p \in DOMAIN dec.registry |-> MulGenerator(Evaluate(f, p))]
      /\ co.public_key_shares = [p \in DOMAIN ctx.registry |-> MulGenerator(Evaluate(g, p))]
      /\ do.transcript_root = dec.root /\ co.transcript_root = ctx.root
    BY DEF RunOutput
<1> HIDE DEF do, co
<1>3. /\ Fits(dec, ctx) /\ co.public_key = Identity /\ dec.threshold # 0
      /\ M = [kind |-> "Ok",
              public_key_set |-> [threshold |-> dec.threshold, joint_public_key |-> do.public_key,
                                  public_shares |-> public],
              secret_share |-> [participant |-> do.secret_share.participant,
                                decryption |-> do.secret_share.value,
                                context |-> co.secret_share.value],
              setup_context |-> SetupContext(dec, do, ctx, co, epoch)]
    BY MaterialFields DEF do, co
<1> HIDE DEF f, g
<1>4. g[1] = 0
    <2>1. 1 \in 1..ctx.threshold /\ g[1] \in Scalars
        <3>1. ctx.threshold # 0
            BY <1>3, Zenon DEF Fits
        <3>2. PICK t \in Nat : t = ctx.threshold
            BY <1>1
        <3>3. t # 0 /\ g \in [1..t -> Scalars]
            BY <1>1, <3>1, <3>2
        <3>4. 1 \in 1..t /\ g[1] \in Scalars
            BY <3>3
        <3>5. QED
            BY <3>2, <3>4
    <2>2. MulGenerator(g[1]) = MulGenerator(0)
        <3>1. Gen * 0 = 0 /\ 0 % P = 0
            BY ScalarsAreInts, ScalarRemainder
        <3>2. QED
            BY <1>2, <1>3, <3>1 DEF MulGenerator, GMul, Identity
    <2>3. QED
        BY <2>1, <2>2, DiscreteLogarithm, ScalarsAreInts
<1>5. \A p \in DOMAIN dec.registry :
        public[p] = [decryption |-> MulGenerator(Evaluate(f, p)),
                     context |-> MulGenerator(Evaluate(g, p))]
    BY <1>2, <1>3 DEF Fits
<1> HIDE DEF public
<1>6. M.secret_share = [participant |-> v, decryption |-> Evaluate(f, v),
                        context |-> Evaluate(g, v)]
    BY <1>2, <1>3
<1>7. /\ M.public_key_set.threshold = dec.threshold
      /\ M.public_key_set.joint_public_key = MulGenerator(f[1])
      /\ M.public_key_set.public_shares = public
      /\ DOMAIN public = DOMAIN dec.registry
    <2>1. DOMAIN public = DOMAIN dec.registry
        BY DEF public
    <2>2. M.public_key_set = [threshold |-> dec.threshold, joint_public_key |-> do.public_key,
                              public_shares |-> public]
        BY <1>3
    <2>3. QED
        BY <1>2, <2>1, <2>2
<1>8. Holds(M, v, f, g)
    BY <1>1, <1>3, <1>4, <1>5, <1>6, <1>7 DEF Holds, Fits
<1>9. M.setup_context = SetupContext(dec, [transcript_root |-> dec.root],
                                     ctx, [transcript_root |-> ctx.root], epoch)
    BY <1>2, <1>3 DEF SetupContext
<1>10. QED
    BY <1>3, <1>7, <1>8, <1>9 DEF SetUpFrom, f, g

(***************************************************************************)
(* The invariant is inductive.                                             *)
(***************************************************************************)
(* The actions, with the combiner's calls written out. *)
LEMMA CombineCalls ==
    ASSUME NEW v, CallCombineQuorum(v) \/ CallCombineExact(v)
    PROVE  /\ v \in Ready /\ result = NoResult
           /\ UNCHANGED <<deployment, material, sealed, issued, inbox>>
           /\ \E ct \in Ciphertexts, dc \in Contexts, ad \in AssociatedData :
               \E call \in {"quorum", "exact"} :
                LET made == NewCombiner(material[v].public_key_set, material[v].setup_context)
                    combined == IF call = "quorum" THEN CombineQuorum(made.combiner, ct, dc, inbox)
                                ELSE CombineExact(made.combiner, ct, dc, inbox)
                IN  result' = [outcome |-> IF made.kind # "Ok" THEN made
                                           ELSE WithAssociatedData(ct, ad, combined),
                               call |-> call, combiner |-> v, ct |-> ct, dc |-> dc, ad |-> ad]
<1>1. CASE CallCombineQuorum(v)
    <2>1. PICK ct \in Ciphertexts, dc \in Contexts, ad \in AssociatedData :
            LET made == NewCombiner(material[v].public_key_set, material[v].setup_context)
            IN  result' = [outcome |-> IF made.kind # "Ok" THEN made
                                       ELSE WithAssociatedData(ct, ad,
                                                CombineQuorum(made.combiner, ct, dc, inbox)),
                           call |-> "quorum", combiner |-> v, ct |-> ct, dc |-> dc, ad |-> ad]
        BY <1>1, Zenon DEF CallCombineQuorum, Combine
    <2>2. /\ v \in Ready /\ result = NoResult
          /\ UNCHANGED <<deployment, material, sealed, issued, inbox>>
        BY <1>1, Zenon DEF CallCombineQuorum, Combine
    <2>3. QED
        BY <2>1, <2>2
<1>2. CASE CallCombineExact(v)
    <2>1. PICK ct \in Ciphertexts, dc \in Contexts, ad \in AssociatedData :
            LET made == NewCombiner(material[v].public_key_set, material[v].setup_context)
            IN  result' = [outcome |-> IF made.kind # "Ok" THEN made
                                       ELSE WithAssociatedData(ct, ad,
                                                CombineExact(made.combiner, ct, dc, inbox)),
                           call |-> "exact", combiner |-> v, ct |-> ct, dc |-> dc, ad |-> ad]
        BY <1>2, Zenon DEF CallCombineExact, Combine
    <2>2. /\ v \in Ready /\ result = NoResult
          /\ UNCHANGED <<deployment, material, sealed, issued, inbox>>
        BY <1>2, Zenon DEF CallCombineExact, Combine
    <2>3. QED
        BY <2>1, <2>2
<1>3. QED
    BY <1>1, <1>2

(* No step takes anything back, and an answer ends the collecting. *)
LEMMA StepKeeps ==
    ASSUME DOMAIN material = Validators, [Next]_vars
    PROVE  /\ deployment' = deployment /\ DOMAIN material' = Validators
           /\ \A v \in Ready : v \in Ready' /\ material'[v] = material[v]
           /\ sealed \subseteq sealed' /\ issued \subseteq issued'
           /\ result # NoResult => UNCHANGED <<issued, inbox, result>>
<1>1. NoMaterial.kind # "Ok"
    BY DEF NoMaterial, Fail
<1>2. CASE \E v \in Validators : SetUp(v)
    <2>1. PICK w \in Validators : SetUp(w)
        BY <1>2
    <2>2. PICK made : material' = [material EXCEPT ![w] = made]
        BY <2>1 DEF SetUp
    <2>3. \A v \in Validators : v # w => material'[v] = material[v]
        BY <2>2
    <2>4. w \notin Ready
        BY <1>1, <2>1 DEF SetUp, Ready
    <2>5. DOMAIN material' = Validators
        BY <2>2
    <2>6. \A v \in Ready : v \in Ready' /\ material'[v] = material[v]
        BY <2>3, <2>4 DEF Ready
    <2>7. QED
        BY <2>1, <2>5, <2>6 DEF SetUp
<1>3. CASE Seal
    BY <1>3 DEF Seal, Ready
<1>4. CASE \E v \in Validators : DecryptShare(v)
    BY <1>4 DEF DecryptShare, Ready
<1>5. CASE Arrive
    BY <1>5 DEF Arrive, Ready
<1>6. CASE \E v \in Validators : CallCombineQuorum(v) \/ CallCombineExact(v)
    BY <1>6, CombineCalls DEF Ready
<1>7. CASE UNCHANGED vars
    BY <1>7 DEF vars, Ready
<1>8. QED
    BY <1>2, <1>3, <1>4, <1>5, <1>6, <1>7 DEF Next

(* Validators stay set up, and those who set up have it from two runs. *)
LEMMA EquippedStep ==
    ASSUME deployment \in Deployments, Equipped, [Next]_vars
    PROVE  Equipped'
<1>1. /\ deployment' = deployment /\ DOMAIN material' = Validators
      /\ \A v \in Ready : v \in Ready' /\ material'[v] = material[v]
    BY StepKeeps DEF Equipped
<1>2. Runs' = Runs /\ Epochs' = Epochs
    BY <1>1 DEF Runs, Epochs
<1>3. \A M, v, dec, ctx : SetUpFrom(M, v, dec, ctx)' <=> SetUpFrom(M, v, dec, ctx)
    BY <1>2 DEF SetUpFrom
<1>4. SUFFICES ASSUME NEW v \in Ready' PROVE \E dec, ctx \in Runs : SetUpFrom(material'[v], v, dec, ctx)
    BY <1>1, <1>2, <1>3 DEF Equipped
<1>5. CASE v \in Ready
    BY <1>1, <1>5 DEF Equipped
<1>6. CASE v \notin Ready
    <2>1. v \in Validators /\ material'[v].kind = "Ok" /\ material'[v] # material[v]
        BY <1>6 DEF Ready
    <2>2. PICK w \in Validators : SetUp(w)
        BY <2>1, CombineCalls DEF Next, Seal, Arrive, DecryptShare, vars
    <2>3. PICK dec \in Runs, ctx \in Runs, epoch \in Epochs :
            /\ w \in DOMAIN dec.registry
            /\ MaterialFromDkgOutputs(dec, RunOutput(dec, w), ctx, RunOutput(ctx, w), epoch).kind = "Ok"
            /\ material' = [material EXCEPT ![w] =
                   MaterialFromDkgOutputs(dec, RunOutput(dec, w), ctx, RunOutput(ctx, w), epoch)]
        BY <2>2 DEF SetUp
    <2>4. v = w
        BY <2>1, <2>3
    <2>5. material'[v] = MaterialFromDkgOutputs(dec, RunOutput(dec, w), ctx, RunOutput(ctx, w), epoch)
        BY <2>3, <2>4 DEF Equipped
    <2>6. SetUpFrom(material'[v], v, dec, ctx)
        BY <2>3, <2>4, <2>5, MaterialFromRuns
    <2>7. QED
        BY <2>6
<1>7. QED
    BY <1>5, <1>6

(* What ready validators hold. *)
LEMMA MaterialTypes ==
    ASSUME deployment \in Deployments, Equipped, NEW v \in Ready
    PROVE  \E dec, ctx \in Runs :
            /\ SetUpFrom(material[v], v, dec, ctx)
            /\ v \in Nat /\ v \in Validators
            /\ material[v].public_key_set.joint_public_key \in Scalars
            /\ material[v].secret_share.decryption \in Scalars
            /\ material[v].secret_share.context \in Scalars
            /\ material[v].secret_share.participant = v
<1>1. PICK dec \in Runs, ctx \in Runs : SetUpFrom(material[v], v, dec, ctx)
    BY DEF Equipped
<1>2. v \in Validators
    BY DEF Ready
<1> DEFINE f == dec.polynomial
           g == ctx.polynomial
           n == material[v].public_key_set.threshold
<1>3. Holds(material[v], v, f, g)
    BY <1>1 DEF SetUpFrom
<1> HIDE DEF f, g
<1>4. n \in Nat \ {0} /\ f \in [1..n -> Scalars] /\ g \in [1..n -> Scalars]
    BY <1>3 DEF Holds
<1>5. /\ material[v].public_key_set.joint_public_key = MulGenerator(f[1])
      /\ material[v].secret_share = [participant |-> v, decryption |-> Evaluate(f, v),
                                     context |-> Evaluate(g, v)]
    BY <1>3 DEF Holds
<1> HIDE DEF n
<1>6. f[1] \in Scalars
    BY <1>4
<1>7. v \in Nat /\ Evaluate(f, v) \in Scalars /\ Evaluate(g, v) \in Scalars
    BY <1>2, <1>4, ValueTypes
<1>8. MulGenerator(f[1]) \in Scalars
    BY <1>6, GroupIsField
<1>9. QED
    BY <1>1, <1>2, <1>5, <1>7, <1>8

(* Clients seal to the keys of ready validators. *)
LEMMA SealedStep ==
    ASSUME deployment \in Deployments, Equipped, \A s \in sealed : SealedFrom(s), [Next]_vars
    PROVE  \A s \in sealed' : SealedFrom(s)'
<1>1. deployment' = deployment
    BY StepKeeps DEF Equipped
<1>2. \A s : SealedFrom(s)' <=> SealedFrom(s)
    BY <1>1 DEF SealedFrom, Plaintexts, AssociatedData
<1>3. SUFFICES ASSUME NEW s \in sealed', s \notin sealed PROVE SealedFrom(s)
    BY <1>2
<1>4. Seal
    BY <1>3, CombineCalls DEF Next, SetUp, Arrive, DecryptShare, vars
<1>5. PICK v \in Ready, m \in Plaintexts, ad \in AssociatedData, n \in SealNonces :
        sealed' = sealed \cup
            {[ct |-> SealBytes(material[v].public_key_set.joint_public_key, m, ad, n[1], n[2]),
              plaintext |-> m, key |-> material[v].public_key_set.joint_public_key]}
    BY <1>4, Zenon DEF Seal
<1>6. n[1] \in Scalars /\ n[2] \in Scalars
    BY DecryptionAssumption
<1>7. material[v].public_key_set.joint_public_key \in Scalars
    BY MaterialTypes
<1>8. QED
    BY <1>3, <1>5, <1>6, <1>7 DEF SealedFrom

(* What decrypt_share returns when it does. *)
LEMMA ShareFields ==
    ASSUME NEW secret, NEW setup, NEW ct, NEW dc, NEW ad, NEW x_prime, NEW z_prime, NEW made,
           made = DecryptShareWithAssociatedData(secret, setup, ct, dc, ad, x_prime, z_prime),
           made.kind = "Ok"
    PROVE  VerifyCiphertext(ct) /\ Answers(made.share, secret, setup, ct, dc, x_prime, z_prime)
<1> DEFINE S == DecryptionGroup(setup, ct, dc)
           W == GAdd(GMul(ct.ephemeral_public, secret.decryption), GMul(S.value, secret.context))
           e == ShareChallenge(setup, S, MulGenerator(secret.decryption),
                               MulGenerator(secret.context), W, MulGenerator(x_prime),
                               MulGenerator(z_prime),
                               GAdd(GMul(ct.ephemeral_public, x_prime), GMul(S.value, z_prime)))
           share == [participant |-> secret.participant, share |-> W, challenge |-> e,
                     decryption_response |-> Add(x_prime, Mul(e.value, secret.decryption)),
                     context_response |-> Add(z_prime, Mul(e.value, secret.context))]
<1>1. made = IF ct.associated_data # ad THEN Fail("AssociatedDataMismatch")
             ELSE IF ~VerifyCiphertext(ct) THEN Fail("InvalidCiphertextProof")
             ELSE [kind |-> "Ok", share |-> share]
    BY Zenon DEF DecryptShareWithAssociatedData
<1>2. Fail("AssociatedDataMismatch").kind # "Ok" /\ Fail("InvalidCiphertextProof").kind # "Ok"
    BY DEF Fail
<1> HIDE DEF share
<1>3. VerifyCiphertext(ct) /\ made.share = share
    BY <1>1, <1>2
<1>4. /\ share.participant = secret.participant /\ share.share = W /\ share.challenge = e
      /\ share.decryption_response = Add(x_prime, Mul(e.value, secret.decryption))
      /\ share.context_response = Add(z_prime, Mul(e.value, secret.context))
      /\ share = [participant |-> share.participant, share |-> share.share,
                  challenge |-> share.challenge,
                  decryption_response |-> share.decryption_response,
                  context_response |-> share.context_response]
    <2> HIDE DEF e, W
    <2>1. QED
        BY DEF share
<1>5. Answers(share, secret, setup, ct, dc, x_prime, z_prime)
    BY <1>4, Zenon DEF Answers
<1>6. QED
    BY <1>3, <1>5

(* Shares are issued by validators that are set up. *)
LEMMA IssuedStep ==
    ASSUME deployment \in Deployments, Equipped, IsFiniteSet(issued),
           \A i \in issued : IssuedFrom(i), [Next]_vars
    PROVE  IsFiniteSet(issued') /\ \A i \in issued' : IssuedFrom(i)'
<1>1. \A v \in Ready : v \in Ready' /\ material'[v] = material[v]
    BY StepKeeps DEF Equipped
<1>2. ASSUME NEW i, IssuedFrom(i) PROVE IssuedFrom(i)'
    BY <1>1, <1>2 DEF IssuedFrom
<1>3. CASE issued' = issued
    BY <1>2, <1>3
<1>4. CASE \E v \in Validators : DecryptShare(v)
    <2>1. PICK v \in Validators : DecryptShare(v)
        BY <1>4
    <2>2. v \in Ready
        BY <2>1 DEF DecryptShare
    <2>3. PICK ct \in Ciphertexts, dc \in Contexts, ad \in AssociatedData, n \in ShareNonces :
            \E made :
                /\ made = DecryptShareWithAssociatedData(material[v].secret_share,
                              material[v].setup_context, ct, dc, ad, n[1], n[2])
                /\ made.kind = "Ok"
                /\ issued' = issued \cup {[share |-> made.share, validator |-> v, ct |-> ct,
                                           dc |-> dc, setup |-> material[v].setup_context]}
        BY <2>1, Zenon DEF DecryptShare
    <2>4. PICK made :
            /\ made = DecryptShareWithAssociatedData(material[v].secret_share,
                          material[v].setup_context, ct, dc, ad, n[1], n[2])
            /\ made.kind = "Ok"
            /\ issued' = issued \cup {[share |-> made.share, validator |-> v, ct |-> ct, dc |-> dc,
                                       setup |-> material[v].setup_context]}
        BY <2>3
    <2> DEFINE i == [share |-> made.share, validator |-> v, ct |-> ct, dc |-> dc,
                     setup |-> material[v].setup_context]
    <2>5. n[1] \in Scalars /\ n[2] \in Scalars
        BY DecryptionAssumption
    <2>6. VerifyCiphertext(ct) /\ Answers(made.share, material[v].secret_share,
                                          material[v].setup_context, ct, dc, n[1], n[2])
        BY <2>4, ShareFields
    <2>7. IssuedFrom(i)
        <3>1. /\ i.share = made.share /\ i.validator = v /\ i.ct = ct /\ i.dc = dc
              /\ i.setup = material[v].setup_context
            OBVIOUS
        <3> HIDE DEF i
        <3>2. QED
            BY <2>2, <2>5, <2>6, <3>1 DEF IssuedFrom
    <2>8. issued' = issued \cup {i}
        BY <2>4
    <2> HIDE DEF i
    <2>9. IsFiniteSet(issued')
        BY <2>8, FS_AddElement
    <2>10. QED
        BY <1>2, <2>7, <2>8, <2>9
<1>5. QED
    BY <1>3, <1>4, CombineCalls DEF Next, SetUp, Seal, Arrive, vars

(* The transport leaves the challenges of the shares it changes to one of  *)
(* the issued shares.                                                      *)
LEMMA TamperedChallenge ==
    ASSUME deployment \in Deployments, \A i \in issued : IssuedFrom(i),
           NEW i \in issued, NEW kind \in ShareTampers, NEW s \in ShareTamper(kind, i.share)
    PROVE  \E j \in issued : s.challenge = j.share.challenge
<1>1. kind \in ShareTamperKinds
    BY DecryptionAssumption DEF ShareTampers
<1>2. PICK h : h = i.share
    OBVIOUS
<1>3. h = [participant |-> h.participant, share |-> h.share, challenge |-> h.challenge,
           decryption_response |-> h.decryption_response, context_response |-> h.context_response]
    BY <1>2, Zenon DEF IssuedFrom, Answers
<1>4. CASE kind = "challenge"
    <2>1. PICK j \in issued : s = [h EXCEPT !.challenge = j.share.challenge]
        BY <1>2, <1>4 DEF ShareTamper
    <2>2. s.challenge = j.share.challenge
        BY <1>3, <2>1
    <2>3. QED
        BY <2>2
<1>5. CASE kind \in {"participant", "share", "decryption_response", "context_response"}
    <2>1. \/ s = [h EXCEPT !.participant = @ + 1] \/ s = [h EXCEPT !.share = GAdd(@, Gen)]
          \/ s = [h EXCEPT !.decryption_response = Add(@, 1)]
          \/ s = [h EXCEPT !.context_response = Add(@, 1)]
        BY <1>2, <1>5 DEF ShareTamper
    <2>2. s.challenge = h.challenge
        BY <1>3, <2>1
    <2>3. QED
        BY <1>2, <2>2
<1>6. QED
    BY <1>1, <1>4, <1>5 DEF ShareTamperKinds

(* A list is a list of its entries. *)
LEMMA ListOfItsEntries ==
    ASSUME NEW T, NEW s \in Seq(T)
    PROVE  s \in Seq(ToSet(s)) /\ DOMAIN s = 1..Len(s) /\ Len(s) \in Nat
<1>1. DOMAIN s = 1..Len(s) /\ Len(s) \in Nat
    OBVIOUS
<1>2. \A k \in DOMAIN s : s[k] \in ToSet(s)
    BY DEF ToSet
<1>3. s = [k \in 1..Len(s) |-> s[k]]
    BY <1>1
<1>4. QED
    BY <1>1, <1>2, <1>3

(* The combiner's list grows by shares whose challenges were issued. *)
LEMMA InboxStep ==
    ASSUME deployment \in Deployments, Equipped, \A i \in issued : IssuedFrom(i), InboxFrom,
           [Next]_vars
    PROVE  InboxFrom'
<1>1. issued \subseteq issued'
    BY StepKeeps DEF Equipped
<1>2. CASE inbox' = inbox
    BY <1>1, <1>2 DEF InboxFrom
<1>3. CASE Arrive
    <2>1. PICK i \in issued :
            \E s \in {i.share} \cup UNION {ShareTamper(kind, i.share) : kind \in ShareTampers} :
                inbox' = Append(inbox, s)
        BY <1>3 DEF Arrive
    <2>2. PICK s \in {i.share} \cup UNION {ShareTamper(kind, i.share) : kind \in ShareTampers} :
            inbox' = Append(inbox, s)
        BY <2>1
    <2>3. PICK j \in issued : s.challenge = j.share.challenge
        BY <2>2, TamperedChallenge
    <2>4. PICK T : T = ToSet(inbox) \cup {s}
        OBVIOUS
    <2>5. inbox \in Seq(T) /\ s \in T
        <3>1. inbox \in Seq(ToSet(inbox)) /\ ToSet(inbox) \subseteq T
            BY <2>4 DEF InboxFrom
        <3>2. QED
            BY <2>4, <3>1
    <2>6. /\ inbox' \in Seq(T) /\ DOMAIN inbox = 1..Len(inbox) /\ Len(inbox) \in Nat
          /\ DOMAIN inbox' = 1..(Len(inbox) + 1)
          /\ \A k \in DOMAIN inbox' : IF k \in DOMAIN inbox THEN inbox'[k] = inbox[k] ELSE inbox'[k] = s
        BY <2>2, <2>5
    <2>7. inbox' \in Seq(ToSet(inbox'))
        BY <2>6, ListOfItsEntries
    <2>8. ASSUME NEW k \in DOMAIN inbox'
          PROVE  \E l \in issued : inbox'[k].challenge = l.share.challenge
        BY <2>3, <2>6 DEF InboxFrom
    <2>9. QED
        BY <1>1, <2>7, <2>8 DEF InboxFrom
<1>4. QED
    BY <1>2, <1>3, CombineCalls DEF Next, SetUp, Seal, DecryptShare, vars

(* Ciphertexts that were around still are. *)
LEMMA CiphertextsKept ==
    ASSUME Equipped, [Next]_vars
    PROVE  Ciphertexts \subseteq Ciphertexts'
<1>1. deployment' = deployment /\ sealed \subseteq sealed'
    BY StepKeeps DEF Equipped
<1>2. /\ CipherTampers' = CipherTampers /\ AssociatedData' = AssociatedData
      /\ Plaintexts' = Plaintexts
    BY <1>1 DEF CipherTampers, AssociatedData, Plaintexts
<1>3. ASSUME NEW kind, NEW ct PROVE CipherTamper(kind, ct)' = CipherTamper(kind, ct)
    BY <1>2 DEF CipherTamper
<1>4. SUFFICES ASSUME NEW c \in Ciphertexts PROVE c \in Ciphertexts'
    OBVIOUS
<1>5. CASE \E s \in sealed : c = s.ct
    BY <1>1, <1>5 DEF Ciphertexts
<1>6. CASE \E kind \in CipherTampers, s \in sealed : c \in CipherTamper(kind, s.ct)
    <2>1. PICK kind \in CipherTampers, s \in sealed : c \in CipherTamper(kind, s.ct)
        BY <1>6
    <2>2. PICK ct : ct = s.ct
        OBVIOUS
    <2>3. c \in CipherTamper(kind, ct)' /\ kind \in CipherTampers' /\ s \in sealed'
        BY <1>1, <1>2, <1>3, <2>1, <2>2
    <2>4. QED
        BY <2>2, <2>3 DEF Ciphertexts
<1>7. QED
    BY <1>4, <1>5, <1>6 DEF Ciphertexts

(* An answer stays the one for the shares the combiner had. *)
LEMMA AnsweredStep ==
    ASSUME Equipped, result # NoResult => Answered, [Next]_vars, (result # NoResult)'
    PROVE  Answered'
<1>1. /\ \A v \in Ready : v \in Ready' /\ material'[v] = material[v]
      /\ Ciphertexts \subseteq Ciphertexts'
      /\ result # NoResult => UNCHANGED <<issued, inbox, result>>
    BY StepKeeps, CiphertextsKept DEF Equipped
<1>2. CASE result # NoResult
    <2>1. result' = result /\ inbox' = inbox /\ Answered
        BY <1>1, <1>2
    <2>2. result.combiner \in Ready /\ result.ct \in Ciphertexts
        BY <2>1 DEF Answered
    <2>3. /\ material'[result.combiner] = material[result.combiner]
          /\ result.combiner \in Ready' /\ result.ct \in Ciphertexts'
        BY <1>1, <2>2
    <2>4. QED
        BY <2>1, <2>3, Zenon DEF Answered
<1>3. CASE result = NoResult
    <2>1. result' # result
        BY <1>3 DEF NoResult, Fail
    <2>2. PICK v \in Validators : CallCombineQuorum(v) \/ CallCombineExact(v)
        BY <2>1 DEF Next, SetUp, Seal, DecryptShare, Arrive, vars
    <2>3. v \in Ready /\ material' = material /\ inbox' = inbox
        BY <2>2, CombineCalls
    <2>4. PICK ct \in Ciphertexts, dc \in Contexts, ad \in AssociatedData, call \in {"quorum", "exact"} :
            LET made == NewCombiner(material[v].public_key_set, material[v].setup_context)
                combined == IF call = "quorum" THEN CombineQuorum(made.combiner, ct, dc, inbox)
                            ELSE CombineExact(made.combiner, ct, dc, inbox)
            IN  result' = [outcome |-> IF made.kind # "Ok" THEN made
                                       ELSE WithAssociatedData(ct, ad, combined),
                           call |-> call, combiner |-> v, ct |-> ct, dc |-> dc, ad |-> ad]
        <3> HIDE DEF NewCombiner, CombineQuorum, CombineExact, WithAssociatedData
        <3>1. QED
            BY <2>2, CombineCalls, Zenon
    <2> DEFINE made == NewCombiner(material[v].public_key_set, material[v].setup_context)
               combined == IF call = "quorum" THEN CombineQuorum(made.combiner, ct, dc, inbox)
                           ELSE CombineExact(made.combiner, ct, dc, inbox)
               out == IF made.kind # "Ok" THEN made ELSE WithAssociatedData(ct, ad, combined)
    <2>5. result' = [outcome |-> out, call |-> call, combiner |-> v, ct |-> ct, dc |-> dc, ad |-> ad]
        BY <2>4, Zenon
    <2>6. /\ result'.outcome = out /\ result'.call = call /\ result'.combiner = v
          /\ result'.ct = ct /\ result'.dc = dc /\ result'.ad = ad
        <3> HIDE DEF out
        <3>1. QED
            BY <2>5
    <2>7. v \in Ready' /\ ct \in Ciphertexts'
        BY <1>1, <2>3
    <2>8. QED
        BY <2>3, <2>6, <2>7, Zenon DEF Answered
<1>4. QED
    BY <1>2, <1>3

(* Material comes from two fitting runs, ciphertexts from seal_bytes,       *)
(* issued shares from decrypt_share, and the answer is what the combine     *)
(* functions return for the shares collected, in every reachable state.     *)
THEOREM DecryptionInvariant == Spec => []DecryptionInv
<1>1. ASSUME Init PROVE DecryptionInv
    <2>1. \A v \in Validators : material[v].kind # "Ok"
        BY <1>1 DEF Init, NoMaterial, Fail
    <2>2. Ready = {}
        BY <2>1 DEF Ready
    <2>3. Equipped
        BY <1>1, <2>2 DEF Init, Equipped
    <2>4. InboxFrom
        BY <1>1 DEF Init, InboxFrom
    <2>5. QED
        BY <1>1, <2>3, <2>4, FS_EmptySet DEF Init, DecryptionInv
<1>2. ASSUME DecryptionInv, [Next]_vars PROVE DecryptionInv'
    <2>1. /\ deployment \in Deployments /\ Equipped /\ (\A s \in sealed : SealedFrom(s))
          /\ IsFiniteSet(issued) /\ (\A i \in issued : IssuedFrom(i)) /\ InboxFrom
          /\ result # NoResult => Answered
        BY <1>2 DEF DecryptionInv
    <2>2. deployment' \in Deployments
        BY <1>2, <2>1, StepKeeps DEF Equipped
    <2>3. Equipped'
        BY <1>2, <2>1, EquippedStep
    <2>4. \A s \in sealed' : SealedFrom(s)'
        BY <1>2, <2>1, SealedStep
    <2>5. IsFiniteSet(issued') /\ \A i \in issued' : IssuedFrom(i)'
        BY <1>2, <2>1, IssuedStep
    <2>6. InboxFrom'
        BY <1>2, <2>1, InboxStep
    <2>7. (result # NoResult => Answered)'
        BY <1>2, <2>1, AnsweredStep
    <2>8. QED
        BY <2>2, <2>3, <2>4, <2>5, <2>6, <2>7 DEF DecryptionInv
<1>3. QED
    BY <1>1, <1>2, PTL DEF Spec

(***************************************************************************)
(* What a valid share says.                                                *)
(***************************************************************************)
(* A setup context binds the runs it names. *)
LEMMA ContextBinds ==
    ASSUME NEW dec, NEW d, NEW ctx, NEW c, NEW epoch, NEW other,
           SetupContext(dec, [transcript_root |-> dec.root], ctx, [transcript_root |-> ctx.root], epoch)
             = SetupContext(d, [transcript_root |-> d.root], c, [transcript_root |-> c.root], other)
    PROVE  /\ dec.threshold = d.threshold /\ dec.registry = d.registry
           /\ dec.root = d.root /\ ctx.root = c.root
BY DEF SetupContext

(* A setup context fixes both sharings. *)
LEMMA SameSetup ==
    ASSUME deployment \in Deployments, Equipped, NEW v \in Ready, NEW w \in Ready,
           material[v].setup_context = material[w].setup_context,
           NEW dec \in Runs, NEW ctx \in Runs, SetUpFrom(material[v], v, dec, ctx)
    PROVE  /\ Holds(material[w], w, dec.polynomial, ctx.polynomial)
           /\ DOMAIN material[w].public_key_set.public_shares = DOMAIN dec.registry
           /\ material[w].public_key_set.threshold = dec.threshold
<1>1. PICK d \in Runs, c \in Runs : SetUpFrom(material[w], w, d, c)
    BY DEF Equipped
<1>2. PICK epoch, other :
        /\ material[v].setup_context = SetupContext(dec, [transcript_root |-> dec.root],
                                           ctx, [transcript_root |-> ctx.root], epoch)
        /\ material[w].setup_context = SetupContext(d, [transcript_root |-> d.root],
                                           c, [transcript_root |-> c.root], other)
    BY <1>1 DEF SetUpFrom
<1>3. dec.threshold = d.threshold /\ dec.registry = d.registry /\ dec.root = d.root /\ ctx.root = c.root
    <2>1. SetupContext(dec, [transcript_root |-> dec.root], ctx, [transcript_root |-> ctx.root], epoch)
              = SetupContext(d, [transcript_root |-> d.root], c, [transcript_root |-> c.root], other)
        BY <1>2
    <2>2. QED
        BY <2>1, ContextBinds
<1>4. dec.polynomial = d.polynomial /\ ctx.polynomial = c.polynomial
    BY <1>3, RunTypes
<1>5. QED
    BY <1>1, <1>3, <1>4 DEF SetUpFrom

(* The combiner of a validator. *)
CombinerOf(M) == [public_key_set |-> M.public_key_set, setup_context |-> M.setup_context]

(* A ready validator's key set and setup context make a combiner. *)
LEMMA CombinerMade ==
    ASSUME NEW M, NEW v, NEW dec, NEW ctx, SetUpFrom(M, v, dec, ctx)
    PROVE  LET made == NewCombiner(M.public_key_set, M.setup_context)
           IN  made.kind = "Ok" /\ made.combiner = CombinerOf(M)
<1>1. PICK epoch : M.setup_context = SetupContext(dec, [transcript_root |-> dec.root],
                                                  ctx, [transcript_root |-> ctx.root], epoch)
    BY DEF SetUpFrom
<1>2. /\ M.setup_context.threshold = dec.threshold
      /\ M.setup_context.participants = DOMAIN dec.registry
      /\ M.setup_context.decryption_session_id = dec.session
      /\ M.setup_context.context_session_id = ctx.session
    BY <1>1 DEF SetupContext
<1>3. /\ M.public_key_set.threshold = dec.threshold
      /\ DOMAIN M.public_key_set.public_shares = DOMAIN dec.registry
      /\ ctx.session = DeriveContextSessionId(dec.session)
    BY DEF SetUpFrom, Fits
<1>4. NewCombiner(M.public_key_set, M.setup_context) = [kind |-> "Ok", combiner |-> CombinerOf(M)]
    BY <1>2, <1>3, Zenon DEF NewCombiner, CombinerOf
<1>5. QED
    BY <1>4

(* A decryption share made in the bases R and S from the shares its        *)
(* participant has of f and g.                                             *)
MadeWith(s, R, S, f, g) ==
    s.share = GAdd(GMul(R, Evaluate(f, s.participant)), GMul(S, Evaluate(g, s.participant)))

(* A validator answered the combiner's question, with the shares that p has. *)
ApprovedBy(i, M, ct, dc, f, g, p) ==
    /\ i.ct = ct /\ i.dc = dc /\ i.setup = M.setup_context
    /\ i.validator \in DOMAIN M.public_key_set.public_shares
    /\ Evaluate(f, i.validator) = Evaluate(f, p) /\ Evaluate(g, i.validator) = Evaluate(g, p)

(* A share of the combiner's list that verifies is some validator's        *)
(* answer to the combiner's own question, and its value is made from the   *)
(* shares of the participant it names.                                     *)
LEMMA ValidShare ==
    ASSUME DecryptionInv, NEW v \in Ready, NEW dec \in Runs, NEW ctx \in Runs,
           SetUpFrom(material[v], v, dec, ctx), NEW ct, NEW dc, NEW k \in DOMAIN inbox,
           ShareIsValid(CombinerOf(material[v]), ct, dc, inbox[k])
    PROVE  LET p == inbox[k].participant
               S == DecryptionGroup(material[v].setup_context, ct, dc)
           IN  /\ p \in DOMAIN material[v].public_key_set.public_shares
               /\ MadeWith(inbox[k], ct.ephemeral_public, S.value, dec.polynomial, ctx.polynomial)
               /\ \E i \in issued : ApprovedBy(i, material[v], ct, dc,
                                               dec.polynomial, ctx.polynomial, p)
<1> DEFINE f == dec.polynomial
           g == ctx.polynomial
           setup == material[v].setup_context
           public == material[v].public_key_set.public_shares
           s == inbox[k]
           p == s.participant
           S == DecryptionGroup(setup, ct, dc)
<1>1. /\ deployment \in Deployments /\ Equipped /\ (\A i \in issued : IssuedFrom(i)) /\ InboxFrom
    BY DEF DecryptionInv
<1>2. p \in DOMAIN public /\ VerifyDecryptionShare(setup, S, ct, s, public[p])
    BY Zenon DEF ShareIsValid, CombinerOf
<1>3. PICK xp, zp, wp :
        ShareChallenge(setup, S, public[p].decryption, public[p].context, s.share, xp, zp, wp)
            = s.challenge
    BY <1>2, Zenon DEF VerifyDecryptionShare
<1>4. PICK i \in issued : s.challenge = i.share.challenge
    BY <1>1 DEF InboxFrom
<1> DEFINE u == i.validator
           secret == material[u].secret_share
           T == DecryptionGroup(i.setup, i.ct, i.dc)
<1>5. u \in Ready /\ i.setup = material[u].setup_context
    BY <1>1 DEF IssuedFrom
<1>6. PICK x_prime, z_prime : Answers(i.share, secret, i.setup, i.ct, i.dc, x_prime, z_prime)
    BY <1>1 DEF IssuedFrom
<1> DEFINE W == GAdd(GMul(i.ct.ephemeral_public, secret.decryption), GMul(T.value, secret.context))
<1>7. i.share.challenge = ShareChallenge(i.setup, T, MulGenerator(secret.decryption),
          MulGenerator(secret.context), W, MulGenerator(x_prime), MulGenerator(z_prime),
          GAdd(GMul(i.ct.ephemeral_public, x_prime), GMul(T.value, z_prime)))
    BY <1>6, Zenon DEF Answers
<1> HIDE DEF S, T, W, secret, setup, public, s, p, u
<1>8. /\ setup = i.setup /\ S = T /\ public[p].decryption = MulGenerator(secret.decryption)
      /\ public[p].context = MulGenerator(secret.context) /\ s.share = W
    BY <1>3, <1>4, <1>7, ChallengeBinds
<1>9. i.ct = ct /\ i.dc = dc
    BY <1>8, GroupBinds DEF S, T
<1>10. /\ Holds(material[u], u, f, g)
       /\ DOMAIN material[u].public_key_set.public_shares = DOMAIN dec.registry
    BY <1>1, <1>5, <1>8, SameSetup DEF setup
<1>11. Holds(material[v], v, f, g) /\ DOMAIN public = DOMAIN dec.registry
    BY DEF SetUpFrom, public
<1> HIDE DEF f, g
<1>12. /\ secret.decryption = Evaluate(f, u) /\ secret.context = Evaluate(g, u)
       /\ u \in DOMAIN public /\ DOMAIN public \subseteq Validators
       /\ public[p].decryption = MulGenerator(Evaluate(f, p))
       /\ public[p].context = MulGenerator(Evaluate(g, p))
    <2>1. secret = [participant |-> u, decryption |-> Evaluate(f, u), context |-> Evaluate(g, u)]
        BY <1>10, Zenon DEF Holds, secret
    <2>2. u \in DOMAIN public /\ DOMAIN public \subseteq Validators
        BY <1>10, <1>11, Zenon DEF Holds, public
    <2>3. public[p] = [decryption |-> MulGenerator(Evaluate(f, p)),
                       context |-> MulGenerator(Evaluate(g, p))]
        BY <1>2, <1>11, Zenon DEF Holds, public
    <2>4. QED
        BY <2>1, <2>2, <2>3
<1>13. PICK n \in Nat : f \in [1..n -> Scalars] /\ g \in [1..n -> Scalars]
    BY <1>11 DEF Holds
<1>14. /\ Evaluate(f, u) \in Scalars /\ Evaluate(f, p) \in Scalars
       /\ Evaluate(g, u) \in Scalars /\ Evaluate(g, p) \in Scalars
    BY <1>2, <1>12, <1>13, ValueTypes
<1>15. Evaluate(f, u) = Evaluate(f, p) /\ Evaluate(g, u) = Evaluate(g, p)
    BY <1>8, <1>12, <1>14, DiscreteLogarithm
<1>16. s.share = GAdd(GMul(ct.ephemeral_public, Evaluate(f, p)), GMul(S.value, Evaluate(g, p)))
    BY <1>8, <1>9, <1>12, <1>15 DEF W
<1>17. ApprovedBy(i, material[v], ct, dc, f, g, p)
    BY <1>8, <1>9, <1>12, <1>15 DEF ApprovedBy, setup, public, u
<1>18. QED
    BY <1>2, <1>16, <1>17 DEF MadeWith, f, g, S, setup, public, s, p

(***************************************************************************)
(* What the combiner combines.                                             *)
(***************************************************************************)
(* pos picks n valid shares of different participants. *)
Selects(pos, combiner, ct, dc, shares, n) ==
    /\ pos \in [1..n -> DOMAIN shares]
    /\ \A k \in 1..n : ShareIsValid(combiner, ct, dc, shares[pos[k]])
    /\ \A k, l \in 1..n : shares[pos[k]].participant = shares[pos[l]].participant => k = l

(* out is the combination of such shares. *)
Combines(out, combiner, ct, dc, shares, n) ==
    \E pos : /\ Selects(pos, combiner, ct, dc, shares, n)
            /\ out = CombineVerified(ct, [k \in 1..n |-> shares[pos[k]]])

(* A set of positions of a list, in order. *)
LEMMA PositionsInOrder ==
    ASSUME NEW T, NEW shares \in Seq(T), NEW taken, taken \subseteq DOMAIN shares
    PROVE  /\ IsFiniteSet(taken) /\ Cardinality(taken) \in Nat
           /\ InOrder(taken) \in [1..Cardinality(taken) -> taken]
           /\ \A k, l \in 1..Cardinality(taken) : InOrder(taken)[k] = InOrder(taken)[l] => k = l
           /\ InOrder(taken) = << >> => taken = {}
<1>1. DOMAIN shares = 1..Len(shares) /\ Len(shares) \in Nat
    OBVIOUS
<1>2. taken \subseteq Nat
    BY <1>1
<1>3. IsFiniteSet(taken)
    <2>1. IsFiniteSet(1..Len(shares))
        BY <1>1, FS_Interval
    <2>2. QED
        BY <1>1, <2>1, FS_Subset
<1>4. /\ Cardinality(taken) \in Nat
      /\ InOrder(taken) \in [1..Cardinality(taken) -> taken]
      /\ \A k, l \in 1..Cardinality(taken) : InOrder(taken)[k] = InOrder(taken)[l] => k = l
    BY <1>2, <1>3, InOrderLists
<1>5. ASSUME InOrder(taken) = << >> PROVE taken = {}
    <2>1. 1..Cardinality(taken) = {}
        <3>1. DOMAIN InOrder(taken) = 1..Cardinality(taken)
            BY <1>4
        <3>2. DOMAIN << >> = {}
            OBVIOUS
        <3>3. QED
            BY <1>5, <3>1, <3>2
    <2>2. Cardinality(taken) = 0
        BY <1>4, <2>1
    <2>3. QED
        BY <1>3, <2>2, FS_EmptySet
<1>6. QED
    BY <1>3, <1>4, <1>5

(* The shares kept, in order. *)
LEMMA KeptInOrder ==
    ASSUME NEW T, NEW shares \in Seq(T), NEW taken, taken \subseteq DOMAIN shares
    PROVE  LET valid == Sorted(shares, taken).valid
           IN  /\ valid \in Seq(T) /\ Len(valid) = Cardinality(taken)
               /\ valid = [k \in 1..Cardinality(taken) |-> shares[InOrder(taken)[k]]]
<1> DEFINE kept == InOrder(taken)
           c == Cardinality(taken)
           valid == [k \in DOMAIN kept |-> shares[kept[k]]]
<1>1. c \in Nat /\ kept \in [1..c -> taken]
    BY PositionsInOrder
<1>2. Sorted(shares, taken).valid = valid
    BY DEF Sorted
<1> HIDE DEF c, kept
<1>3. valid = [k \in 1..c |-> shares[kept[k]]]
    BY <1>1
<1>4. \A k \in 1..c : shares[kept[k]] \in T
    BY <1>1
<1>5. valid \in Seq(T) /\ Len(valid) = c
    BY <1>1, <1>3, <1>4
<1>6. QED
    BY <1>2, <1>3, <1>5 DEF c, kept

(* The first n entries. *)
LEMMA FirstEntries ==
    ASSUME NEW T, NEW s \in Seq(T), NEW n \in Nat, n <= Len(s)
    PROVE  SubSeq(s, 1, n) = [k \in 1..n |-> s[k]]
OBVIOUS

(* The positions that verify_shares keeps. *)
Kept(combiner, ct, dc, shares) ==
    {i \in DOMAIN shares :
        /\ ShareIsValid(combiner, ct, dc, shares[i])
        /\ \A j \in 1..(i - 1) : ShareIsValid(combiner, ct, dc, shares[j])
              => shares[j].participant # shares[i].participant}

(* What combine_quorum returns, given the shares that verify_shares keeps. *)
QuorumReturns(valid, out, combiner, ct, dc, shares, n) ==
    LET taken == Kept(combiner, ct, dc, shares)
        kept == InOrder(taken)
    IN  /\ Len(valid) = Cardinality(taken)
        /\ valid = [k \in 1..Cardinality(taken) |-> shares[kept[k]]]
        /\ out.kind = "Ok" => VerifyCiphertext(ct) /\ n <= Len(valid)
        /\ VerifyCiphertext(ct) /\ n <= Len(valid) => out = CombineVerified(ct, SubSeq(valid, 1, n))

(* What verify_shares and combine_quorum return. *)
LEMMA QuorumResult ==
    ASSUME NEW T, NEW shares \in Seq(T), NEW combiner, NEW ct, NEW dc, NEW n \in Nat,
           n = combiner.public_key_set.threshold,
           NEW out, out = CombineQuorum(combiner, ct, dc, shares),
           NEW valid, valid = VerifyShares(combiner, ct, dc, shares).valid
    PROVE  valid \in Seq(T) /\ QuorumReturns(valid, out, combiner, ct, dc, shares, n)
<1> DEFINE taken == Kept(combiner, ct, dc, shares)
           checked == VerifyShares(combiner, ct, dc, shares)
<1>1. checked = Sorted(shares, taken)
    BY Zenon DEF VerifyShares, Kept
<1>2. out = IF ~VerifyCiphertext(ct) THEN Fail("InvalidCiphertextProof")
            ELSE IF Len(valid) < n
                 THEN IF checked.malformed # << >> THEN Malformed(checked.malformed)
                      ELSE Insufficient(n, Len(valid))
            ELSE CombineVerified(ct, SubSeq(valid, 1, n))
    BY Zenon DEF CombineQuorum
<1>3. /\ Fail("InvalidCiphertextProof").kind # "Ok" /\ Malformed(checked.malformed).kind # "Ok"
      /\ Insufficient(n, Len(valid)).kind # "Ok"
    <2> HIDE DEF checked
    <2>1. QED
        BY DEF Fail, Malformed, Insufficient
<1>4. taken \subseteq DOMAIN shares
    BY DEF Kept
<1> HIDE DEF taken, checked
<1>5. /\ valid \in Seq(T) /\ Len(valid) = Cardinality(taken)
      /\ valid = [k \in 1..Cardinality(taken) |-> shares[InOrder(taken)[k]]]
    BY <1>1, <1>4, KeptInOrder DEF checked
<1>6. Len(valid) \in Nat
    <2>1. valid \in Seq(T)
        BY <1>5
    <2>2. QED
        BY <2>1
<1>7. Len(valid) < n <=> ~(n <= Len(valid))
    BY <1>6
<1>8. out.kind = "Ok" => VerifyCiphertext(ct) /\ n <= Len(valid)
    BY <1>2, <1>3, <1>7
<1>9. VerifyCiphertext(ct) /\ n <= Len(valid) => out = CombineVerified(ct, SubSeq(valid, 1, n))
    BY <1>2, <1>7
<1>10. QED
    BY <1>5, <1>8, <1>9, Zenon DEF taken, QuorumReturns

(* combine_quorum combines n valid shares of different participants, and   *)
(* does so when enough are kept.                                           *)
LEMMA QuorumPicks ==
    ASSUME NEW T, NEW shares \in Seq(T), NEW combiner, NEW ct, NEW dc, NEW n \in Nat,
           n = combiner.public_key_set.threshold,
           NEW out, out = CombineQuorum(combiner, ct, dc, shares),
           \/ out.kind = "Ok"
           \/ VerifyCiphertext(ct) /\ n <= Cardinality(Kept(combiner, ct, dc, shares))
    PROVE  /\ VerifyCiphertext(ct)
           /\ Combines(out, combiner, ct, dc, shares, n)
<1> DEFINE taken == Kept(combiner, ct, dc, shares)
           kept == InOrder(taken)
           c == Cardinality(taken)
<1>1. PICK valid : valid = VerifyShares(combiner, ct, dc, shares).valid
    OBVIOUS
<1>2. taken \subseteq DOMAIN shares
    BY DEF Kept
<1>3. /\ valid \in Seq(T) /\ Len(valid) = c /\ valid = [k \in 1..c |-> shares[kept[k]]]
      /\ VerifyCiphertext(ct) /\ n <= c /\ out = CombineVerified(ct, SubSeq(valid, 1, n))
    <2>1. valid \in Seq(T) /\ QuorumReturns(valid, out, combiner, ct, dc, shares, n)
        BY <1>1, QuorumResult
    <2>2. QED
        BY <2>1, Zenon DEF QuorumReturns
<1>4. DOMAIN shares = 1..Len(shares) /\ Len(shares) \in Nat
    OBVIOUS
<1>5. \A i, j \in taken : shares[i].participant = shares[j].participant => i = j
    <2>1. ASSUME NEW i \in taken, NEW j \in taken, i < j
          PROVE  shares[i].participant # shares[j].participant
        <3>1. i \in 1..(j - 1)
            BY <1>2, <1>4, <2>1
        <3>2. QED
            BY <3>1, Zenon DEF Kept
    <2>2. \A i, j \in taken : i = j \/ i < j \/ j < i
        BY <1>2, <1>4
    <2> HIDE DEF taken
    <2>3. QED
        BY <2>1, <2>2
<1>6. \A i \in taken : ShareIsValid(combiner, ct, dc, shares[i])
    BY DEF Kept
<1> HIDE DEF taken
<1>7. /\ c \in Nat /\ kept \in [1..c -> taken]
      /\ \A k, l \in 1..c : kept[k] = kept[l] => k = l
    BY <1>2, PositionsInOrder
<1> DEFINE pos == [k \in 1..n |-> kept[k]]
<1> HIDE DEF c, kept
<1>8. \A k \in 1..n : k \in 1..c /\ pos[k] = kept[k] /\ kept[k] \in taken
    BY <1>3, <1>7
<1>9. SubSeq(valid, 1, n) = [k \in 1..n |-> shares[pos[k]]]
    <2>1. SubSeq(valid, 1, n) = [k \in 1..n |-> valid[k]]
        BY <1>3, FirstEntries
    <2>2. \A k \in 1..n : valid[k] = shares[pos[k]]
        BY <1>3, <1>8
    <2>3. QED
        BY <2>1, <2>2
<1>10. Selects(pos, combiner, ct, dc, shares, n)
    <2>1. pos \in [1..n -> DOMAIN shares]
        BY <1>2, <1>8
    <2> HIDE DEF pos
    <2>2. \A k \in 1..n : ShareIsValid(combiner, ct, dc, shares[pos[k]])
        BY <1>6, <1>8
    <2>3. ASSUME NEW k \in 1..n, NEW l \in 1..n,
                 shares[pos[k]].participant = shares[pos[l]].participant
          PROVE  k = l
        <3>1. pos[k] = pos[l]
            BY <1>5, <1>8, <2>3
        <3>2. QED
            BY <1>7, <1>8, <3>1
    <2>4. QED
        BY <2>1, <2>2, <2>3, Zenon DEF Selects
<1>11. out = CombineVerified(ct, [k \in 1..n |-> shares[pos[k]]])
    BY <1>3, <1>9, Zenon
<1> HIDE DEF pos
<1>12. QED
    BY <1>3, <1>10, <1>11, Zenon DEF Combines

(* So does combine_exact. *)
LEMMA ExactPicks ==
    ASSUME NEW T, NEW shares \in Seq(T), NEW combiner, NEW ct, NEW dc, NEW n \in Nat,
           n = combiner.public_key_set.threshold,
           NEW out, out = CombineExact(combiner, ct, dc, shares), out.kind = "Ok"
    PROVE  /\ VerifyCiphertext(ct)
           /\ Combines(out, combiner, ct, dc, shares, n)
<1> DEFINE repeated(i) == \E j \in 1..(i - 1) : shares[j].participant = shares[i].participant
           wrong == {i \in DOMAIN shares :
                        repeated(i) \/ ~ShareIsValid(combiner, ct, dc, shares[i])}
           bad == InOrder(wrong)
           unknown == {i \in DOMAIN shares :
                         shares[i].participant \notin DOMAIN combiner.public_key_set.public_shares}
           names == [i \in DOMAIN bad |-> shares[bad[i]].participant]
<1>1. out = IF Len(shares) # n THEN Insufficient(n, Len(shares))
            ELSE CombineSelected(combiner, ct, dc, shares)
    BY Zenon DEF CombineExact
<1>2. CombineSelected(combiner, ct, dc, shares)
          = IF ~VerifyCiphertext(ct) THEN Fail("InvalidCiphertextProof")
            ELSE IF unknown # {} THEN Fail("UnknownParticipant")
            ELSE IF bad # << >> THEN Malformed(names)
            ELSE CombineVerified(ct, shares)
    BY Zenon DEF CombineSelected
<1>3. /\ Fail("InvalidCiphertextProof").kind # "Ok" /\ Fail("UnknownParticipant").kind # "Ok"
      /\ Malformed(names).kind # "Ok" /\ Insufficient(n, Len(shares)).kind # "Ok"
    <2> HIDE DEF names
    <2>1. QED
        BY DEF Fail, Malformed, Insufficient
<1>4. wrong \subseteq DOMAIN shares
    OBVIOUS
<1>5. DOMAIN shares = 1..Len(shares) /\ Len(shares) \in Nat
    OBVIOUS
<1>6. ASSUME wrong = {}
      PROVE  /\ \A i \in DOMAIN shares : ShareIsValid(combiner, ct, dc, shares[i])
             /\ \A i, j \in DOMAIN shares : shares[i].participant = shares[j].participant => i = j
    <2>1. \A i \in DOMAIN shares : ~repeated(i) /\ ShareIsValid(combiner, ct, dc, shares[i])
        BY <1>6
    <2>2. ASSUME NEW i \in DOMAIN shares, NEW j \in DOMAIN shares, i < j
          PROVE  shares[i].participant # shares[j].participant
        <3>1. i \in 1..(j - 1)
            BY <1>5, <2>2
        <3>2. QED
            BY <2>1, <3>1, Zenon
    <2>3. \A i, j \in DOMAIN shares : i = j \/ i < j \/ j < i
        BY <1>5
    <2>4. QED
        BY <2>1, <2>2, <2>3
<1> HIDE DEF names, wrong
<1>7. bad = << >> => wrong = {}
    BY <1>4, PositionsInOrder
<1> HIDE DEF unknown, bad
<1>8. Len(shares) = n /\ out = CombineSelected(combiner, ct, dc, shares)
    BY <1>1, <1>3
<1>9. VerifyCiphertext(ct) /\ bad = << >> /\ out = CombineVerified(ct, shares)
    BY <1>2, <1>3, <1>8
<1> DEFINE pos == [k \in 1..n |-> k]
<1>10. Selects(pos, combiner, ct, dc, shares, n)
    BY <1>5, <1>6, <1>7, <1>8, <1>9 DEF Selects
<1>11. shares = [k \in 1..n |-> shares[pos[k]]]
    <2>1. \A k \in 1..n : pos[k] = k
        OBVIOUS
    <2>2. shares = [k \in 1..n |-> shares[k]]
        BY <1>5, <1>8
    <2>3. [k \in 1..n |-> shares[k]] = [k \in 1..n |-> shares[pos[k]]]
        BY <2>1
    <2>4. QED
        BY <2>2, <2>3
<1>12. out = CombineVerified(ct, [k \in 1..n |-> shares[pos[k]]])
    <2> HIDE DEF pos
    <2>1. PICK same : same = [k \in 1..n |-> shares[pos[k]]]
        OBVIOUS
    <2>2. out = CombineVerified(ct, same)
        BY <1>9, <1>11, <2>1
    <2>3. QED
        BY <2>1, <2>2, Zenon
<1> HIDE DEF pos
<1>13. QED
    BY <1>9, <1>10, <1>12, Zenon DEF Combines

(* A call that opens combines a threshold of valid shares. *)
LEMMA OpenedPicks ==
    ASSUME DecryptionInv, Opened
    PROVE  LET M == material[result.combiner]
               n == M.public_key_set.threshold
           IN  /\ result.combiner \in Ready /\ result.ct \in Ciphertexts
               /\ VerifyCiphertext(result.ct) /\ result.ct.associated_data = result.ad
               /\ Combines(result.outcome, CombinerOf(M), result.ct, result.dc, inbox, n)
<1> DEFINE M == material[result.combiner]
           n == M.public_key_set.threshold
           made == NewCombiner(M.public_key_set, M.setup_context)
           combined == IF result.call = "quorum"
                       THEN CombineQuorum(made.combiner, result.ct, result.dc, inbox)
                       ELSE CombineExact(made.combiner, result.ct, result.dc, inbox)
<1>1. Answered /\ result.outcome.kind = "Ok" /\ Equipped /\ InboxFrom
    BY DEF DecryptionInv, Opened
<1>2. result.combiner \in Ready /\ result.ct \in Ciphertexts
    BY <1>1, Zenon DEF Answered
<1>3. result.outcome = IF made.kind # "Ok" THEN made
                       ELSE WithAssociatedData(result.ct, result.ad, combined)
    BY <1>1, Zenon DEF Answered
<1>4. PICK dec, ctx : SetUpFrom(M, result.combiner, dec, ctx)
    BY <1>1, <1>2 DEF Equipped
<1>5. n \in Nat
    BY <1>4 DEF SetUpFrom, Holds
<1>6. made.kind = "Ok" /\ made.combiner = CombinerOf(M)
    BY <1>4, CombinerMade
<1>7. CombinerOf(M).public_key_set = M.public_key_set
    BY DEF CombinerOf
<1> HIDE DEF made, M
<1>8. Fail("AssociatedDataMismatch").kind # "Ok"
    BY DEF Fail
<1> HIDE DEF combined
<1>9. result.ct.associated_data = result.ad /\ result.outcome = combined
    BY <1>1, <1>3, <1>6, <1>8 DEF WithAssociatedData
<1>10. inbox \in Seq(ToSet(inbox))
    BY <1>1 DEF InboxFrom
<1>11. PICK T : inbox \in Seq(T)
    BY <1>10
<1>12. CASE result.call = "quorum"
    <2>1. combined = CombineQuorum(CombinerOf(M), result.ct, result.dc, inbox)
        BY <1>6, <1>12 DEF combined
    <2>2. n = CombinerOf(M).public_key_set.threshold /\ combined.kind = "Ok"
        BY <1>1, <1>7, <1>9
    <2> HIDE DEF n
    <2>3. /\ VerifyCiphertext(result.ct)
          /\ Combines(combined, CombinerOf(M), result.ct, result.dc, inbox, n)
        BY <1>5, <1>11, <2>1, <2>2, QuorumPicks, Zenon
    <2>4. QED
        BY <1>2, <1>9, <2>3, Zenon DEF M, n
<1>13. CASE result.call # "quorum"
    <2>1. combined = CombineExact(CombinerOf(M), result.ct, result.dc, inbox)
        BY <1>6, <1>13 DEF combined
    <2>2. n = CombinerOf(M).public_key_set.threshold /\ combined.kind = "Ok"
        BY <1>1, <1>7, <1>9
    <2> HIDE DEF n
    <2>3. /\ VerifyCiphertext(result.ct)
          /\ Combines(combined, CombinerOf(M), result.ct, result.dc, inbox, n)
        BY <1>5, <1>11, <2>1, <2>2, ExactPicks, Zenon
    <2>4. QED
        BY <1>2, <1>9, <2>3, Zenon DEF M, n
<1>14. QED
    BY <1>12, <1>13

(***************************************************************************)
(* A threshold of validators approves.                                     *)
(***************************************************************************)
(* Different members of a group that shares a secret have different        *)
(* shares.  Polynomials are drawn at random, so this fails with            *)
(* negligible probability; when it fails one member's decryption share     *)
(* passes for another's.  Groups of threshold 1 share one value.           *)
DistinctShares ==
    \A dep \in Deployments : \A dec, ctx \in dep.runs :
        (Fits(dec, ctx) /\ dec.threshold > 1) =>
            \A p, q \in DOMAIN dec.registry :
                (/\ Evaluate(dec.polynomial, p) = Evaluate(dec.polynomial, q)
                 /\ Evaluate(ctx.polynomial, p) = Evaluate(ctx.polynomial, q)) => p = q

(* The validators of finitely many shares are finitely many. *)
LEMMA FiniteValidators ==
    ASSUME NEW I, IsFiniteSet(I)
    PROVE  IsFiniteSet({i.validator : i \in I})
<1> DEFINE F == [i \in I |-> i.validator]
           V == {i.validator : i \in I}
<1>1. F \in [I -> V] /\ \A w \in V : \E i \in I : F[i] = w
    OBVIOUS
<1> HIDE DEF F, V
<1>2. F \in Surjection(I, V)
    BY <1>1 DEF Surjection
<1>3. IsFiniteSet(V)
    BY <1>2, FS_Surjection
<1>4. QED
    BY <1>3 DEF V

(* As many as n different members of a finite set. *)
LEMMA CountsUp ==
    ASSUME NEW n \in Nat, NEW A, IsFiniteSet(A), NEW F \in [1..n -> A],
           \A k, l \in 1..n : F[k] = F[l] => k = l
    PROVE  Cardinality(A) \in Nat /\ Cardinality(A) >= n
<1>1. F \in Injection(1..n, A)
    BY DEF Injection, IsInjective
<1>2. Cardinality(1..n) <= Cardinality(A)
    BY <1>1, FS_Injection
<1>3. Cardinality(1..n) = n
    BY FS_Interval
<1>4. Cardinality(A) \in Nat
    BY FS_CardinalityType
<1>5. QED
    BY <1>2, <1>3, <1>4

(* In every reachable state, what the combiner opens a threshold of        *)
(* validators decrypted, for the ciphertext, decryption context and setup  *)
(* of the combiner.                                                        *)
LEMMA ApprovedByThreshold ==
    ASSUME DistinctShares, DecryptionInv
    PROVE  ThresholdApproved
<1> DEFINE v == result.combiner
           M == material[v]
           n == M.public_key_set.threshold
           public == M.public_key_set.public_shares
           I == {i \in issued : i.ct = result.ct /\ i.dc = result.dc /\ i.setup = M.setup_context}
           A == {i.validator : i \in I}
<1>1. SUFFICES ASSUME Opened PROVE Cardinality(A) >= n
    BY Zenon DEF ThresholdApproved, Approvers
<1>2. v \in Ready /\ Combines(result.outcome, CombinerOf(M), result.ct, result.dc, inbox, n)
    BY <1>1, OpenedPicks
<1>3. PICK pos : Selects(pos, CombinerOf(M), result.ct, result.dc, inbox, n)
    BY <1>2 DEF Combines
<1>4. deployment \in Deployments /\ Equipped /\ IsFiniteSet(issued)
    BY DEF DecryptionInv
<1>5. PICK dec \in Runs, ctx \in Runs : SetUpFrom(M, v, dec, ctx)
    BY <1>2, <1>4 DEF Equipped
<1> DEFINE f == dec.polynomial
           g == ctx.polynomial
           part == [k \in 1..n |-> inbox[pos[k]].participant]
<1>6. n \in Nat \ {0} /\ n = dec.threshold /\ DOMAIN public = DOMAIN dec.registry /\ Fits(dec, ctx)
    BY <1>5 DEF SetUpFrom, Holds
<1>7. IsFiniteSet(A)
    <2>1. IsFiniteSet(I)
        BY <1>4, FS_Subset
    <2> HIDE DEF I
    <2>2. QED
        BY <2>1, FiniteValidators
<1>8. ASSUME NEW k \in 1..n
      PROVE  part[k] \in DOMAIN public /\ \E i \in I :
                /\ i.validator \in DOMAIN public
                /\ Evaluate(f, i.validator) = Evaluate(f, part[k])
                /\ Evaluate(g, i.validator) = Evaluate(g, part[k])
    <2>1. /\ pos[k] \in DOMAIN inbox
          /\ ShareIsValid(CombinerOf(M), result.ct, result.dc, inbox[pos[k]])
        BY <1>3 DEF Selects
    <2>2. part[k] = inbox[pos[k]].participant
        OBVIOUS
    <2> HIDE DEF part
    <2>3. /\ part[k] \in DOMAIN public
          /\ \E i \in issued : ApprovedBy(i, M, result.ct, result.dc, f, g, part[k])
        <3>1. /\ inbox[pos[k]].participant \in DOMAIN public
              /\ \E i \in issued : ApprovedBy(i, M, result.ct, result.dc, f, g,
                                              inbox[pos[k]].participant)
            <4> HIDE DEF v
            <4>1. QED
                BY <1>2, <1>5, <2>1, ValidShare, Zenon
        <3>2. QED
            BY <2>2, <3>1
    <2>4. QED
        BY <2>3 DEF ApprovedBy
<1>9. \A k, l \in 1..n : part[k] = part[l] => k = l
    BY <1>3 DEF Selects
<1>10. DOMAIN part = 1..n /\ part = [k \in 1..n |-> part[k]]
    OBVIOUS
<1> HIDE DEF n, public, part, I, M, v
<1>11. CASE n = 1
    <2>1. \E i \in I : TRUE
        BY <1>8, <1>11
    <2>2. PICK a : a \in A
        BY <2>1
    <2>3. [k \in 1..1 |-> a] \in [1..1 -> A] /\ \A k, l \in 1..1 : k = l
        BY <2>2
    <2> HIDE DEF A
    <2>4. QED
        BY <1>7, <1>11, <2>3, CountsUp
<1>12. CASE n > 1
    <2>1. ASSUME NEW p \in DOMAIN public, NEW q \in DOMAIN public,
                 Evaluate(f, p) = Evaluate(f, q), Evaluate(g, p) = Evaluate(g, q)
          PROVE  p = q
        BY <1>4, <1>6, <1>12, <2>1 DEF DistinctShares, Runs
    <2> HIDE DEF f, g
    <2>2. ASSUME NEW k \in 1..n PROVE part[k] \in A
        <3>1. PICK i \in I : /\ i.validator \in DOMAIN public
                             /\ Evaluate(f, i.validator) = Evaluate(f, part[k])
                             /\ Evaluate(g, i.validator) = Evaluate(g, part[k])
            BY <1>8
        <3>2. i.validator = part[k]
            BY <1>8, <2>1, <3>1
        <3>3. QED
            BY <3>2
    <2> HIDE DEF A
    <2>3. part \in [1..n -> A]
        BY <1>10, <2>2
    <2>4. QED
        BY <1>6, <1>7, <1>9, <2>3, CountsUp
<1>13. QED
    BY <1>6, <1>11, <1>12

(* When a combine call returns a plaintext, a threshold of different        *)
(* validators have called decrypt_share for that ciphertext under the       *)
(* combiner's setup, associated data and decryption context.                *)
THEOREM ThresholdApprovedAlways ==
    ASSUME DistinctShares
    PROVE  Spec => []ThresholdApproved
<1>1. DecryptionInv => ThresholdApproved
    BY ApprovedByThreshold
<1>2. QED
    BY <1>1, DecryptionInvariant, PTL

(***************************************************************************)
(* What opens was sealed.                                                  *)
(***************************************************************************)
(* A share in two bases, weighted. *)
LEMMA WeightedShare ==
    ASSUME NEW R \in Scalars, NEW S \in Scalars, NEW x \in Scalars, NEW z \in Scalars,
           NEW w \in Scalars
    PROVE  Mul(Add(Mul(R, x), Mul(S, z)), w) = Add(Mul(Mul(w, x), R), Mul(Mul(w, z), S))
<1>1. ASSUME NEW b \in Scalars, NEW y \in Scalars PROVE Mul(Mul(b, y), w) = Mul(Mul(w, y), b)
    <2>1. Mul(b, y) \in Scalars /\ Mul(w, y) \in Scalars
        BY MulLaws
    <2>2. Mul(Mul(b, y), w) = Mul(b, Mul(y, w)) /\ Mul(y, w) = Mul(w, y)
        BY MulLaws
    <2>3. Mul(b, Mul(w, y)) = Mul(Mul(w, y), b)
        BY <2>1, MulLaws
    <2>4. QED
        BY <2>2, <2>3
<1>2. Mul(Add(Mul(R, x), Mul(S, z)), w) = Add(Mul(Mul(R, x), w), Mul(Mul(S, z), w))
    <2>1. Mul(R, x) \in Int /\ Mul(S, z) \in Int /\ w \in Int
        BY GroupIsField, ScalarsAreInts
    <2>2. QED
        BY <2>1, MulDistributes
<1>3. QED
    BY <1>1, <1>2

(* n decryption shares made from sharings f and g, of participants at      *)
(* different points.                                                       *)
MadeFrom(shares, f, g, R, S, n) ==
    /\ DOMAIN shares = 1..n
    /\ \A k \in 1..n :
        /\ shares[k].participant \in Nat
        /\ MadeWith(shares[k], R, S, f, g)
    /\ \A k, l \in 1..n :
        ToScalar(shares[k].participant) = ToScalar(shares[l].participant) => k = l

(* The ciphertext opened with the point U. *)
OpenedWith(ct, U) ==
    [kind |-> "Ok", plaintext |-> ApplyPayloadMask(ct.encrypted_payload, ct.ephemeral_public, U)]

(* The point that a threshold of decryption shares combines to. *)
LEMMA CombinedPoint ==
    ASSUME NEW n \in Nat \ {0}, NEW f \in [1..n -> Scalars], NEW g \in [1..n -> Scalars],
           NEW R \in Scalars, NEW S \in Scalars, NEW shares, MadeFrom(shares, f, g, R, S, n),
           NEW ct
    PROVE  CombineVerified(ct, shares) = OpenedWith(ct, Add(Mul(f[1], R), Mul(g[1], S)))
<1> DEFINE D == 1..n
           part == [k \in D |-> shares[k].participant]
           X == [k \in D |-> ToScalar(part[k])]
           lambdas == LagrangeCoefficientsAtZero(X)
           sf == [k \in D |-> [participant |-> part[k], value |-> Evaluate(f, part[k])]]
           sg == [k \in D |-> [participant |-> part[k], value |-> Evaluate(g, part[k])]]
<1>1. n \in Nat /\ IsFiniteSet(D)
    <2>1. n \in Nat
        OBVIOUS
    <2>2. QED
        BY <2>1, FS_Interval
<1>2. [i \in DOMAIN shares |-> ToScalar(shares[i].participant)] = X
    BY DEF MadeFrom
<1>3. /\ part \in [D -> Nat]
      /\ \A k \in D : shares[k].share = GAdd(GMul(R, Evaluate(f, part[k])),
                                             GMul(S, Evaluate(g, part[k])))
      /\ \A k, l \in D : ToScalar(part[k]) = ToScalar(part[l]) => k = l
    BY DEF MadeFrom, MadeWith
<1> HIDE DEF part
<1>4. \A k \in D : /\ ToScalar(part[k]) \in Scalars
                   /\ Evaluate(f, part[k]) \in Scalars /\ Evaluate(g, part[k]) \in Scalars
    <2>1. \A p \in Nat : ToScalar(p) \in Scalars
        BY Remainder DEF ToScalar
    <2>2. \A p \in Nat : Evaluate(f, p) \in Scalars /\ Evaluate(g, p) \in Scalars
        BY <1>1, PublicKeyShareEvaluates
    <2>3. QED
        BY <1>3, <2>1, <2>2
<1>5. X \in [D -> Scalars] /\ Points(X, D)
    BY <1>3, <1>4 DEF Points
<1>6. SharesOfPolynomial(sf, f, n) /\ SharesOfPolynomial(sg, g, n)
    <2>1. ASSUME NEW k \in D
          PROVE  /\ sf[k] = [participant |-> part[k], value |-> Evaluate(f, part[k])]
                 /\ sg[k] = [participant |-> part[k], value |-> Evaluate(g, part[k])]
        OBVIOUS
    <2>2. sf \in [D -> [participant : Nat, value : Scalars]]
        BY <1>3, <1>4
    <2>3. sg \in [D -> [participant : Nat, value : Scalars]]
        BY <1>3, <1>4
    <2> HIDE DEF sf, sg
    <2>4. \A k \in D : /\ sf[k].value = Evaluate(f, sf[k].participant)
                      /\ sg[k].value = Evaluate(g, sg[k].participant)
        <3>1. ASSUME NEW k \in D
              PROVE  /\ sf[k].participant = part[k] /\ sf[k].value = Evaluate(f, part[k])
                     /\ sg[k].participant = part[k] /\ sg[k].value = Evaluate(g, part[k])
            <4>1. PICK x, z, p : x = Evaluate(f, part[k]) /\ z = Evaluate(g, part[k]) /\ p = part[k]
                OBVIOUS
            <4>2. sf[k] = [participant |-> p, value |-> x] /\ sg[k] = [participant |-> p, value |-> z]
                BY <2>1, <4>1, Zenon
            <4>3. QED
                BY <4>1, <4>2
        <3>2. QED
            BY <3>1, Zenon
    <2>5. QED
        BY <2>2, <2>3, <2>4 DEF SharesOfPolynomial
<1>7. PointsOf(sf, n) = X /\ PointsOf(sg, n) = X
    BY DEF PointsOf
<1>8. /\ \A k \in D : ValuesOf(sf, n)[k] = Evaluate(f, part[k])
      /\ \A k \in D : ValuesOf(sg, n)[k] = Evaluate(g, part[k])
    BY DEF ValuesOf
<1> HIDE DEF X, sf, sg
<1>9. PICK W : Weights(W, X, D) /\ lambdas = [i \in D |-> W[D][i]]
    BY <1>5, CoefficientsAreWeights
<1> HIDE DEF lambdas
<1>10. DOMAIN lambdas = D /\ (\A k \in D : lambdas[k] = W[D][k]) /\ W[D] \in [D -> Scalars]
    BY <1>9 DEF Weights, WeightsAt
<1>11. lambdas # << >>
    <2>1. 1 \in DOMAIN lambdas
        BY <1>10
    <2>2. QED
        BY <2>1
<1>12. /\ Weighted(W, D, ValuesOf(sf, n)) = f[1]
       /\ Weighted(W, D, ValuesOf(sg, n)) = g[1]
    <2>1. n >= n
        BY <1>1
    <2>2. QED
        BY <1>1, <1>5, <1>6, <1>7, <1>9, <2>1, SharesInterpolate
<1> DEFINE F == [k \in D |-> Mul(W[D][k], ValuesOf(sf, n)[k])]
           G == [k \in D |-> Mul(W[D][k], ValuesOf(sg, n)[k])]
           FR == [k \in D |-> Mul(F[k], R)]
           GS == [k \in D |-> Mul(G[k], S)]
           H == [k \in D |-> GMul(shares[k].share, lambdas[k])]
<1>13. ASSUME NEW k \in D
       PROVE  /\ F[k] \in Scalars /\ G[k] \in Scalars /\ FR[k] \in Scalars /\ GS[k] \in Scalars
              /\ H[k] = Add(FR[k], GS[k]) /\ H[k] \in Scalars
    <2>1. PICK w \in Scalars, x \in Scalars, z \in Scalars :
            w = W[D][k] /\ x = Evaluate(f, part[k]) /\ z = Evaluate(g, part[k])
        BY <1>4, <1>10
    <2>2. F[k] = Mul(w, x) /\ G[k] = Mul(w, z) /\ FR[k] = Mul(F[k], R) /\ GS[k] = Mul(G[k], S)
        BY <1>8, <2>1
    <2>3. H[k] = GMul(GAdd(GMul(R, x), GMul(S, z)), w)
        BY <1>3, <1>10, <2>1
    <2> HIDE DEF F, G, FR, GS, H
    <2>4. Mul(w, x) \in Scalars /\ Mul(w, z) \in Scalars /\ Mul(R, x) \in Scalars /\ Mul(S, z) \in Scalars
        BY MulLaws
    <2>5. Mul(Mul(w, x), R) \in Scalars /\ Mul(Mul(w, z), S) \in Scalars
        BY <2>4, MulLaws
    <2>6. GMul(GAdd(GMul(R, x), GMul(S, z)), w) = Mul(Add(Mul(R, x), Mul(S, z)), w)
        BY DEF GMul, GAdd, Mul, Add
    <2>7. H[k] = Add(FR[k], GS[k])
        BY <2>2, <2>3, <2>6, WeightedShare
    <2>8. Add(FR[k], GS[k]) \in Scalars
        <3>1. FR[k] \in Scalars /\ GS[k] \in Scalars
            BY <2>2, <2>5
        <3>2. QED
            BY <3>1, GroupIsField
    <2>9. QED
        BY <2>2, <2>4, <2>5, <2>7, <2>8
<1>14. /\ Total(F) = f[1] /\ Total(G) = g[1]
    BY <1>12, Zenon DEF Weighted
<1>15. /\ \A k \in D : FR[k] = Mul(F[k], R) /\ GS[k] = Mul(G[k], S)
       /\ DOMAIN F = D /\ DOMAIN G = D /\ DOMAIN FR = D /\ DOMAIN GS = D /\ DOMAIN H = D
       /\ F = [k \in D |-> F[k]] /\ G = [k \in D |-> G[k]] /\ FR = [k \in D |-> FR[k]]
       /\ GS = [k \in D |-> GS[k]] /\ H = [k \in D |-> H[k]]
    OBVIOUS
<1>16. [i \in DOMAIN lambdas |-> GMul(shares[i].share, lambdas[i])] = H
    BY <1>10
<1> HIDE DEF F, G, FR, GS, H, D
<1>17. /\ F \in [D -> Scalars] /\ G \in [D -> Scalars] /\ FR \in [D -> Scalars]
       /\ GS \in [D -> Scalars] /\ H \in [D -> Scalars]
    BY <1>13, <1>15
<1>18. Total(FR) = Mul(Total(F), R) /\ Total(GS) = Mul(Total(G), S)
    <2>1. Total(FR) = Mul(Total(F), R)
        BY <1>1, <1>15, <1>17, TotalLaws
    <2>2. Total(GS) = Mul(Total(G), S)
        BY <1>1, <1>15, <1>17, TotalLaws
    <2>3. QED
        BY <2>1, <2>2
<1>19. Total(H) = Add(Total(FR), Total(GS))
    BY <1>1, <1>13, <1>17, TotalLaws
<1>20. FoldFunction(GAdd, Identity, H) = Total(H)
    BY GroupSum DEF Total
<1>21. FoldFunction(GAdd, Identity, [i \in DOMAIN lambdas |-> GMul(shares[i].share, lambdas[i])])
           = Add(Mul(f[1], R), Mul(g[1], S))
    BY <1>14, <1>16, <1>18, <1>19, <1>20, Zenon
<1>22. QED
    BY <1>2, <1>11, <1>21, Zenon DEF CombineVerified, OpenedWith, lambdas

(* The shape of a ciphertext. *)
IsCiphertext(ct) ==
    ct = [associated_data |-> ct.associated_data, encrypted_payload |-> ct.encrypted_payload,
          ephemeral_public |-> ct.ephemeral_public, encryption_point |-> ct.encryption_point,
          challenge |-> ct.challenge, response |-> ct.response]

(* The fields of what seal_bytes makes. *)
SealedAs(ct, key, m, ad, r, r_prime) ==
    LET Y == EncryptionGroup(ct.ephemeral_public, MulGenerator(r_prime),
                             ct.associated_data, ct.encrypted_payload)
    IN  /\ IsCiphertext(ct) /\ ct.associated_data = ad
        /\ ct.ephemeral_public = MulGenerator(r)
        /\ ct.encrypted_payload = [plain |-> m, masks |-> {<<MulGenerator(r), GMul(key, r)>>}]
        /\ ct.response \in Scalars
        /\ GSub(MulGenerator(ct.response), GMul(ct.ephemeral_public, ct.challenge.value))
             = MulGenerator(r_prime)
        /\ ct.challenge = EncryptionChallenge(Y, ct.encryption_point, GMul(Y.value, r_prime))

(* What seal_bytes makes. *)
LEMMA SealedFields ==
    ASSUME HashesAreTyped, NEW key \in Scalars, NEW m, NEW ad, NEW r \in Scalars,
           NEW r_prime \in Scalars, NEW ct, ct = SealBytes(key, m, ad, r, r_prime)
    PROVE  SealedAs(ct, key, m, ad, r, r_prime)
<1> DEFINE R == MulGenerator(r)
           payload == ApplyPayloadMask([plain |-> m, masks |-> {}], R, GMul(key, r))
           Y == EncryptionGroup(R, MulGenerator(r_prime), ad, payload)
           V == GMul(Y.value, r)
           challenge == EncryptionChallenge(Y, V, GMul(Y.value, r_prime))
           e == challenge.value
           response == Add(r_prime, Mul(r, e))
<1>1. ct = [associated_data |-> ad, encrypted_payload |-> payload, ephemeral_public |-> R,
            encryption_point |-> V, challenge |-> challenge, response |-> response]
    BY Zenon DEF SealBytes
<1>2. payload = [plain |-> m, masks |-> {<<R, GMul(key, r)>>}]
    BY DEF ApplyPayloadMask
<1>3. e \in Scalars
    BY DEF EncryptionChallenge, Scalar, HashesAreTyped
<1> HIDE DEF payload, Y, V, challenge, response, R
<1>4. /\ IsCiphertext(ct) /\ ct.associated_data = ad /\ ct.encrypted_payload = payload
      /\ ct.ephemeral_public = R /\ ct.encryption_point = V /\ ct.challenge = challenge
      /\ ct.response = response
    BY <1>1 DEF IsCiphertext
<1> HIDE DEF e
<1>5. response \in Scalars /\ response = Add(r_prime, Mul(e, r))
    <2>1. Mul(r, e) = Mul(e, r) /\ Mul(e, r) \in Scalars
        BY <1>3, MulLaws
    <2>2. QED
        BY <1>3, <2>1, GroupIsField DEF response, e
<1>6. GSub(MulGenerator(response), GMul(R, e)) = MulGenerator(r_prime)
    <2>1. Gen \in Scalars
        BY GroupIsField
    <2>2. Sub(Mul(Gen, Add(r_prime, Mul(e, r))), Mul(Mul(Gen, r), e)) = Mul(Gen, r_prime)
        BY <1>3, <2>1, Response
    <2>3. QED
        BY <1>5, <2>2 DEF GSub, Sub, GMul, Mul, MulGenerator, R
<1>7. ct.challenge = EncryptionChallenge(Y, ct.encryption_point, GMul(Y.value, r_prime))
    BY <1>4, Zenon DEF challenge
<1>8. Y = EncryptionGroup(ct.ephemeral_public, MulGenerator(r_prime),
                          ct.associated_data, ct.encrypted_payload)
    BY <1>4, Zenon DEF Y
<1>9. GSub(MulGenerator(ct.response), GMul(ct.ephemeral_public, ct.challenge.value))
          = MulGenerator(r_prime)
    BY <1>4, <1>6, Zenon DEF e
<1>10. QED
    BY <1>2, <1>4, <1>5, <1>7, <1>8, <1>9, Zenon DEF R, SealedAs

(* A ciphertext's challenge binds everything in it but its response. *)
LEMMA CiphertextBinds ==
    ASSUME NEW R1, NEW R2, NEW n1, NEW n2, NEW a1, NEW a2, NEW p1, NEW p2, NEW V1, NEW V2,
           NEW w1, NEW w2,
           EncryptionChallenge(EncryptionGroup(R1, n1, a1, p1), V1, w1)
               = EncryptionChallenge(EncryptionGroup(R2, n2, a2, p2), V2, w2)
    PROVE  R1 = R2 /\ n1 = n2 /\ a1 = a2 /\ p1 = p2 /\ V1 = V2
<1>1. EncryptionGroup(R1, n1, a1, p1) = EncryptionGroup(R2, n2, a2, p2) /\ V1 = V2
    <2>1. \A Y1, Y2 : EncryptionChallenge(Y1, V1, w1) = EncryptionChallenge(Y2, V2, w2)
                        => Y1 = Y2 /\ V1 = V2
        BY DEF EncryptionChallenge, Scalar
    <2>2. QED
        BY <2>1
<1>2. QED
    BY <1>1 DEF EncryptionGroup, Point

(* A ciphertext that verifies with a sealed one's challenge is that one. *)
LEMMA SameChallenge ==
    ASSUME HashesAreTyped, NEW key \in Scalars, NEW m, NEW ad, NEW r \in Scalars,
           NEW r_prime \in Scalars, NEW ct, ct = SealBytes(key, m, ad, r, r_prime),
           NEW c, IsCiphertext(c), c.challenge = ct.challenge, c.response \in Scalars,
           VerifyCiphertext(c)
    PROVE  c = ct
<1>1. SealedAs(ct, key, m, ad, r, r_prime)
    BY SealedFields
<1> DEFINE e == ct.challenge.value
           n1 == GSub(MulGenerator(c.response), GMul(c.ephemeral_public, e))
           n2 == MulGenerator(r_prime)
<1>2. /\ IsCiphertext(ct) /\ ct.response \in Scalars /\ ct.ephemeral_public = MulGenerator(r)
      /\ GSub(MulGenerator(ct.response), GMul(ct.ephemeral_public, e)) = n2
    BY <1>1, Zenon DEF SealedAs
<1>3. PICK w2 : ct.challenge = EncryptionChallenge(
                    EncryptionGroup(ct.ephemeral_public, n2, ct.associated_data, ct.encrypted_payload),
                    ct.encryption_point, w2)
    BY <1>1, Zenon DEF SealedAs
<1>4. PICK w1 : c.challenge = EncryptionChallenge(
                    EncryptionGroup(c.ephemeral_public, n1, c.associated_data, c.encrypted_payload),
                    c.encryption_point, w1)
    BY Zenon DEF VerifyCiphertext
<1> HIDE DEF n1, n2
<1>5. /\ c.ephemeral_public = ct.ephemeral_public /\ n1 = n2
      /\ c.associated_data = ct.associated_data /\ c.encrypted_payload = ct.encrypted_payload
      /\ c.encryption_point = ct.encryption_point
    BY <1>3, <1>4, CiphertextBinds
<1>6. c.response = ct.response
    <2>1. e \in Scalars
        BY <1>3 DEF EncryptionChallenge, Scalar, HashesAreTyped
    <2>2. PICK x \in Scalars, y \in Scalars, R \in Scalars :
            x = MulGenerator(c.response) /\ y = MulGenerator(ct.response) /\ R = ct.ephemeral_public
        BY <1>2, GroupIsField
    <2> HIDE DEF e
    <2>3. GSub(x, GMul(R, e)) = GSub(y, GMul(R, e))
        BY <1>2, <1>5, <2>2 DEF n1
    <2>4. PICK b \in Scalars : b = GMul(R, e)
        <3>1. GMul(R, e) \in Scalars
            BY <2>1, GroupIsField
        <3>2. QED
            BY <3>1
    <2>5. Sub(x, b) = Sub(y, b)
        BY <2>3, <2>4, GroupIsField
    <2>6. x = y
        BY <2>5, SubLaws
    <2>7. QED
        <3>1. ct.response \in Scalars /\ MulGenerator(c.response) = MulGenerator(ct.response)
            BY <1>2, <2>2, <2>6
        <3>2. QED
            BY <3>1, DiscreteLogarithm
<1>7. QED
    BY <1>2, <1>5, <1>6 DEF IsCiphertext

(* What the transport makes of a ciphertext has its challenge. *)
LEMMA TamperedCiphertext ==
    ASSUME NEW kind \in CipherTamperKinds, NEW ct, IsCiphertext(ct), ct.response \in Scalars,
           NEW c \in CipherTamper(kind, ct)
    PROVE  IsCiphertext(c) /\ c.challenge = ct.challenge /\ c.response \in Scalars
<1>1. Add(ct.response, 1) \in Scalars
    BY GroupIsField, NonZeroProduct
<1>2. PICK a, b, d, h, k, l :
        ct = [associated_data |-> a, encrypted_payload |-> b, ephemeral_public |-> d,
              encryption_point |-> h, challenge |-> k, response |-> l]
    BY DEF IsCiphertext
<1>3. CASE kind = "associated_data"
    <2>1. PICK x : c = [ct EXCEPT !.associated_data = x]
        BY <1>3 DEF CipherTamper
    <2>2. QED
        BY <1>2, <2>1 DEF IsCiphertext
<1>4. CASE kind = "payload"
    <2>1. PICK x : c = [ct EXCEPT !.encrypted_payload.plain = x]
        BY <1>4 DEF CipherTamper
    <2>2. PICK y : c = [ct EXCEPT !.encrypted_payload = y]
        BY <2>1
    <2>3. QED
        BY <1>2, <2>2 DEF IsCiphertext
<1>5. CASE kind = "ephemeral_public"
    <2>1. PICK x : c = [ct EXCEPT !.ephemeral_public = x]
        BY <1>5 DEF CipherTamper
    <2>2. QED
        BY <1>2, <2>1 DEF IsCiphertext
<1>6. CASE kind = "encryption_point"
    <2>1. PICK x : c = [ct EXCEPT !.encryption_point = x]
        BY <1>6 DEF CipherTamper
    <2>2. QED
        BY <1>2, <2>1 DEF IsCiphertext
<1>7. CASE kind = "response"
    <2>1. c = [ct EXCEPT !.response = Add(ct.response, 1)]
        BY <1>7 DEF CipherTamper
    <2>2. PICK x \in Scalars : c = [ct EXCEPT !.response = x]
        BY <1>1, <2>1
    <2>3. QED
        BY <1>2, <2>2 DEF IsCiphertext
<1>8. QED
    BY <1>3, <1>4, <1>5, <1>6, <1>7 DEF CipherTamperKinds

(* A ciphertext that verifies is one that a client made. *)
LEMMA VerifiedIsSealed ==
    ASSUME HashesAreTyped, DecryptionInv, NEW c \in Ciphertexts, VerifyCiphertext(c)
    PROVE  \E s \in sealed : c = s.ct
<1>1. CASE \E s \in sealed : c = s.ct
    BY <1>1
<1>2. CASE \E kind \in CipherTampers, s \in sealed : c \in CipherTamper(kind, s.ct)
    <2>1. PICK kind \in CipherTampers, s \in sealed : c \in CipherTamper(kind, s.ct)
        BY <1>2
    <2>2. kind \in CipherTamperKinds
        BY DecryptionAssumption DEF DecryptionInv, CipherTampers
    <2>3. PICK m \in Plaintexts, ad \in AssociatedData, key \in Scalars, r \in Scalars,
              r_prime \in Scalars :
            s = [ct |-> SealBytes(key, m, ad, r, r_prime), plaintext |-> m, key |-> key]
        <3>1. SealedFrom(s)
            BY DEF DecryptionInv
        <3>2. QED
            BY <3>1, Zenon DEF SealedFrom
    <2>4. PICK ct : ct = s.ct /\ ct = SealBytes(key, m, ad, r, r_prime)
        BY <2>3
    <2>5. IsCiphertext(ct) /\ ct.response \in Scalars
        <3>1. SealedAs(ct, key, m, ad, r, r_prime)
            BY <2>4, SealedFields
        <3>2. QED
            BY <3>1, Zenon DEF SealedAs
    <2>6. IsCiphertext(c) /\ c.challenge = ct.challenge /\ c.response \in Scalars
        BY <2>1, <2>2, <2>4, <2>5, TamperedCiphertext
    <2>7. c = ct
        BY <2>4, <2>6, SameChallenge
    <2>8. QED
        BY <2>4, <2>7
<1>3. QED
    BY <1>1, <1>2 DEF Ciphertexts

(* A threshold of valid shares from the combiner's list. *)
Chosen(shares, v, ct, dc) ==
    LET n == material[v].public_key_set.threshold
    IN  \E pos : /\ Selects(pos, CombinerOf(material[v]), ct, dc, inbox, n)
                /\ shares = [k \in 1..n |-> inbox[pos[k]]]

(* What picked shares combine to: the Diffie-Hellman point of the key and  *)
(* the ciphertext's ephemeral point.                                       *)
LEMMA PickedCombine ==
    ASSUME HashesAreTyped, DecryptionInv, NEW v \in Ready, NEW dec \in Runs, NEW ctx \in Runs,
           SetUpFrom(material[v], v, dec, ctx), NEW ct, NEW dc, ct.ephemeral_public \in Scalars,
           NEW shares, Chosen(shares, v, ct, dc)
    PROVE  CombineVerified(ct, shares)
               = OpenedWith(ct, Mul(dec.polynomial[1], ct.ephemeral_public))
<1> DEFINE f == dec.polynomial
           g == ctx.polynomial
           M == material[v]
           R == ct.ephemeral_public
           S == DecryptionGroup(M.setup_context, ct, dc).value
<1>1. PICK n : n = M.public_key_set.threshold
    OBVIOUS
<1>2. PICK pos : /\ Selects(pos, CombinerOf(M), ct, dc, inbox, n)
                 /\ shares = [k \in 1..n |-> inbox[pos[k]]]
    BY <1>1 DEF Chosen
<1>3. /\ n \in Nat \ {0} /\ f \in [1..n -> Scalars] /\ g \in [1..n -> Scalars] /\ g[1] = 0
      /\ DOMAIN M.public_key_set.public_shares \subseteq Validators
    BY <1>1 DEF SetUpFrom, Holds
<1>4. S \in Scalars
    BY DEF DecryptionGroup, Point, HashesAreTyped
<1>5. ASSUME NEW k \in 1..n
      PROVE  shares[k].participant \in Validators /\ MadeWith(shares[k], R, S, f, g)
    <2>1. pos[k] \in DOMAIN inbox /\ ShareIsValid(CombinerOf(M), ct, dc, inbox[pos[k]])
        BY <1>2 DEF Selects
    <2>2. /\ inbox[pos[k]].participant \in DOMAIN M.public_key_set.public_shares
          /\ MadeWith(inbox[pos[k]], R, S, f, g)
        BY <2>1, ValidShare, Zenon
    <2>3. shares[k] = inbox[pos[k]]
        BY <1>2
    <2> HIDE DEF R, S, f, g, M
    <2>4. QED
        BY <1>3, <2>2, <2>3
<1>6. \A k, l \in 1..n : shares[k].participant = shares[l].participant => k = l
    BY <1>2 DEF Selects
<1>7. DOMAIN shares = 1..n
    BY <1>2
<1> HIDE DEF S
<1>8. MadeFrom(shares, f, g, R, S, n)
    <2>1. /\ \A p \in Validators : p \in Nat
          /\ \A p, q \in Validators : ToScalar(p) = ToScalar(q) => p = q
        BY DecryptionAssumption
    <2>2. \A k \in 1..n : shares[k].participant \in Nat
        BY <1>5, <2>1
    <2>3. \A k, l \in 1..n :
            ToScalar(shares[k].participant) = ToScalar(shares[l].participant) => k = l
        BY <1>5, <1>6, <2>1
    <2>4. QED
        BY <1>5, <1>7, <2>2, <2>3, Zenon DEF MadeFrom
<1>9. CombineVerified(ct, shares) = OpenedWith(ct, Add(Mul(f[1], R), Mul(g[1], S)))
    <2>1. n \in Nat \ {0}
        BY <1>3
    <2>2. PICK f0 \in [1..n -> Scalars], g0 \in [1..n -> Scalars], R0 \in Scalars, S0 \in Scalars :
            f0 = f /\ g0 = g /\ R0 = R /\ S0 = S
        BY <1>3, <1>4
    <2>3. MadeFrom(shares, f0, g0, R0, S0, n)
        BY <1>8, <2>2
    <2> HIDE DEF f, g, R, M
    <2>4. CombineVerified(ct, shares) = OpenedWith(ct, Add(Mul(f0[1], R0), Mul(g0[1], S0)))
        BY <2>1, <2>3, CombinedPoint
    <2>5. QED
        BY <2>2, <2>4
<1>10. Add(Mul(f[1], R), Mul(g[1], S)) = Mul(f[1], R)
    <2>1. f[1] \in Scalars
        BY <1>3
    <2>2. Mul(f[1], R) \in Scalars /\ Mul(0, S) = 0
        BY <1>4, <2>1, MulLaws, ScalarsAreInts
    <2>3. Add(Mul(f[1], R), 0) = Mul(f[1], R)
        BY <2>2, AddLaws, ScalarsAreInts
    <2>4. QED
        BY <1>3, <2>2, <2>3, Zenon
<1>11. QED
    BY <1>9, <1>10, Zenon

(* The mask comes off. *)
LEMMA MaskRemoved ==
    ASSUME NEW m, NEW R, NEW U, NEW payload, payload = [plain |-> m, masks |-> {<<R, U>>}]
    PROVE  ApplyPayloadMask(payload, R, U) = [plain |-> m, masks |-> {}]
BY DEF ApplyPayloadMask

(* In every reachable state, what the combiner opens is what was sealed. *)
LEMMA OpensSealed ==
    ASSUME HashesAreTyped, DecryptionInv
    PROVE  OpensWhatWasSealed
<1> DEFINE v == result.combiner
           M == material[v]
           n == M.public_key_set.threshold
           ct == result.ct
<1>1. SUFFICES ASSUME Opened
               PROVE  /\ \E s \in sealed : ct = s.ct
                      /\ \A s \in sealed :
                          (s.ct = ct /\ s.key = M.public_key_set.joint_public_key)
                              => /\ result.outcome.plaintext = [plain |-> s.plaintext, masks |-> {}]
                                 /\ s.ct.associated_data = result.ad
    BY DEF OpensWhatWasSealed
<1>2. /\ v \in Ready /\ ct \in Ciphertexts /\ VerifyCiphertext(ct)
      /\ ct.associated_data = result.ad
      /\ Combines(result.outcome, CombinerOf(M), ct, result.dc, inbox, n)
    BY <1>1, OpenedPicks
<1>3. \E s \in sealed : ct = s.ct
    BY <1>2, VerifiedIsSealed
<1>4. ASSUME NEW s \in sealed, s.ct = ct, s.key = M.public_key_set.joint_public_key
      PROVE  result.outcome.plaintext = [plain |-> s.plaintext, masks |-> {}]
    <2>1. SealedFrom(s)
        BY DEF DecryptionInv
    <2>2. PICK m \in Plaintexts, ad \in AssociatedData, key \in Scalars, r \in Scalars,
              r_prime \in Scalars :
            s = [ct |-> SealBytes(key, m, ad, r, r_prime), plaintext |-> m, key |-> key]
        BY <2>1, Zenon DEF SealedFrom
    <2>3. ct = SealBytes(key, m, ad, r, r_prime) /\ s.plaintext = m /\ s.key = key
        BY <1>4, <2>2
    <2>4. SealedAs(ct, key, m, ad, r, r_prime)
        BY <2>3, SealedFields
    <2>5. /\ ct.ephemeral_public = MulGenerator(r)
          /\ ct.encrypted_payload = [plain |-> m, masks |-> {<<MulGenerator(r), GMul(key, r)>>}]
        BY <2>4, Zenon DEF SealedAs
    <2>6. PICK dec \in Runs, ctx \in Runs : SetUpFrom(M, v, dec, ctx)
        BY <1>2 DEF DecryptionInv, Equipped
    <2> DEFINE secret == dec.polynomial[1]
    <2>7. key = MulGenerator(secret) /\ secret \in Scalars
        <3>1. Holds(M, v, dec.polynomial, ctx.polynomial)
            BY <2>6 DEF SetUpFrom
        <3>2. M.public_key_set.joint_public_key = MulGenerator(secret)
            BY <3>1, Zenon DEF Holds
        <3>3. n \in Nat \ {0} /\ dec.polynomial \in [1..n -> Scalars]
            BY <3>1, Zenon DEF Holds
        <3> HIDE DEF n, M
        <3>4. secret \in Scalars
            BY <3>3
        <3>5. QED
            BY <1>4, <2>3, <3>2, <3>4
    <2>8. PICK shares : Chosen(shares, v, ct, result.dc) /\ result.outcome = CombineVerified(ct, shares)
        BY <1>2, Zenon DEF Combines, Chosen
    <2>9. ct.ephemeral_public \in Scalars
        BY <2>5, GroupIsField
    <2>10. PICK c, d : c = ct /\ d = result.dc
        OBVIOUS
    <2> HIDE DEF n, ct, v
    <2>11. result.outcome = OpenedWith(ct, Mul(secret, ct.ephemeral_public))
        <3>1. CombineVerified(c, shares) = OpenedWith(c, Mul(secret, c.ephemeral_public))
            BY <1>2, <2>6, <2>8, <2>9, <2>10, PickedCombine
        <3>2. QED
            BY <2>8, <2>10, <3>1
    <2>12. Mul(secret, MulGenerator(r)) = GMul(key, r)
        <3> HIDE DEF secret
        <3>1. MulGenerator(r) = Mul(Gen, r) /\ MulGenerator(secret) = Mul(Gen, secret) /\ Gen \in Scalars
            BY <2>7, GroupIsField
        <3>2. Mul(secret, Mul(Gen, r)) = Mul(Mul(secret, Gen), r) /\ Mul(secret, Gen) = Mul(Gen, secret)
            BY <2>7, <3>1, MulLaws
        <3>3. GMul(key, r) = Mul(key, r)
            BY GroupIsField
        <3>4. QED
            BY <2>7, <3>1, <3>2, <3>3
    <2>13. PICK U, R : U = Mul(secret, ct.ephemeral_public) /\ R = ct.ephemeral_public
        OBVIOUS
    <2>14. ct.encrypted_payload = [plain |-> m, masks |-> {<<R, U>>}]
        BY <2>5, <2>12, <2>13, Zenon
    <2>15. ApplyPayloadMask(ct.encrypted_payload, R, U) = [plain |-> m, masks |-> {}]
        BY <2>14, MaskRemoved
    <2>16. result.outcome = [kind |-> "Ok", plaintext |-> [plain |-> m, masks |-> {}]]
        BY <2>11, <2>13, <2>15, Zenon DEF OpenedWith
    <2>17. QED
        BY <2>3, <2>16
<1>5. QED
    BY <1>2, <1>3, <1>4

(* A combine call opens only ciphertexts that seal_bytes made, and one      *)
(* sealed to the combiner's key to what was sealed, under the associated    *)
(* data the combiner expects.                                               *)
THEOREM OpensWhatWasSealedAlways ==
    ASSUME HashesAreTyped
    PROVE  Spec => []OpensWhatWasSealed
<1>1. DecryptionInv => OpensWhatWasSealed
    BY OpensSealed
<1>2. QED
    BY <1>1, DecryptionInvariant, PTL

(***************************************************************************)
(* Good shares are not blocked.                                            *)
(***************************************************************************)
(* A share that a validator issued verifies under its public shares. *)
LEMMA HonestShareVerifies ==
    ASSUME HashesAreTyped, NEW share, NEW secret, NEW setup, NEW ct, NEW dc, NEW public,
           NEW m \in Scalars, NEW n \in Scalars, NEW x \in Scalars, NEW z \in Scalars,
           ct.ephemeral_public \in Scalars,
           Answers(share, secret, setup, ct, dc, m, n),
           secret.decryption = x, secret.context = z,
           public = [decryption |-> MulGenerator(x), context |-> MulGenerator(z)]
    PROVE  VerifyDecryptionShare(setup, DecryptionGroup(setup, ct, dc), ct, share, public)
<1> DEFINE R == ct.ephemeral_public
           S == DecryptionGroup(setup, ct, dc)
           B == S.value
           e == share.challenge.value
           inR(a, b) == GAdd(GMul(R, a), GMul(B, b))
<1>1. /\ share.share = inR(x, z)
      /\ share.challenge = ShareChallenge(setup, S, MulGenerator(x), MulGenerator(z), inR(x, z),
                                          MulGenerator(m), MulGenerator(n), inR(m, n))
      /\ share.decryption_response = Add(m, Mul(e, x))
      /\ share.context_response = Add(n, Mul(e, z))
    BY Zenon DEF Answers
<1>2. e \in Scalars /\ B \in Scalars
    BY <1>1 DEF ShareChallenge, Scalar, DecryptionGroup, Point, HashesAreTyped
<1>3. Gen \in Scalars
    BY GroupIsField
<1>4. public.decryption = MulGenerator(x) /\ public.context = MulGenerator(z)
    OBVIOUS
<1> DEFINE dr == share.decryption_response
           cr == share.context_response
           X_prime == GSub(MulGenerator(dr), GMul(public.decryption, e))
           Z_prime == GSub(MulGenerator(cr), GMul(public.context, e))
           W_prime == GSub(GAdd(GMul(R, dr), GMul(B, cr)), GMul(share.share, e))
<1>5. VerifyDecryptionShare(setup, S, ct, share, public)
          <=> ShareChallenge(setup, S, public.decryption, public.context, share.share,
                             X_prime, Z_prime, W_prime) = share.challenge
    BY Zenon DEF VerifyDecryptionShare
<1> HIDE DEF S, B, e
<1>6. ASSUME NEW w \in Scalars, NEW y \in Scalars
      PROVE  GSub(MulGenerator(Add(w, Mul(e, y))), GMul(MulGenerator(y), e)) = MulGenerator(w)
    <2>1. Sub(Mul(Gen, Add(w, Mul(e, y))), Mul(Mul(Gen, y), e)) = Mul(Gen, w)
        BY <1>2, <1>3, Response
    <2>2. QED
        BY <2>1 DEF GSub, Sub, GMul, Mul, MulGenerator
<1>7. X_prime = MulGenerator(m) /\ Z_prime = MulGenerator(n)
    BY <1>1, <1>4, <1>6
<1>8. W_prime = inR(m, n)
    <2>1. PICK r \in Scalars, b \in Scalars, c \in Scalars : r = R /\ b = B /\ c = e
        BY <1>2
    <2>2. ResponsesRecover(r, b, x, z, m, n, c)
        BY DoubleResponse
    <2>3. QED
        BY <1>1, <2>1, <2>2, Zenon DEF ResponsesRecover
<1>9. QED
    BY <1>1, <1>4, <1>5, <1>7, <1>8, Zenon DEF S

(* A share that a validator of the combiner's setup issued for the         *)
(* combiner's question is valid.                                           *)
LEMMA IssuedIsValid ==
    ASSUME HashesAreTyped, DecryptionInv, NEW v \in Ready, NEW i \in issued,
           i.setup = material[v].setup_context, i.ct.ephemeral_public \in Scalars
    PROVE  /\ i.share.participant = i.validator
           /\ ShareIsValid(CombinerOf(material[v]), i.ct, i.dc, i.share)
<1> DEFINE M == material[v]
           w == i.validator
           public == M.public_key_set.public_shares
           setup == M.setup_context
<1>1. deployment \in Deployments /\ Equipped /\ IssuedFrom(i)
    BY DEF DecryptionInv
<1>2. w \in Ready /\ i.setup = material[w].setup_context
    BY <1>1 DEF IssuedFrom
<1>3. PICK m \in Scalars, n \in Scalars :
        Answers(i.share, material[w].secret_share, i.setup, i.ct, i.dc, m, n)
    BY <1>1 DEF IssuedFrom
<1>4. PICK dec \in Runs, ctx \in Runs : SetUpFrom(M, v, dec, ctx)
    BY <1>1 DEF Equipped
<1> DEFINE f == dec.polynomial
           g == ctx.polynomial
           x == Evaluate(f, w)
           z == Evaluate(g, w)
<1>5. Holds(M, v, f, g) /\ DOMAIN public = DOMAIN dec.registry
    BY <1>4 DEF SetUpFrom
<1>6. /\ Holds(material[w], w, f, g)
      /\ DOMAIN material[w].public_key_set.public_shares = DOMAIN dec.registry
    BY <1>1, <1>2, <1>4, SameSetup
<1> HIDE DEF f, g, M, w
<1>7. material[w].secret_share = [participant |-> w, decryption |-> x, context |-> z]
    BY <1>6, Zenon DEF Holds
<1>8. w \in DOMAIN public /\ DOMAIN public \subseteq Validators
    BY <1>5, <1>6, Zenon DEF Holds
<1>9. public[w] = [decryption |-> MulGenerator(x), context |-> MulGenerator(z)]
    BY <1>5, <1>8, Zenon DEF Holds
<1>10. x \in Scalars /\ z \in Scalars
    <2>1. PICK k \in Nat : f \in [1..k -> Scalars] /\ g \in [1..k -> Scalars]
        BY <1>5 DEF Holds
    <2>2. QED
        BY <1>8, <2>1, ValueTypes
<1> HIDE DEF x, z, public
<1>11. PICK secret : /\ secret = material[w].secret_share /\ secret.participant = w
                     /\ secret.decryption = x /\ secret.context = z
    BY <1>7
<1>12. i.share.participant = w
    BY <1>3, <1>11, Zenon DEF Answers
<1>13. PICK ct, dc, share : ct = i.ct /\ dc = i.dc /\ share = i.share /\ ct.ephemeral_public \in Scalars
    OBVIOUS
<1>14. Answers(share, secret, setup, ct, dc, m, n)
    BY <1>3, <1>11, <1>13 DEF M
<1>15. VerifyDecryptionShare(setup, DecryptionGroup(setup, ct, dc), ct, share, public[w])
    <2> HIDE DEF setup
    <2>1. PICK st, pb : st = setup /\ pb = public[w]
        OBVIOUS
    <2>2. Answers(share, secret, st, ct, dc, m, n)
        BY <1>14, <2>1
    <2>3. pb = [decryption |-> MulGenerator(x), context |-> MulGenerator(z)]
        BY <1>9, <2>1
    <2>4. VerifyDecryptionShare(st, DecryptionGroup(st, ct, dc), ct, share, pb)
        BY <1>10, <1>11, <1>13, <2>2, <2>3, HonestShareVerifies
    <2>5. QED
        BY <2>1, <2>4
<1>16. ShareIsValid(CombinerOf(M), ct, dc, share)
    BY <1>8, <1>12, <1>13, <1>15, Zenon DEF ShareIsValid, CombinerOf, public
<1>17. QED
    BY <1>12, <1>13, <1>16 DEF M, w

(* A participant with a valid share in the list has one kept. *)
LEMMA FirstIsKept ==
    ASSUME NEW T, NEW shares \in Seq(T), NEW combiner, NEW ct, NEW dc, NEW k \in DOMAIN shares,
           ShareIsValid(combiner, ct, dc, shares[k])
    PROVE  \E i \in Kept(combiner, ct, dc, shares) : shares[i].participant = shares[k].participant
<1> DEFINE p == shares[k].participant
           Q == {i \in DOMAIN shares : /\ ShareIsValid(combiner, ct, dc, shares[i])
                                       /\ shares[i].participant = p}
<1>1. DOMAIN shares = 1..Len(shares) /\ Len(shares) \in Nat
    OBVIOUS
<1>2. Q \subseteq Nat /\ Q # {}
    BY <1>1
<1>3. PICK i \in Q : \A j \in Q : i <= j
    <2> HIDE DEF Q
    <2>1. QED
        BY <1>2, LeastElement
<1>4. ASSUME NEW j \in 1..(i - 1), ShareIsValid(combiner, ct, dc, shares[j])
      PROVE  shares[j].participant # p
    <2>1. j \in DOMAIN shares /\ ~(i <= j)
        BY <1>1
    <2>2. j \notin Q
        BY <1>3, <2>1
    <2>3. QED
        BY <1>4, <2>1, <2>2
<1>5. i \in Kept(combiner, ct, dc, shares)
    BY <1>4, Zenon DEF Kept
<1>6. QED
    BY <1>5

(* In every reachable state, a threshold of good shares opens. *)
LEMMA GoodSharesOpen ==
    ASSUME HashesAreTyped, DecryptionInv
    PROVE  QuorumNotBlocked
<1> DEFINE v == result.combiner
           M == material[v]
           n == M.public_key_set.threshold
           ct == result.ct
           I == {i \in issued : /\ i.ct = result.ct /\ i.dc = result.dc
                                /\ i.setup = M.setup_context /\ i.share \in ToSet(inbox)}
           G == {i.validator : i \in I}
<1>1. SUFFICES ASSUME result # NoResult, result.call = "quorum", result.ad = ct.associated_data,
                      VerifyCiphertext(ct), Cardinality(G) >= n
               PROVE  Opened
    BY Zenon DEF QuorumNotBlocked, GoodSenders
<1>2. /\ Answered /\ deployment \in Deployments /\ Equipped /\ IsFiniteSet(issued)
      /\ inbox \in Seq(ToSet(inbox))
    BY <1>1 DEF DecryptionInv, InboxFrom
<1>3. v \in Ready /\ ct \in Ciphertexts
    BY <1>2, Zenon DEF Answered
<1>4. PICK dec \in Runs, ctx \in Runs : SetUpFrom(M, v, dec, ctx)
    BY <1>2, <1>3 DEF Equipped
<1>5. n \in Nat \ {0}
    BY <1>4 DEF SetUpFrom, Holds
<1> DEFINE made == NewCombiner(M.public_key_set, M.setup_context)
           out == CombineQuorum(CombinerOf(M), ct, result.dc, inbox)
<1>6. made.kind = "Ok" /\ made.combiner = CombinerOf(M)
    BY <1>4, CombinerMade
<1>7. result.outcome = out
    <2>1. result.outcome = IF made.kind # "Ok" THEN made
                           ELSE WithAssociatedData(ct, result.ad,
                                    CombineQuorum(made.combiner, ct, result.dc, inbox))
        BY <1>1, <1>2, Zenon DEF Answered
    <2>2. QED
        BY <1>1, <1>6, <2>1, Zenon DEF WithAssociatedData
<1>8. ct.ephemeral_public \in Scalars
    <2>1. PICK s \in sealed : ct = s.ct
        BY <1>1, <1>3, VerifiedIsSealed
    <2>2. SealedFrom(s)
        BY DEF DecryptionInv
    <2>3. PICK m \in Plaintexts, ad \in AssociatedData, key \in Scalars, r \in Scalars,
              r_prime \in Scalars :
            s = [ct |-> SealBytes(key, m, ad, r, r_prime), plaintext |-> m, key |-> key]
        BY <2>2, Zenon DEF SealedFrom
    <2>4. ct = SealBytes(key, m, ad, r, r_prime)
        BY <2>1, <2>3
    <2>5. SealedAs(ct, key, m, ad, r, r_prime)
        BY <2>4, SealedFields
    <2>6. ct.ephemeral_public = MulGenerator(r)
        BY <2>5, Zenon DEF SealedAs
    <2>7. QED
        BY <2>6, GroupIsField
<1> DEFINE K == Kept(CombinerOf(M), ct, result.dc, inbox)
<1>9. ASSUME NEW w \in G PROVE \E k \in K : inbox[k].participant = w
    <2>1. PICK i \in I : w = i.validator
        OBVIOUS
    <2>2. PICK k \in DOMAIN inbox : inbox[k] = i.share
        BY DEF ToSet
    <2>3. i.ct.ephemeral_public \in Scalars
        BY <1>8
    <2>4. /\ i.share.participant = w
          /\ ShareIsValid(CombinerOf(M), i.ct, i.dc, i.share)
        BY <1>3, <2>1, <2>3, IssuedIsValid
    <2>5. ShareIsValid(CombinerOf(M), ct, result.dc, inbox[k]) /\ inbox[k].participant = w
        BY <2>2, <2>4
    <2>6. \E j \in K : inbox[j].participant = inbox[k].participant
        <3>1. PICK T : inbox \in Seq(T)
            BY <1>2
        <3> HIDE DEF M, ct
        <3>2. QED
            BY <2>5, <3>1, FirstIsKept
    <2>7. QED
        BY <2>5, <2>6
<1>10. IsFiniteSet(G)
    <2>1. IsFiniteSet(I)
        BY <1>2, FS_Subset
    <2> HIDE DEF I
    <2>2. QED
        BY <2>1, FiniteValidators
<1>11. K \subseteq DOMAIN inbox
    BY DEF Kept
<1>12. IsFiniteSet(K)
    <2>1. PICK T : inbox \in Seq(T)
        BY <1>2
    <2> HIDE DEF K
    <2>2. QED
        BY <1>11, <2>1, PositionsInOrder
<1>13. n <= Cardinality(K)
    <2> HIDE DEF K, G, n
    <2> DEFINE at == [w \in G |-> CHOOSE k \in K : inbox[k].participant = w]
    <2>1. ASSUME NEW w \in G PROVE at[w] \in K /\ inbox[at[w]].participant = w
        <3>1. at[w] = CHOOSE k \in K : inbox[k].participant = w
            OBVIOUS
        <3>2. QED
            BY <1>9, <3>1, Zenon
    <2>2. at = [w \in G |-> at[w]]
        OBVIOUS
    <2> HIDE DEF at
    <2>3. at \in [G -> K] /\ \A w, u \in G : at[w] = at[u] => w = u
        BY <2>1, <2>2
    <2>4. at \in Injection(G, K)
        BY <2>3 DEF Injection, IsInjective
    <2>5. Cardinality(G) <= Cardinality(K)
        BY <1>12, <2>4, FS_Injection
    <2>6. Cardinality(G) \in Nat /\ Cardinality(K) \in Nat
        BY <1>10, <1>12, FS_CardinalityType
    <2>7. QED
        BY <1>1, <1>5, <2>5, <2>6
<1>14. Combines(out, CombinerOf(M), ct, result.dc, inbox, n)
    <2>1. PICK T : inbox \in Seq(T)
        BY <1>2
    <2>2. n = CombinerOf(M).public_key_set.threshold /\ n \in Nat
        BY <1>5 DEF CombinerOf
    <2>3. VerifyCiphertext(ct) /\ n <= Cardinality(Kept(CombinerOf(M), ct, result.dc, inbox))
        BY <1>1, <1>13
    <2> HIDE DEF n, M, ct, K
    <2>4. QED
        BY <2>1, <2>2, <2>3, QuorumPicks
<1>15. PICK shares : Chosen(shares, v, ct, result.dc) /\ out = CombineVerified(ct, shares)
    BY <1>14, Zenon DEF Combines, Chosen
<1>16. PICK c, d : c = ct /\ d = result.dc
    OBVIOUS
<1>17. CombineVerified(c, shares) = OpenedWith(c, Mul(dec.polynomial[1], c.ephemeral_public))
    <2> HIDE DEF n, ct, v, out
    <2>1. QED
        BY <1>3, <1>4, <1>8, <1>15, <1>16, PickedCombine
<1>18. CombineVerified(c, shares).kind = "Ok"
    BY <1>17 DEF OpenedWith
<1>19. QED
    BY <1>1, <1>7, <1>15, <1>16, <1>18 DEF Opened

(* combine_quorum opens when the list holds good shares of a threshold of   *)
(* different validators, whatever else it holds and in whatever order.      *)
THEOREM QuorumNotBlockedAlways ==
    ASSUME HashesAreTyped
    PROVE  Spec => []QuorumNotBlocked
<1>1. DecryptionInv => QuorumNotBlocked
    BY GoodSharesOpen
<1>2. QED
    BY <1>1, DecryptionInvariant, PTL

(***************************************************************************)
(* A threshold of one setup holds one key and a sharing of zero.           *)
(***************************************************************************)
(* What a threshold of validators passes to reconstruct_secret for one of  *)
(* the fields of their secret shares.                                      *)
HeldShares(Q, field) ==
    [i \in DOMAIN InOrder(Q) |->
        [participant |-> InOrder(Q)[i],
         value |-> material[InOrder(Q)[i]].secret_share[field]]]

(* Validators whose shares are the values of one polynomial, a threshold   *)
(* of them in number, reconstruct its first coefficient.                   *)
LEMMA HeldSharesReconstruct ==
    ASSUME NEW Q, Q \subseteq Validators, NEW field,
           NEW n \in Nat \ {0}, NEW C \in [1..n -> Scalars], Cardinality(Q) = n,
           \A v \in Q : material[v].secret_share[field] = Evaluate(C, v)
    PROVE  /\ ReconstructSecret(HeldShares(Q, field), Len(InOrder(Q))).kind = "Ok"
           /\ ReconstructSecret(HeldShares(Q, field), Len(InOrder(Q))).value = C[1]
<1>1. IsFiniteSet(Q) /\ Q \subseteq Nat
    BY DecryptionAssumption, FS_Subset
<1>2. /\ InOrder(Q) \in [1..n -> Q]
      /\ \A i, j \in 1..n : InOrder(Q)[i] = InOrder(Q)[j] => i = j
    BY <1>1, InOrderLists
<1>3. PICK members \in [1..n -> Q] : members = InOrder(Q)
    BY <1>2
<1>4. PICK shares : shares = HeldShares(Q, field)
    OBVIOUS
<1>5. Len(members) = n
    BY <1>3
<1>6. /\ shares = [i \in 1..n |-> [participant |-> members[i],
                                   value |-> material[members[i]].secret_share[field]]]
    BY <1>3, <1>4 DEF HeldShares
<1>7. ASSUME NEW i \in 1..n
      PROVE  /\ shares[i] \in [participant : Nat, value : Scalars]
             /\ shares[i].participant = members[i]
             /\ shares[i].value = Evaluate(C, shares[i].participant)
    <2>1. members[i] \in Q
        OBVIOUS
    <2>2. shares[i] = [participant |-> members[i], value |-> Evaluate(C, members[i])]
        BY <1>6, <2>1
    <2>3. Evaluate(C, members[i]) \in Scalars /\ members[i] \in Nat
        BY <2>1, ValueTypes
    <2>4. QED
        BY <2>2, <2>3
<1>8. SharesOfPolynomial(shares, C, n)
    BY <1>6, <1>7 DEF SharesOfPolynomial
<1>9. Points(PointsOf(shares, n), 1..n)
    <2>1. \A i \in 1..n : /\ PointsOf(shares, n)[i] = ToScalar(members[i])
                          /\ ToScalar(members[i]) \in Scalars
        BY <1>1, <1>7, HornerAtPoint DEF PointsOf
    <2>2. ASSUME NEW i \in 1..n, NEW j \in 1..n, i # j
          PROVE  ToScalar(members[i]) # ToScalar(members[j])
        BY <1>2, <1>3, <2>2, DecryptionAssumption
    <2>3. QED
        BY <2>1, <2>2 DEF Points, PointsOf
<1>10. n >= n /\ n \in Nat
    OBVIOUS
<1>11. ReconstructSecret(shares, n).kind = "Ok" /\ ReconstructSecret(shares, n).value = C[1]
    BY <1>8, <1>9, <1>10, ReconstructsSecret
<1>12. QED
    BY <1>3, <1>4, <1>5, <1>11

(* reconstruct_secret returns an outcome and a value. *)
LEMMA ReconstructFields ==
    ASSUME NEW shares, NEW n
    PROVE  \E kind, value : ReconstructSecret(shares, n) = [kind |-> kind, value |-> value]
<1>1. \E kind, value : LagrangeInterpolateAtZero(shares) = [kind |-> kind, value |-> value]
    BY Zenon DEF LagrangeInterpolateAtZero
<1>2. QED
    BY <1>1, Zenon DEF ReconstructSecret

(* Validators of one setup hold shares of one key and of zero. *)
LEMMA OneKeyAndZero ==
    ASSUME DecryptionInv PROVE SetupsAgree
<1>1. deployment \in Deployments /\ Equipped
    BY DEF DecryptionInv
<1>2. ASSUME NEW Q \in SUBSET Ready, Q # {},
             \A v, w \in Q : /\ material[v].setup_context = material[w].setup_context
                             /\ Cardinality(Q) = material[v].public_key_set.threshold
      PROVE  /\ ReconstructSecret(HeldShares(Q, "context"), Len(InOrder(Q)))
                    = [kind |-> "Ok", value |-> 0]
             /\ {material[v].public_key_set.joint_public_key : v \in Q}
                    = {MulGenerator(ReconstructSecret(HeldShares(Q, "decryption"),
                                                      Len(InOrder(Q))).value)}
    <2>1. PICK v \in Q : TRUE
        BY <1>2
    <2>2. v \in Ready /\ Q \subseteq Ready /\ Q \subseteq Validators
        BY DEF Ready
    <2>3. PICK dec \in Runs, ctx \in Runs : SetUpFrom(material[v], v, dec, ctx)
        BY <1>1, <2>2 DEF Equipped
    <2>4. PICK f, g, n : f = dec.polynomial /\ g = ctx.polynomial /\ n = Cardinality(Q)
        OBVIOUS
    <2>5. ASSUME NEW w \in Q PROVE Holds(material[w], w, f, g)
        BY <1>1, <1>2, <2>2, <2>3, <2>4, SameSetup
    <2>6. /\ n \in Nat \ {0} /\ f \in [1..n -> Scalars] /\ g \in [1..n -> Scalars]
          /\ g[1] = 0
        <3>1. Holds(material[v], v, f, g) /\ material[v].public_key_set.threshold = n
            BY <1>2, <2>1, <2>4, <2>5
        <3>2. QED
            BY <3>1, Zenon DEF Holds
    <2>7. ASSUME NEW w \in Q
          PROVE  /\ material[w].secret_share["decryption"] = Evaluate(f, w)
                 /\ material[w].secret_share["context"] = Evaluate(g, w)
                 /\ material[w].public_key_set.joint_public_key = MulGenerator(f[1])
        <3>1. /\ material[w].secret_share
                    = [participant |-> w, decryption |-> Evaluate(f, w), context |-> Evaluate(g, w)]
              /\ material[w].public_key_set.joint_public_key = MulGenerator(f[1])
            BY <2>5 DEF Holds
        <3>2. QED
            BY <3>1
    <2>8. /\ ReconstructSecret(HeldShares(Q, "decryption"), Len(InOrder(Q))).value = f[1]
          /\ ReconstructSecret(HeldShares(Q, "context"), Len(InOrder(Q))).kind = "Ok"
          /\ ReconstructSecret(HeldShares(Q, "context"), Len(InOrder(Q))).value = 0
        <3>1. /\ \A w \in Q : material[w].secret_share["decryption"] = Evaluate(f, w)
              /\ \A w \in Q : material[w].secret_share["context"] = Evaluate(g, w)
            BY <2>7
        <3>2. Cardinality(Q) = n
            BY <2>4
        <3>3. ReconstructSecret(HeldShares(Q, "decryption"), Len(InOrder(Q))).value = f[1]
            BY <2>2, <2>6, <3>1, <3>2, HeldSharesReconstruct
        <3>4. /\ ReconstructSecret(HeldShares(Q, "context"), Len(InOrder(Q))).kind = "Ok"
              /\ ReconstructSecret(HeldShares(Q, "context"), Len(InOrder(Q))).value = g[1]
            BY <2>2, <2>6, <3>1, <3>2, HeldSharesReconstruct
        <3>5. QED
            BY <2>6, <3>3, <3>4
    <2>9. ReconstructSecret(HeldShares(Q, "context"), Len(InOrder(Q))) = [kind |-> "Ok", value |-> 0]
        BY <2>8, ReconstructFields
    <2>10. {material[w].public_key_set.joint_public_key : w \in Q} = {MulGenerator(f[1])}
        BY <2>1, <2>7
    <2>11. QED
        BY <2>8, <2>9, <2>10
<1>3. QED
    BY <1>2, Zenon DEF SetupsAgree, HeldShares

(* Validators with equal setup contexts hold one key: any threshold of     *)
(* them reconstructs the joint key's secret, and zero from their context   *)
(* shares.                                                                 *)
THEOREM SetupsAgreeAlways == Spec => []SetupsAgree
<1>1. DecryptionInv => SetupsAgree
    BY OneKeyAndZero
<1>2. QED
    BY <1>1, DecryptionInvariant, PTL
=============================================================================
