-------------------------------- MODULE Dkg ---------------------------------
(***************************************************************************)
(* Participants running the one-round DKG of golden-core over an           *)
(* unreliable transport.  A message, once sent, may be delivered never,    *)
(* once or many times, in any order, to anybody, intact or corrupted, and  *)
(* in a session it was not made for.  Faulty dealers send dealings whose   *)
(* shares or pads are wrong, and several dealings instead of one; a        *)
(* participant that restarts deals again.                                  *)
(*                                                                         *)
(* The transport and the map of peer dealings belong to the application;   *)
(* they are modelled from how the code under src/ calls the library.       *)
(***************************************************************************)
EXTENDS DkgMessages

CONSTANTS
    Parties,        \* participant indexes that own an identity key
    Secret,         \* their identity secrets
    Configs,        \* the configurations in use
    Faulty,         \* parties whose dealings may be wrong
    Completers,     \* parties whose receiving and completing is explored
    DrawnNonces,    \* nonces drawn by dealers
    SampledSecrets, \* polynomial constants drawn or chosen by dealers
    SampledCoeffs,  \* further coefficients drawn by dealers
    Tampers,        \* ways the transport corrupts messages
    Misuses,        \* wrong arguments an application passes to complete
    MaxWrong,       \* bound on what is wrong with the messages a party holds,
                    \* and with the arguments it passes to complete
    Checked,        \* TRUE: messages are verified before they are kept
    MaxSent         \* bound on the dealings of each party

TamperKinds == {"session", "registry", "dealer", "msg_i", "commitment", "degree",
                "encrypted_share", "pad_commitment", "share_and_pad", "drop_share",
                "extra_share", "proof", "root"}

MisuseKinds == {"own_dealing", "private_share", "identity_secret", "map_key"}

ASSUME DkgAssumption ==
    /\ Parties \subseteq Nat \ {0}
    /\ Secret \in [Parties -> Scalars \ {0}]
    /\ \A c \in Configs :
        /\ IsFiniteSet(DOMAIN c.registry)
        /\ c.threshold \in 1..Cardinality(DOMAIN c.registry)
        /\ DOMAIN c.registry \subseteq Parties
        /\ \A p \in DOMAIN c.registry : c.registry[p] = MulGenerator(Secret[p])
        /\ c.beta \in Betas
    /\ Faulty \subseteq Parties /\ Completers \subseteq Parties
    /\ DrawnNonces \subseteq Nonces
    /\ SampledSecrets \subseteq Scalars /\ SampledCoeffs \subseteq Scalars
    /\ Tampers \subseteq TamperKinds /\ Misuses \subseteq MisuseKinds
    /\ Checked \in BOOLEAN
    /\ MaxSent \in [Parties -> Nat] /\ MaxWrong \in Nat

VARIABLES
    config,     \* the configuration each completing party runs with
    own,        \* each party's latest dealing (DkgDealing), or NoDealing
    sent,       \* the dealer messages each party has published
    peers,      \* each completing party's map of peer dealings
    out         \* the outcome of its last call of complete

vars == <<config, own, sent, peers, out>>

NoDealing == << >>
NoOutput == << >>
Pending == [result |-> Err("Pending"), output |-> NoOutput]

Init ==
    /\ config \in [Completers -> Configs]
    /\ own = [p \in Parties |-> NoDealing]
    /\ sent = [p \in Parties |-> {}]
    /\ peers = [p \in Completers |-> << >>]
    /\ out = [p \in Completers |-> Pending]

(***************************************************************************)
(* Dealing.                                                                *)
(***************************************************************************)
DrawnPolynomials(c) ==
    {<<s>> \o rest : s \in SampledSecrets, rest \in [1..(c.threshold - 1) -> SampledCoeffs]}

(* create_dealing and create_dealing_with_secret, in the party's session or *)
(* in another one it also runs.                                             *)
CreateDealing(p) ==
    /\ Cardinality(sent[p]) < MaxSent[p]
    /\ \E c \in Configs, n \in DrawnNonces :
        /\ CheckIdentity(p, Secret[p], c) = Ok
        /\ \E polynomial \in DrawnPolynomials(c) :
            LET dealing == MakeDealing(c, p, Secret[p], polynomial, n)
            IN  /\ VerifyShare(dealing.message.commitment, p, dealing.private_share.value)
                /\ own' = [own EXCEPT ![p] = dealing]
                /\ sent' = [sent EXCEPT ![p] = @ \cup {dealing.message}]
    /\ UNCHANGED <<config, peers, out>>

(* A faulty dealer gives one receiver a wrong share, or masks the share with *)
(* a pad that is not the eVRF output, or deals a polynomial of too high a    *)
(* degree, and proves what it sent.                                          *)
FaultyMessage(c, dealer, polynomial, msg_i, victim, shareOffset, padOffset) ==
    LET receivers == PublicShareReceivers(c, dealer)
        offset(r, amount) == IF r = victim THEN amount ELSE 0
        share == [r \in receivers |-> Add(Evaluate(polynomial, r), offset(r, shareOffset))]
        encrypted == [r \in receivers |->
                        EncryptShare(share[r],
                            Add(DealerPad(c, r, Secret[dealer], msg_i), offset(r, padOffset)))]
    IN  SealMessage(c, dealer, msg_i, Commit(polynomial), encrypted,
                    [r \in receivers |-> MulGenerator(share[r])])

FaultyMessages(c, dealer, polynomial, msg_i) ==
    {FaultyMessage(c, dealer, polynomial, msg_i, victim, offsets[1], offsets[2]) :
        victim \in PublicShareReceivers(c, dealer), offsets \in {<<1, 0>>, <<0, 1>>}}
    \cup {MakeDealing(c, dealer, Secret[dealer], Append(polynomial, 1), msg_i).message}

FaultyDealing(p) ==
    /\ p \in Faulty
    /\ Cardinality(sent[p]) < MaxSent[p]
    /\ \E c \in {c \in Configs : p \in DOMAIN c.registry}, n \in DrawnNonces :
        \E polynomial \in DrawnPolynomials(c) : \E m \in FaultyMessages(c, p, polynomial, n) :
            sent' = [sent EXCEPT ![p] = @ \cup {m}]
    /\ UNCHANGED <<config, own, peers, out>>

(***************************************************************************)
(* The transport.                                                          *)
(***************************************************************************)
Sent == UNION {sent[p] : p \in Parties}

WithShare(shares, r, share) ==
    [x \in DOMAIN shares \cup {r} |-> IF x = r THEN share ELSE shares[x]]

Tamper(kind, m) ==
    CASE kind = "session"  -> {[m EXCEPT !.session = c.session] : c \in Configs}
      [] kind = "registry" -> {[m EXCEPT !.registry_root = RegistryRoot(c.registry)] : c \in Configs}
      [] kind = "dealer"   -> {[m EXCEPT !.dealer = p] : p \in Parties}
      [] kind = "msg_i"    -> {[m EXCEPT !.msg_i = n] : n \in Nonces}
      [] kind = "commitment" -> {[m EXCEPT !.commitment[1] = GAdd(@, Gen)]}
      [] kind = "degree"   -> {[m EXCEPT !.commitment = Append(@, Identity)]}
      [] kind = "encrypted_share" ->
           {[m EXCEPT !.encrypted_shares[r].encrypted_share = Add(@, 1)] :
              r \in DOMAIN m.encrypted_shares}
      [] kind = "pad_commitment" ->
           {[m EXCEPT !.encrypted_shares[r].pad_commitment = GAdd(@, Gen)] :
              r \in DOMAIN m.encrypted_shares}
      [] kind = "share_and_pad" ->
           {[m EXCEPT !.encrypted_shares[r].encrypted_share = Add(@, 1),
                      !.encrypted_shares[r].pad_commitment = GAdd(@, Gen)] :
              r \in DOMAIN m.encrypted_shares}
      [] kind = "drop_share" ->
           {[m EXCEPT !.encrypted_shares = Restrict(@, DOMAIN @ \ {r})] :
              r \in DOMAIN m.encrypted_shares}
      [] kind = "extra_share" ->
           {[m EXCEPT !.encrypted_shares =
                WithShare(@, p, [pad_commitment |-> Identity, encrypted_share |-> 0])] :
              p \in Parties \ DOMAIN m.encrypted_shares}
      [] kind = "proof"    -> 
           {[m EXCEPT !.proof = x] : x \in {<< >>} \cup {s.proof : s \in Sent}}
      [] kind = "root"     ->
           {[m EXCEPT !.transcript_root =
                DealingRoot([m EXCEPT !.commitment[1] = GAdd(@, Gen)])]}

(* A corrupted message keeps the sender's root, or has the root recomputed *)
(* by the wire decoder, which does not carry roots.                        *)
Rerooted(m) == [m EXCEPT !.transcript_root = DealingRoot(m)]

Corrupted(m) ==
    LET changed == UNION {Tamper(kind, m) : kind \in Tampers}
    IN  changed \cup {Rerooted(x) : x \in changed}

Deliverable == Sent \cup UNION {Corrupted(m) : m \in Sent}

(***************************************************************************)
(* Receiving.                                                              *)
(***************************************************************************)
Keep(r, key, m) == peers' = [peers EXCEPT ![r] = WithShare(@, key, m)]

(* A message of dealer d arrives, verify_dealing_for_receiver accepts it, *)
(* and it is kept.                                                         *)
Receive(r, d) ==
    /\ Checked
    /\ d # r
    /\ \E m \in Deliverable :
        /\ m.dealer = d
        /\ VerifyDealingForReceiver(r, Secret[r], m, config[r]) = Ok
        /\ Keep(r, d, m)
    /\ UNCHANGED <<config, own, sent, out>>

(* What is wrong in a map of peer dealings: corrupted messages, wrong keys. *)
WrongEntries(map) ==
    {<<k, "corrupted">> : k \in {k \in DOMAIN map : map[k] \notin Sent}}
    \cup {<<k, "key">> : k \in {k \in DOMAIN map : map[k].dealer # k}}

(* The application keeps whatever arrives and leaves checking to complete. *)
(* A delivery that overwrites an entry leads to a map that is also reached *)
(* without it, so only new keys are explored.                              *)
Store(r) ==
    /\ ~Checked
    /\ \E m \in Deliverable, key \in Parties \ DOMAIN peers[r] :
        /\ (key = m.dealer /\ key # r) \/ "map_key" \in Misuses
        /\ Keep(r, key, m)
        /\ Cardinality(WrongEntries(peers'[r])) <= MaxWrong
    /\ UNCHANGED <<config, own, sent, out>>

(***************************************************************************)
(* Completing.                                                             *)
(***************************************************************************)
(* The dealings and secrets passed as own_dealing and identity secret. *)
OwnArguments(r) ==
    {own[r]}
    \cup (IF "own_dealing" \in Misuses THEN {own[p] : p \in Parties} \ {NoDealing} ELSE {})
    \cup (IF "private_share" \in Misuses
          THEN {[own[r] EXCEPT !.private_share.participant = p] : p \in Parties}
               \cup {[own[r] EXCEPT !.private_share.value = Add(@, 1)]}
          ELSE {})

SecretArguments(r) ==
    {Secret[r]} \cup (IF "identity_secret" \in Misuses THEN {Secret[p] : p \in Parties} ELSE {})

FewWrongArguments(r, dealing, secret) ==
    Cardinality({x \in {<<"own", dealing # own[r]>>, <<"secret", secret # Secret[r]>>} : x[2]})
        <= MaxWrong

Complete(r) ==
    /\ own[r] # NoDealing
    /\ out[r].result # Ok
    /\ \E dealing \in OwnArguments(r), secret \in SecretArguments(r) :
        /\ FewWrongArguments(r, dealing, secret)
        /\ LET result == CheckComplete(r, secret, dealing, peers[r], config[r])
           IN  out' = [out EXCEPT ![r] =
                         [result |-> result,
                          output |-> IF result = Ok
                                     THEN CompleteOutput(r, secret, dealing, peers[r], config[r])
                                     ELSE NoOutput]]
    /\ UNCHANGED <<config, own, sent, peers>>

Next ==
    \/ \E p \in Parties : CreateDealing(p) \/ FaultyDealing(p)
    \/ \E r \in Completers : Store(r) \/ Complete(r) \/ \E d \in Parties : Receive(r, d)

Spec == Init /\ [][Next]_vars

(***************************************************************************)
(* Every party deals, the transport retries until a dealing it can deliver *)
(* intact has been delivered, and a party that can make progress by        *)
(* calling complete calls it.  The transport and the calls belong to the   *)
(* application; the library itself never waits.                            *)
(***************************************************************************)
Fairness ==
    /\ \A p \in Parties : WF_vars(CreateDealing(p))
    /\ \A r \in Completers : WF_vars(Complete(r)) /\ \A d \in Parties : WF_vars(Receive(r, d))

FairSpec == Spec /\ Fairness

-----------------------------------------------------------------------------
(***************************************************************************)
(* Properties.                                                             *)
(***************************************************************************)
Completed == {p \in Completers : out[p].result = Ok}

(* Honest dealings only differ from one another in what the dealer drew. *)
Honest == Parties \ Faulty

(* Every component of the state has its shape: a party's dealings name it  *)
(* as the dealer, its own dealing was published, and there is an output    *)
(* exactly after a successful complete.                                    *)
TypeOK ==
    /\ config \in [Completers -> Configs]
    /\ DOMAIN own = Parties /\ DOMAIN sent = Parties
    /\ DOMAIN peers = Completers /\ DOMAIN out = Completers
    /\ \A p \in Parties :
        /\ \A m \in sent[p] : m.dealer = p
        /\ own[p] # NoDealing =>
             own[p].message \in sent[p] /\ own[p].private_share.participant = p
    /\ \A p \in Completers :
        /\ DOMAIN peers[p] \subseteq Parties
        /\ out[p].output # NoOutput <=> out[p].result = Ok

(* Two parties whose outputs carry the same transcript root hold the same  *)
(* public key and the same public key shares, even when they run different *)
(* configurations, the dealers equivocate or the transport corrupts        *)
(* messages: comparing roots is enough to know the DKG agreed.             *)
Agreement ==
    \A p, q \in Completed :
        out[p].output.transcript_root = out[q].output.transcript_root =>
            /\ out[p].output.public_key = out[q].output.public_key
            /\ out[p].output.public_key_shares = out[q].output.public_key_shares

(* The secret share of a completed party is the discrete logarithm of its  *)
(* public key share, although the two are summed from different data: the  *)
(* decrypted shares and the commitments.                                   *)
ShareMatchesPublicShare ==
    \A p \in Completed :
        MulGenerator(out[p].output.secret_share.value) = out[p].output.public_key_shares[p]

SharesOf(Q) ==
    [i \in 1..Cardinality(Q) |-> out[InOrder(Q)[i]].output.secret_share]

(* Any threshold of parties that completed with one transcript root can    *)
(* reconstruct the secret key of the public key they all hold.             *)
QuorumHoldsKey ==
    \A Q \in SUBSET Completed :
        (\A p, q \in Q : /\ Cardinality(Q) = config[p].threshold
                         /\ out[p].output.transcript_root = out[q].output.transcript_root)
        => \A p \in Q :
             LET secret == ReconstructSecret(SharesOf(Q), config[p].threshold)
             IN  secret.kind = "Ok" /\ MulGenerator(secret.value) = out[p].output.public_key

(* A completed output aggregates exactly one dealing of every registered   *)
(* dealer, each made for the party's own session, registry and threshold.  *)
(* Dealings of strangers and of other sessions never get in, although the  *)
(* batch verification only looks at registered dealers.                    *)
OnlyOwnSessionDealings ==
    \A p \in Completed :
        LET root == out[p].output.transcript_root
        IN  /\ DOMAIN root = DOMAIN config[p].registry
            /\ \A d \in DOMAIN root :
                /\ root[d].session = config[p].session
                /\ root[d].registry_root = RegistryRoot(config[p].registry)
                /\ root[d].dealer = d
                /\ Len(root[d].commitment) = config[p].threshold

(* What a completed output takes from an honest dealer is a dealing that   *)
(* dealer published: no corruption on the way survives verification.       *)
HonestDealingsIntact ==
    \A p \in Completed : \A d \in DOMAIN out[p].output.transcript_root \cap Honest :
        \E m \in sent[d] : m.transcript_root = out[p].output.transcript_root[d]

(* verify_dealing_for_receiver is as strict as complete: once a party has  *)
(* accepted a dealing of every other registered dealer and holds its own   *)
(* dealing for this configuration, complete succeeds.                      *)
AcceptedDealingsComplete ==
    Checked => \A r \in Completers :
        /\ own[r] # NoDealing
        /\ own[r].message.session = config[r].session
        /\ own[r].message.registry_root = RegistryRoot(config[r].registry)
        /\ r \in DOMAIN config[r].registry
        /\ DOMAIN peers[r] = PublicShareReceivers(config[r], r)
        => CheckComplete(r, Secret[r], own[r], peers[r], config[r]) = Ok

(* When complete names a dealer whose proof failed, that dealing does not  *)
(* verify on its own, and it is not an intact dealing of an honest dealer. *)
BlameIsDeserved ==
    \A r \in Completers :
        own[r] # NoDealing =>
            LET result == CheckComplete(r, Secret[r], own[r], peers[r], config[r])
                m == AllDealings(own[r], peers[r])[result.who]
            IN  result.kind = "DealerProofVerificationFailed" =>
                    /\ VerifyDealing(m, config[r]) # Ok
                    /\ m.dealer = result.who
                    /\ m.dealer \in Honest => m \notin sent[m.dealer]

(* A dealing that verifies publicly can be decrypted by every registered   *)
(* receiver, when the backend proves the pads.                             *)
PubliclyVerifiable ==
    BindsPad =>
        \A c \in Configs : \A m \in Deliverable :
            VerifyDealing(m, c) = Ok =>
                \A r \in PublicShareReceivers(c, m.dealer) :
                    DecryptShare(r, Secret[r], m, c) = Ok

(* As long as every dealing sent for a session verifies publicly there,   *)
(* every party completes, whatever the transport corrupts, loses or        *)
(* reorders and whoever deals twice.                                       *)
EveryoneCompletes ==
    [](\A p \in Parties : \A m \in sent[p] : \E c \in Configs : VerifyDealing(m, c) = Ok)
        => <>(\A r \in Completers : out[r].result = Ok)

(***************************************************************************)
(* The ideal functionality: forget dealings, messages and errors.          *)
(***************************************************************************)
Ideal == INSTANCE IdealDkg WITH
    IdealParties <- Completers,
    None <- NoOutput,
    setup <- [p \in Completers |-> [threshold |-> config[p].threshold,
                                    receivers |-> DOMAIN config[p].registry]],
    output <- [p \in Completers |-> out[p].output]

(* The protocol implements the ideal functionality: behind the outputs     *)
(* there is one polynomial per transcript root, of which every completed   *)
(* party holds its evaluation.                                             *)
ImplementsIdeal == Ideal!Spec
=============================================================================
