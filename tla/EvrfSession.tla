------------------------------ MODULE EvrfSession ---------------------------
(***************************************************************************)
(* Dealers that prove batches of statements, honestly or not, and          *)
(* verifiers that are shown the proofs, alone or in batches, with the      *)
(* statements they were made for or with others; provers and verifiers of  *)
(* the one-receiver relation; and the setup of parameters.                 *)
(*                                                                         *)
(* A dishonest prover may have any satisfying assignment there is, so what *)
(* it cannot prove nobody can.                                             *)
(***************************************************************************)
EXTENDS BatchedEvrf

CONSTANTS
    Suites,     \* the backends by kind, on small curves
    Dealings,   \* [kind -> a set of [msg, beta, sk, keys, polynomial]]: keys are
                \* the public keys of the receivers 1, 2, ...
    Contexts,   \* the sessions a dealing may belong to
    Shapes      \* pairs of a threshold and a number of receivers

VARIABLES
    backend,    \* the kind of the backend in use
    made,       \* the dealings made, each with its statements and the outcome of proving
    single,     \* the one-receiver statement and proof
    verdict,    \* what was shown to a verifier, and whether it was accepted
    params      \* the parameters set up, with the suite and shape asked for

vars == <<backend, made, single, verdict, params>>

suite == Suites[backend]
NotYet == [made |-> FALSE]
MaxMade == 2

Init ==
    /\ backend \in DOMAIN Suites
    /\ made = << >>
    /\ single = NotYet
    /\ verdict = NotYet
    /\ params = NotYet

-----------------------------------------------------------------------------
(***************************************************************************)
(* Dealing.                                                                *)
(***************************************************************************)
Evaluated(polynomial, x, q) ==
    MapThenSumSet(LAMBDA k : polynomial[k] * x^(k - 1), DOMAIN polynomial) % q

(* The statements of create_dealing for the pads given. *)
StatementsOf(c, d, context, pad) ==
    [j \in DOMAIN d.keys |->
        LET share == Evaluated(d.polynomial, j, c.q)
        IN  [context |-> context, threshold |-> Len(d.polynomial), msg_i |-> d.msg,
             beta |-> d.beta, dealer_public_key |-> d.sk,
             commitment_coefficients |-> d.polynomial, receiver |-> j,
             receiver_public_key |-> d.keys[j], share_commitment |-> share,
             pad_commitment |-> pad[j], encrypted_share |-> (share + pad[j]) % c.q]]

Pads(c, d) == [j \in DOMAIN d.keys |-> DerivePad(c, d.msg, d.beta, d.sk, d.keys[j])]

Witnesses(d) ==
    [j \in DOMAIN d.keys |->
        [identity_secret |-> d.sk, polynomial_coefficients |-> d.polynomial]]

PadsExist(c, d) == \A j \in DOMAIN d.keys : PadExists(c, d.msg, d.sk, d.keys[j])

(* An honest dealer fails when it cannot derive a pad or has no witness. *)
Outcome(c, d, statements) ==
    IF PadsExist(c, d) /\ BatchProvable(c, statements, Witnesses(d))
    THEN [made |-> TRUE, honest |-> TRUE, dealing |-> d, statements |-> statements,
          proof |-> ProveBatch(c, statements, Witnesses(d))]
    ELSE [made |-> FALSE, honest |-> TRUE, dealing |-> d]

Deal(d, context) ==
    /\ Len(made) < MaxMade
    /\ \A i \in DOMAIN made : made[i].honest
    /\ single = NotYet /\ params = NotYet /\ verdict = NotYet
    /\ made' = Append(made, Outcome(suite, d,
                IF PadsExist(suite, d) THEN StatementsOf(suite, d, context, Pads(suite, d))
                                       ELSE << >>))
    /\ UNCHANGED <<backend, single, verdict, params>>

(***************************************************************************)
(* A dishonest dealer encrypts a share under any pad, moves shares between *)
(* receivers, changes an encrypted share, reorders the receivers, leaves a *)
(* coefficient out, or mixes two contexts; the proof is the best there is. *)
(***************************************************************************)
Moved(c, statement, by) ==
    [statement EXCEPT !.share_commitment = (@ + by) % c.q, !.encrypted_share = (@ + by) % c.q]

Deviations(c, d, context) ==
    LET pads == IF PadsExist(c, d) THEN Pads(c, d) ELSE [j \in DOMAIN d.keys |-> 1]
        honest == StatementsOf(c, d, context, pads)
    IN  {StatementsOf(c, d, context, [pads EXCEPT ![1] = pad]) : pad \in 0..(c.q - 1)}
        \cup {[honest EXCEPT ![1].encrypted_share = (@ + 1) % c.q], Reverse(honest),
              [honest EXCEPT ![1] = Moved(c, @, 1), ![Len(honest)] = Moved(c, @, -1)]}
        \cup {[honest EXCEPT ![Len(honest)].context = other] : other \in Contexts \ {context}}
        \cup {[j \in DOMAIN honest |->
                 [honest[j] EXCEPT !.commitment_coefficients = SubSeq(@, 1, Len(@) - 1)]]}

BestProof(c, d, statements) ==
    LET st == BatchedStatement(statements)
        transcript == ObserveBatchedStatement(st)
    IN  BatchedProof(transcript,
                     Nested(transcript, Circuit(st),
                            Observable(st) /\ BatchedTables(c, st) /\ BatchedCircuit(c, st)),
                     d.polynomial[1])

DealDishonestly(d, context) ==
    /\ made = << >>
    /\ single = NotYet /\ params = NotYet /\ verdict = NotYet
    /\ \E statements \in Deviations(suite, d, context) :
        made' = <<[made |-> TRUE, honest |-> FALSE, dealing |-> d, statements |-> statements,
                   proof |-> BestProof(suite, d, statements)]>>
    /\ UNCHANGED <<backend, single, verdict, params>>

-----------------------------------------------------------------------------
(***************************************************************************)
(* Verifying.                                                              *)
(***************************************************************************)
(* What a proof may be shown with: its own statements, or those of another *)
(* context, of fewer receivers, or of another polynomial that fits them.   *)
Presentations(c, statements) ==
    {statements, Front(statements)}
    \cup {[j \in DOMAIN statements |-> [statements[j] EXCEPT !.context = other]]
            : other \in Contexts}
    \cup {[j \in DOMAIN statements |->
             [Moved(c, statements[j], 1) EXCEPT
                !.commitment_coefficients = IF @ = << >> THEN @ ELSE [@ EXCEPT ![1] = (@ + 1) % c.q]]]}

Shown(i, statements) == [statements |-> statements, proof |-> made[i].proof]

(* verify_batch, or verify_proof_batch with all proofs there are *)
Verify ==
    /\ verdict = NotYet
    /\ made # << >>
    /\ \A i \in DOMAIN made : made[i].made
    /\ \E shown \in [DOMAIN made -> UNION {Presentations(suite, made[i].statements) : i \in DOMAIN made}] :
        /\ \A i \in DOMAIN made : shown[i] \in Presentations(suite, made[i].statements)
        /\ verdict' = [made |-> TRUE, shown |-> shown,
                       accepted |-> VerifyProofBatch(suite,
                                        [i \in DOMAIN made |-> Shown(i, shown[i])])]
    /\ UNCHANGED <<backend, made, single, params>>

-----------------------------------------------------------------------------
(***************************************************************************)
(* The one-receiver relation.                                              *)
(***************************************************************************)
OneReceiverStatement(c, d) ==
    LET s == (d.keys[1] * d.sk) % c.q
        h == c.hashes[d.msg]
        T(i) == (h[i] * FpToFq(c, Affine(c, s)[1])) % c.q
    IN  [msg |-> d.msg, pk1 |-> d.sk, pk2 |-> d.keys[1], s |-> s, h1 |-> h[1], h2 |-> h[2],
         t1 |-> T(1), t2 |-> T(2),
         r_point |-> Output(c, d.beta, Affine(c, T(1)), Affine(c, T(2))), beta |-> d.beta]

ProveOneReceiver(d) ==
    /\ single = NotYet /\ made = << >> /\ params = NotYet
    /\ PadExists(suite, d.msg, d.sk, d.keys[1])
    /\ LET st == OneReceiverStatement(suite, d)
       IN  single' = IF EvrfProvable(suite, st, d.sk)
                     THEN [made |-> TRUE, honest |-> TRUE, statement |-> st,
                           proof |-> EvrfProve(suite, st, d.sk)]
                     ELSE [made |-> FALSE, statement |-> st]
    /\ UNCHANGED <<backend, made, verdict, params>>

(* Other outputs, another T_1, another shared point with its own T_1 and   *)
(* T_2, or another hash base, each with the output that fits.              *)
OneReceiverDeviations(c, d) ==
    LET st == OneReceiverStatement(c, d)
        times(s, h) == (h * FpToFq(c, Affine(c, s)[1])) % c.q
        fitting(s, h1, t1, t2) ==
            [st EXCEPT !.s = s, !.h1 = h1, !.t1 = t1, !.t2 = t2,
                       !.r_point = Output(c, st.beta, Affine(c, t1), Affine(c, t2))]
        points == 1..(c.q - 1)
    IN  {[st EXCEPT !.r_point = r] : r \in Field(c)}
        \cup {fitting(st.s, st.h1, t1, st.t2) : t1 \in points}
        \cup {fitting(s, st.h1, times(s, st.h1), times(s, st.h2))
                : s \in {s \in points : ~IsIdentity(times(s, Generator))}}
        \cup {fitting(st.s, h, times(st.s, h), st.t2) : h \in points}

(* Without the tables of its bases there is no circuit to prove. *)
HasCircuit(c, st) ==
    c.kind = "chord" => \A base \in {st.h1, st.h2} : Secp!PrecomputeChord(c, base)

ProveOneReceiverDishonestly(d) ==
    /\ single = NotYet /\ made = << >> /\ params = NotYet
    /\ PadExists(suite, d.msg, d.sk, d.keys[1])
    /\ \E st \in {st \in OneReceiverDeviations(suite, d) : HasCircuit(suite, st)} :
        single' = [made |-> TRUE, honest |-> FALSE, statement |-> st,
                   proof |-> OneReceiverProof(suite, st, d.sk, Affine(suite, st.s)[1],
                                              st.r_point)]
    /\ UNCHANGED <<backend, made, verdict, params>>

VerifyOneReceiver ==
    /\ verdict = NotYet
    /\ single.made
    /\ \E beta \in {single.statement.beta, (single.statement.beta + 1) % suite.p} :
        LET st == [single.statement EXCEPT !.beta = beta]
        IN  verdict' = [made |-> TRUE, statement |-> st,
                        accepted |-> EvrfVerify(suite, st, single.proof)]
    /\ UNCHANGED <<backend, made, single, params>>

-----------------------------------------------------------------------------
(* Parameters for a shape, of the small circuit or of the one in the code. *)
SetUp(threshold, receiver_count) ==
    /\ made = << >> /\ single = NotYet
    /\ params = NotYet
    /\ \E c \in {suite, IF backend = "chord" THEN Secp!CodeSuite ELSE Jubjub!CodeSuite} :
        params' = IF ShapeAllowed(threshold, receiver_count)
                  THEN [made |-> TRUE, suite |-> c, setup |-> Setup(c, threshold, receiver_count)]
                  ELSE [made |-> FALSE, shape |-> <<threshold, receiver_count>>]
    /\ UNCHANGED <<backend, made, single, verdict>>

Next ==
    \/ \E shape \in Shapes : SetUp(shape[1], shape[2])
    \/ \E d \in Dealings[backend], context \in Contexts :
        Deal(d, context) \/ DealDishonestly(d, context)
    \/ Verify
    \/ \E d \in Dealings[backend] : ProveOneReceiver(d) \/ ProveOneReceiverDishonestly(d)
    \/ VerifyOneReceiver

Spec == Init /\ [][Next]_vars

-----------------------------------------------------------------------------
(***************************************************************************)
(* Properties.                                                             *)
(***************************************************************************)
Accepted == verdict.made /\ verdict.accepted

(* What the circuit accepts is what a receiver computes: for every         *)
(* accepted dealing, whoever made it, the share a receiver gets by taking  *)
(* the pad it derives with its own secret (compute_pad_fp, on the curve,   *)
(* with k reduced modulo q) off the encrypted share is its value of the    *)
(* committed polynomial; and R of an accepted one-receiver proof is the    *)
(* receiver's output.  The exception is a shared point whose x-coordinate  *)
(* is a multiple of q, of which no one can find one.                       *)
AcceptedSharesDecrypt ==
    /\ Accepted /\ made # << >> =>
        \A i \in DOMAIN made : \A statement \in ToSet(verdict.shown[i]) :
            LET secret == statement.receiver_public_key
                peer == statement.dealer_public_key
                pad == DerivePad(suite, statement.msg_i, statement.beta, secret, peer)
            IN  \/ SharedK(suite, secret, peer) % suite.q = 0
                \/ (statement.encrypted_share - pad) % suite.q
                     = Evaluated(statement.commitment_coefficients, statement.receiver, suite.q)
    /\ Accepted /\ single.made =>
        LET st == verdict.statement
        IN  \/ SharedK(suite, st.pk2, st.pk1) % suite.q = 0
            \/ st.r_point = ComputePadFp(suite, st.msg, st.pk2, st.pk1, st.beta)

(* Honest proofs verify: alone, and in batches of one shape.  An honest    *)
(* dealer fails to prove only if a pad is zero or has no affine points, or *)
(* an addition of the chord ladder is exceptional.                         *)
HonestFailureExcused(d) ==
    \/ ~PadsExist(suite, d)
    \/ 0 \in ToSet(Pads(suite, d))
    \/ /\ backend = "chord"
       /\ \E base \in {Generator} \cup ToSet(suite.hashes[d.msg]) \cup ToSet(d.keys) :
          \E k \in {d.sk} \cup ToSet(Pads(suite, d))
                     \cup {SharedK(suite, d.sk, d.keys[j]) : j \in DOMAIN d.keys} :
              ~Secp!ChordWitnessExists(suite, DecomposeK(suite, k), base)

HonestProofsVerify ==
    /\ \A i \in DOMAIN made :
        made[i].honest /\ ~made[i].made => HonestFailureExcused(made[i].dealing)
    /\ (/\ verdict.made /\ made # << >>
        /\ \A i \in DOMAIN made : made[i].honest /\ verdict.shown[i] = made[i].statements
        /\ \A i, j \in DOMAIN made :
            /\ Len(made[i].statements) = Len(made[j].statements)
            /\ made[i].statements[1].threshold = made[j].statements[1].threshold) => Accepted
    /\ (/\ verdict.made /\ single.made
        /\ single.honest /\ verdict.statement = single.statement) => Accepted

(* A proof is accepted for the statements it was made for and for no       *)
(* others: not in another session, with fewer receivers or with another    *)
(* encryption, alone or beside other proofs.                               *)
ProofsBindStatements ==
    /\ Accepted /\ made # << >> =>
        \A i \in DOMAIN made : verdict.shown[i] = made[i].statements
    /\ Accepted /\ single.made => verdict.statement = single.statement

(* The parameters of a shape have exactly the multipliers that the circuit *)
(* of that shape allocates, gadget by gadget and with single wires paired, *)
(* and room for them.                                                      *)
CapacityIsExact ==
    params.made =>
        LET multipliers == BatchedMultipliers(params.suite, params.setup.receiver_count)
        IN  /\ params.setup.multiplier_count = multipliers
            /\ params.setup.gens_capacity >= multipliers
            /\ params.setup.gens_capacity < 2 * multipliers
=============================================================================
