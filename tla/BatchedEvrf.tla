------------------------------ MODULE BatchedEvrf ---------------------------
(***************************************************************************)
(* The statements, proofs and verifiers of the paper backends, and the     *)
(* adapters through which the DKG calls them (dkg_backend.rs).  The two    *)
(* backends are the same code here, except where the operators of module   *)
(* SecpSecq or BlsJubjub are used.                                         *)
(*                                                                         *)
(* Every failure is the one error ProofVerificationFailed, so a step that  *)
(* may fail is a predicate.  A point is its discrete logarithm, a hash the *)
(* value it hashes, a transcript what was observed.                        *)
(***************************************************************************)
EXTENDS Circuits, SigmaProofs

CONSTANT
    FeldmanBatchMin     \* from how many receivers and coefficients on the verifier
                        \* checks the shares in one batch; 99 in the code

ASSUME FeldmanBatchAssumption == FeldmanBatchMin \in Nat

Secp == INSTANCE SecpSecq
Jubjub == INSTANCE BlsJubjub

BatchedCircuit(c, statement) ==
    IF c.kind = "chord" THEN Secp!BatchedCircuit(c, statement)
                        ELSE Jubjub!BatchedCircuit(c, statement)
BatchedTables(c, statement) ==
    IF c.kind = "chord" THEN Secp!BatchedTables(c, statement)
                        ELSE Jubjub!BatchedTables(c, statement)
BatchedWitness(c, statement, sk1) ==
    IF c.kind = "chord" THEN Secp!BatchedWitness(c, statement, sk1)
                        ELSE Jubjub!BatchedWitness(c, statement, sk1)
BatchedAssignmentHolds(c, statement, sk1) ==
    IF c.kind = "chord" THEN Secp!BatchedAssignmentHolds(c, statement, sk1)
                        ELSE Jubjub!BatchedAssignmentHolds(c, statement, sk1)
BatchedMultiplierCount(c, n) ==
    IF c.kind = "chord" THEN Secp!BatchedMultiplierCount(c, n)
                        ELSE Jubjub!BatchedMultiplierCount(c, n)
BatchedMultipliers(c, n) ==
    IF c.kind = "chord" THEN Secp!BatchedMultipliers(c, n) ELSE Jubjub!BatchedMultipliers(c, n)

-----------------------------------------------------------------------------
(***************************************************************************)
(* Parameters.                                                             *)
(***************************************************************************)
ShapeAllowed(threshold, receiver_count) ==
    /\ threshold # 0
    /\ receiver_count # 0
    /\ receiver_count >= threshold - 1

NextPowerOfTwo(n) == 2^(CHOOSE e \in 0..n : 2^e >= n /\ (e = 0 \/ 2^(e - 1) < n))

(* setup, or shared: the parameters of a shape that is allowed. *)
Setup(c, threshold, receiver_count) ==
    [threshold |-> threshold, receiver_count |-> receiver_count,
     multiplier_count |-> BatchedMultiplierCount(c, receiver_count),
     gens_capacity |-> NextPowerOfTwo(BatchedMultiplierCount(c, receiver_count))]

ValidateStatement(params, statement) ==
    /\ params.threshold = statement.threshold
    /\ params.receiver_count = Len(statement.receivers)

-----------------------------------------------------------------------------
(***************************************************************************)
(* Statements.                                                             *)
(***************************************************************************)
(* validate_batched_statement_shape *)
ValidateShape(st) ==
    LET n == Len(st.receivers)
    IN  /\ n # 0
        /\ n >= st.threshold - 1
        /\ st.commitment_coefficients # << >>
        /\ Len(st.commitment_coefficients) = st.threshold
        /\ Len(st.statement_roots) = n
        /\ \A j \in 1..(n - 1) : st.receivers[j].receiver < st.receivers[j + 1].receiver

(* mul_by_small_scalar: double and add from the highest bit of the index. *)
MulBySmallScalar(c, point, scalar) ==
    LET bits == {b \in 0..scalar : 2^b <= scalar}
        acc[b \in 0..Cardinality(bits)] ==
            IF b = 0 THEN 0
            ELSE (2 * acc[b - 1]
                    + ((scalar \div 2^(Cardinality(bits) - b)) % 2) * point) % c.q
    IN  acc[Cardinality(bits)]

(* feldman_share_commitment, by Horner's rule *)
FeldmanShareCommitment(c, coefficients, receiver) ==
    FoldRight(LAMBDA coefficient, result :
                  (MulBySmallScalar(c, result, receiver) + coefficient) % c.q,
              coefficients, 0)

(* The weight of receiver j: a nonzero scalar drawn from the transcript of *)
(* the whole statement, so independent of the others for whoever wrote the *)
(* statement.                                                              *)
FeldmanWeight(j, n) == [i \in 1..n |-> IF i = j THEN 1 ELSE 0]

(* feldman_batch_matches: one sum of share commitments and coefficients,   *)
(* each with the weights that fall on it.                                  *)
FeldmanBatchMatches(c, st) ==
    LET n == Len(st.receivers)
        coefficient_weight(k, i) ==
            MapThenSumSet(LAMBDA j : -FeldmanWeight(j, n)[i] * st.receivers[j].receiver^(k - 1), 1..n)
        shares(i) ==
            MapThenSumSet(LAMBDA j : FeldmanWeight(j, n)[i] * st.receivers[j].share_commitment, 1..n)
        coefficients(i) ==
            MapThenSumSet(LAMBDA k : coefficient_weight(k, i) * st.commitment_coefficients[k],
                          DOMAIN st.commitment_coefficients)
    IN  \A i \in 1..n : (shares(i) + coefficients(i)) % c.q = 0

(* validate_batched_public_relations_impl, with the exact check of shares  *)
(* or, for a large statement before a verifier, the batched one.           *)
ValidateRelations(c, st, batch_feldman) ==
    /\ ValidateShape(st)
    /\ ~IsIdentity(st.pk1)
    /\ \A rec \in ToSet(st.receivers) :
        /\ ~IsIdentity(rec.pkj)
        /\ ~IsIdentity(rec.pad_commitment)
        /\ ~batch_feldman =>
            FeldmanShareCommitment(c, st.commitment_coefficients, rec.receiver)
                = rec.share_commitment
        /\ rec.encrypted_share = (rec.share_commitment + rec.pad_commitment) % c.q
    /\ batch_feldman => FeldmanBatchMatches(c, st)

(* validate_batched_public_relations_for_verifier *)
ValidateRelationsForVerifier(c, st) ==
    ValidateRelations(c, st, Min({st.threshold, Len(st.receivers)}) >= FeldmanBatchMin)

ObserveBatchedStatement_NoRoots(st) == [st EXCEPT !.statement_roots = << >>]

(* observe_batched_statement: everything the statement says. *)
ObserveBatchedStatement(st) == st

(* Its identity policies. *)
Observable(st) ==
    /\ ~IsIdentity(st.pk1)
    /\ \A rec \in ToSet(st.receivers) : ~IsIdentity(rec.pkj) /\ ~IsIdentity(rec.pad_commitment)

-----------------------------------------------------------------------------
(***************************************************************************)
(* Proofs.  A nested R1CS proof is the transcript it was made on, the      *)
(* statement whose circuit it is for, and whether that circuit's           *)
(* constraints hold for the prover's wires (module R1csSession is about    *)
(* the proof system itself).                                               *)
(***************************************************************************)
Nested(transcript, circuit, holds) ==
    [transcript |-> transcript, circuit |-> circuit, holds |-> holds]

Circuit(st) == <<st.msg, st.pk1, st.beta,
                 [j \in DOMAIN st.receivers |->
                    <<st.receivers[j].pkj, st.receivers[j].pad_commitment>>]>>

(* After the nested proof the transcript has absorbed it too. *)
After(transcript, nested) == <<transcript, nested>>

BatchedProof(transcript, nested, polynomial_constant) ==
    [nested |-> nested,
     constant_term |-> ConstantTermProve(After(transcript, nested), polynomial_constant)]

(* evrf_batched_prove: when it succeeds, and the proof it returns. *)
BatchedProvable(c, params, st, sk1, polynomial_constant) ==
    /\ ValidateStatement(params, st)
    /\ ValidateRelations(c, st, FALSE)
    /\ Observable(st)
    /\ BatchedWitness(c, st, sk1)
    /\ NextPowerOfTwo(BatchedMultipliers(c, Len(st.receivers))) <= params.gens_capacity
    /\ polynomial_constant = st.commitment_coefficients[1]

EvrfBatchedProve(c, st, sk1, polynomial_constant) ==
    LET transcript == ObserveBatchedStatement(st)
    IN  BatchedProof(transcript,
                     Nested(transcript, Circuit(st), BatchedAssignmentHolds(c, st, sk1)),
                     polynomial_constant)

(* prepare_batched_proof, up to the equation it returns *)
PrepareBatchedProof(c, st, proof) ==
    LET transcript == ObserveBatchedStatement(st)
    IN  /\ Observable(st)
        /\ ValidateRelationsForVerifier(c, st)
        /\ BatchedTables(c, st)
        /\ ConstantTermVerify(proof.constant_term, After(transcript, proof.nested),
                              st.commitment_coefficients[1], c.q)

(* The equation of prepare_batched_r1cs *)
EquationHolds(c, params, st, proof) ==
    /\ proof.nested.transcript = ObserveBatchedStatement(st)
    /\ proof.nested.circuit = Circuit(st)
    /\ proof.nested.holds
    /\ NextPowerOfTwo(BatchedMultipliers(c, Len(st.receivers))) <= params.gens_capacity

(* evrf_batched_verify_many: all statements have the parameters' shape,    *)
(* and the weighted sum of the equations is zero, for weights drawn from   *)
(* all statements and proofs, only when each is.                           *)
EvrfBatchedVerifyMany(c, params, instances) ==
    /\ instances # << >>
    /\ \A i \in DOMAIN instances :
        /\ ValidateStatement(params, instances[i].statement)
        /\ ValidateShape(instances[i].statement)
    /\ \A i \in DOMAIN instances : Observable(instances[i].statement)
    /\ \A i \in DOMAIN instances :
        /\ PrepareBatchedProof(c, instances[i].statement, instances[i].proof)
        /\ EquationHolds(c, params, instances[i].statement, instances[i].proof)

-----------------------------------------------------------------------------
(***************************************************************************)
(* The backend of the DKG.                                                 *)
(***************************************************************************)
ContextFields == {"context", "threshold", "msg_i", "beta", "dealer_public_key",
                  "commitment_coefficients"}

(* ensure_same_batch_context: everything but the receiver's own fields.    *)
(* The version, backend, session, registry, dealer and dealing root are    *)
(* the one field context.                                                  *)
EnsureSameBatchContext(statement, first) ==
    \A field \in ContextFields : statement[field] = first[field]

(* batched_statement succeeds on a batch of one context. *)
Batchable(statements) ==
    /\ statements # << >>
    /\ \A j \in DOMAIN statements : EnsureSameBatchContext(statements[j], statements[1])

BatchedStatement(statements) ==
    [msg |-> statements[1].msg_i, pk1 |-> statements[1].dealer_public_key,
     beta |-> statements[1].beta, threshold |-> statements[1].threshold,
     commitment_coefficients |-> statements[1].commitment_coefficients,
     statement_roots |-> statements,
     receivers |-> [j \in DOMAIN statements |->
        [receiver |-> statements[j].receiver, pkj |-> statements[j].receiver_public_key,
         share_commitment |-> statements[j].share_commitment,
         pad_commitment |-> statements[j].pad_commitment,
         encrypted_share |-> statements[j].encrypted_share]]]

(* compute_pad_fp, on the curve: affine fails on the identity. *)
SharedK(c, sk1, pkj) == Affine(c, (pkj * sk1) % c.q)[1]

PadExists(c, msg, sk1, pkj) ==
    /\ ~IsIdentity((pkj * sk1) % c.q)
    /\ \A h \in ToSet(c.hashes[msg]) : ~IsIdentity((h * FpToFq(c, SharedK(c, sk1, pkj))) % c.q)

ComputePadFp(c, msg, sk1, pkj, beta) ==
    LET T(i) == (c.hashes[msg][i] * FpToFq(c, SharedK(c, sk1, pkj))) % c.q
    IN  Output(c, beta, Affine(c, T(1)), Affine(c, T(2)))

DerivePad(c, msg, beta, identity_secret, peer_public_key) ==
    FpToFq(c, ComputePadFp(c, msg, identity_secret, peer_public_key, beta))

(* prove_batch: when it succeeds.  There is one witness per statement, all *)
(* with the same identity secret and polynomial.                           *)
BatchProvable(c, statements, witnesses) ==
    LET st == BatchedStatement(statements)
    IN  /\ Len(statements) = Len(witnesses)
        /\ Batchable(statements)
        /\ Len(witnesses[1].polynomial_coefficients) = st.threshold
        /\ \A j \in DOMAIN witnesses : witnesses[j] = witnesses[1]
        /\ ValidateShape(st)
        /\ ShapeAllowed(st.threshold, Len(st.receivers))
        /\ BatchedProvable(c, Setup(c, st.threshold, Len(st.receivers)), st,
                           witnesses[1].identity_secret, witnesses[1].polynomial_coefficients[1])

ProveBatch(c, statements, witnesses) ==
    EvrfBatchedProve(c, BatchedStatement(statements), witnesses[1].identity_secret,
                     witnesses[1].polynomial_coefficients[1])

(* verify_proof_batch, for a sequence of statements and proofs; the        *)
(* parameters are those of the first.  verify_batch is the case of one.    *)
VerifyProofBatch(c, batches) ==
    LET st(i) == BatchedStatement(batches[i].statements)
    IN  /\ batches # << >>
        /\ \A i \in DOMAIN batches : Batchable(batches[i].statements)
        /\ \A i \in DOMAIN batches : ValidateShape(st(i))
        /\ ShapeAllowed(st(1).threshold, Len(st(1).receivers))
        /\ EvrfBatchedVerifyMany(c, Setup(c, st(1).threshold, Len(st(1).receivers)),
                [i \in DOMAIN batches |-> [statement |-> st(i), proof |-> batches[i].proof]])

-----------------------------------------------------------------------------
(***************************************************************************)
(* The standalone one-receiver proof.                                      *)
(***************************************************************************)
OneReceiverCircuit(c, st, k, r) ==
    IF c.kind = "chord" THEN Secp!OneReceiverCircuit(c, st, k, r)
                        ELSE Jubjub!OneReceiverCircuit(c, st, k, r)
OneReceiverProvable(c, st, sk1) ==
    IF c.kind = "chord" THEN Secp!OneReceiverProvable(c, st, sk1)
                        ELSE Jubjub!OneReceiverProvable(c, st, sk1)
OneReceiverReady(c, st) ==
    IF c.kind = "chord" THEN Secp!OneReceiverReady(c, st) ELSE Jubjub!OneReceiverReady(c, st)

(* observe_one_receiver_statement: only R may be the identity. *)
OneReceiverObservable(st) ==
    \A point \in {st.pk1, st.pk2, st.s, st.h1, st.h2, st.t1, st.t2} : ~IsIdentity(point)

(* A proof by someone who knows sk1 and commits to k and r. *)
OneReceiverProof(c, st, sk1, k, r) ==
    LET cp == ChaumPedersenProve(st, sk1)
        nested == [transcript |-> <<st, cp>>, v_k |-> Committed(k, 0), v_r |-> Committed(r, 1),
                   holds |-> OneReceiverCircuit(c, st, k, r)]
    IN  [cp |-> cp, nested |-> nested, dlog |-> DlogProve(<<st, cp, nested>>, r)]

(* evrf_prove *)
EvrfProvable(c, st, sk1) == OneReceiverObservable(st) /\ OneReceiverProvable(c, st, sk1)

EvrfProve(c, st, sk1) == OneReceiverProof(c, st, sk1, Affine(c, st.s)[1], st.r_point)

(* evrf_verify *)
EvrfVerify(c, st, proof) ==
    /\ OneReceiverObservable(st)
    /\ ChaumPedersenVerify(proof.cp, st, st.pk1, st.pk2, st.s, c.q)
    /\ OneReceiverReady(c, st)
    /\ PedersenPrefixLink(st.r_point, proof.nested.v_r)
    /\ proof.nested.transcript = <<st, proof.cp>>
    /\ proof.nested.holds
    /\ DlogVerify(proof.dlog, <<st, proof.cp, proof.nested>>, st.r_point, c.p)
=============================================================================
