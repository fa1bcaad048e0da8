----------------------------- MODULE ProofStream ----------------------------
(***************************************************************************)
(* golden-evrf's proof_stream.rs: the prover writes proof bytes and feeds  *)
(* a transcript, the verifier reads the bytes that arrive and feeds its    *)
(* own.  Both run the same script of operations.  Every proof of the       *)
(* workspace rests on the two transcripts staying together, and on the     *)
(* transcript binding the bytes: all of them but those of nested proofs,   *)
(* of which it holds only what the child protocol appends itself.          *)
(*                                                                         *)
(* A byte is a small number.  Points and scalars have canonical encodings  *)
(* of PointBytes and one byte; length prefixes are one byte.  A transcript *)
(* is the sequence of what was absorbed (merlin).  A side keeps the log of *)
(* the operations applied to it, nested proofs with their whole payload,   *)
(* and the transcript is a function of the log.                            *)
(***************************************************************************)
EXTENDS Integers, Sequences, SequencesExt, FiniteSets

CONSTANTS
    ProofId,        \* the protocol's id, as bytes
    Scripts,        \* sequences of operations "observe", "point", "any_point",
                    \* "scalar", "nested" and "challenge"
    Payloads,       \* bytes of nested proofs
    ChildAbsorbs(_),    \* what the child protocol appends to the transcript
                        \* for a payload
    MaxRetries,     \* bound on the prover's calls that fail
    Truncate        \* bound on the bytes the transport cuts off

PointBytes == 2
Canonical == {0, 1}     \* 0 is the identity
Bytes == {0, 1, 2}

ASSUME StreamAssumption ==
    /\ ProofId \in Seq(Bytes)
    /\ Scripts \subseteq Seq({"observe", "point", "any_point", "scalar", "nested", "challenge"})
    /\ Payloads \subseteq Seq(Bytes)
    /\ MaxRetries \in Nat /\ Truncate \in Nat

VARIABLES
    script,     \* the protocol both sides run
    prover,     \* [log, proof, step, retries]
    wire,       \* the bytes that arrived, Nothing before the prover finishes
    verifier    \* [log, cursor, step, status]

vars == <<script, prover, wire, verifier>>

Nothing == <<-1>>     \* no byte is negative

(* A constant is encoded by repeating the byte; only that is canonical. *)
EncodePoint(v) == [i \in 1..PointBytes |-> v]
EncodeScalar(v) == <<v>>
IsPoint(bytes, op) ==
    \E v \in Canonical : bytes = EncodePoint(v) /\ (op = "point" => v # 0)
IsScalar(bytes) == \E v \in Canonical : bytes = EncodeScalar(v)

Message(label, bytes) == <<label, bytes>>
NewLog == <<Message("id", ProofId)>>
Header == <<Len(ProofId)>> \o ProofId

(* The transcript of a side.  A nested proof is not observed: it is there   *)
(* with what its own protocol appends, which may be the same for different  *)
(* payloads.                                                               *)
Observed(m) == IF m[1] = "child" THEN Message("child", ChildAbsorbs(m[2])) ELSE m
Transcript(side) == [i \in DOMAIN side.log |-> Observed(side.log[i])]

Init ==
    /\ script \in Scripts
    /\ prover = [log |-> NewLog, proof |-> Header, step |-> 1, retries |-> 0]
    /\ wire = Nothing
    /\ verifier = [log |-> << >>, cursor |-> 0, step |-> 1, status |-> "idle"]

(***************************************************************************)
(* Operations both sides have: public data and challenges.                 *)
(***************************************************************************)
Public(op) == Message(op, << >>)

Observe(side) == [side EXCEPT !.log = Append(@, Public(script[side.step])),
                              !.step = @ + 1]

(***************************************************************************)
(* The prover.                                                             *)
(***************************************************************************)
Proving == wire = Nothing /\ prover.step <= Len(script)

ProverObserves ==
    /\ Proving
    /\ script[prover.step] \in {"observe", "challenge"}
    /\ prover' = Observe(prover)
    /\ UNCHANGED <<script, wire, verifier>>

SendBytes(bytes) ==
    prover' = [prover EXCEPT !.proof = @ \o bytes,
                             !.log = Append(@, Message(script[prover.step], bytes)),
                             !.step = @ + 1]

(* An error is returned before anything is written; the caller tries again. *)
ProverFails ==
    /\ prover.retries < MaxRetries
    /\ prover' = [prover EXCEPT !.retries = @ + 1]

(* send_point: the identity is refused where the relation excludes it. *)
SendPoint ==
    /\ Proving
    /\ script[prover.step] \in {"point", "any_point"}
    /\ \E v \in Canonical :
        IF v = 0 /\ script[prover.step] = "point" THEN ProverFails
        ELSE SendBytes(EncodePoint(v))
    /\ UNCHANGED <<script, wire, verifier>>

SendScalar ==
    /\ Proving
    /\ script[prover.step] = "scalar"
    /\ \E v \in Canonical : SendBytes(EncodeScalar(v))
    /\ UNCHANGED <<script, wire, verifier>>

(* Mutant: a child that fails leaves what it absorbed in the transcript. *)
SendNested_NoRollback ==
    /\ Proving
    /\ script[prover.step] = "nested"
    /\ \E payload \in Payloads, ok \in BOOLEAN :
        LET applied == Append(prover.log, Message("child", payload))
        IN  \/ /\ ~ok
               /\ prover.retries < MaxRetries
               /\ prover' = [prover EXCEPT !.retries = @ + 1, !.log = applied]
            \/ /\ ok
               /\ prover' = [prover EXCEPT !.log = applied,
                                           !.proof = @ \o <<Len(payload)>> \o payload,
                                           !.step = @ + 1]
    /\ UNCHANGED <<script, wire, verifier>>

(* send_nested: the child appends its own messages and may then fail, in   *)
(* which case the transcript is put back.  Neither the length prefix nor   *)
(* the payload is observed.                                                *)
SendNested ==
    /\ Proving
    /\ script[prover.step] = "nested"
    /\ \E payload \in Payloads, ok \in BOOLEAN :
        LET applied == Append(prover.log, Message("child", payload))
        IN  \/ ~ok /\ ProverFails
            \/ /\ ok
               /\ prover' = [prover EXCEPT !.log = applied,
                                           !.proof = @ \o <<Len(payload)>> \o payload,
                                           !.step = @ + 1]
    /\ UNCHANGED <<script, wire, verifier>>

(***************************************************************************)
(* The transport delivers the proof, changes or appends a byte, or cuts    *)
(* bytes off.                                                              *)
(***************************************************************************)
Arrivals(proof) ==
    {proof}
    \cup {[proof EXCEPT ![i] = b] : i \in DOMAIN proof, b \in Bytes}
    \cup {Append(proof, b) : b \in Bytes}
    \cup {SubSeq(proof, 1, Len(proof) - k) : k \in 1..Truncate}

Deliver ==
    /\ wire = Nothing
    /\ prover.step = Len(script) + 1
    /\ wire' \in Arrivals(prover.proof)
    /\ UNCHANGED <<script, prover, verifier>>

(***************************************************************************)
(* The verifier.                                                           *)
(***************************************************************************)
Reject == verifier' = [verifier EXCEPT !.status = "rejected"]

(* The bytes of the proof after the cursor, or Nothing past the end. *)
Get(from, len) ==
    IF from + len <= Len(wire) THEN SubSeq(wire, from + 1, from + len) ELSE Nothing

VerifierNew ==
    /\ wire # Nothing
    /\ verifier.status = "idle"
    /\ IF Get(0, 1) = <<Len(ProofId)>> /\ Get(1, Len(ProofId)) = ProofId
       THEN verifier' = [verifier EXCEPT !.log = NewLog,
                                         !.cursor = Len(Header), !.status = "running"]
       ELSE Reject
    /\ UNCHANGED <<script, prover, wire>>

Verifying == verifier.status = "running" /\ verifier.step <= Len(script)

VerifierObserves ==
    /\ Verifying
    /\ script[verifier.step] \in {"observe", "challenge"}
    /\ verifier' = Observe(verifier)
    /\ UNCHANGED <<script, prover, wire>>

Absorb(label, bytes, cursor) ==
    verifier' = [verifier EXCEPT !.log = Append(@, Message(label, bytes)),
                                 !.cursor = cursor, !.step = @ + 1]

ReceivePoint ==
    /\ Verifying
    /\ script[verifier.step] \in {"point", "any_point"}
    /\ LET encoded == Get(verifier.cursor, PointBytes)
       IN  IF encoded # Nothing /\ IsPoint(encoded, script[verifier.step])
           THEN Absorb(script[verifier.step], encoded, verifier.cursor + PointBytes)
           ELSE Reject
    /\ UNCHANGED <<script, prover, wire>>

ReceiveScalar ==
    /\ Verifying
    /\ script[verifier.step] = "scalar"
    /\ LET encoded == Get(verifier.cursor, 1)
       IN  IF encoded # Nothing /\ IsScalar(encoded)
           THEN Absorb("scalar", encoded, verifier.cursor + 1)
           ELSE Reject
    /\ UNCHANGED <<script, prover, wire>>

(* The child protocol refuses bytes that are not canonical. *)
ChildAccepts(payload) == \A i \in DOMAIN payload : payload[i] \in Canonical

(* receive_nested: the frame is bounded before the child runs; when the    *)
(* child fails, the transcript is put back and the cursor stays.  The      *)
(* child appends its own messages, the frame is not observed.              *)
ReceiveNested ==
    /\ Verifying
    /\ script[verifier.step] = "nested"
    /\ LET length  == Get(verifier.cursor, 1)
           payload == Get(verifier.cursor + 1, length[1])
       IN  IF length # Nothing /\ payload # Nothing /\ ChildAccepts(payload)
           THEN Absorb("child", payload, verifier.cursor + 1 + Len(payload))
           ELSE Reject
    /\ UNCHANGED <<script, prover, wire>>

(* Mutant: trailing bytes are ignored. *)
Finish_IgnoresTrailing ==
    /\ verifier.status = "running"
    /\ verifier.step = Len(script) + 1
    /\ verifier' = [verifier EXCEPT !.status = "finished"]
    /\ UNCHANGED <<script, prover, wire>>

Finish ==
    /\ verifier.status = "running"
    /\ verifier.step = Len(script) + 1
    /\ IF verifier.cursor = Len(wire)
       THEN verifier' = [verifier EXCEPT !.status = "finished"]
       ELSE Reject
    /\ UNCHANGED <<script, prover, wire>>

Next ==
    \/ ProverObserves \/ SendPoint \/ SendScalar \/ SendNested \/ Deliver
    \/ VerifierNew \/ VerifierObserves \/ ReceivePoint \/ ReceiveScalar
    \/ ReceiveNested \/ Finish

Spec == Init /\ [][Next]_vars

-----------------------------------------------------------------------------
(* A verifier that reads the prover's own bytes derives the prover's       *)
(* challenges: its transcript never leaves the prover's, also when calls   *)
(* of the prover failed on the way and were tried again.  It rejects only  *)
(* when a nested proof is bad.                                             *)
IntactProofsInSync ==
    wire = prover.proof =>
        /\ verifier.status \in {"running", "finished"} =>
             IsPrefix(Transcript(verifier), Transcript(prover))
        /\ verifier.status = "finished" => Transcript(verifier) = Transcript(prover)
        /\ verifier.status = "rejected" =>
             \E i \in DOMAIN prover.log :
                prover.log[i][1] = "child" /\ ~ChildAccepts(prover.log[i][2])

(* The bytes of the proof whose operations a log has: ids and nested       *)
(* payloads have a length prefix.                                          *)
Frame(m) == IF m[1] \in {"id", "child"} THEN <<Len(m[2])>> \o m[2] ELSE m[2]
ProofOf(log) ==
    LET bytes[k \in 0..Len(log)] == IF k = 0 THEN << >> ELSE bytes[k - 1] \o Frame(log[k])
    IN  bytes[Len(log)]

(* A log with the nested payloads of another one. *)
WithPayloadsOf(other, log) ==
    [i \in DOMAIN log |-> IF log[i][1] = "child" THEN other[i] ELSE log[i]]

(* A proof that is accepted with the prover's transcript is the prover's   *)
(* but for the payloads of nested proofs: its id, the bytes of all other   *)
(* operations and their order are the prover's, nested payloads are framed *)
(* by their length, and nothing trails.  In a nested payload the bytes     *)
(* that its child protocol does not append may differ, and with them its   *)
(* length (nested_raw_length_and_payload_are_not_observed in               *)
(* proof_stream.rs).                                                       *)
AcceptedBytesAreBound ==
    verifier.status = "finished" /\ Transcript(verifier) = Transcript(prover)
        => wire = ProofOf(WithPayloadsOf(verifier.log, prover.log))

=============================================================================
