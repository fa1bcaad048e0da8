---------------------------- MODULE WireSession -----------------------------
(***************************************************************************)
(* A registry is built and configured (module Registry); then one value, of*)
(* any type of the two crates, is encoded, carried by the canonical bytes, *)
(* by serde or by Miden, perhaps changed on the way, and decoded by        *)
(* somebody who expects the same type and backend, or others.              *)
(***************************************************************************)
EXTENDS Registry, WireEhtdh1

CONSTANTS
    Backends,       \* BACKEND_IDs, byte strings
    ChangedTo,      \* values a changed byte takes
    Payload         \* bytes of proofs and of associated data

ASSUME SessionAssumption ==
    /\ ChangedTo \subseteq 0..(Base - 1)
    /\ \A b \in Backends \cup {Payload} : IsUtf8(b) /\ b # << >>

VARIABLES
    sent,       \* what is encoded: [type, value, backend, channel], or << >>
    wire,       \* its bytes, as they are now
    changed,    \* whether they were changed
    read        \* what decoding gave: [type, backend, result], or << >>

wireVars == <<sent, wire, changed, read>>

Channels == {"bytes", "serde", "miden"}

(***************************************************************************)
(* Values a program can hold, some beyond the limits of the decoders.      *)
(***************************************************************************)
SharesOf(polynomial) == [p \in {1, 3} |-> MulGenerator(Evaluate(polynomial, p))]

KeySet(t, decryption, context) ==
    [threshold |-> t, joint_public_key |-> MulGenerator(Head(decryption)),
     public_shares |-> [p \in {1, 3} |-> [decryption |-> SharesOf(decryption)[p],
                                          context |-> SharesOf(context)[p]]]]

Dealings ==
    {[session_id |-> 3, registry_root |-> 4, dealer |-> 2, msg_i |-> 5, commitment |-> c,
      encrypted_shares |-> [p \in receivers |-> [pad_commitment |-> p, encrypted_share |-> 1]],
      proof |-> proof] :
     c \in {<<1>>, <<2, 0>>}, receivers \in {{}, {1, 3}}, proof \in {<< >>, Payload}}

(* The values of a type that do not depend on the registry. *)
Values(type, backend) ==
    CASE type \in {"SessionId", "DealerMessageNonce"} -> {0, 9}
      [] type = "EncryptedShare"    -> [pad_commitment : {0, 2}, encrypted_share : {3}]
      [] type = "FeldmanCommitment" -> {<<1>>, <<2, 0, 1>>}
      [] type = "IdentityKeyProof"  -> {Prove(1), Prove(3)}
      [] type = "DealerMessage"     ->
            {("transcript_root" :> DealingRoot(v, backend)) @@ v : v \in Dealings}
      [] type = "SetupContext"      ->
            [backend_id : {backend}, threshold : {1, 2}, registry_root : {1},
             participants : {<<1, 2>>, <<1, 2, 3, 4>>}, decryption_session_id : {1},
             context_session_id : {DeriveSession(1)}, decryption_transcript_root : {6},
             context_transcript_root : {7}, epoch : {0}]
      [] type = "PublicKeySet"      -> {KeySet(1, <<2>>, <<0>>), KeySet(2, <<2, 1>>, <<0, 3>>)}
      [] type = "PublicShare"       -> [decryption : {1}, context : {0, 2}]
      [] type = "SecretShare"       -> [participant : {1, 4}, decryption : {1}, context : {0}]
      [] type = "SealingKey"        -> {1, 4}
      [] type = "Ciphertext"        ->
            [associated_data : {<< >>, Payload}, encrypted_payload : {Payload, Payload \o Payload},
             ephemeral_public : {1}, encryption_point : {2}, challenge : {3}, response : {0}]
      [] type = "DecryptionShare"   ->
            [participant : {2}, share : {1}, challenge : {4}, decryption_response : {0},
             context_response : {3}]

ConfigOf(session, beta) ==
    [threshold |-> threshold, session_id |-> session, beta |-> beta, registry |-> participants]

(* A registry and its configuration once there is one; other values before. *)
Sendable(type, backend) ==
    IF type \in {"ParticipantRegistry", "DkgConfig"}
    THEN IF result.kind # "Ok" THEN {}
         ELSE IF type = "DkgConfig" THEN {ConfigOf(2, 3)} ELSE {participants}
    ELSE IF entries = << >> /\ result = Running THEN Values(type, backend) ELSE {}

-----------------------------------------------------------------------------
WireInit == Init /\ sent = << >> /\ wire = << >> /\ changed = FALSE /\ read = << >>

Register == sent = << >> /\ Next /\ UNCHANGED wireVars

Encode(channel, type, v, backend) ==
    IF channel = "miden" THEN WriteMidenWire(type, v, backend)
    ELSE IF channel = "serde" THEN SerializeWire(type, v, backend)
    ELSE ToWireBytes(type, v, backend)

Decode(channel, type, backend, bytes) ==
    IF channel = "miden" THEN ReadMidenWire(type, backend, bytes)
    ELSE IF channel = "serde" THEN DeserializeWire(type, backend, bytes)
    ELSE FromWireBytes(type, backend, bytes)

Send(type, backend, channel) ==
    /\ sent = << >>
    /\ \E v \in Sendable(type, backend) :
        /\ sent' = [type |-> type, value |-> v, backend |-> backend, channel |-> channel]
        /\ wire' = Encode(channel, type, v, backend)
    /\ UNCHANGED <<vars, changed, read>>

(* A byte is replaced, the end is cut off, or a byte is added. *)
Change ==
    /\ sent # << >> /\ ~changed /\ read = << >>
    /\ \/ \E i \in DOMAIN wire, b \in ChangedTo : wire' = [wire EXCEPT ![i] = b]
       \/ \E n \in 0..(Len(wire) - 1) : wire' = SubSeq(wire, 1, n)
       \/ \E b \in ChangedTo : wire' = Append(wire, b)
    /\ wire' # wire
    /\ changed' = TRUE
    /\ UNCHANGED <<vars, sent, read>>

Receive(type, backend) ==
    /\ sent # << >> /\ read = << >>
    /\ changed => type = sent.type /\ backend = sent.backend
    /\ read' = [type |-> type, backend |-> backend,
                result |-> Decode(sent.channel, type, backend, wire)]
    /\ UNCHANGED <<vars, sent, wire, changed>>

WireNext ==
    \/ Register
    \/ \E type \in WireTypes, backend \in Backends, channel \in Channels :
        Send(type, backend, channel)
    \/ Change
    \/ \E type \in WireTypes, backend \in Backends : Receive(type, backend)

WireSpec == WireInit /\ [][WireNext]_<<vars, wireVars>>

-----------------------------------------------------------------------------
Accepted == read # << >> /\ Ok(read.result)
Value == Last(read.result.out)

WithinLimits(type, v) ==
    CASE type = "SetupContext" ->
            Len(v.participants) <= MAX_PARTICIPANTS /\ Len(v.backend_id) <= MAX_BACKEND_ID_BYTES
      [] type = "PublicKeySet" -> Cardinality(DOMAIN v.public_shares) <= MAX_PARTICIPANTS
      [] type = "Ciphertext"   ->
            {Len(v.associated_data), Len(v.encrypted_payload)} \subseteq 0..MAX_CIPHERTEXT_FIELD_BYTES
      [] OTHER                 -> TRUE

(* Bytes nobody changed are accepted by a reader that expects their type   *)
(* and backend, and give the value back (a registry or a key set through   *)
(* all the checks of its constructor), unless the value is beyond a limit; *)
(* every other reader refuses them (to_wire_bytes against from_wire_bytes, *)
(* read_wire_context).                                                     *)
IntactReadsBack ==
    read # << >> /\ ~changed =>
        /\ Accepted <=>
            /\ read.type = sent.type
            /\ sent.type \in GroupTypes => read.backend = sent.backend
            /\ WithinLimits(sent.type, sent.value)
            /\ sent.channel = "miden" =>
                Len(ToWireBytes(sent.type, sent.value, sent.backend)) <= MaxAlloc
        /\ Accepted => Value = sent.value

(* The encoding is canonical: whatever bytes from_wire_bytes accepts are   *)
(* the encoding of the value it returns, so no two byte strings stand for  *)
(* one value (trailing bytes, indexes out of order or twice, numbers that  *)
(* are no representation).                                                 *)
Canonical ==
    Accepted /\ sent.channel # "miden" => wire = ToWireBytes(read.type, Value, read.backend)

(* A length in the bytes never makes a decoder set aside more memory than  *)
(* the bytes it was given (ensure_remaining_items before with_capacity;    *)
(* the Miden form copies the payload once).                                *)
AllocationBounded ==
    read # << >> =>
        read.result.reserved <= (IF sent.channel = "miden" THEN 2 ELSE 1) * Len(wire)

(* A decoded value whose transcript root is that of the value sent is that *)
(* value, up to what the roots leave out: a dealing's proof, a registry's  *)
(* identity proofs (dealing_root, registry_root, SetupContext::root).      *)
RootsBind ==
    Accepted /\ read.type = sent.type =>
        LET v == sent.value
            w == Value
        IN  /\ sent.type = "DealerMessage" /\ v.transcript_root = w.transcript_root =>
                [v EXCEPT !.proof = << >>] = [w EXCEPT !.proof = << >>]
            /\ sent.type = "SetupContext" /\ SetupContextRoot(v) = SetupContextRoot(w) => v = w
            /\ sent.type = "ParticipantRegistry"
               /\ RegistryRoot(v, sent.backend) = RegistryRoot(w, sent.backend) =>
                [p \in DOMAIN v |-> v[p].public_key] = [p \in DOMAIN w |-> w[p].public_key]

UsizeSizesExact ==
    \A n \in UNION {{2 ^ k - 1, 2 ^ k} : k \in 0..15} : MidenUsizeSize(n) = Len(WriteUsize(n))

(* The sizes announced for the buffers are the sizes written: the hint of  *)
(* a dealing and the Miden hint, whose length prefix has a size of its own *)
(* formula (wire_size_hint, miden_wire_size_hint, miden_usize_size).       *)
HintsAreExact ==
    /\ UsizeSizesExact
    /\ sent # << >> =>
        /\ MidenWireSizeHint(sent.type, sent.value, sent.backend) =
            Len(WriteMidenWire(sent.type, sent.value, sent.backend))
        /\ sent.type = "DealerMessage" =>
            DealerMessageSizeHint(sent.value) = Len(WriteDealerMessage(sent.value))

(* Buffers are sized right in both directions: decoders do not trust a     *)
(* length they read, and encoders reserve what they write.                 *)
BuffersFit == AllocationBounded /\ HintsAreExact
=============================================================================
