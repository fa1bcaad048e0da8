----------------------------- MODULE WireEhtdh1 -----------------------------
(***************************************************************************)
(* The encoding of golden-ehtdh1's types (its wire.rs), and the envelope   *)
(* around every type of both crates: magic, tag, context, value and        *)
(* nothing after it.                                                       *)
(***************************************************************************)
EXTENDS Wire, Ehtdh1

CONSTANTS
    MAX_BACKEND_ID_BYTES, MAX_PARTICIPANTS, MAX_CIPHERTEXT_FIELD_BYTES,
    DeriveSession(_)    \* derive_context_session_id, on session ids of one byte

ASSUME LimitsAssumption ==
    {MAX_BACKEND_ID_BYTES, MAX_PARTICIPANTS, MAX_CIPHERTEXT_FIELD_BYTES} \subseteq 0..MaxUsize

(* Bytes below half the base are ASCII; the others are no UTF-8 by themselves. *)
IsUtf8(bytes) == \A i \in DOMAIN bytes : bytes[i] < Base \div 2

(***************************************************************************)
(* Writing.                                                                *)
(***************************************************************************)
WriteSetupContext(v) ==
    WriteBytes(v.backend_id) \o WriteLen(v.threshold) \o <<v.registry_root>>
    \o WriteBytes(v.participants)
    \o <<v.decryption_session_id, v.context_session_id, v.decryption_transcript_root,
         v.context_transcript_root, v.epoch>>

WritePublicShare(v) == <<v.decryption, v.context>>
WriteSecretShare(v) == <<v.participant, v.decryption, v.context>>

WritePublicKeySet(v) ==
    LET keys == Keys(v.public_shares)
    IN  WriteLen(v.threshold) \o <<v.joint_public_key>> \o WriteLen(Len(keys))
        \o FlattenSeq([i \in DOMAIN keys |->
               <<keys[i]>> \o WritePublicShare(v.public_shares[keys[i]])])

WriteCiphertext(v) ==
    WriteBytes(v.associated_data) \o WriteBytes(v.encrypted_payload)
    \o <<v.ephemeral_public, v.encryption_point, v.challenge, v.response>>

WriteDecryptionShare(v) ==
    <<v.participant, v.share, v.challenge, v.decryption_response, v.context_response>>

(***************************************************************************)
(* Reading.                                                                *)
(***************************************************************************)
(* read_bytes *)
ReadCiphertextField(r) == ReadBytes(r, MAX_CIPHERTEXT_FIELD_BYTES)

(* This crate's ensure_increasing has an error of its own. *)
AsInvalidEncoding(r) ==
    [r EXCEPT !.error = IF @ = "DuplicateParticipantIndex" THEN "InvalidEncoding" ELSE @]

ReadByParticipant(r, kinds, size, vec) ==
    AsInvalidEncoding(ReadItems(r, kinds, size, vec, MAX_PARTICIPANTS))

ReadSetupContext(r) ==
    LET backend  == Require(ReadBytes(Nested(r), MAX_BACKEND_ID_BYTES),
                            LAMBDA out : out[1] # << >> /\ IsUtf8(out[1]))
        listed   == Require(ReadByParticipant(ReadFields(backend, <<"len", "array">>),
                                              <<"index">>, IndexBytes, TRUE),
                            LAMBDA out : out[2] \in 1..Len(out[4]))
        sessions == Require(ReadFields(listed, <<"array", "array">>),
                            LAMBDA out : out[6] = DeriveSession(out[5]))
    IN  Return(r, ReadFields(sessions, <<"array", "array", "array">>),
               LAMBDA out : [backend_id |-> out[1], threshold |-> out[2],
                             registry_root |-> out[3],
                             participants |-> [i \in DOMAIN out[4] |-> out[4][i][1]],
                             decryption_session_id |-> out[5], context_session_id |-> out[6],
                             decryption_transcript_root |-> out[7],
                             context_transcript_root |-> out[8], epoch |-> out[9]])

ReadPublicShare(r) ==
    Return(r, ReadFields(Nested(r), <<"element", "element">>),
           LAMBDA out : [decryption |-> out[1], context |-> out[2]])

ReadSecretShare(r) ==
    Return(r, ReadFields(Nested(r), <<"index", "scalar", "scalar">>),
           LAMBDA out : [participant |-> out[1], decryption |-> out[2], context |-> out[3]])

KeySetOf(out) ==
    NewPublicKeySet(out[1], out[2],
                    [k \in KeysOf(out[3]) |-> [decryption |-> ItemAt(out[3], k)[2],
                                               context |-> ItemAt(out[3], k)[3]]])

ReadPublicKeySet(r) ==
    Return(r, Require(ReadByParticipant(ReadFields(Nested(r), <<"len", "element">>),
                                        <<"index", "element", "element">>,
                                        IndexBytes + 2 * ElementBytes, FALSE),
                      LAMBDA out : KeySetOf(out).kind = "Ok"),
           LAMBDA out : KeySetOf(out).set)

(* SealingKey::new refuses the identity. *)
ReadSealingKey(r) ==
    Return(r, Require(ReadFields(Nested(r), <<"element">>), LAMBDA out : out[1] # Identity), Head)

ReadCiphertext(r) ==
    Return(r, ReadFields(ReadCiphertextField(ReadCiphertextField(Nested(r))),
                         <<"element", "element", "scalar", "scalar">>),
           LAMBDA out : [associated_data |-> out[1], encrypted_payload |-> out[2],
                         ephemeral_public |-> out[3], encryption_point |-> out[4],
                         challenge |-> out[5], response |-> out[6]])

ReadDecryptionShare(r) ==
    Return(r, ReadFields(Nested(r), <<"index", "element", "scalar", "scalar", "scalar">>),
           LAMBDA out : [participant |-> out[1], share |-> out[2], challenge |-> out[3],
                         decryption_response |-> out[4], context_response |-> out[5]])

(* SetupContext::root. *)
SetupContextRoot(v) ==
    TranscriptNew("setup-context")
    \o TranscriptBytes("backend", v.backend_id)
    \o TranscriptBytes("threshold", WriteLen(v.threshold))
    \o TranscriptBytes("registry-root", <<v.registry_root>>)
    \o TranscriptBytes("participants-len", WriteLen(Len(v.participants)))
    \o FlattenSeq([i \in DOMAIN v.participants |->
           TranscriptBytes("participant", <<v.participants[i]>>)])
    \o TranscriptBytes("decryption-session", <<v.decryption_session_id>>)
    \o TranscriptBytes("context-session", <<v.context_session_id>>)
    \o TranscriptBytes("decryption-transcript-root", <<v.decryption_transcript_root>>)
    \o TranscriptBytes("context-transcript-root", <<v.context_transcript_root>>)
    \o TranscriptBytes("epoch", <<v.epoch>>)

(***************************************************************************)
(* WireEncode and WireDecode of every type.                                *)
(***************************************************************************)
WriteWire(type, v) ==
    CASE type \in {"SessionId", "DealerMessageNonce", "SealingKey"} -> <<v>>
      [] type = "EncryptedShare"      -> WriteEncryptedShare(v)
      [] type = "FeldmanCommitment"   -> WriteFeldmanCommitment(v)
      [] type = "ParticipantRegistry" -> WriteParticipantRegistry(v)
      [] type = "DkgConfig"           -> WriteDkgConfig(v)
      [] type = "DealerMessage"       -> WriteDealerMessage(v)
      [] type = "IdentityKeyProof"    -> WriteIdentityKeyProof(v)
      [] type = "SetupContext"        -> WriteSetupContext(v)
      [] type = "PublicKeySet"        -> WritePublicKeySet(v)
      [] type = "PublicShare"         -> WritePublicShare(v)
      [] type = "SecretShare"         -> WriteSecretShare(v)
      [] type = "Ciphertext"          -> WriteCiphertext(v)
      [] type = "DecryptionShare"     -> WriteDecryptionShare(v)

ReadWire(r, type, backend) ==
    CASE type \in {"SessionId", "DealerMessageNonce"} -> ReadField(r, "array")
      [] type = "EncryptedShare"      -> ReadEncryptedShare(r)
      [] type = "FeldmanCommitment"   -> ReadFeldmanCommitment(r)
      [] type = "ParticipantRegistry" -> ReadParticipantRegistry(r)
      [] type = "DkgConfig"           -> ReadDkgConfig(r)
      [] type = "DealerMessage"       -> ReadDealerMessage(r, backend)
      [] type = "IdentityKeyProof"    -> ReadIdentityKeyProof(r)
      [] type = "SetupContext"        -> ReadSetupContext(r)
      [] type = "PublicKeySet"        -> ReadPublicKeySet(r)
      [] type = "PublicShare"         -> ReadPublicShare(r)
      [] type = "SecretShare"         -> ReadSecretShare(r)
      [] type = "SealingKey"          -> ReadSealingKey(r)
      [] type = "Ciphertext"          -> ReadCiphertext(r)
      [] type = "DecryptionShare"     -> ReadDecryptionShare(r)

ToWireBytes(type, v, backend) ==
    MAGIC \o <<Tag(type)>> \o WriteContext(type, backend) \o WriteWire(type, v)

Finish(r) == IF Ok(r) /\ Remaining(r) # 0 THEN Failed(r, "InvalidEncoding") ELSE r

FromWireBytes(type, backend, bytes) ==
    LET tagged == Expect(Expect(Reader(bytes), MAGIC), <<Tag(type)>>)
    IN  Finish(ReadWire(ReadContext(tagged, type, backend), type, backend))

(***************************************************************************)
(* serde and Miden: every type implements both by the canonical bytes.     *)
(***************************************************************************)
SerializeWire(type, v, backend) == ToWireBytes(type, v, backend)

(* visit_bytes, visit_byte_buf and visit_seq collect the bytes and decode them. *)
DeserializeWire(type, backend, bytes) == FromWireBytes(type, backend, bytes)

WriteMidenWire(type, v, backend) ==
    LET bytes == ToWireBytes(type, v, backend) IN WriteUsize(Len(bytes)) \o bytes

(* A length beyond the budget or beyond the source fails before any copy. *)
WithinBudget(r) ==
    Check(r, LAMBDA out : IF Last(out) > MaxAlloc THEN "InvalidValue" ELSE "")

FromPayload(type, backend, r) ==
    IF Ok(r) THEN [FromWireBytes(type, backend, Last(r.out)) EXCEPT !.reserved = @ + Len(Last(r.out))]
             ELSE r

ReadMidenWire(type, backend, source) ==
    FromPayload(type, backend, ReadCounted(WithinBudget(ReadUsize(Reader(source)))))

MidenWireSizeHint(type, v, backend) ==
    LET len == Len(ToWireBytes(type, v, backend)) IN MidenUsizeSize(len) + len
=============================================================================
