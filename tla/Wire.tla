-------------------------------- MODULE Wire --------------------------------
(***************************************************************************)
(* The canonical encoding of golden-core (wire.rs) and the transcript      *)
(* roots (transcript.rs).  Pure: module WireSession sends the bytes.       *)
(*                                                                         *)
(* A byte has four bits and a word (u64, usize) four bytes, in the         *)
(* proportion of the code's bytes and words: a word is a square number of  *)
(* bits.  Every other field of fixed width (a hash, an index, a scalar, an *)
(* element) takes one byte.  Scalars and elements are the numbers below P, *)
(* and the bytes from P on encode neither.                                 *)
(*                                                                         *)
(* A reader is a record: the bytes, the cursor, the error ("" before one), *)
(* the values read so far, and the bytes set aside by Vec::with_capacity.  *)
(* Once it has an error it reads nothing more, which is what ? does.       *)
(***************************************************************************)
EXTENDS IdentityKeys

CONSTANTS
    MaxAlloc        \* ByteReader::max_alloc(1), the allocation budget of a reader

ASSUME MaxAllocAssumption == MaxAlloc \in Nat

ByteBits == 4
Base     == 2 ^ ByteBits
MaxUsize == Base ^ ByteBits - 1

IndexBytes   == 1
ElementBytes == 1
ScalarBytes  == 1
ArrayBytes   == 1
LenBytes     == ByteBits

MAGIC == <<15>>

CoreTypes == <<"SessionId", "DealerMessageNonce", "EncryptedShare", "FeldmanCommitment",
               "ParticipantRegistry", "DkgConfig", "DealerMessage", "IdentityKeyProof">>

Ehtdh1Types == <<"SetupContext", "PublicKeySet", "PublicShare", "SecretShare", "SealingKey",
                 "Ciphertext", "DecryptionShare">>

WireTypes == ToSet(CoreTypes \o Ehtdh1Types)

(* TAG and CODEC_ID: different for every type, over both crates. *)
Tag(type)     == CHOOSE i \in 1..15 : (CoreTypes \o Ehtdh1Types)[i] = type
CodecId(type) == <<Tag(type)>>

(* The types without a group have no backend in their context. *)
GroupTypes == WireTypes \ {"SessionId", "DealerMessageNonce", "SetupContext"}

(***************************************************************************)
(* Writing.                                                                *)
(***************************************************************************)
WriteLen(n) == [i \in 1..LenBytes |-> (n \div Base ^ (LenBytes - i)) % Base]

WriteBytes(bytes) == WriteLen(Len(bytes)) \o bytes

WriteContext(type, backend) ==
    WriteBytes(CodecId(type)) \o (IF type \in GroupTypes THEN WriteBytes(backend) ELSE << >>)

(* A BTreeMap is written in the order of its keys. *)
Keys(map) == SetToSortSeq(DOMAIN map, <)

WriteEncryptedShare(v)    == <<v.pad_commitment, v.encrypted_share>>
WriteFeldmanCommitment(v) == WriteLen(Len(v)) \o v
WriteIdentityKeyProof(v)  == <<v.nonce_point, v.response>>

WriteParticipantRegistry(v) ==
    LET keys == Keys(v)
    IN  WriteLen(Len(keys)) \o
        FlattenSeq([i \in DOMAIN keys |->
            <<keys[i], v[keys[i]].public_key>> \o WriteIdentityKeyProof(v[keys[i]].proof)])

WriteDkgConfig(v) ==
    WriteLen(v.threshold) \o <<v.session_id, v.beta>> \o WriteParticipantRegistry(v.registry)

WriteDealerMessage(v) ==
    LET keys == Keys(v.encrypted_shares)
    IN  <<v.session_id, v.registry_root, v.dealer, v.msg_i>>
        \o WriteFeldmanCommitment(v.commitment)
        \o WriteLen(Len(keys))
        \o FlattenSeq([i \in DOMAIN keys |->
               <<keys[i]>> \o WriteEncryptedShare(v.encrypted_shares[keys[i]])])
        \o WriteBytes(v.proof)

DealerMessageSizeHint(v) ==
    ArrayBytes + ArrayBytes + IndexBytes + ArrayBytes
    + LenBytes + Len(v.commitment) * ElementBytes
    + LenBytes + Cardinality(DOMAIN v.encrypted_shares) * (IndexBytes + ElementBytes + ScalarBytes)
    + LenBytes + Len(v.proof)

(***************************************************************************)
(* WireReader.                                                             *)
(***************************************************************************)
Reader(bytes) == [bytes |-> bytes, cursor |-> 0, error |-> "", out |-> << >>, reserved |-> 0]

Failed(r, error) == [r EXCEPT !.error = IF @ = "" THEN error ELSE @]
Ok(r)            == r.error = ""
Remaining(r)     == Len(r.bytes) - r.cursor

ReadExact(r, len) ==
    IF ~Ok(r) THEN r
    ELSE IF r.cursor + len > MaxUsize \/ r.cursor + len > Len(r.bytes)
         THEN Failed(r, "InvalidEncoding")
    ELSE [r EXCEPT !.cursor = @ + len,
                   !.out = Append(@, SubSeq(r.bytes, r.cursor + 1, r.cursor + len))]

(* An early return: the error that depends on what was read, "" for none.   *)
Check(r, Error(_)) == IF Ok(r) THEN [r EXCEPT !.error = Error(r.out)] ELSE r

Require(r, Test(_)) == IF Ok(r) /\ ~Test(r.out) THEN Failed(r, "InvalidEncoding") ELSE r

(* What was read since r is made into one value. *)
Return(r, fields, Value(_)) ==
    IF Ok(fields) THEN [fields EXCEPT !.out = Append(r.out, Value(fields.out))] ELSE fields

(* A value of several fields reads them apart from those before it. *)
Nested(r) == [r EXCEPT !.out = << >>]

BigEndian(bytes) == FoldLeft(LAMBDA n, byte : n * Base + byte, 0, bytes)

NumberError(kind, number) ==
    CASE kind = "index" /\ number = 0                     -> "ZeroParticipantIndex"
      [] kind \in {"element", "scalar"} /\ number >= P    -> "InvalidEncoding"
      [] OTHER                                            -> ""

(* read_len, read_array, ParticipantIndex::read_wire, read_element, read_scalar. *)
ReadField(r, kind) ==
    Return(r, Check(ReadExact(r, IF kind = "len" THEN LenBytes ELSE 1),
                    LAMBDA out : NumberError(kind, BigEndian(Last(out)))),
           LAMBDA out : BigEndian(Last(out)))

ReadFields(r, kinds) == FoldLeft(ReadField, r, kinds)

Expect(r, bytes) == Require(ReadExact(r, Len(bytes)), LAMBDA out : Last(out) = bytes)

(* As many bytes as the length just read says. *)
ReadCounted(r) == ReadExact(r, Last(r.out))

ExpectContextField(r, expected) ==
    Require(ReadCounted(ReadField(r, "len")), LAMBDA out : Last(out) = expected)

(* Mutant: the backend is read and not compared. *)
ReadContext_AnyBackend(r, type, backend) ==
    LET codec == ExpectContextField(r, CodecId(type))
        length == ReadField(codec, "len")
    IN  IF type \in GroupTypes THEN ReadExact(length, Last(length.out)) ELSE codec

ReadContext(r, type, backend) ==
    LET codec == ExpectContextField(r, CodecId(type))
    IN  IF type \in GroupTypes THEN ExpectContextField(codec, backend) ELSE codec

(* Mutant: the product wraps around instead of being refused. *)
EnsureRemainingItems_Wraps(r, count, size) ==
    IF Ok(r) /\ (count * size) % (MaxUsize + 1) > Remaining(r)
    THEN Failed(r, "InvalidEncoding") ELSE r

(* An overflowing product is refused like one that is too large. *)
EnsureRemainingItems(r, count, size) ==
    IF Ok(r) /\ (count * size > MaxUsize \/ count * size > Remaining(r))
    THEN Failed(r, "InvalidEncoding") ELSE r

(* Mutant: equal indexes pass. *)
EnsureIncreasing_NotStrict(r, items) ==
    IF Ok(r) /\ items # << >> /\ Last(items)[1] > r.out[1]
    THEN Failed(r, "DuplicateParticipantIndex") ELSE r

(* The index just read, against the one before it. *)
EnsureIncreasing(r, items) ==
    IF Ok(r) /\ items # << >> /\ Last(items)[1] >= r.out[1]
    THEN Failed(r, "DuplicateParticipantIndex") ELSE r

(* One iteration of a loop over items: acc.out holds the ones before. *)
ReadItem(acc, kinds) ==
    LET first == ReadField(Nested(acc), Head(kinds))
        whole == ReadFields(IF Head(kinds) = "index" THEN EnsureIncreasing(first, acc.out)
                            ELSE first,
                            Tail(kinds))
    IN  IF Ok(acc) THEN Return(acc, whole, LAMBDA out : out) ELSE acc

(* The items, after a count of which r.out holds the checked value: room   *)
(* for them when they go into a Vec, and the loop, which fails at the      *)
(* latest when there are more items than bytes.                            *)
ReadCountedItems(r, kinds, size, vec) ==
    LET count == Last(r.out)
        room  == [r EXCEPT !.out = << >>, !.reserved = @ + (IF vec THEN count * size ELSE 0)]
        turns == IF count <= Remaining(r) THEN count ELSE Remaining(r) + 1
    IN  IF Ok(r) THEN FoldLeft(LAMBDA acc, i : ReadItem(acc, kinds), room, [i \in 1..turns |-> i])
                 ELSE r

AtMost(r, most) == Require(r, LAMBDA out : Last(out) <= most)

EnsureRoom(r, size) == EnsureRemainingItems(r, Last(r.out), size)

(* A counted list of at most `most` items. *)
ReadItems(r, kinds, size, vec, most) ==
    Return(r, ReadCountedItems(EnsureRoom(AtMost(ReadField(r, "len"), most), size),
                               kinds, size, vec),
           LAMBDA out : out)

ReadBytes(r, most) == Return(r, ReadCounted(AtMost(ReadField(r, "len"), most)), Last)

(* The map of a list of items that begin with the key. *)
ItemAt(items, key) == CHOOSE item \in ToSet(items) : item[1] = key
KeysOf(items)      == {item[1] : item \in ToSet(items)}

(***************************************************************************)
(* transcript.rs: a root is what is hashed, every label and every value    *)
(* after its length.                                                       *)
(***************************************************************************)
LabelOf == <<"dealing", "version", "backend", "session", "registry", "dealer", "msg-i",
             "commitment-len", "commitment", "encrypted-shares-len", "encrypted-receiver",
             "pad-commitment", "encrypted-share", "len", "participant", "public-key",
             "setup-context", "threshold", "registry-root", "participants-len",
             "decryption-session", "context-session", "decryption-transcript-root",
             "context-transcript-root", "epoch">>

LabelBytes(label) ==
    LET n == CHOOSE i \in DOMAIN LabelOf : LabelOf[i] = label
    IN  WriteBytes(<<n \div Base, n % Base>>)

TranscriptNew(label)         == LabelBytes(label)
TranscriptBytes(label, data) == LabelBytes(label) \o WriteBytes(data)

PROTOCOL_VERSION == 1

(* Mutant: the receivers are left out. *)
DealingRoot_NoReceivers(v, backend) ==
    LET keys == Keys(v.encrypted_shares)
        share(k) == v.encrypted_shares[k]
    IN  TranscriptNew("dealing")
        \o TranscriptBytes("version", <<PROTOCOL_VERSION>>) \o TranscriptBytes("backend", backend)
        \o TranscriptBytes("session", <<v.session_id>>)
        \o TranscriptBytes("registry", <<v.registry_root>>)
        \o TranscriptBytes("dealer", <<v.dealer>>) \o TranscriptBytes("msg-i", <<v.msg_i>>)
        \o TranscriptBytes("commitment-len", WriteLen(Len(v.commitment)))
        \o FlattenSeq([i \in DOMAIN v.commitment |->
               TranscriptBytes("commitment", <<v.commitment[i]>>)])
        \o TranscriptBytes("encrypted-shares-len", WriteLen(Len(keys)))
        \o FlattenSeq([i \in DOMAIN keys |->
               TranscriptBytes("pad-commitment", <<share(keys[i]).pad_commitment>>)
               \o TranscriptBytes("encrypted-share", <<share(keys[i]).encrypted_share>>)])

DealingRoot(v, backend) ==
    LET keys == Keys(v.encrypted_shares)
        share(k) == v.encrypted_shares[k]
    IN  TranscriptNew("dealing")
        \o TranscriptBytes("version", <<PROTOCOL_VERSION>>) \o TranscriptBytes("backend", backend)
        \o TranscriptBytes("session", <<v.session_id>>)
        \o TranscriptBytes("registry", <<v.registry_root>>)
        \o TranscriptBytes("dealer", <<v.dealer>>) \o TranscriptBytes("msg-i", <<v.msg_i>>)
        \o TranscriptBytes("commitment-len", WriteLen(Len(v.commitment)))
        \o FlattenSeq([i \in DOMAIN v.commitment |->
               TranscriptBytes("commitment", <<v.commitment[i]>>)])
        \o TranscriptBytes("encrypted-shares-len", WriteLen(Len(keys)))
        \o FlattenSeq([i \in DOMAIN keys |->
               TranscriptBytes("encrypted-receiver", <<keys[i]>>)
               \o TranscriptBytes("pad-commitment", <<share(keys[i]).pad_commitment>>)
               \o TranscriptBytes("encrypted-share", <<share(keys[i]).encrypted_share>>)])

RegistryRoot(registry, backend) ==
    LET keys == Keys(registry)
    IN  TranscriptNew("registry") \o TranscriptBytes("backend", backend)
        \o TranscriptBytes("len", WriteLen(Len(keys)))
        \o FlattenSeq([i \in DOMAIN keys |->
               TranscriptBytes("participant", <<keys[i]>>)
               \o TranscriptBytes("public-key", <<registry[keys[i]].public_key>>)])

(***************************************************************************)
(* Reading the types of golden-core.                                       *)
(***************************************************************************)
ReadEncryptedShare(r) ==
    Return(r, ReadFields(Nested(r), <<"element", "scalar">>),
           LAMBDA out : [pad_commitment |-> out[1], encrypted_share |-> out[2]])

(* FeldmanCommitment::from_coefficients refuses the empty list. *)
ReadFeldmanCommitment(r) ==
    Return(r, Check(ReadItems(Nested(r), <<"element">>, ElementBytes, TRUE, MaxUsize),
                    LAMBDA out : IF out[1] = << >> THEN "EmptyCommitment" ELSE ""),
           LAMBDA out : [i \in DOMAIN out[1] |-> out[1][i][1]])

ReadIdentityKeyProof(r) ==
    Return(r, ReadFields(Nested(r), <<"element", "scalar">>),
           LAMBDA out : [nonce_point |-> out[1], response |-> out[2]])

RegistryOf(items) ==
    NewRegistry([i \in DOMAIN items |->
        [participant |-> items[i][1], public_key |-> items[i][2],
         proof |-> [nonce_point |-> items[i][3], response |-> items[i][4]]]])

ReadParticipantRegistry(r) ==
    Return(r, Check(ReadItems(Nested(r), <<"index", "element", "element", "scalar">>,
                              IndexBytes + 2 * ElementBytes + ScalarBytes, TRUE, MaxUsize),
                    LAMBDA out : LET result == RegistryOf(out[1]).result
                                 IN  IF result = Running THEN "" ELSE result.kind),
           LAMBDA out : RegistryOf(out[1]).registry)

ReadDkgConfig(r) ==
    Return(r, Check(ReadParticipantRegistry(ReadFields(Nested(r), <<"len", "array", "scalar">>)),
                    LAMBDA out : IF ConfigFits(out[1], out[4]) THEN "" ELSE "InvalidThreshold"),
           LAMBDA out : [threshold |-> out[1], session_id |-> out[2],
                         beta |-> out[3], registry |-> out[4]])

DealerMessageOf(out, backend) ==
    LET body == [session_id |-> out[1], registry_root |-> out[2], dealer |-> out[3],
                 msg_i |-> out[4], commitment |-> out[5],
                 encrypted_shares |-> [k \in KeysOf(out[6]) |->
                     [pad_commitment  |-> ItemAt(out[6], k)[2],
                      encrypted_share |-> ItemAt(out[6], k)[3]]],
                 proof |-> out[7]]
    IN  ("transcript_root" :> DealingRoot(body, backend)) @@ body

ReadDealerMessage(r, backend) ==
    LET head   == ReadFields(Nested(r), <<"array", "array", "index", "array">>)
        shares == ReadItems(ReadFeldmanCommitment(head), <<"index", "element", "scalar">>,
                            IndexBytes + ElementBytes + ScalarBytes, FALSE, MaxUsize)
    IN  Return(r, ReadBytes(shares, MaxUsize), LAMBDA out : DealerMessageOf(out, backend))

(***************************************************************************)
(* The length-delimited form for Miden.  write_usize and read_usize are    *)
(* the library's: as many trailing zeros in the first byte as there are    *)
(* bytes after it, up to a whole byte of zeros before a full word.         *)
(***************************************************************************)
LittleEndian(n, width) == [i \in 1..width |-> (n \div Base ^ (i - 1)) % Base]

WriteUsize(n) ==
    IF n >= 2 ^ ((ByteBits - 1) * ByteBits) THEN <<0>> \o LittleEndian(n, ByteBits)
    ELSE LET width == CHOOSE w \in 1..ByteBits :
                          /\ n < 2 ^ ((ByteBits - 1) * w)
                          /\ w = 1 \/ n >= 2 ^ ((ByteBits - 1) * (w - 1))
         IN  LittleEndian((2 * n + 1) * 2 ^ (width - 1), width)

ReadUsize(r) ==
    LET first == ReadExact(r, 1)
        byte  == Last(first.out)[1]
        after == IF byte = 0 THEN ByteBits
                 ELSE CHOOSE k \in 0..(ByteBits - 1) : byte % 2 ^ (k + 1) = 2 ^ k
        rest  == ReadExact(first, after)
        value(bytes) == FoldRight(LAMBDA b, n : n * Base + b, bytes, 0)
    IN  IF ~Ok(rest) THEN rest
        ELSE [rest EXCEPT !.out =
                <<IF byte = 0 THEN value(Last(@))
                  ELSE value(<<byte>> \o Last(@)) \div 2 ^ (after + 1)>>]

(* Mutant: one bit is not set aside for the marker. *)
MidenUsizeSize_FullBytes(n) ==
    LET zeros == CHOOSE z \in 0..(ByteBits * ByteBits) :
                     /\ n < 2 ^ (ByteBits * ByteBits - z)
                     /\ z = ByteBits * ByteBits \/ n >= 2 ^ (ByteBits * ByteBits - z - 1)
        len   == zeros \div ByteBits
    IN  (ByteBits + 1) - (IF len < ByteBits THEN len ELSE ByteBits)

MidenUsizeSize(n) ==
    LET zeros == CHOOSE z \in 0..(ByteBits * ByteBits) :
                     /\ n < 2 ^ (ByteBits * ByteBits - z)
                     /\ z = ByteBits * ByteBits \/ n >= 2 ^ (ByteBits * ByteBits - z - 1)
        len   == (IF zeros = 0 THEN 0 ELSE zeros - 1) \div (ByteBits - 1)
    IN  (ByteBits + 1) - (IF len < ByteBits THEN len ELSE ByteBits)
=============================================================================
