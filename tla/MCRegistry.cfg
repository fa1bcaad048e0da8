CONSTANTS
    P = 5
    Gen = 2
    Indexes = {1, 3}
    Thresholds = {0, 2, 3}
    MaxEntries = 3
    ProofNonce <- MCProofNonce
    ProofChallenge <- MCProofChallenge
    HashToGroup <- MCHash
    HashToScalar <- MCHash
    DeriveSession <- MCDeriveSession
    MaxAlloc = 40
    MAX_BACKEND_ID_BYTES = 2
    MAX_PARTICIPANTS = 3
    MAX_CIPHERTEXT_FIELD_BYTES = 3
    Backends <- MCBackends
    Payload <- MCPayload
    ChangedTo = {0, 1, 2, 4, 9}
SPECIFICATION WireSpec
INVARIANTS
    PadsAreUnrelated
    OrderDoesNotMatter
    IntactReadsBack
    Canonical
    BuffersFit
    RootsBind
CHECK_DEADLOCK FALSE
