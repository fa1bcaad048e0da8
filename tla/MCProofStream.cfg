CONSTANTS
    ProofId <- MCProofId
    Scripts <- MCScripts
    Payloads <- MCPayloads
    ChildAbsorbs <- MCChildAbsorbs
    MaxRetries = 1
    Truncate = 3
SPECIFICATION Spec
INVARIANTS
    IntactProofsInSync
    AcceptedBytesAreBound
CHECK_DEADLOCK FALSE
