CONSTANTS
    P = 5
    Gen = 2
    HashToGroup <- MCHashToGroup
    HashToScalar <- MCHashToScalar
    Validators = {1, 2, 3}
    SealNonces <- OneSealNonce
    ShareNonces <- OneShareNonce
    Deployments <- FaultyDeployments
SPECIFICATION Spec
INVARIANTS
    ThresholdApproved
    QuorumNotBlocked
    OpensWhatWasSealed
    SetupsAgree
CHECK_DEADLOCK FALSE
