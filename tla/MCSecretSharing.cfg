CONSTANTS
    P = 5
    Gen = 2
    HashToGroup <- MCHash
    HashToScalar <- MCHash
    Indexes <- MCIndexes
    MaxThreshold = 3
    MaxCollected = 3
    Validators = {1, 3, 7}
    ContextCoefficients = {0, 1, 2}
    MaxWrong = 2
SPECIFICATION KeySetsSpec
INVARIANTS
    NeverWrongSecret
    ThresholdSuffices
    SharingsExactlyAccepted
CHECK_DEADLOCK FALSE
