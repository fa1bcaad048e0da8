SPECIFICATION Spec
CONSTANTS
    Suites <- MCSuites
    Dealings <- MCDealings
    Contexts = {s1, s2}
    Shapes <- MCShapes
    FeldmanBatchMin = 2
INVARIANTS
    AcceptedSharesDecrypt
    HonestProofsVerify
    ProofsBindStatements
    CapacityIsExact
CHECK_DEADLOCK FALSE
