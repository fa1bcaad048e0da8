CONSTANTS
    P = 5
    Gen = 2
    Nonces = {1}
    Betas = {1}
    PadHash <- MCPadHash
    BindsPad = FALSE
    Parties = {1, 2, 3}
    Secret <- MCSecret
    Configs <- OneConfig
    Faulty = {3}
    Completers = {1, 2}
    DrawnNonces = {1}
    SampledSecrets = {1, 3}
    SampledCoeffs = {2}
    Tampers = {}
    Misuses = {}
    MaxWrong = 0
    Checked = TRUE
    MaxSent <- ThirdSendsTwice
SPECIFICATION Spec
INVARIANTS
    Agreement
    QuorumHoldsKey
    AcceptedDealingsComplete
PROPERTIES
    ImplementsIdeal
CHECK_DEADLOCK FALSE
