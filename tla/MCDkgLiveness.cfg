CONSTANTS
    P = 5
    Gen = 2
    Nonces = {1, 2}
    Betas = {1}
    PadHash <- MCPadHash
    BindsPad = TRUE
    Parties = {1, 2}
    Secret <- PairSecret
    Configs <- PairConfig
    Faulty = {2}
    Completers = {1, 2}
    DrawnNonces = {1}
    SampledSecrets = {1, 3}
    SampledCoeffs = {2}
    Tampers = {"commitment", "share_and_pad", "dealer"}
    Misuses = {}
    MaxWrong = 1
    Checked = TRUE
    MaxSent <- PairSendTwice
SPECIFICATION FairSpec
INVARIANTS
    PubliclyVerifiable
PROPERTIES
    EveryoneCompletes
CHECK_DEADLOCK FALSE
