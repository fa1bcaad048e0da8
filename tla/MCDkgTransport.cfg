CONSTANTS
    P = 5
    Gen = 2
    Nonces = {1, 2}
    Betas = {1}
    PadHash <- MCPadHash
    BindsPad = FALSE
    Parties = {1, 2, 3}
    Secret <- MCSecret
    Configs <- ThreeConfigs
    Faulty = {}
    Completers = {1}
    DrawnNonces = {1}
    SampledSecrets = {1}
    SampledCoeffs = {2}
    Tampers <- AllTampers
    Misuses <- AllMisuses
    MaxWrong = 1
    Checked = FALSE
    MaxSent <- SendOnce
SPECIFICATION Spec
INVARIANTS
    HonestDealingsIntact
    BlameIsDeserved
    OnlyOwnSessionDealings
    ShareMatchesPublicShare
CHECK_DEADLOCK FALSE
