CONSTANTS
    P = 97
    Gen = 1
    MaxGens = 4
    SmallProof = 4
    ORIGINAL_BASE_ROUNDS = 1
    Random <- MCRandom
    Undecodable = Undecodable
    Sessions <- MCSessions
    Challenges <- MCChallenges
    Companions <- MCCompanions
    Coefficients <- MCCoefficients
SPECIFICATION Spec
INVARIANTS
    SidesAgree
    ProofDecides
    EncodingRoundTrips
    ChangedProofsRejected
    BatchDecides
    ArgumentDecides
CHECK_DEADLOCK FALSE
