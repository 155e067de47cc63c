SPECIFICATION FairSpec
CONSTANTS
    MaxRecoveries = 1
    Retries = 2
    GracePolls = 2
    MaxGlitches = 3
    StableFrames = 3
    SettleTries = 5
    MaxHaze = 2
INVARIANTS
    RecoveryInv
    GoodGameSurvives
    CleanIsTrue
    OneStart
PROPERTIES
    RecoveryReturns
