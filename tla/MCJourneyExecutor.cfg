SPECIFICATION ExSpec
CONSTANTS
    Frames <- MCFrames
    Goals <- MCGoals
    Modes = {"traversal", "death"}
    DebugActions = TRUE
    Deadline = 3
    Patience = 2
    ResetSteps = 3
    StartWaits = 2
INVARIANTS
    CancelStopsPlay
    NoCardTwice
    FightsAsAsked
    GreenIsWhole
    Released
PROPERTIES
    RedStaysRed
    JourneyEnds
CHECK_DEADLOCK FALSE
