SPECIFICATION Spec
CONSTANTS
    Run = {r1}
    Client = {cli}
    Daemon = {}
    Key = {}
    None = None
    StaleWhileSpawned = FALSE
    StoreMayFail = TRUE
PROPERTY
    CancelledNeverPasses
CHECK_DEADLOCK FALSE
