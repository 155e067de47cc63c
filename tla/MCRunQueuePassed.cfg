SPECIFICATION Spec
CONSTANTS
    Run = {r1}
    Client = {cli}
    Daemon = {}
    Key = {}
    None = None
    StaleWhileSpawned = FALSE
    StoreMayFail = FALSE
PROPERTY
    PassedIsFinal
CHECK_DEADLOCK FALSE
