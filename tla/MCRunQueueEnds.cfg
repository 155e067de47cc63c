SPECIFICATION FairSpec
CONSTANTS
    Run = {r1, r2}
    Client = {mcp}
    Daemon = {mcp}
    Key = {}
    None = None
    StaleWhileSpawned = FALSE
    StoreMayFail = FALSE
PROPERTY
    RunsEnd
CHECK_DEADLOCK FALSE
