SPECIFICATION Spec
CONSTANTS
    Run = {r1, r2, r3}
    Client = {cli}
    Daemon = {}
    Key = {}
    None = None
    StaleWhileSpawned = TRUE
    StoreMayFail = FALSE
SYMMETRY Symmetry
CONSTRAINT FewIncidents
INVARIANT
    GameSlotExclusive
CHECK_DEADLOCK FALSE
