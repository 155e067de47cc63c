SPECIFICATION Spec
CONSTANTS
    Run = {r1, r2, r3}
    Client = {cli}
    Daemon = {}
    Key = {}
    None = None
    StaleWhileSpawned = FALSE
    StoreMayFail = FALSE
SYMMETRY Symmetry
CONSTRAINT FewIncidents
INVARIANT
    GameSlotExclusive
PROPERTIES
    ImplementsGameSlot
    CancelledNeverPasses
CHECK_DEADLOCK FALSE
