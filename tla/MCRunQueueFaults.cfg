SPECIFICATION Spec
CONSTANTS
    Run = {r1, r2}
    Client = {mcp1, mcp2}
    Daemon = {mcp1, mcp2}
    Key = {k}
    None = None
    StaleWhileSpawned = FALSE
    StoreMayFail = TRUE
SYMMETRY Symmetry
CONSTRAINT FewIncidents
INVARIANTS
    TypeOK
    SlotInv
    ResumesSettledRun
PROPERTY
    CancelledIsFinal
CHECK_DEADLOCK FALSE
