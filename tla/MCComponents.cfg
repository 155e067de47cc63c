SPECIFICATION McSpec
CONSTANTS
    Process = {p1, p2}
    Inode = {i1, i2, i3}
    NoProcess = NoProcess
    NoInode = NoInode
    Packs = {1, 2, 3}
    Retention = 2
    Scripts <- Seqs
    DebugActions = TRUE
    Resets = 2
    Follow = 2
    Moves = 2
    Patience = 2
    Entries = 3
    Versions = 2
    Extras = {1}
    Tries = 2
    Hand = 1
    Sessions = {s1, s2}
    MaxDepth = 2
    Requests = 3
    Pids = {1, 2, 3}
    Starts = 2
    Lines = 3
    MaxEntries = 2
    TailLines = 2
    Retries = 1
    MaxBytes = 3
    MaxAge = 2
    Collections = 1
    Polls = 2
    PageMoves = 1
    Tests = 2
CHECK_DEADLOCK FALSE
INVARIANTS
    NoLeakedLock
    HolderIsNamed
    PacksAreWhole
    DoneMeansDone
    ReadsAreFresh
    PassedMeansTested
    QueueKeepsItsWord
    LogsAreKept
    CaseIsHonest
PROPERTIES
    RestartIsFresh
