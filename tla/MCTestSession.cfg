CONSTANTS
    Cases <- MCCases
    Failures <- MCFailures
    MaxConsecutive = 3
    LockInReach = TRUE
SPECIFICATION Spec
INVARIANTS
    TypeOK
    LockMatchesSession
    FileLagsBehind
    NothingForgotten
    GreenIsEarned
    RestartsAreBounded
PROPERTIES
    ClearedWhenDone
    ZombieStartsNothing
    CommandsEnd
