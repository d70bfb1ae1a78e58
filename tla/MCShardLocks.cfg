SPECIFICATION LocksSpec
CONSTANTS
    k1 = k1
    k2 = k2
    t1 = t1
    t2 = t2
    Keys = {k1, k2}
    Threads = {t1, t2}
    Hash <- MCDistinctHash
    Slots = {1, 2}
    Values = {v1}
    Durations = {2}
    Limited = TRUE
    Resets = TRUE
    MaxOps = 3
    NoKey = NoKey
    NoValue = NoValue
    Start = 1
    MaxTime = 3
    InitDelay = 5
    HalfWord = 16
PROPERTIES
    ExpiredEntryLeaves
    EveryCallReturns
CHECK_DEADLOCK FALSE
