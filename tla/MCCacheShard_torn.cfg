SPECIFICATION Spec
CONSTANTS
    k1 = k1
    k2 = k2
    k3 = k3
    t1 = t1
    t2 = t2
    Keys = {k1, k2}
    Threads = {t1, t2}
    Hash <- MCDistinctHash
    Slots = {1, 2}
    Values = {v1}
    Durations = {0, 1, 2}
    Limited = FALSE
    Resets = FALSE
    MaxOps = 4
    NoKey = NoKey
    NoValue = NoValue
    Start = 1
    MaxTime = 3
    InitDelay = 5
    HalfWord = 16
SYMMETRY ThreadSymmetry
INVARIANTS
    GetReadsOwnEntry
CHECK_DEADLOCK FALSE
