SPECIFICATION Spec
CONSTANTS
    k1 = k1
    k2 = k2
    k3 = k3
    t1 = t1
    t2 = t2
    Keys = {k1, k2, k3}
    Threads = {t1, t2}
    Hash <- MCCollidingHash
    Slots = {1, 2}
    Values = {v1}
    Durations <- MCSignedDurations
    Limited = TRUE
    Resets = TRUE
    MaxOps = 3
    NoKey = NoKey
    NoValue = NoValue
    Start = 3
    MaxTime = 4
    InitDelay = 5
    HalfWord = 16
SYMMETRY CollidingSymmetry
INVARIANTS
    TimerTracksHead
    HashmapSound
    TtlCovered
    ShardInv
PROPERTY
    ImplementsMap
CHECK_DEADLOCK FALSE
