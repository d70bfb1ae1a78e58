SPECIFICATION FairSpec
CONSTANTS
    Intervals = {0, 2, 3}
    Timeouts = {0, 1, 2}
    Thresholds = {0, 1, 2}
    Latencies = {0, 1}
    Deadlines = {0, 3, 4, 7}
    MaxClock = 30
INVARIANTS
    LivePeerKept
    SilenceBounded
    NeverTimesOut
PROPERTIES
    DeadPeerDropped
CHECK_DEADLOCK FALSE
