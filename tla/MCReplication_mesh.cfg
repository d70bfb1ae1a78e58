SPECIFICATION FairSpec
CONSTANTS
    n1 = n1
    n2 = n2
    n3 = n3
    c1 = c1
    c3 = c3
    Nodes = {n1, n2, n3}
    Passive = {n3}
    Callers = {c1, c3}
    HomeOf <- MCTwoCallers
    Workers = {w1, w2}
    Keys = {k1}
    Values = {v1}
    Durations = {0, 2}
    Start = 2
    MaxTime = 5
    MaxCalls = 1
    None = None
INVARIANTS
    WriteReachesAll
    LastWriteWins
    PassiveNeverAddressed
    ReplicaExpiry
PROPERTIES
    PutSpreads
CHECK_DEADLOCK FALSE
