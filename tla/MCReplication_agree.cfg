SPECIFICATION Spec
CONSTANTS
    n1 = n1
    n2 = n2
    n3 = n3
    c1 = c1
    c3 = c3
    Nodes = {n1, n2}
    Passive = {}
    Callers = {c1}
    HomeOf <- MCOneCaller
    Workers = {w1, w2}
    Keys = {k1}
    Values = {v1, v2}
    Durations = {0}
    Start = 2
    MaxTime = 2
    MaxCalls = 2
    None = None
INVARIANTS
    ReplicasAgree
CHECK_DEADLOCK FALSE
