SPECIFICATION FairSpec
CONSTANTS
    k1 = k1
    k2 = k2
    k3 = k3
    Keys = {k1, k2, k3}
    Slots = {1, 2}
    ShardCount = 3
    Hashings <- MCHashings
    None = None
INVARIANTS
    IteratorTypeOK
    UntouchedOnce
    UntouchedIntact
    
PROPERTIES
    IterationEnds
CHECK_DEADLOCK FALSE
