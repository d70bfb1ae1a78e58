SPECIFICATION FairSpec
CONSTANTS
    n1 = n1
    n2 = n2
    n3 = n3
    Nodes = {n1, n2, n3}
    Clusters <- MCClusters
    MaxConns = 3
    None = None
INVARIANTS
    MembershipTypeOK
    ListedIsLive
    PassiveApart
    SyncNotFiltered
    NoSelfDial
PROPERTIES
    BothEndsGo
    MeshUnlessMishap
    ReconnectsUnlessMishap
CHECK_DEADLOCK FALSE
