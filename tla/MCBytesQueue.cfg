SPECIFICATION Spec
CONSTANTS
    InitialCapacity = 100
    Clients <- MCClients
INVARIANTS
    ReadBack
    FreeBlocksApart
    ListsMatchTree
    HeadIsEntry
PROPERTY
    ImplementsStore
CHECK_DEADLOCK FALSE
