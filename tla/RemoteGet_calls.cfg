SPECIFICATION FairSpec
CONSTANTS
    Peers = {p1, p2, p3}
    PassivePeers = {p3}
    Gets = {g1, g2}
    Senders = {s1, s2}
    Keys = {k1, k2}
    Values = {v1, empty}
    Empty = empty
    None = None
INVARIANTS
    PendingMatchesRequests
    AnswerIsForTheKey
PROPERTIES
    EveryGetReturns
    ResponsesDrain
CHECK_DEADLOCK FALSE
