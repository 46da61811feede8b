SPECIFICATION PairSpec
CONSTANTS
    Server = {x, y}
    Node = {a}
    NoNode = NoNode
    Packet = {p1, p2}
    NoPacket = NoPacket
    WorkerCounts = {1, 2}
    Depth = 2
    MaxChanges = 4
    MaxBreaks = 1
    x = x
    y = y
    a = a
    p1 = p1
    p2 = p2
INVARIANTS
    PairTypeOK
    RoutesFollow
    ForwardedOnce
PROPERTIES
    Converges
CHECK_DEADLOCK FALSE
