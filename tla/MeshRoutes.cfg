SPECIFICATION Spec
CONSTANTS
    Link = {x, y}
    Node = {a, b}
    NoNode = NoNode
    WorkerCounts = {1, 2}
    Depth = 1
    MaxIds = 3
    MaxMissed = 1
    RemoteDepth = 1
    x = x
    y = y
    a = a
    b = b
SYMMETRY Symmetric
CONSTRAINT OneQueued
INVARIANTS
    TypeOK
    RoutesSound
    RoutesCompleteAlone
CHECK_DEADLOCK FALSE
