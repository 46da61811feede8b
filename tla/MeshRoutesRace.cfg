SPECIFICATION Spec
CONSTANTS
    Link = {x, y}
    Node = {a}
    NoNode = NoNode
    WorkerCounts = {2}
    Depth = 1
    MaxIds = 2
    MaxMissed = 1
    RemoteDepth = 2
    x = x
    y = y
    a = a
    b = b
SYMMETRY Symmetric
INVARIANTS
    RoutesComplete
CHECK_DEADLOCK FALSE
