SPECIFICATION Spec
CONSTANTS
    Key = {a, b}
    NoKey = NoKey
    MeshKeys = {}
    WebSocketKeys = {}
    Workers = 1
    QueueDepth = 3
    BatchFrames = 2
    Inbound <- InPackets
    MeshAnswers = {FALSE}
    MaxSessions = 4
    Conns <- Conns21
    MaxPackets = 3
    MaxMoves = 1
    MaxRestarts = 0
    a = a
    b = b
    m = m
INVARIANTS
    DepartureReported
CHECK_DEADLOCK FALSE
