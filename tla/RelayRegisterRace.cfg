SPECIFICATION Spec
CONSTANTS
    Key = {a, b}
    NoKey = NoKey
    MeshKeys = {}
    WebSocketKeys = {}
    Workers = 2
    QueueDepth = 3
    BatchFrames = 2
    Inbound <- InActivity
    MeshAnswers = {FALSE}
    MaxSessions = 3
    Conns <- Conns21
    MaxPackets = 2
    MaxMoves = 1
    MaxRestarts = 0
    a = a
    b = b
    m = m
INVARIANTS
    LastActiveReceives
CHECK_DEADLOCK FALSE
