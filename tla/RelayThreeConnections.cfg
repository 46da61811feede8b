SPECIFICATION Spec
CONSTANTS
    Key = {a}
    NoKey = NoKey
    MeshKeys = {}
    WebSocketKeys = {}
    Workers = 1
    QueueDepth = 3
    BatchFrames = 2
    Inbound <- InActivity
    MeshAnswers = {FALSE}
    MaxSessions = 3
    Conns <- Conns3
    MaxPackets = 2
    MaxMoves = 1
    MaxRestarts = 0
    a = a
    b = b
    m = m
INVARIANTS
    LastActiveReceives
CHECK_DEADLOCK FALSE
