SPECIFICATION Spec
CONSTANTS
    Key = {a, b, m}
    NoKey = NoKey
    MeshKeys = {b}
    WebSocketKeys = {}
    Workers = 2
    QueueDepth = 3
    BatchFrames = 2
    Inbound <- InForward
    MeshAnswers = {FALSE}
    MaxSessions = 3
    Conns <- Conns111
    MaxPackets = 1
    MaxMoves = 1
    MaxRestarts = 0
    a = a
    b = b
    m = m
CONSTRAINT SourceHere
INVARIANTS
    FirstDepartureReported
CHECK_DEADLOCK FALSE
