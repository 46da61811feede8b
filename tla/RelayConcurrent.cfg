SPECIFICATION Spec
CONSTANTS
    Key = {a, b, m}
    NoKey = NoKey
    MeshKeys = {b}
    WebSocketKeys = {a}
    Workers = 2
    QueueDepth = 1
    BatchFrames = 2
    Inbound <- InMixed
    MeshAnswers = {TRUE, FALSE}
    MaxSessions = 3
    Conns <- Conns211
    MaxPackets = 1
    MaxMoves = 1
    MaxRestarts = 0
    a = a
    b = b
    m = m
CONSTRAINT Apart
INVARIANTS
    NoMisdelivery
    DuplicateFlag
    PacketsAccounted
    GaugesExact
    SenderDepartureReported
CHECK_DEADLOCK FALSE
