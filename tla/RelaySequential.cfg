SPECIFICATION Spec
CONSTANTS
    Key = {a, m}
    NoKey = NoKey
    MeshKeys = {m}
    WebSocketKeys = {}
    Workers = 1
    QueueDepth = 2
    BatchFrames = 2
    Inbound <- InOneWorker
    MeshAnswers = {FALSE}
    MaxSessions = 3
    Conns <- ConnsA3M1
    MaxPackets = 1
    MaxMoves = 1
    MaxRestarts = 1
    a = a
    b = b
    m = m
CONSTRAINT ShutdownApart
INVARIANTS
    TypeOK
    RegistryExact
    ReversePathsLive
    WatcherExact
PROPERTIES
    KeepsDirectory
CHECK_DEADLOCK FALSE
