SPECIFICATION EdgeSpec
CONSTANTS
    Rates = {0, 2}
    Burst = 3
    Sizes = {3}
    MaxPacket = 3
    Overhead = 1
    Late = 1
    MaxTime = 5
    MaxBacklog = 2
    Second = 4
    MaxClock = 9
    Pipe = 2
    Buffer = 1
    Socket = 1
    Depth = 2
    MaxUp = 3
    MaxDown = 4
    Conn = {c1}
    QueueLimit = 1
    MaxWrote = 4
    PacketLimit = 2
    PingLimit = 2
    HeadLimit = 6
    Chunk = 4
    FrameLimit = 5
    Heads <- EdgeHeads
    Bodies <- EdgeBodies
    Datagrams <- EdgeDatagrams
    MaxDatagrams = 1
    Process = {p1, p2, p3}
    MaxKeys = 3
    MaxLosses = 2
    c1 = c1
    p1 = p1
    p2 = p2
    p3 = p3
INVARIANTS
    RateBounded
    EndNoticed
    AnswersBounded
    RefusalsAreFree
    InOrder
    NoCircularWait
    AdmittedOnly
    NoLeak
    InfoFirst
    FramesFaithful
    AnswersExactly
    WithinDatagram
    SameIdentity
    KeptWhole
PROPERTIES
    WriteEnds
    ClientHeard
    HandshakeEnds
    ClosedLeaves
    KeepsPromise
CHECK_DEADLOCK FALSE
