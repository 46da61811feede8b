------------------------------ MODULE WsBridge -----------------------------
(***************************************************************************)
(* A connection through a WebSocket: websocket_derp polls the session      *)
(* (serve_stream) and bridge_websocket in one task, joined by a duplex     *)
(* stream, a bounded pipe each way (src/src/http.rs, src/src/server.rs).   *)
(*                                                                         *)
(* The bridge is one loop: while it writes to one side it reads from       *)
(* neither, so what each of the four parties waits for (the client, the    *)
(* bridge, the session's reader, its writer) may depend on all others.     *)
(* Units of data are numbered in the order in which they enter a           *)
(* direction; a frame is a unit.                                           *)
(***************************************************************************)
EXTENDS Integers, Sequences

CONSTANTS
    Pipe,           \* capacity of the duplex stream, each way (256 KiB in the code)
    Buffer,         \* capacity of the bridge's read buffer (64 KiB in the code)
    Socket,         \* messages the client's socket holds, each way
    Depth,          \* Config.queue_depth
    MaxUp, MaxDown  \* bound: units sent each way

ASSUME BridgeAssumption ==
    /\ Pipe \in Nat \ {0} /\ Buffer \in Nat \ {0} /\ Socket \in Nat \ {0} /\ Depth \in Nat \ {0}
    /\ MaxUp \in Nat /\ MaxDown \in Nat

Message == [type : {"Binary", "Ping", "Text", "Close"}, data : Seq(1..MaxUp)]

VARIABLES
    client,         \* whether the client reads what it is sent
    up, held,       \* messages not taken yet; the rest of the one being written
    inbound, heard, \* pipe to the session; the last unit its reader has read
    asleep,         \* the reader is in its rate limiter
    queue, batch,   \* the session's queue; the rest of the batch being written
    outbound,       \* pipe to the bridge
    bridge, reply,  \* the bridge's await; what it sends
    down, got,      \* messages on their way to the client; the last unit it got
    sentUp, sentDown,
    over            \* how the connection ended

upVars == <<up, held, inbound, heard, sentUp>>
downVars == <<queue, batch, outbound, reply, down, got, sentDown>>
bridgeVars == <<client, asleep, bridge, over, upVars, downVars>>

BridgeInit ==
    /\ client = "reading" /\ asleep = FALSE /\ bridge = "select" /\ over = "no"
    /\ up = <<>> /\ held = <<>> /\ inbound = <<>> /\ heard = 0 /\ sentUp = 0
    /\ queue = <<>> /\ batch = <<>> /\ outbound = <<>> /\ reply = <<>>
    /\ down = <<>> /\ got = 0 /\ sentDown = 0

-----------------------------------------------------------------------------
(* bridge_websocket *)

Least(m, n) == IF m <= n THEN m ELSE n
First(n, s) == SubSeq(s, 1, n)
After(n, s) == SubSeq(s, n + 1, Len(s))

\* select! runs the branch of a message from the client, ...
CanTake == bridge = "select" /\ up # <<>>
Take ==
    LET m == Head(up)
    IN  /\ CanTake
        /\ up' = Tail(up)
        /\ bridge' = CASE m.type = "Binary" -> "write" [] m.type = "Ping" -> "pong"
                       [] m.type = "Text" -> "select" [] m.type = "Close" -> "returned"
        /\ held' = m.data
        /\ over' = IF m.type = "Close" THEN "bridge" ELSE over
        /\ UNCHANGED <<client, asleep, inbound, heard, sentUp, downVars>>

\* write_all: as much as the pipe has room for, until all of it is written.
WrittenOnce(n) == <<>>                                                  \* mutant
Written(n) == After(n, held)

CanWrite == bridge = "write" /\ Len(inbound) < Pipe
Write ==
    LET n == Least(Pipe - Len(inbound), Len(held))
    IN  /\ CanWrite
        /\ inbound' = inbound \o First(n, held)
        /\ held' = Written(n)
        /\ bridge' = IF held' = <<>> THEN "select" ELSE "write"
        /\ UNCHANGED <<client, asleep, over, up, heard, sentUp, downVars>>

\* ... or that of data from the session.
CanFetch == bridge = "select" /\ outbound # <<>>
Fetch ==
    LET n == Least(Buffer, Len(outbound))
    IN  /\ CanFetch
        /\ reply' = First(n, outbound)
        /\ outbound' = After(n, outbound)
        /\ bridge' = "send"
        /\ UNCHANGED <<client, asleep, over, upVars, queue, batch, down, got, sentDown>>

\* ws.send returns when the socket has taken the message: data, or the answer to a Ping.
CanSendMessage == bridge \in {"send", "pong"} /\ Len(down) < Socket
SendMessage ==
    /\ CanSendMessage
    /\ down' = Append(down, reply)
    /\ reply' = <<>>
    /\ bridge' = "select"
    /\ UNCHANGED <<client, asleep, over, upVars, queue, batch, outbound, got, sentDown>>

-----------------------------------------------------------------------------
(* serve_stream at the other end of the pipe *)

Enqueue == IF Len(queue) < Depth
           THEN queue' = Append(queue, sentDown + 1) /\ sentDown' = sentDown + 1
           ELSE UNCHANGED <<queue, sentDown>>

\* The reader answers with try_send, or not at all, and the halves of the stream are split:
\* it waits neither for the queue nor for a write to finish.
CanReadBetween == ~asleep /\ inbound # <<>> /\ batch = <<>>              \* mutant
CanRead == ~asleep /\ inbound # <<>>

Read ==
    /\ CanRead
    /\ heard' = Head(inbound)
    /\ inbound' = Tail(inbound)
    /\ \/ sentDown < MaxDown /\ Enqueue
       \/ UNCHANGED <<queue, sentDown>>
    /\ asleep' \in BOOLEAN
    /\ UNCHANGED <<client, bridge, over, up, held, sentUp, batch, outbound, reply, down, got>>

WakeReader ==
    /\ asleep
    /\ asleep' = FALSE
    /\ UNCHANGED <<client, bridge, over, upVars, downVars>>

\* A frame another session queues.
Deliver ==
    /\ sentDown < MaxDown
    /\ Enqueue
    /\ UNCHANGED <<client, asleep, bridge, over, upVars, batch, outbound, reply, down, got>>

\* write_batch takes what is queued and writes it as the pipe has room.
StartBatch ==
    /\ batch = <<>> /\ queue # <<>>
    /\ batch' = queue /\ queue' = <<>>
    /\ UNCHANGED <<client, asleep, bridge, over, upVars, outbound, reply, down, got, sentDown>>

\* write_control: select! is biased, so a keepalive goes out when nothing is queued.
KeepAlive ==
    /\ batch = <<>> /\ queue = <<>> /\ sentDown < MaxDown
    /\ batch' = <<sentDown + 1>> /\ sentDown' = sentDown + 1
    /\ UNCHANGED <<client, asleep, bridge, over, upVars, queue, outbound, reply, down, got>>

CanFlush == batch # <<>> /\ Len(outbound) < Pipe
FlushBatch ==
    LET n == Least(Pipe - Len(outbound), Len(batch))
    IN  /\ CanFlush
        /\ outbound' = outbound \o First(n, batch)
        /\ batch' = After(n, batch)
        /\ UNCHANGED <<client, asleep, bridge, over, upVars, queue, reply, down, got, sentDown>>

\* The client takes a message from its socket.
CanReceive == client = "reading" /\ down # <<>>

\* write_timeout is wall-clock time for the whole batch: it may expire while a slow client
\* still reads.  serve_stream returns, the bridge is dropped, and with them what they hold.
TimeoutLost == FALSE                                                    \* mutant
Timeout == batch # <<>>

WriteTimeout ==
    /\ Timeout
    /\ over' = "timeout"
    /\ up' = <<>> /\ held' = <<>> /\ inbound' = <<>>
    /\ queue' = <<>> /\ batch' = <<>> /\ outbound' = <<>> /\ reply' = <<>>
    /\ UNCHANGED <<client, asleep, bridge, heard, sentUp, down, got, sentDown>>

\* Nobody has a step by which the writer would get on.
CanMove == CanTake \/ CanWrite \/ CanFetch \/ CanSendMessage \/ CanRead \/ CanFlush \/ CanReceive
Stuck == over = "no" /\ batch # <<>> /\ ~CanMove

-----------------------------------------------------------------------------
(* The client *)

Receive ==
    /\ CanReceive
    /\ got' = IF Head(down) = <<>> THEN got ELSE Head(down)[Len(Head(down))]
    /\ down' = Tail(down)
    /\ UNCHANGED <<client, asleep, bridge, over, upVars, queue, batch, outbound, reply, sentDown>>

Say(type, n) ==
    /\ Len(up) < Socket /\ sentUp + n <= MaxUp
    /\ up' = Append(up, [type |-> type, data |-> [i \in 1..n |-> sentUp + i]])
    /\ sentUp' = sentUp + n
    /\ UNCHANGED <<client, asleep, bridge, over, held, inbound, heard, downVars>>

\* It stops reading, for good.
Stall ==
    /\ client = "reading"
    /\ client' = "stalled"
    /\ UNCHANGED <<asleep, bridge, over, upVars, downVars>>

BridgeStep ==
    \/ Take \/ Write \/ Fetch \/ SendMessage
    \/ Read \/ WakeReader \/ Deliver \/ StartBatch \/ KeepAlive \/ FlushBatch \/ WriteTimeout
    \/ Receive \/ Stall
    \/ \E n \in 1..2 : Say("Binary", n)
    \/ \E type \in {"Ping", "Text", "Close"} : Say(type, 0)

\* The end of either future drops the other.
BridgeNext == over = "no" /\ BridgeStep

BridgeSpec == BridgeInit /\ [][BridgeNext]_bridgeVars

\* Tasks run when they can, a sleep ends, a client that has not stalled reads, and a write
\* that is stuck for good times out.  select! picks at random among the branches that are
\* ready, so one that is ready again and again is picked.
BridgeFairness ==
    /\ SF_bridgeVars(over = "no" /\ Take) /\ SF_bridgeVars(over = "no" /\ Fetch)
    /\ WF_bridgeVars(over = "no" /\ (Write \/ SendMessage))
    /\ WF_bridgeVars(over = "no" /\ (Read \/ WakeReader))
    /\ WF_bridgeVars(over = "no" /\ (StartBatch \/ FlushBatch))
    /\ WF_bridgeVars(over = "no" /\ Receive)
    /\ WF_bridgeVars(Stuck /\ WriteTimeout)

-----------------------------------------------------------------------------

Flat(messages, Data(_)) ==
    LET all[i \in 0..Len(messages)] == IF i = 0 THEN <<>> ELSE all[i - 1] \o Data(messages[i])
    IN  all[Len(messages)]

Numbered(s, from, to) == Len(s) = to - from /\ \A i \in DOMAIN s : s[i] = from + i

\* Whatever the sizes of messages, reads and writes, no byte is lost, repeated or
\* reordered between the client and the session, in either direction.
InOrder ==
    over = "no" =>
      /\ Numbered(inbound \o held \o Flat(up, LAMBDA m : m.data), heard, sentUp)
      /\ Numbered(Flat(down, LAMBDA d : d) \o reply \o outbound \o batch \o queue, got, sentDown)

\* The bridge and the session never wait for each other in a circle: when no party can
\* take a step that helps a write along, the client has stopped reading or the rate
\* limiter holds the reader.
NoCircularWait == Stuck => client = "stalled" \/ asleep

\* A batch that cannot be written does not hold the session for ever.
WriteEnds == (batch # <<>>) ~> (batch = <<>> \/ over # "no")

\* What a client sends reaches the session, whatever is sent to the client meanwhile,
\* unless the client stops reading or the connection ends.
ClientHeard == []<>(heard = sentUp \/ over # "no" \/ client = "stalled")
=============================================================================
