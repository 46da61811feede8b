------------------------------ MODULE MCRelay ------------------------------
(* Instances of Relay for TLC. *)
EXTENDS Relay, TLC

CONSTANTS a, b, m

Send(dst) == In("SendPacket", NoKey, dst, FALSE)
Forward(src, dst) == In("ForwardPacket", src, dst, FALSE)
Watch == In("WatchConns", NoKey, NoKey, FALSE)
Close(k) == In("ClosePeer", NoKey, k, FALSE)
Plain(type) == In(type, NoKey, NoKey, FALSE)
Prefer(on) == In("NotePreferred", NoKey, NoKey, on)

\* Connections per node
Conns21 == (a :> 2 @@ b :> 1)
Conns211 == (a :> 2 @@ b :> 1 @@ m :> 1)
Conns111 == (a :> 1 @@ b :> 1 @@ m :> 1)
Conns3 == (a :> 3)
ConnsA3M1 == (a :> 3 @@ m :> 1)

\* Frames clients send
InActivity == {Plain("Ignored")}
InPackets == {Send(a), Send(b)}
InMixed == {Send(a), Forward(m, a), Plain("Ping"), Prefer(TRUE), Prefer(FALSE)}
InOneWorker == {Send(m), Watch, Close(a), Plain("Ignored"), Plain("Unexpected")}
InForward == {Forward(m, a)}

\* Behaviours with packets, and behaviours of two sessions with home moves and then pings.
Apart == /\ \A s \in Sid : frame[s].type = "Ping" => preferred_seen[s]
         /\ (\E s \in Sid : preferred_seen[s] \/ frame[s].type = "NotePreferred") =>
               metrics.packets_received = 0 /\ next_id <= 3

\* Behaviours with a shutdown have two sessions and no packet.
ShutdownApart == restarts < MaxRestarts => next_id <= 3 /\ metrics.packets_received = 0

\* Behaviours in which the source of a forwarded packet is connected until it is queued.
SourceHere ==
    \A s \in Sid : pc[s] \in {"dispatch", "deliver"} /\ Forwarded(s) => Connected(Source(s))
=============================================================================
