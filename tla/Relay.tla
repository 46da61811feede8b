------------------------------- MODULE Relay -------------------------------
(***************************************************************************)
(* The relay core of derp-rs: the session registry, packet routing,        *)
(* presence and departure notices, and the per-connection task that calls  *)
(* into it (src/src/relay.rs, src/src/server.rs).                          *)
(*                                                                         *)
(* One task per connection (serve_stream) runs on one of the Workers       *)
(* threads of the tokio runtime.  Relay's methods contain no await: a      *)
(* method, once entered, keeps its thread, so with one worker methods      *)
(* exclude each other, and with several they interleave between any two    *)
(* accesses to shared state.  A method is therefore a chain of actions,    *)
(* one for each section another thread cannot split: an operation on one   *)
(* DashMap entry, or the section under the PeerSet mutex.  pc[s] names the *)
(* section that task s runs next; FreeWorker keeps the number of tasks     *)
(* inside a method within Workers.                                         *)
(*                                                                         *)
(* A definition marked as a mutant is a slip in the one that follows it;   *)
(* no specification uses it.  It serves to see that a property notices.    *)
(***************************************************************************)
EXTENDS Integers, Sequences, FiniteSets

CONSTANTS
    Key,            \* node keys
    NoKey,          \* no key
    MeshKeys,       \* the nodes whose ClientInfo carries the mesh key
    WebSocketKeys,  \* the nodes that connect through the WebSocket bridge
    Workers,        \* worker threads of the runtime
    QueueDepth,     \* Config.queue_depth: capacity of a session's queue
    BatchFrames,    \* frames a writer puts in one batch (64 in the code)
    Inbound,        \* the frames clients send
    MeshAnswers,    \* the answers forward_to_mesh may give
    MaxSessions,    \* bound: connections in a behaviour
    Conns,          \* bound: connections a node makes, [Key -> Nat]
    MaxPackets,     \* bound: packets routed
    MaxMoves,       \* bound: home moves counted
    MaxRestarts     \* bound: shutdown signals, 0 or 1

ASSUME ConstantsOK ==
    /\ NoKey \notin Key
    /\ MeshKeys \subseteq Key /\ WebSocketKeys \subseteq Key
    /\ Workers \in Nat \ {0} /\ QueueDepth \in Nat \ {0} /\ BatchFrames \in Nat \ {0}
    /\ MaxSessions \in Nat /\ MaxPackets \in Nat /\ MaxMoves \in Nat /\ MaxRestarts \in Nat
    /\ Conns \in [Key -> Nat]
    /\ MeshAnswers \in (SUBSET BOOLEAN) \ {{}}

Sid == 1..MaxSessions               \* SessionId; also names the PeerSet a session created
None == 0
Peer == Key \cup {NoKey}

(***************************************************************************)
(* Frames.  Payloads are left out; a RecvPacket keeps the key its sender   *)
(* addressed in dst, which the wire frame does not carry.                  *)
(***************************************************************************)
OutFrame == [type : {"RecvPacket", "PeerGone", "PeerNotHere", "PeerPresent",
                     "Duplicate", "Healthy", "Pong", "Restarting"},
             peer : Peer, dst : Peer]
Out(type, peer) == [type |-> type, peer |-> peer, dst |-> NoKey]
RecvPacket(src, dst) == [type |-> "RecvPacket", peer |-> src, dst |-> dst]

InFrame == [type : {"SendPacket", "ForwardPacket", "WatchConns", "ClosePeer", "Ping",
                    "NotePreferred", "Ignored", "Unexpected", "Nothing"},
            src : Peer, dst : Peer, on : BOOLEAN]
In(type, src, dst, on) == [type |-> type, src |-> src, dst |-> dst, on |-> on]
Nothing == In("Nothing", NoKey, NoKey, FALSE)

ASSUME InboundOK ==
    /\ Inbound \subseteq InFrame \ {Nothing}
    /\ \A f \in Inbound :
          /\ f.type \in {"SendPacket", "ForwardPacket", "ClosePeer"} => f.dst \in Key
          /\ f.type = "ForwardPacket" => f.src \in Key

VARIABLES
    \* the connection tasks and the locals of the method each is in
    next_id, pc, key, frame, dest, set, todo,
    \* struct Relay, and PeerSet (sessions, active)
    peers, sessions, set_active, active, reverse_paths, watchers,
    \* struct SessionHandle
    closed, duplicate, preferred, preferred_seen, seen_sources, queue,
    \* struct Metrics
    metrics,
    \* environment and history: shutdown signals left; what a client believes
    \* from the frames it was sent; sessions a frame to which was dropped;
    \* the connection of a node that joined or sent a frame last
    restarts, view, lost, recent

locals == <<next_id, key, frame, dest, set, todo>>
registry == <<peers, sessions, set_active, active>>
handle == <<closed, duplicate, preferred, preferred_seen, seen_sources>>
outbox == <<queue, lost>>
history == <<restarts, view, recent>>
vars == <<pc, locals, registry, reverse_paths, watchers, handle, outbox, metrics, history>>

Counter == {"current_clients", "preferred_clients", "home_moves_in", "home_moves_out",
            "packets_received", "packets_sent", "packets_dropped",
            "mesh_forwarded_in", "mesh_forwarded_out"}

\* pc values of a task inside a Relay method; "serve" is the await of serve_stream
Registering == {"join", "announce"}
Reading == {"dispatch", "deliver", "record", "miss", "snapshot"}
Departing == {"drop_peers", "drop_active", "tell_watchers", "tell_receivers", "forget"}
Leaving == {"retain", "uncount"} \cup Departing
Running == Registering \cup Reading \cup Leaving
Control == {"none", "serve", "done", "cancelled"} \cup Running

TaskOK ==
    /\ next_id \in 1..(MaxSessions + 1)
    /\ pc \in [Sid -> Control]
    /\ key \in [Sid -> Peer]
    /\ frame \in [Sid -> InFrame]
    /\ dest \in [Sid -> Sid \cup {None}]
    /\ set \in [Sid -> Sid \cup {None}]
    /\ todo \in [Sid -> SUBSET Key]

RegistryOK ==
    /\ peers \in [Key -> Sid \cup {None}]
    /\ sessions \in [Sid -> Seq(Sid)]
    /\ set_active \in [Sid -> Sid \cup {None}]
    /\ active \in [Key -> Sid \cup {None}]
    /\ reverse_paths \in [Key -> SUBSET Key]
    /\ watchers \in SUBSET Sid

HandleOK ==
    /\ closed \in [Sid -> BOOLEAN]
    /\ duplicate \in [Sid -> BOOLEAN]
    /\ preferred \in [Sid -> BOOLEAN]
    /\ preferred_seen \in [Sid -> BOOLEAN]
    /\ seen_sources \in [Sid -> SUBSET Key]

OutboxOK ==
    /\ queue \in [Sid -> Seq(OutFrame)]
    /\ \A s \in Sid : Len(queue[s]) <= QueueDepth
    /\ lost \in SUBSET Sid

HistoryOK ==
    /\ restarts \in 0..MaxRestarts
    /\ view \in [Sid -> SUBSET Key]
    /\ recent \in [Key -> Sid \cup {None}]

\* Every variable has its type, and no queue outgrows the depth it was created with.
TypeOK ==
    /\ TaskOK /\ RegistryOK /\ HandleOK /\ OutboxOK /\ HistoryOK
    /\ metrics \in [Counter -> Int]

Init ==
    /\ next_id = 1
    /\ pc = [s \in Sid |-> "none"]
    /\ key = [s \in Sid |-> NoKey]
    /\ frame = [s \in Sid |-> Nothing]
    /\ dest = [s \in Sid |-> None]
    /\ set = [s \in Sid |-> None]
    /\ todo = [s \in Sid |-> {}]
    /\ peers = [k \in Key |-> None]
    /\ sessions = [s \in Sid |-> <<>>]
    /\ set_active = [s \in Sid |-> None]
    /\ active = [k \in Key |-> None]
    /\ reverse_paths = [k \in Key |-> {}]
    /\ watchers = {}
    /\ closed = [s \in Sid |-> FALSE]
    /\ duplicate = [s \in Sid |-> FALSE]
    /\ preferred = [s \in Sid |-> FALSE]
    /\ preferred_seen = [s \in Sid |-> FALSE]
    /\ seen_sources = [s \in Sid |-> {}]
    /\ queue = [s \in Sid |-> <<>>]
    /\ metrics = [c \in Counter |-> 0]
    /\ restarts = MaxRestarts
    /\ view = [s \in Sid |-> {}]
    /\ lost = {}
    /\ recent = [k \in Key |-> None]

-----------------------------------------------------------------------------
(* Helpers *)

Members(p) == {sessions[p][i] : i \in DOMAIN sessions[p]}
CanMesh(s) == key[s] \in MeshKeys

FreeWorker == Cardinality({s \in Sid : pc[s] \in Running}) < Workers

\* SessionHandle::send: try_send fails on a full queue or a dropped receiver.
RxOpen(s) == pc[s] \notin {"none", "done", "cancelled"}
CanSendOneMore(s) == RxOpen(s) /\ Len(queue[s]) <= QueueDepth   \* mutant
CanSend(s) == RxOpen(s) /\ Len(queue[s]) < QueueDepth
SendTo(to, f) ==
    /\ queue' = [s \in Sid |-> IF s \in to /\ CanSend(s) THEN Append(queue[s], f) ELSE queue[s]]
    /\ lost' = lost \cup {s \in to : RxOpen(s) /\ ~CanSend(s)}

\* broadcast_presence: every watcher but the session itself.
Audience(s) == watchers \ {s}
Broadcast(s, f) == SendTo(Audience(s), f)

\* SmallVec::retain(|x| x.id != s); a session is in the vector at most once.
WithoutNone(q, s) == q   \* mutant
Without(q, s) ==
    IF \E i \in DOMAIN q : q[i] = s
    THEN LET at == CHOOSE i \in DOMAIN q : q[i] = s
         IN  [j \in 1..(Len(q) - 1) |-> IF j < at THEN q[j] ELSE q[j + 1]]
    ELSE q
Last(q) == q[Len(q)]

\* In a PeerSet of n sessions: they are duplicates of each other; one is left.
Duplicates(n) == n > 1
AloneMissed(n) == n = 0   \* mutant
Alone(n) == n = 1

Bump(m, by) == [c \in Counter |-> IF c \in DOMAIN by THEN m[c] + by[c] ELSE m[c]]

Goto(s, label) == pc' = [pc EXCEPT ![s] = label]

-----------------------------------------------------------------------------
(* Relay::register *)

\* The id, the channel, and the entry of peers: an existing PeerSet or a new one.
Register(s, k) ==
    /\ s = next_id /\ s \in Sid
    /\ FreeWorker
    /\ Cardinality({t \in Sid : key[t] = k}) < Conns[k]
    /\ next_id' = next_id + 1
    /\ key' = [key EXCEPT ![s] = k]
    /\ IF peers[k] # None
       THEN /\ set' = [set EXCEPT ![s] = peers[k]]
            /\ UNCHANGED <<peers, set_active>>
       ELSE /\ set' = [set EXCEPT ![s] = s]
            /\ peers' = [peers EXCEPT ![k] = s]
            /\ set_active' = [set_active EXCEPT ![s] = s]
    /\ Goto(s, "join")
    /\ UNCHANGED <<frame, dest, todo, sessions, active, reverse_paths, watchers, handle, outbox,
                   metrics, history>>

\* The section under the PeerSet mutex.
RegisterJoin(s) ==
    LET p == set[s]
        joined == Append(sessions[p], s)
        in == {joined[i] : i \in DOMAIN joined}
    IN  /\ pc[s] = "join"
        /\ sessions' = [sessions EXCEPT ![p] = joined]
        /\ set_active' = [set_active EXCEPT ![p] = s]
        /\ active' = [active EXCEPT ![key[s]] = s]
        /\ recent' = [recent EXCEPT ![key[s]] = s]
        /\ IF Duplicates(Len(joined))
           THEN /\ duplicate' = [t \in Sid |-> t \in in \/ duplicate[t]]
                /\ SendTo(in, Out("Duplicate", NoKey))
           ELSE UNCHANGED <<duplicate, outbox>>
        /\ set' = [set EXCEPT ![s] = None]
        /\ Goto(s, "announce")
        /\ UNCHANGED <<next_id, key, frame, dest, todo, peers, reverse_paths, watchers, closed,
                       preferred, preferred_seen, seen_sources, metrics, restarts, view>>

RegisterAnnounce(s) ==
    /\ pc[s] = "announce"
    /\ metrics' = Bump(metrics, [current_clients |-> 1])
    /\ Broadcast(s, Out("PeerPresent", key[s]))
    /\ Goto(s, "serve")
    /\ UNCHANGED <<locals, registry, reverse_paths, watchers, handle, history>>

-----------------------------------------------------------------------------
(* DerpServer::reader: one frame, from note_activity to the end of its arm *)

\* PeerSet::active, with id in the active field.
ActiveOf(p, id) ==
    IF id \in Members(p) THEN id
    ELSE IF sessions[p] = <<>> THEN None ELSE Last(sessions[p])

\* The arm taken for frame f of session s.
Refused(s, f) ==
    \/ f.type = "Unexpected"
    \/ f.type \in {"ForwardPacket", "WatchConns", "ClosePeer"} /\ ~CanMesh(s)
Routed(f) == f.type \in {"SendPacket", "ForwardPacket"}

ReadFrame(s, f) ==
    LET p == peers[key[s]]
    IN  /\ pc[s] = "serve" /\ FreeWorker
        /\ Routed(f) => metrics.packets_received < MaxPackets
        /\ f.type = "NotePreferred" => metrics.home_moves_in + metrics.home_moves_out < MaxMoves
        /\ frame' = [frame EXCEPT ![s] = f]
        /\ IF duplicate[s] /\ p # None
           THEN /\ set_active' = [set_active EXCEPT ![p] = s]
                /\ active' = IF ActiveOf(p, s) = None THEN active
                             ELSE [active EXCEPT ![key[s]] = ActiveOf(p, s)]
           ELSE UNCHANGED <<set_active, active>>
        /\ recent' = [recent EXCEPT ![key[s]] = s]
        /\ Goto(s, "dispatch")
        /\ UNCHANGED <<next_id, key, dest, set, todo, peers, sessions, reverse_paths, watchers,
                       handle, outbox, metrics, restarts, view>>

\* Back to the await of serve_stream.
Await(s) ==
    /\ Goto(s, "serve")
    /\ frame' = [frame EXCEPT ![s] = Nothing]
    /\ dest' = [dest EXCEPT ![s] = None]
    /\ UNCHANGED <<next_id, key, set, todo>>

Forwarded(s) == frame[s].type = "ForwardPacket"
Source(s) == IF Forwarded(s) THEN frame[s].src ELSE key[s]
ForwardedIn(s) == IF Forwarded(s) THEN 1 ELSE 0

\* Relay::active, for the destination of the frame in hand.
DestinationSwapped(s) == active[Source(s)]   \* mutant
Destination(s) == active[frame[s].dst]

\* Relay::route, up to the lookup in the active index.
RouteLookup(s) ==
    /\ pc[s] = "dispatch" /\ Routed(frame[s]) /\ ~Refused(s, frame[s])
    /\ metrics' = Bump(metrics, [packets_received |-> 1])
    /\ dest' = [dest EXCEPT ![s] = Destination(s)]
    /\ Goto(s, IF Destination(s) = None THEN "miss" ELSE "deliver")
    /\ UNCHANGED <<next_id, key, frame, set, todo, registry, reverse_paths, watchers, handle,
                   outbox, history>>

\* The packet and mesh counters after a send to the destination that went well or not.
CountSentOnly(s, sent) ==   \* mutant
    Bump(metrics, [packets_sent |-> IF sent THEN 1 ELSE 0, mesh_forwarded_in |-> ForwardedIn(s)])
CountSend(s, sent) ==
    Bump(metrics, [packets_sent |-> IF sent THEN 1 ELSE 0, packets_dropped |-> IF sent THEN 0 ELSE 1,
                   mesh_forwarded_in |-> ForwardedIn(s)])

\* The destination may have left, or stopped being the active one, since the lookup.
RouteDeliver(s) ==
    /\ pc[s] = "deliver"
    /\ SendTo({dest[s]}, RecvPacket(Source(s), frame[s].dst))
    /\ metrics' = CountSend(s, CanSend(dest[s]))
    /\ IF CanSend(dest[s])
       THEN Goto(s, "record") /\ UNCHANGED locals
       ELSE Await(s)
    /\ UNCHANGED <<registry, reverse_paths, watchers, handle, history>>

\* reverse_paths.entry(src).or_default().insert(dst)
ReversePathSwapped(src, dst) == [reverse_paths EXCEPT ![dst] = @ \cup {src}]   \* mutant
ReversePath(src, dst) == [reverse_paths EXCEPT ![src] = @ \cup {dst}]

\* seen_sources.insert, and the reverse path when the source is new to dest.
RouteRecord(s) ==
    /\ pc[s] = "record"
    /\ seen_sources' = [seen_sources EXCEPT ![dest[s]] = @ \cup {Source(s)}]
    /\ reverse_paths' = IF Source(s) \in seen_sources[dest[s]] THEN reverse_paths
                        ELSE ReversePath(Source(s), frame[s].dst)
    /\ Await(s)
    /\ UNCHANGED <<registry, watchers, closed, duplicate, preferred, preferred_seen, outbox,
                   metrics, history>>

\* No local session: forward_to_mesh, or drop and perhaps answer PeerGone(NotHere),
\* which goes out for disco packets only and within the session's limiter.
RouteMiss(s) ==
    /\ pc[s] = "miss"
    /\ \/ /\ ~Forwarded(s) /\ TRUE \in MeshAnswers
          /\ metrics' = Bump(metrics, [mesh_forwarded_out |-> 1])
          /\ UNCHANGED outbox
       \/ /\ Forwarded(s) \/ FALSE \in MeshAnswers
          /\ metrics' = Bump(metrics, [packets_dropped |-> 1, mesh_forwarded_in |-> ForwardedIn(s)])
          /\ \/ SendTo({s}, Out("PeerNotHere", frame[s].dst))
             \/ UNCHANGED outbox
    /\ Await(s)
    /\ UNCHANGED <<registry, reverse_paths, watchers, handle, history>>

\* Relay::watch: first the watcher is entered, then a snapshot of peers is sent.
WatchInsert(s) ==
    /\ pc[s] = "dispatch" /\ frame[s].type = "WatchConns" /\ CanMesh(s)
    /\ watchers' = watchers \cup {s}
    /\ todo' = [todo EXCEPT ![s] = Key]
    /\ Goto(s, "snapshot")
    /\ UNCHANGED <<next_id, key, frame, dest, set, registry, reverse_paths, handle, outbox,
                   metrics, history>>

\* One key of the iteration, in DashMap's order, which is unspecified.
InSnapshotAlone(k) == peers[k] # None /\ Len(sessions[peers[k]]) = 1   \* mutant
InSnapshot(k) == peers[k] # None /\ ActiveOf(peers[k], set_active[peers[k]]) # None

WatchSnapshot(s) ==
    /\ pc[s] = "snapshot"
    /\ \E k \in todo[s] :
          /\ todo' = [todo EXCEPT ![s] = @ \ {k}]
          /\ IF InSnapshot(k) THEN SendTo({s}, Out("PeerPresent", k)) ELSE UNCHANGED outbox
          /\ Goto(s, IF todo[s] = {k} THEN "serve" ELSE "snapshot")
          /\ frame' = [frame EXCEPT ![s] = IF todo[s] = {k} THEN Nothing ELSE @]
    /\ UNCHANGED <<next_id, key, dest, set, registry, reverse_paths, watchers, handle, metrics,
                   history>>

\* Relay::close_peer marks every session of the key; their tasks notice later.
ClosePeer(s) ==
    LET p == peers[frame[s].dst]
    IN  /\ pc[s] = "dispatch" /\ frame[s].type = "ClosePeer" /\ CanMesh(s)
        /\ closed' = [t \in Sid |-> closed[t] \/ (p # None /\ t \in Members(p))]
        /\ Await(s)
        /\ UNCHANGED <<registry, reverse_paths, watchers, duplicate, preferred, preferred_seen,
                       seen_sources, outbox, metrics, history>>

Ping(s) ==
    /\ pc[s] = "dispatch" /\ frame[s].type = "Ping"
    /\ SendTo({s}, Out("Pong", NoKey))
    /\ Await(s)
    /\ UNCHANGED <<registry, reverse_paths, watchers, handle, metrics, history>>

\* Relay::note_preferred.
NotePreferred(s) ==
    LET on == frame[s].on
        moved == IF preferred_seen[s] THEN 1 ELSE 0
    IN  /\ pc[s] = "dispatch" /\ frame[s].type = "NotePreferred"
        /\ preferred' = [preferred EXCEPT ![s] = on]
        /\ preferred_seen' = [preferred_seen EXCEPT ![s] = TRUE]
        /\ metrics' = IF preferred[s] = on THEN metrics
                      ELSE IF on THEN Bump(metrics, [preferred_clients |-> 1, home_moves_in |-> moved])
                      ELSE Bump(metrics, [preferred_clients |-> -1, home_moves_out |-> moved])
        /\ Await(s)
        /\ UNCHANGED <<registry, reverse_paths, watchers, closed, duplicate, seen_sources,
                       outbox, history>>

\* Pong, KeepAlive and unknown frames.
Ignore(s) ==
    /\ pc[s] = "dispatch" /\ frame[s].type = "Ignored"
    /\ Await(s)
    /\ UNCHANGED <<registry, reverse_paths, watchers, handle, outbox, metrics, history>>

-----------------------------------------------------------------------------
(* Relay::unregister, at the end of serve_stream *)

\* preferred.swap(false): the gauge loses a session that was counted in it.
LeaveHomeUnchecked(s) == Bump(metrics, [preferred_clients |-> -1])   \* mutant
LeaveHome(s) == IF preferred[s] THEN Bump(metrics, [preferred_clients |-> -1]) ELSE metrics

\* Up to and including the lookup of the PeerSet in peers.
BeginUnregister(s) ==
    /\ watchers' = watchers \ {s}
    /\ closed' = [closed EXCEPT ![s] = TRUE]
    /\ preferred' = [preferred EXCEPT ![s] = FALSE]
    /\ metrics' = LeaveHome(s)
    /\ set' = [set EXCEPT ![s] = peers[key[s]]]
    /\ frame' = [frame EXCEPT ![s] = Nothing]
    /\ Goto(s, IF peers[key[s]] = None THEN "uncount" ELSE "retain")
    /\ UNCHANGED <<next_id, key, dest, todo, registry, reverse_paths, duplicate, preferred_seen,
                   seen_sources, outbox, history>>

\* The reader bails out on a frame the session may not send.
Reject(s) == pc[s] = "dispatch" /\ Refused(s, frame[s]) /\ BeginUnregister(s)

\* A read or write error, end of stream, or a write timeout.
Disconnect(s) == pc[s] = "serve" /\ FreeWorker /\ BeginUnregister(s)

\* The writer polls its queue before its close_check timer (a biased select),
\* so it sees closed only when the queue is empty.
CloseDue(s) == closed[s] /\ queue[s] = <<>>

CloseCheck(s) ==
    /\ pc[s] = "serve" /\ FreeWorker
    /\ CloseDue(s)
    /\ BeginUnregister(s)

\* The session that is left is told so; a send never waits for room in the queue.
TellAlone(t) == SendTo({t}, Out("Healthy", NoKey))

\* The section under the PeerSet mutex.
UnregisterRetain(s) ==
    LET p == set[s]
        kept == Without(sessions[p], s)
    IN  /\ pc[s] = "retain"
        /\ sessions' = [sessions EXCEPT ![p] = kept]
        /\ IF kept = <<>>
           THEN /\ Goto(s, "drop_peers")
                /\ UNCHANGED <<set_active, active, duplicate, outbox>>
           ELSE /\ set_active' = [set_active EXCEPT ![p] = Last(kept)]
                /\ active' = [active EXCEPT ![key[s]] = Last(kept)]
                /\ IF Alone(Len(kept))
                   THEN /\ duplicate' = [duplicate EXCEPT ![kept[1]] = FALSE]
                        /\ TellAlone(kept[1])
                   ELSE UNCHANGED <<duplicate, outbox>>
                /\ Goto(s, "uncount")
        /\ set' = [set EXCEPT ![s] = None]
        /\ UNCHANGED <<next_id, key, frame, dest, todo, peers, reverse_paths, watchers, closed,
                       preferred, preferred_seen, seen_sources, metrics, history>>

\* The PeerSet was left empty: take the key out of peers and of the active index,
\* whatever they hold by now.
UnregisterPeers(s) ==
    /\ pc[s] = "drop_peers"
    /\ peers' = [peers EXCEPT ![key[s]] = None]
    /\ Goto(s, "drop_active")
    /\ UNCHANGED <<locals, sessions, set_active, active, reverse_paths, watchers, handle,
                   outbox, metrics, history>>

ActiveKept(k) == active   \* mutant
ActiveWithout(k) == [active EXCEPT ![k] = None]

UnregisterActive(s) ==
    /\ pc[s] = "drop_active"
    /\ active' = ActiveWithout(key[s])
    /\ Goto(s, "tell_watchers")
    /\ UNCHANGED <<locals, peers, sessions, set_active, reverse_paths, watchers, handle, outbox,
                   metrics, history>>

UnregisterTellWatchers(s) ==
    /\ pc[s] = "tell_watchers"
    /\ Broadcast(s, Out("PeerGone", key[s]))
    /\ Goto(s, "tell_receivers")
    /\ UNCHANGED <<locals, registry, reverse_paths, watchers, handle, metrics, history>>

\* reverse_paths.remove, and PeerGone to the active session of every receiver.
UnregisterTellReceivers(s) ==
    /\ pc[s] = "tell_receivers"
    /\ SendTo({active[k] : k \in reverse_paths[key[s]]} \ {None}, Out("PeerGone", key[s]))
    /\ reverse_paths' = [reverse_paths EXCEPT ![key[s]] = {}]
    /\ Goto(s, "forget")
    /\ UNCHANGED <<locals, registry, watchers, handle, metrics, history>>

PathsKept(k) == reverse_paths   \* mutant
PathsWithout(k) == [j \in Key |-> reverse_paths[j] \ {k}]

UnregisterForget(s) ==
    /\ pc[s] = "forget"
    /\ reverse_paths' = PathsWithout(key[s])
    /\ Goto(s, "uncount")
    /\ UNCHANGED <<locals, registry, watchers, handle, outbox, metrics, history>>

\* The gauge; serve_stream returns and drops the handle's receiver.
UnregisterUncount(s) ==
    /\ pc[s] = "uncount"
    /\ metrics' = Bump(metrics, [current_clients |-> -1])
    /\ queue' = [queue EXCEPT ![s] = <<>>]
    /\ lost' = lost \ {s}
    /\ view' = [view EXCEPT ![s] = {}]
    /\ Goto(s, "done")
    /\ UNCHANGED <<locals, registry, reverse_paths, watchers, handle, restarts, recent>>

-----------------------------------------------------------------------------
(* DerpServer::writer, cancellation and shutdown *)

\* What client s makes of a frame about node k: a watcher learns of k from
\* PeerPresent, any other client from a packet; PeerGone, whatever its reason,
\* says that k cannot be reached here.
Asserts(s, f, k) == f.peer = k /\ f.type = IF CanMesh(s) THEN "PeerPresent" ELSE "RecvPacket"
Denies(f, k) == f.peer = k /\ f.type \in {"PeerGone", "PeerNotHere"}

\* The nodes client s takes to be reachable, having believed v, once it read q.
Believes(s, v, q) ==
    {k \in Key :
        LET about == {i \in DOMAIN q : Asserts(s, q[i], k) \/ Denies(q[i], k)}
        IN  IF about = {} THEN k \in v
            ELSE \E i \in about : (\A j \in about : j <= i) /\ Asserts(s, q[i], k)}

\* One batch: the frames taken before the batch is full or the queue runs dry.
Writer(s) ==
    /\ pc[s] = "serve" /\ FreeWorker
    /\ \E n \in 1..BatchFrames :
          /\ n <= Len(queue[s])
          /\ view' = [view EXCEPT ![s] = Believes(s, @, SubSeq(queue[s], 1, n))]
          /\ queue' = [queue EXCEPT ![s] = SubSeq(@, n + 1, Len(@))]
    /\ UNCHANGED <<pc, locals, registry, reverse_paths, watchers, handle, lost, metrics,
                   restarts, recent>>

\* websocket_derp selects between serve_stream and the bridge: when the bridge
\* ends first, the future of serve_stream is dropped where it awaits.
Cancel(s) ==
    /\ pc[s] = "serve" /\ FreeWorker /\ key[s] \in WebSocketKeys
    /\ Goto(s, "cancelled")
    /\ queue' = [queue EXCEPT ![s] = <<>>]
    /\ lost' = lost \ {s}
    /\ UNCHANGED <<locals, registry, reverse_paths, watchers, handle, metrics, history>>

\* Relay::broadcast_restart, from main, on a shutdown signal.
BroadcastRestart ==
    /\ restarts > 0
    /\ restarts' = restarts - 1
    /\ SendTo(UNION {Members(peers[k]) : k \in {j \in Key : peers[j] # None}},
              Out("Restarting", NoKey))
    /\ UNCHANGED <<pc, locals, registry, reverse_paths, watchers, handle, metrics, view,
                   recent>>

-----------------------------------------------------------------------------

\* The next section of the method that task s is in.
Method(s) ==
    \/ RegisterJoin(s) \/ RegisterAnnounce(s)
    \/ RouteLookup(s) \/ RouteDeliver(s) \/ RouteRecord(s) \/ RouteMiss(s)
    \/ WatchInsert(s) \/ WatchSnapshot(s) \/ ClosePeer(s)
    \/ Ping(s) \/ NotePreferred(s) \/ Ignore(s) \/ Reject(s)
    \/ UnregisterRetain(s) \/ UnregisterPeers(s) \/ UnregisterActive(s)
    \/ UnregisterTellWatchers(s) \/ UnregisterTellReceivers(s) \/ UnregisterForget(s)
    \/ UnregisterUncount(s)

Next ==
    \/ \E s \in Sid :
          \/ \E k \in Key : Register(s, k)
          \/ \E f \in Inbound : ReadFrame(s, f)
          \/ Method(s)
          \/ Disconnect(s) \/ CloseCheck(s) \/ Writer(s) \/ Cancel(s)
    \/ BroadcastRestart

Spec == Init /\ [][Next]_vars

-----------------------------------------------------------------------------
(* Properties that hold for every number of workers *)

\* A packet addressed to a node is only ever queued for a connection of that node,
\* although route keeps the handle it looked up while the indexes change.
NoMisdelivery ==
    \A s \in Sid : \A i \in DOMAIN queue[s] :
        queue[s][i].type = "RecvPacket" => queue[s][i].dst = key[s]

\* The duplicate flag that note_activity reads without the lock is right: in every
\* PeerSet, one dropped from peers included, it says whether there is another session.
DuplicateFlag ==
    \A p \in Sid : \A s \in Members(p) : duplicate[s] <=> Len(sessions[p]) > 1

\* Every packet that entered route is counted once as sent, dropped or forwarded,
\* or is still in hand.
PacketsAccounted ==
    metrics.packets_received =
        metrics.packets_sent + metrics.packets_dropped + metrics.mesh_forwarded_out
        + Cardinality({s \in Sid : pc[s] \in {"deliver", "miss"}})

\* The gauges current_clients and preferred_clients count the connections served
\* and those that called this relay their home: each is counted once and, unless its
\* future is dropped, uncounted once.
GaugesExact ==
    /\ metrics.current_clients =
          Cardinality({s \in Sid : pc[s] \in {"serve", "cancelled"} \cup Reading \cup Leaving})
    /\ metrics.preferred_clients = Cardinality({s \in Sid : preferred[s]})

\* Between methods
Quiet == \A s \in Sid : pc[s] \notin Running
Connected(k) == \E s \in Sid : key[s] = k /\ pc[s] = "serve"
OnlyConnection(s) == \A t \in Sid : key[t] = key[s] => t = s

\* What client s will believe once its queue is written out.
Belief(s) == Believes(s, view[s], queue[s])

\* The clients that rely on PeerGone alone, and were sent all of it.
Receivers == {s \in Sid \ lost : pc[s] = "serve" /\ ~CanMesh(s) /\ OnlyConnection(s)}

\* Client s does not take t's node to be reachable when its one connection has left and
\* run unregister.
Told(s, t) ==
    key[t] \in Belief(s) /\ OnlyConnection(t) => Connected(key[t]) \/ pc[t] = "cancelled"

\* A client that had packets from a node is told when the node's connection leaves
\* (reverse_paths, PeerGone): it never goes on believing in a departed node.
FirstDepartureReported == Quiet => \A s \in Receivers, t \in Sid : Told(s, t)

\* So it is for a node that sends its packets here itself.  Its own task delivers them, so
\* it leaves only after the reverse path is recorded; packets that a mesh peer forwards
\* for it may be in the hands of that peer's task while it leaves.
Homed(k) == \A f \in Inbound : f.type = "ForwardPacket" => f.src # k
SenderDepartureReported ==
    Quiet => \A s \in Receivers, t \in Sid : Homed(key[t]) => Told(s, t)

\* The departure of every node is told, also of one that may leave and come back.
DepartureReported ==
    Quiet => \A s \in Receivers, t \in Sid : key[t] \in Belief(s) => Connected(key[t])

-----------------------------------------------------------------------------
(* Properties that hold when methods exclude each other (one worker) *)

\* peers and the active index describe exactly the connections being served: each
\* is in its node's PeerSet, in serving order, and the active one is one of them.
RegistryExact ==
    Quiet => \A k \in Key :
        LET served == {s \in Sid : key[s] = k /\ pc[s] = "serve"}
        IN  /\ served = IF peers[k] = None THEN {} ELSE Members(peers[k])
            /\ active[k] \in IF served = {} THEN {None} ELSE served
            /\ served # {} => ActiveOf(peers[k], set_active[peers[k]]) = active[k]

\* Recent activity selects: of a node's connections, the one that joined or sent a frame
\* last receives its packets, as long as it is served (set.active, record_activity).
LastActiveReceives ==
    Quiet => \A k \in Key :
        recent[k] # None /\ pc[recent[k]] = "serve" => active[k] = recent[k]

\* At every step of every method the active index is a directory of the connections that
\* have joined and not left: route always finds one of them, and the one it should.
Live(k) == {s \in Sid : key[s] = k /\ pc[s] \in {"announce", "serve", "retain"} \cup Reading}
Index == INSTANCE Directory WITH
             live <- [k \in Key |-> Live(k)],
             chosen <- [k \in Key |-> IF Live(k) = {} THEN None ELSE active[k]]
KeepsDirectory == Index!DirectorySpec

\* From its snapshot and the changes after it, a mesh watcher knows exactly which
\* nodes are connected, if nothing it was sent was dropped.
WatcherExact ==
    Quiet => \A w \in watchers \ lost : Belief(w) = {k \in Key : Connected(k)}

\* A reverse path leads only to nodes that are connected.
ReversePathsLive ==
    Quiet => \A k \in Key : \A r \in reverse_paths[k] : Connected(r)
=============================================================================
