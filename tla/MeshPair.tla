------------------------------ MODULE MeshPair -----------------------------
(***************************************************************************)
(* Two servers of a region, each a mesh client of the other: what one      *)
(* server's relay (src/src/relay.rs) tells the session of the other's mesh *)
(* client (src/src/mesh.rs), the routes the other makes of it, and the     *)
(* packets that take them.                                                 *)
(*                                                                         *)
(* Module Relay has one server's methods section by section and module     *)
(* MeshRoutes one server's routes.  Here a method is one step, except that *)
(* with two worker threads route may be overtaken between the lookup that  *)
(* finds no session and the answer NotHere, which reaches the mesh client  *)
(* as the same PeerGone that reports a departure.  The two ends of a link  *)
(* see it fail at once.                                                    *)
(***************************************************************************)
EXTENDS Naturals, Sequences, FiniteSets

CONSTANTS
    Server,         \* the two servers
    Node,           \* the keys of the nodes; a server's own key is the server
    NoNode,         \* no node
    Packet,         \* packets, sent at most once each
    NoPacket,       \* no packet
    WorkerCounts,   \* the numbers of worker threads a server may have
    Depth,          \* queue of a session and of a mesh link
    MaxChanges,     \* bound: nodes that join or leave
    MaxBreaks       \* bound: links that fail

ASSUME PairAssumption ==
    /\ \E s, t \in Server : s # t /\ Server = {s, t}
    /\ IsFiniteSet(Node) /\ NoNode \notin Node /\ NoPacket \notin Packet
    /\ WorkerCounts \subseteq Nat \ {0} /\ Depth \in Nat \ {0}
    /\ MaxChanges \in Nat /\ MaxBreaks \in Nat

Key == Node \cup Server
News == [node : Key, present : BOOLEAN]
Places == {"unsent", "link", "missed", "delivered", "dropped", "lost"}

VARIABLES
    workers,        \* worker threads, fixed at start
    local,          \* the keys registered at a server
    link,           \* whether a server's mesh client is connected to the other
    news, short,    \* what its session there was told and it has not read; a frame was dropped
    routes,         \* the keys a server has a mesh route to
    out,            \* the packets queued on a server's link
    missed,         \* the forwarded packet for which a server's route found no session
    place, dst, hops,   \* where a packet is, its destination, the links it took
    changes, breaks

packets == <<out, missed, place, dst, hops>>
pairVars == <<workers, local, link, news, short, routes, packets, changes, breaks>>

\* Every variable has its type, and no queue outgrows its capacity.
PairTypeOK ==
    /\ workers \in WorkerCounts
    /\ local \in [Server -> SUBSET Key] /\ routes \in [Server -> SUBSET Key]
    /\ link \in [Server -> BOOLEAN] /\ short \in [Server -> BOOLEAN]
    /\ news \in [Server -> Seq(News)] /\ out \in [Server -> Seq(Packet)]
    /\ \A s \in Server : Len(news[s]) <= Depth /\ Len(out[s]) <= Depth
    /\ missed \in [Server -> Packet \cup {NoPacket}]
    /\ place \in [Packet -> Places]
    /\ dst \in [Packet -> Node \cup {NoNode}] /\ hops \in [Packet -> Nat]
    /\ changes \in 0..MaxChanges /\ breaks \in 0..MaxBreaks

PairInit ==
    /\ workers \in WorkerCounts
    /\ local = [s \in Server |-> {}]
    /\ link = [s \in Server |-> FALSE]
    /\ news = [s \in Server |-> <<>>]
    /\ short = [s \in Server |-> FALSE]
    /\ routes = [s \in Server |-> {}]
    /\ out = [s \in Server |-> <<>>]
    /\ missed = [s \in Server |-> NoPacket]
    /\ place = [p \in Packet |-> "unsent"]
    /\ dst = [p \in Packet |-> NoNode]
    /\ hops = [p \in Packet |-> 0]
    /\ changes = 0 /\ breaks = 0

Other(s) == CHOOSE o \in Server : o # s
Nodes(keys) == keys \cap Node

\* A method of server s may run: its only worker is not inside route.
Free(s) == workers > 1 \/ missed[s] = NoPacket

-----------------------------------------------------------------------------
(* Presence *)

\* SessionHandle::send to the session that the mesh client of s has at the other server.
HasRoomMore(s) == Len(news[s]) <= Depth                                 \* mutant
HasRoom(s) == Len(news[s]) < Depth

Tell(s, n, present) ==
    LET frame == [node |-> n, present |-> present]
    IN  IF link[s] /\ HasRoom(s)
        THEN news' = [news EXCEPT ![s] = Append(@, frame)] /\ UNCHANGED short
        ELSE short' = [short EXCEPT ![s] = link[s]] /\ UNCHANGED news

\* register and its broadcast_presence; a node that is here may connect again.
Join(s, n) ==
    /\ Free(s) /\ changes < MaxChanges
    /\ changes' = changes + 1
    /\ local' = [local EXCEPT ![s] = @ \cup {n}]
    /\ Tell(Other(s), n, TRUE)
    /\ UNCHANGED <<workers, link, routes, packets, breaks>>

\* unregister of the last session of a node.
LeaveUntold(s, n) ==                                                    \* mutant
    /\ Free(s) /\ changes < MaxChanges /\ n \in local[s]
    /\ changes' = changes + 1
    /\ local' = [local EXCEPT ![s] = @ \ {n}]
    /\ UNCHANGED <<workers, link, news, short, routes, packets, breaks>>
Leave(s, n) ==
    /\ Free(s) /\ changes < MaxChanges /\ n \in local[s]
    /\ changes' = changes + 1
    /\ local' = [local EXCEPT ![s] = @ \ {n}]
    /\ Tell(Other(s), n, FALSE)
    /\ UNCHANGED <<workers, link, routes, packets, breaks>>

\* mesh::run connects, the other server registers its session and runs watch: the
\* snapshot of all keys, the session's own among them, goes into the queue of that
\* session in any order, as far as there is room; its task writes nothing meanwhile.
Connect(s) ==
    LET there == local[Other(s)] \cup {s}
        room == IF Cardinality(there) < Depth THEN Cardinality(there) ELSE Depth
    IN  /\ ~link[s] /\ Free(s) /\ Free(Other(s))
        /\ link' = [link EXCEPT ![s] = TRUE]
        /\ local' = [local EXCEPT ![Other(s)] = there]
        /\ \E order \in [1..room -> there] :
              /\ \A i, j \in 1..room : order[i] = order[j] => i = j
              /\ news' = [news EXCEPT ![s] =
                             [i \in 1..room |-> [node |-> order[i], present |-> TRUE]]]
        /\ short' = [short EXCEPT ![s] = Cardinality(there) > Depth]
        /\ UNCHANGED <<workers, routes, packets, changes, breaks>>

\* The link fails, its session not being in route: remove_mesh takes out its routes,
\* unregister the session, and what was queued on it is lost.
KeepMesh(s) == routes[s]                                                \* mutant
RemoveMesh(s) == {}

Break(s) ==
    /\ link[s] /\ breaks < MaxBreaks /\ Free(s) /\ missed[Other(s)] = NoPacket
    /\ breaks' = breaks + 1
    /\ link' = [link EXCEPT ![s] = FALSE]
    /\ local' = [local EXCEPT ![Other(s)] = @ \ {s}]
    /\ news' = [news EXCEPT ![s] = <<>>]
    /\ short' = [short EXCEPT ![s] = FALSE]
    /\ routes' = [routes EXCEPT ![s] = RemoveMesh(s)]
    /\ out' = [out EXCEPT ![s] = <<>>]
    /\ place' = [p \in Packet |-> IF \E i \in DOMAIN out[s] : out[s][i] = p
                                  THEN "lost" ELSE place[p]]
    /\ UNCHANGED <<workers, missed, dst, hops, changes>>

\* The reader of mesh::run: PeerPresent adds a route, any PeerGone removes it.
ReadNews(s) ==
    LET frame == Head(news[s])
    IN  /\ link[s] /\ Free(s) /\ news[s] # <<>>
        /\ routes' = [routes EXCEPT ![s] = IF frame.present THEN @ \cup {frame.node}
                                           ELSE @ \ {frame.node}]
        /\ news' = [news EXCEPT ![s] = Tail(@)]
        /\ UNCHANGED <<workers, local, link, short, packets, changes, breaks>>

-----------------------------------------------------------------------------
(* Packets: Relay::route, at the sender's server and at the other *)

\* forward_to_mesh, not for a packet that was forwarded.
ForwardsAny(s, n, forwarded) == n \in routes[s] /\ Len(out[s]) < Depth  \* mutant
Forwards(s, n, forwarded) == ~forwarded /\ n \in routes[s] /\ Len(out[s]) < Depth

\* Where route takes a packet: the queue of the node's session, if there is room.
Outcomes(s, n, forwarded) ==
    IF n \in local[s] THEN {"delivered", "dropped"}
    ELSE IF Forwards(s, n, forwarded) THEN {"link"} ELSE {"missed"}

Queue(q, p, where) == IF where = "link" THEN Append(q, p) ELSE q
Hops(p, where) == [hops EXCEPT ![p] = IF where = "link" THEN @ + 1 ELSE @]

\* A client of server s sends p to n; it is told itself if n is not here.
Send(s, p, n) ==
    /\ place[p] = "unsent" /\ Free(s)
    /\ dst' = [dst EXCEPT ![p] = n]
    /\ \E where \in Outcomes(s, n, FALSE) :
          /\ place' = [place EXCEPT ![p] = IF where = "missed" THEN "dropped" ELSE where]
          /\ out' = [out EXCEPT ![s] = Queue(@, p, where)]
          /\ hops' = Hops(p, where)
    /\ UNCHANGED <<workers, local, link, news, short, routes, missed, changes, breaks>>

\* The other server reads a ForwardPacket of s's mesh client.
Arrive(s) ==
    LET p == Head(out[s])
        o == Other(s)
    IN  /\ link[s] /\ out[s] # <<>> /\ Free(o) /\ missed[o] = NoPacket
        /\ \E where \in Outcomes(o, dst[p], TRUE) :
              /\ place' = [place EXCEPT ![p] = where]
              /\ out' = [out EXCEPT ![s] = Tail(@), ![o] = Queue(@, p, where)]
              /\ hops' = Hops(p, where)
              /\ missed' = [missed EXCEPT ![o] = IF where = "missed" THEN p ELSE NoPacket]
        /\ UNCHANGED <<workers, local, link, news, short, routes, dst, changes, breaks>>

\* send_peer_not_here to the mesh client, for a disco packet within the rate.
Answer(o) ==
    LET p == missed[o]
    IN  /\ p # NoPacket
        /\ Tell(Other(o), dst[p], FALSE) \/ UNCHANGED <<news, short>>
        /\ place' = [place EXCEPT ![p] = "dropped"]
        /\ missed' = [missed EXCEPT ![o] = NoPacket]
        /\ UNCHANGED <<workers, local, link, routes, out, dst, hops, changes, breaks>>

PairNext ==
    \E s \in Server :
        \/ Connect(s) \/ Break(s) \/ ReadNews(s) \/ Arrive(s) \/ Answer(s)
        \/ \E n \in Node : Join(s, n) \/ Leave(s, n) \/ \E p \in Packet : Send(s, p, n)

\* spawn's loop connects again and again, and tasks that can run do.
PairFairness ==
    \A s \in Server : /\ WF_pairVars(Connect(s)) /\ WF_pairVars(ReadNews(s))
                      /\ WF_pairVars(Arrive(s)) /\ WF_pairVars(Answer(s))

PairSpec == PairInit /\ [][PairNext]_pairVars /\ PairFairness

-----------------------------------------------------------------------------

\* s has read all that its session at the other server was told.
UpToDate(s) == link[s] /\ news[s] = <<>> /\ missed[Other(s)] = NoPacket

\* A mesh link that is up to date has routes to the nodes of the other server, to all
\* of them and to no other, although run takes NotHere for a departure: with one worker
\* and as long as no presence frame was dropped.
RoutesFollow ==
    workers = 1 => \A s \in Server :
        UpToDate(s) /\ ~short[s] => Nodes(routes[s]) = Nodes(local[Other(s)])

\* A packet takes at most one link, however stale the routes of the two servers, and is
\* in one queue if it is on a link and in none if it is not: it comes out once.
ForwardedOnce ==
    \A p \in Packet :
        /\ hops[p] <= 1
        /\ place[p] = "link" <=> \E s \in Server, i \in 1..Depth :
              i \in DOMAIN out[s] /\ out[s][i] = p
        /\ \A s, t \in Server : \A i \in DOMAIN out[s], j \in DOMAIN out[t] :
              out[s][i] = p /\ out[t][j] = p => s = t /\ i = j

\* When nodes and links stop changing, each server comes to know the other's nodes, and goes
\* on knowing them, under two provisos.  No presence frame to it was dropped at a full
\* queue: nothing repeats one.  And no registration can fall between the lookup for a
\* forwarded packet and its PeerGone(NotHere): there is one worker thread, or every
\* forwarded packet finds its destination.
Converges ==
    (workers = 1 \/ [](\A s \in Server : missed[s] = NoPacket)) =>
        <>[](\A s \in Server : short[s] \/ Nodes(routes[s]) = Nodes(local[Other(s)]))
=============================================================================
