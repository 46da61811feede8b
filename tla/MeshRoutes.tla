----------------------------- MODULE MeshRoutes ----------------------------
(***************************************************************************)
(* Routes to nodes that are connected to other servers of the region: the  *)
(* mesh client, one task per --mesh-with server (src/src/mesh.rs), and     *)
(* Relay's mesh_routes, which the tasks fill and route reads               *)
(* (src/src/relay.rs).                                                     *)
(*                                                                         *)
(* remove_mesh_route lets go of the entry it emptied before it removes it: *)
(* two actions here, and what other threads do in between depends on how   *)
(* many worker threads there are, as in module Relay.  The server at the   *)
(* other end is a Relay too, with this task as a watcher: it queues a      *)
(* snapshot and then the changes, in order, and drops what finds the queue *)
(* full.  Its own interleavings are in module MeshPair.                    *)
(***************************************************************************)
EXTENDS Naturals, Sequences, FiniteSets, SequencesExt

CONSTANTS
    Link,           \* the --mesh-with servers
    Node,           \* node keys
    NoNode,         \* no node
    WorkerCounts,   \* the numbers of worker threads the runtime may have
    Depth,          \* capacity of a link's queue, max(queue_depth, 64) in the code
    RemoteDepth,    \* capacity of the other server's queue for a link, its queue_depth
    MaxIds,         \* bound: mesh connections made
    MaxMissed       \* bound: nodes of which news is dropped, at a time

ASSUME MeshConstantsOK ==
    /\ NoNode \notin Node
    /\ WorkerCounts \subseteq Nat \ {0}
    /\ Depth \in Nat \ {0} /\ RemoteDepth \in Nat \ {0}
    /\ MaxIds \in Nat /\ MaxMissed \in Nat

Id == 1..MaxIds
NoId == 0
Presence == [node : Node, present : BOOLEAN]

VARIABLES
    workers,        \* worker threads, fixed at start
    next_mesh_id,   \* NEXT_MESH_ID
    mesh_routes,    \* Relay.mesh_routes: the ids of the routes to a node, an entry per node
    pc, mesh_id,    \* the tasks; the mesh_id of a task's connection
    peer, gone,     \* locals of remove_mesh_route and remove_mesh
    queue,          \* a connection's channel: the destinations of its ForwardPackets,
                    \* NoNode for a Pong
    remote, wire,   \* the nodes at the other server; its frames not read yet
    missed          \* nodes of which the other server's last news was dropped

ends == <<remote, wire, missed>>
vars == <<workers, next_mesh_id, mesh_routes, pc, mesh_id, peer, gone, queue, ends>>

\* "up" is the await of run, the others but "down" are inside a Relay method
Inside == {"empty", "ending", "ending_empty"}
Control == {"down", "up"} \cup Inside

\* Every variable has its type, and no queue outgrows its capacity.
TypeOK ==
    /\ workers \in WorkerCounts
    /\ next_mesh_id \in 1..(MaxIds + 1)
    /\ DOMAIN mesh_routes \subseteq Node
    /\ \A n \in DOMAIN mesh_routes : mesh_routes[n] \in Seq(Id)
    /\ pc \in [Link -> Control]
    /\ mesh_id \in [Link -> Id \cup {NoId}]
    /\ peer \in [Link -> Node \cup {NoNode}]
    /\ gone \in [Link -> SUBSET Node]
    /\ queue \in [Link -> Seq(Node \cup {NoNode})]
    /\ \A l \in Link : Len(queue[l]) <= Depth
    /\ remote \in [Link -> SUBSET Node]
    /\ wire \in [Link -> Seq(Presence)]
    /\ \A l \in Link : Len(wire[l]) <= RemoteDepth
    /\ missed \in [Link -> SUBSET Node]

Init ==
    /\ workers \in WorkerCounts
    /\ next_mesh_id = 1
    /\ mesh_routes = <<>>
    /\ pc = [l \in Link |-> "down"]
    /\ mesh_id = [l \in Link |-> NoId]
    /\ peer = [l \in Link |-> NoNode]
    /\ gone = [l \in Link |-> {}]
    /\ queue = [l \in Link |-> <<>>]
    /\ remote = [l \in Link |-> {}]
    /\ wire = [l \in Link |-> <<>>]
    /\ missed = [l \in Link |-> {}]

-----------------------------------------------------------------------------

FreeWorker == Cardinality({l \in Link : pc[l] \in Inside}) < workers
Goto(l, label) == pc' = [pc EXCEPT ![l] = label]
Least(m, n) == IF m <= n THEN m ELSE n

Routes(n) == IF n \in DOMAIN mesh_routes THEN mesh_routes[n] ELSE <<>>
Has(n, i) == \E j \in DOMAIN Routes(n) : Routes(n)[j] = i
With(n, ids) == [o \in DOMAIN mesh_routes \cup {n} |-> IF o = n THEN ids ELSE mesh_routes[o]]
Except(n) == [o \in DOMAIN mesh_routes \ {n} |-> mesh_routes[o]]

\* add_mesh_route
AddFirstRoute(n, i) == IF Routes(n) = <<>> THEN With(n, <<i>>) ELSE mesh_routes   \* mutant
AddRoute(n, i) == With(n, IF Has(n, i) THEN Routes(n) ELSE Append(Routes(n), i))

\* remove_mesh_route, under the guard of the entry
RetainKept(n, i) == mesh_routes   \* mutant
Retain(n, i) ==
    IF n \in DOMAIN mesh_routes
    THEN With(n, SelectSeq(mesh_routes[n], LAMBDA j : j # i))
    ELSE mesh_routes
EmptiedBy(n, i) == n \in DOMAIN mesh_routes /\ \A j \in DOMAIN mesh_routes[n] : mesh_routes[n][j] = i

-----------------------------------------------------------------------------
(* mesh::run *)

\* The other server's frame on n, told with try_send.
News(n, present) == [node |-> n, present |-> present]
Tells(l, n, present) ==
    IF Len(wire[l]) < RemoteDepth
    THEN /\ wire' = [wire EXCEPT ![l] = Append(@, News(n, present))]
         /\ missed' = [missed EXCEPT ![l] = @ \ {n}]
    ELSE /\ missed' = [missed EXCEPT ![l] = @ \cup {n}]
         /\ UNCHANGED wire

\* Dial, handshake and WatchConns, then the id and the channel.  The other server
\* answers with its snapshot, in any order, as far as its queue goes.
Connect(l) ==
    /\ pc[l] = "down" /\ FreeWorker
    /\ next_mesh_id \in Id
    /\ next_mesh_id' = next_mesh_id + 1
    /\ mesh_id' = [mesh_id EXCEPT ![l] = next_mesh_id]
    /\ \E order \in SetToAllKPermutations(remote[l]) :
          /\ Len(order) = Least(Cardinality(remote[l]), RemoteDepth)
          /\ wire' = [wire EXCEPT ![l] = [i \in DOMAIN order |-> News(order[i], TRUE)]]
          /\ missed' = [missed EXCEPT ![l] = remote[l] \ ToSet(order)]
    /\ Goto(l, "up")
    /\ UNCHANGED <<mesh_routes, peer, gone, queue, remote>>

\* The reader has a presence frame.
Reads(l, present) ==
    /\ pc[l] = "up" /\ FreeWorker
    /\ wire[l] # <<>> /\ Head(wire[l]).present = present
    /\ wire' = [wire EXCEPT ![l] = Tail(@)]

PeerPresent(l) ==
    /\ Reads(l, TRUE)
    /\ mesh_routes' = AddRoute(Head(wire[l]).node, mesh_id[l])
    /\ UNCHANGED <<next_mesh_id, pc, mesh_id, peer, gone, queue, remote, missed>>

PeerGone(l) ==
    LET n == Head(wire[l]).node
    IN  /\ Reads(l, FALSE)
        /\ mesh_routes' = Retain(n, mesh_id[l])
        /\ IF EmptiedBy(n, mesh_id[l])
           THEN Goto(l, "empty") /\ peer' = [peer EXCEPT ![l] = n]
           ELSE UNCHANGED <<pc, peer>>
        /\ UNCHANGED <<next_mesh_id, mesh_id, gone, queue, remote, missed>>

\* The entry was empty when it was let go: out of the map with it, as it is now.
RemoveEntry(l) ==
    /\ pc[l] \in {"empty", "ending_empty"}
    /\ mesh_routes' = Except(peer[l])
    /\ peer' = [peer EXCEPT ![l] = NoNode]
    /\ Goto(l, IF pc[l] = "empty" THEN "up" ELSE "ending")
    /\ UNCHANGED <<next_mesh_id, mesh_id, gone, queue, ends>>

\* try_send fails when the queue is full; the channel is open as long as run is.
CanSendOneMore(l) == pc[l] # "down" /\ Len(queue[l]) <= Depth   \* mutant
CanSend(l) == pc[l] # "down" /\ Len(queue[l]) < Depth

\* A keep-alive Ping; the Pong is dropped when the queue is full.
Ping(l) ==
    /\ pc[l] = "up" /\ FreeWorker /\ CanSend(l)
    /\ queue' = [queue EXCEPT ![l] = Append(@, NoNode)]
    /\ UNCHANGED <<next_mesh_id, mesh_routes, pc, mesh_id, peer, gone, ends>>

\* A frame goes to the other server.  If the destination is not there, it may answer
\* PeerGone(NotHere), in which run sees a departure.
Writer(l) ==
    LET n == Head(queue[l])
    IN  /\ pc[l] = "up" /\ FreeWorker /\ queue[l] # <<>>
        /\ queue' = [queue EXCEPT ![l] = Tail(@)]
        /\ \/ UNCHANGED <<wire, missed>>
           \/ /\ n \in Node \ remote[l] /\ Len(wire[l]) < RemoteDepth
              /\ Tells(l, n, FALSE)
        /\ UNCHANGED <<next_mesh_id, mesh_routes, pc, mesh_id, peer, gone, remote>>

\* The connection fails: remove_mesh collects the nodes with a route over it,
\* then takes the routes out one by one, in no particular order.
Fail(l) ==
    /\ pc[l] = "up" /\ FreeWorker
    /\ gone' = [gone EXCEPT ![l] = {n \in DOMAIN mesh_routes : Has(n, mesh_id[l])}]
    /\ wire' = [wire EXCEPT ![l] = <<>>] /\ missed' = [missed EXCEPT ![l] = {}]
    /\ Goto(l, "ending")
    /\ UNCHANGED <<next_mesh_id, mesh_routes, mesh_id, peer, queue, remote>>

RemoveMesh(l) ==
    /\ pc[l] = "ending"
    /\ \E n \in gone[l] :
          /\ gone' = [gone EXCEPT ![l] = @ \ {n}]
          /\ mesh_routes' = Retain(n, mesh_id[l])
          /\ IF EmptiedBy(n, mesh_id[l])
             THEN Goto(l, "ending_empty") /\ peer' = [peer EXCEPT ![l] = n]
             ELSE UNCHANGED <<pc, peer>>
    /\ UNCHANGED <<next_mesh_id, mesh_id, queue, ends>>

\* run returns and drops its end of the channel; spawn's loop tries again later.
Return(l) ==
    /\ pc[l] = "ending" /\ gone[l] = {}
    /\ queue' = [queue EXCEPT ![l] = <<>>]
    /\ mesh_id' = [mesh_id EXCEPT ![l] = NoId]
    /\ Goto(l, "down")
    /\ UNCHANGED <<next_mesh_id, mesh_routes, peer, gone, ends>>

-----------------------------------------------------------------------------
(* Relay::forward_to_mesh, from route, and the other servers *)

\* The connection of the j-th route to n accepts a frame.
Open(n, j, l) == mesh_id[l] = Routes(n)[j] /\ CanSend(l)

\* The first route whose queue has room; the answer is FALSE if there is none.
Forward(n) ==
    /\ FreeWorker
    /\ \E j \in DOMAIN Routes(n), l \in Link :
          /\ Open(n, j, l)
          /\ \A i \in 1..(j - 1), o \in Link : ~Open(n, i, o)
          /\ queue' = [queue EXCEPT ![l] = Append(@, n)]
    /\ UNCHANGED <<next_mesh_id, mesh_routes, pc, mesh_id, peer, gone, ends>>

\* A node connects to the other server, perhaps once more, or leaves it: the watchers
\* among the links are told (broadcast_presence).
Announce(l, n, present) ==
    IF pc[l] \in {"up", "empty"} THEN Tells(l, n, present) ELSE UNCHANGED <<wire, missed>>

RemoteChange(l, n, present) ==
    /\ present \/ n \in remote[l]
    /\ remote' = [remote EXCEPT ![l] = IF present THEN @ \cup {n} ELSE @ \ {n}]
    /\ Announce(l, n, present)
    /\ UNCHANGED <<next_mesh_id, mesh_routes, pc, mesh_id, peer, gone, queue>>

Step ==
    \/ \E l \in Link :
          \/ Connect(l) \/ PeerPresent(l) \/ PeerGone(l) \/ RemoveEntry(l)
          \/ Ping(l) \/ Writer(l) \/ Fail(l) \/ RemoveMesh(l) \/ Return(l)
          \/ \E n \in Node, present \in BOOLEAN : RemoteChange(l, n, present)
    \/ \E n \in Node : Forward(n)

Missed == {<<l, n>> \in Link \X Node : n \in missed[l]}
Next == Step /\ Cardinality(Missed') <= MaxMissed /\ UNCHANGED workers

Spec == Init /\ [][Next]_vars

-----------------------------------------------------------------------------

\* Link l has read all that the other server told it, and acted on it.
Settled(l) == pc[l] = "up" /\ wire[l] = <<>>

\* No route is stale: it goes over a connection that is there, and over a settled one only
\* to nodes that are at its other end or whose departure did not fit into the other
\* server's queue.
RoutesSound ==
    \A n \in Node : \A i \in DOMAIN Routes(n) :
        \E l \in Link : /\ pc[l] # "down" /\ mesh_id[l] = Routes(n)[i]
                        /\ Settled(l) => n \in remote[l] \cup missed[l]

\* No route is missing: a settled connection has one to each node at its other end that
\* it was told of.
RoutesComplete ==
    (\A l \in Link : pc[l] \notin Inside) =>
        \A l \in Link : Settled(l) => \A n \in remote[l] \ missed[l] : Has(n, mesh_id[l])

\* So it is when methods exclude each other, although remove_mesh_route removes an
\* entry it no longer holds.
RoutesCompleteAlone == workers = 1 => RoutesComplete
=============================================================================
