---------------------------- MODULE RelayProofs ----------------------------
(***************************************************************************)
(* Theorems about Relay, for every number of nodes, connections, workers   *)
(* and frames.                                                             *)
(***************************************************************************)
EXTENDS Relay, TLAPS

\* What the locals of a task hold where the code uses them.
Located ==
    /\ \A s \in Sid : pc[s] # "none" => key[s] \in Key
    /\ \A s \in Sid : pc[s] \in {"join", "retain"} => set[s] \in Sid
    /\ \A s \in Sid : pc[s] \in {"deliver", "record"} => dest[s] \in Sid
    /\ \A s \in Sid : pc[s] \in Reading => frame[s] \in Inbound
    /\ \A s \in Sid : pc[s] \in {"deliver", "record", "miss"} => Routed(frame[s])
    /\ \A s \in Sid : s >= next_id => pc[s] = "none"

TInv == TypeOK /\ Located

-----------------------------------------------------------------------------
(* Lemmas about the operators *)

\* Frames built by Out, RecvPacket and In have their types.
LEMMA OutType ==
    /\ \A k \in Peer : \A t \in {"PeerGone", "PeerNotHere", "PeerPresent", "Duplicate",
                                 "Healthy", "Pong", "Restarting"} : Out(t, k) \in OutFrame
    /\ \A j, k \in Peer : RecvPacket(j, k) \in OutFrame
    /\ NoKey \in Peer /\ Key \subseteq Peer
    /\ Nothing \in InFrame
BY DEF Out, RecvPacket, OutFrame, Peer, Nothing, In, InFrame

\* The counters stay integers, in each form in which the actions count.
LEMMA CountType ==
    ASSUME metrics \in [Counter -> Int], NEW s
    PROVE  /\ \A i \in {1, -1} : Bump(metrics, [current_clients |-> i]) \in [Counter -> Int]
           /\ Bump(metrics, [packets_received |-> 1]) \in [Counter -> Int]
           /\ Bump(metrics, [mesh_forwarded_out |-> 1]) \in [Counter -> Int]
           /\ Bump(metrics, [packets_dropped |-> 1, mesh_forwarded_in |-> ForwardedIn(s)])
                \in [Counter -> Int]
           /\ \A b \in BOOLEAN : CountSend(s, b) \in [Counter -> Int]
           /\ LeaveHome(s) \in [Counter -> Int]
           /\ \A i \in {0, 1} :
                 /\ Bump(metrics, [preferred_clients |-> 1, home_moves_in |-> i]) \in [Counter -> Int]
                 /\ Bump(metrics, [preferred_clients |-> -1, home_moves_out |-> i]) \in [Counter -> Int]
<1>1. \A i \in {1, -1} : Bump(metrics, [current_clients |-> i]) \in [Counter -> Int]
  BY DEF Bump
<1>2. /\ Bump(metrics, [packets_received |-> 1]) \in [Counter -> Int]
      /\ Bump(metrics, [mesh_forwarded_out |-> 1]) \in [Counter -> Int]
  BY DEF Bump
<1>3. ForwardedIn(s) \in Int
  BY DEF ForwardedIn
<1>4. Bump(metrics, [packets_dropped |-> 1, mesh_forwarded_in |-> ForwardedIn(s)])
        \in [Counter -> Int]
  BY <1>3 DEF Bump
<1>5. \A b \in BOOLEAN : CountSend(s, b) \in [Counter -> Int]
  BY <1>3 DEF CountSend, Bump
<1>6. LeaveHome(s) \in [Counter -> Int]
  BY DEF LeaveHome, Bump
<1>7. \A i \in {0, 1} : Bump(metrics, [preferred_clients |-> 1, home_moves_in |-> i])
                            \in [Counter -> Int]
  BY DEF Bump
<1>8. \A i \in {0, 1} : Bump(metrics, [preferred_clients |-> -1, home_moves_out |-> i])
                            \in [Counter -> Int]
  BY DEF Bump
<1> QED BY <1>1, <1>2, <1>4, <1>5, <1>6, <1>7, <1>8

\* A send puts frames of the right type in queues that stay within their depth.
LEMMA SendType ==
    ASSUME OutboxOK, NEW to \in SUBSET Sid, NEW f \in OutFrame, SendTo(to, f)
    PROVE  OutboxOK'
<1> USE ConstantsOK
<1>1. \A s \in Sid : queue[s] \in Seq(OutFrame) /\ Len(queue[s]) <= QueueDepth
  BY DEF OutboxOK
<1>2. \A s \in Sid : /\ Append(queue[s], f) \in Seq(OutFrame)
                     /\ Len(Append(queue[s], f)) = Len(queue[s]) + 1
  BY <1>1
<1>3. \A s \in Sid : queue'[s] = IF s \in to /\ CanSend(s) THEN Append(queue[s], f) ELSE queue[s]
  BY DEF SendTo
<1>4. queue' \in [Sid -> Seq(OutFrame)]
  BY <1>1, <1>2 DEF SendTo
<1>5. \A s \in Sid : Len(queue'[s]) <= QueueDepth
  <2> SUFFICES ASSUME NEW s \in Sid PROVE Len(queue'[s]) <= QueueDepth
    OBVIOUS
  <2>1. Len(queue[s]) \in Nat /\ QueueDepth \in Nat
    BY <1>1
  <2>2. CASE s \in to /\ CanSend(s)
    <3>1. Len(queue[s]) < QueueDepth
      BY <2>2 DEF CanSend
    <3>2. Len(queue'[s]) = Len(queue[s]) + 1
      BY <2>2, <1>2, <1>3, Zenon
    <3> QED BY <3>1, <3>2, <2>1
  <2>3. CASE ~(s \in to /\ CanSend(s))
    BY <2>3, <1>1, <1>3
  <2> QED BY <2>2, <2>3
<1>6. lost' \in SUBSET Sid
  BY DEF SendTo, OutboxOK
<1> QED BY <1>4, <1>5, <1>6 DEF OutboxOK

\* Removing a session from a PeerSet leaves a sequence of sessions.
LEMMA WithoutType ==
    ASSUME NEW q \in Seq(Sid), NEW s \in Sid
    PROVE  /\ Without(q, s) \in Seq(Sid)
           /\ Len(Without(q, s)) \in {Len(q), Len(q) - 1}
           /\ \A i \in DOMAIN Without(q, s) : \E j \in DOMAIN q : Without(q, s)[i] = q[j]
<1>1. CASE \E i \in DOMAIN q : q[i] = s
  <2> DEFINE at == CHOOSE i \in DOMAIN q : q[i] = s
             r == [j \in 1..(Len(q) - 1) |-> IF j < at THEN q[j] ELSE q[j + 1]]
  <2>1. at \in 1..Len(q)
    BY <1>1
  <2>2. Len(q) - 1 \in Nat
    BY <2>1
  <2>3. \A j \in 1..(Len(q) - 1) : /\ r[j] \in Sid
                                   /\ \E i \in DOMAIN q : r[j] = q[i]
    <3> SUFFICES ASSUME NEW j \in 1..(Len(q) - 1)
                 PROVE  r[j] \in Sid /\ \E i \in DOMAIN q : r[j] = q[i]
      OBVIOUS
    <3>1. j \in 1..Len(q) /\ j + 1 \in 1..Len(q)
      BY <2>2
    <3>2. q[j] \in Sid /\ q[j + 1] \in Sid /\ DOMAIN q = 1..Len(q)
      BY <3>1
    <3> QED BY <3>1, <3>2, Zenon
  <2>4. r \in Seq(Sid) /\ Len(r) = Len(q) - 1 /\ DOMAIN r = 1..(Len(q) - 1)
    BY <2>2, <2>3
  <2>5. Without(q, s) = r
    BY <1>1 DEF Without
  <2> HIDE DEF r
  <2>6. \A i \in DOMAIN r : \E j \in DOMAIN q : r[i] = q[j]
    BY <2>3, <2>4
  <2> QED BY <2>4, <2>5, <2>6
<1>2. CASE ~ \E i \in DOMAIN q : q[i] = s
  BY <1>2 DEF Without
<1> QED BY <1>1, <1>2

-----------------------------------------------------------------------------
(* Type correctness *)

\* 0 is no session.
LEMMA NoneNotSid == None \notin Sid
BY DEF None, Sid

\* The frames clients send have the keys that their kind needs.
LEMMA InboundFacts ==
    \A f \in Inbound : /\ f \in InFrame /\ f.on \in BOOLEAN
                       /\ Routed(f) \/ f.type = "ClosePeer" => f.dst \in Key
                       /\ f.type = "ForwardPacket" => f.src \in Key
BY InboundOK DEF InFrame, Routed

\* A task in route has a packet from one node to another in hand.
LEMMA RouteFacts ==
    ASSUME TaskOK, Located, NEW s \in Sid, pc[s] \in {"deliver", "record", "miss"}
    PROVE  frame[s].dst \in Key /\ Source(s) \in Key
<1>1. frame[s] \in Inbound /\ Routed(frame[s]) /\ key[s] \in Key
  BY DEF Located, Reading
<1> QED BY <1>1, InboundFacts DEF Source, Forwarded

\* The parts of the type invariant that few actions need a lemma for.
PlainOK == TaskOK /\ RegistryOK /\ HandleOK /\ HistoryOK

\* The sessions of a PeerSet, and those of all, are sessions.
LEMMA MembersType ==
    ASSUME RegistryOK
    PROVE  /\ \A p \in Sid : Members(p) \subseteq Sid
           /\ UNION {Members(peers[k]) : k \in {j \in Key : peers[j] # None}} \in SUBSET Sid
<1>1. \A p \in Sid : Members(p) \subseteq Sid
  <2> SUFFICES ASSUME NEW p \in Sid PROVE Members(p) \subseteq Sid
    OBVIOUS
  <2>1. sessions[p] \in Seq(Sid)
    BY DEF RegistryOK
  <2>2. \A i \in DOMAIN sessions[p] : sessions[p][i] \in Sid
    BY <2>1
  <2> QED BY <2>2 DEF Members
<1>2. \A k \in Key : peers[k] # None => peers[k] \in Sid
  BY DEF RegistryOK
<1>3. \A k \in {j \in Key : peers[j] # None} : Members(peers[k]) \subseteq Sid
  BY <1>1, <1>2
<1> QED BY <1>1, <1>3

\* PeerSet::active answers a session or none.
LEMMA ActiveOfType ==
    ASSUME NEW p \in Sid, NEW s \in Sid, sessions \in [Sid -> Seq(Sid)]
    PROVE  ActiveOf(p, s) \in Sid \cup {None}
<1>1. sessions[p] \in Seq(Sid)
  OBVIOUS
<1>2. sessions[p] # <<>> => Last(sessions[p]) \in Sid
  BY <1>1 DEF Last
<1> QED BY <1>2 DEF ActiveOf

\* Returning to the await of serve_stream keeps the task's locals right.
LEMMA AwaitType ==
    ASSUME TaskOK, Located, NEW s \in Sid, pc[s] \in Running, Await(s)
    PROVE  TaskOK' /\ Located'
<1> USE OutType, NoneNotSid
<1> USE DEF Await, Goto, Control, Running, Registering, Reading, Leaving, Departing
<1>1. TaskOK'
  BY DEF TaskOK
<1>2. key[s] \in Key
  BY DEF Located
<1>3. Located'
  BY <1>2 DEF TaskOK, Located, Routed
<1> QED BY <1>1, <1>3

\* The next step keeps types and locals right, action by action.
LEMMA TypeStep == TInv /\ [Next]_vars => TInv'
<1> SUFFICES ASSUME TInv, [Next]_vars PROVE TInv'
  OBVIOUS
<1>a. TaskOK /\ RegistryOK /\ HandleOK /\ HistoryOK /\ OutboxOK /\ metrics \in [Counter -> Int] /\ Located
  BY DEF TInv, TypeOK
<1>b. TaskOK' /\ RegistryOK' /\ HandleOK' /\ HistoryOK' /\ OutboxOK' /\ (metrics \in [Counter -> Int])' /\ Located' => TInv'
  BY DEF TInv, TypeOK
<1>m. metrics \in [Counter -> Int]
  BY <1>a
<1> USE NoneNotSid
<1> USE DEF PlainOK, Goto, locals, registry, handle, outbox, history,
            Control, Running, Registering, Reading, Leaving, Departing
<1>1. ASSUME NEW s \in Sid, NEW k \in Key, Register(s, k) PROVE TInv'
  <2>1. /\ next_id \in 1..MaxSessions /\ next_id + 1 \in 1..(MaxSessions + 1)
        /\ s = next_id /\ k \in Peer
    BY <1>a, <1>1, ConstantsOK DEF TaskOK, Register, Sid, Peer
  <2>c. /\ next_id' = next_id + 1 /\ key' = [key EXCEPT ![s] = k]
        /\ pc' = [pc EXCEPT ![s] = "join"]
        /\ UNCHANGED <<frame, dest, todo, sessions, active, reverse_paths, watchers>>
    BY <1>1, Zenon DEF Register
  <2>d. /\ set' = [set EXCEPT ![s] = IF peers[k] # None THEN peers[k] ELSE s]
        /\ peers' = peers \/ peers' = [peers EXCEPT ![k] = s]
        /\ set_active' = set_active \/ set_active' = [set_active EXCEPT ![s] = s]
    BY <1>1, Zenon DEF Register
  <2>2. TaskOK'
    <3>1. peers[k] \in Sid \cup {None}
      BY <1>a DEF RegistryOK
    <3>2. set' \in [Sid -> Sid \cup {None}]
      BY <1>a, <2>d, <3>1 DEF TaskOK
    <3>3. key' \in [Sid -> Peer] /\ pc' \in [Sid -> Control]
      BY <1>a, <2>1, <2>c DEF TaskOK
    <3> QED BY <1>a, <2>1, <2>c, <3>2, <3>3 DEF TaskOK
  <2>3. RegistryOK'
    <3>0. peers \in [Key -> Sid \cup {None}] /\ set_active \in [Sid -> Sid \cup {None}]
      BY <1>a DEF RegistryOK
    <3>1. peers' \in [Key -> Sid \cup {None}]
      <4>1. [peers EXCEPT ![k] = s] \in [Key -> Sid \cup {None}]
        BY <3>0
      <4> QED BY <2>d, <3>0, <4>1
    <3>2. set_active' \in [Sid -> Sid \cup {None}]
      <4>1. [set_active EXCEPT ![s] = s] \in [Sid -> Sid \cup {None}]
        BY <3>0
      <4> QED BY <2>d, <3>0, <4>1
    <3> QED BY <1>a, <2>c, <3>1, <3>2 DEF RegistryOK
  <2>4. HandleOK' /\ HistoryOK' /\ OutboxOK' /\ metrics' \in [Counter -> Int]
    BY <1>a, <1>1 DEF HandleOK, HistoryOK, OutboxOK, Register
  <2>5. Located'
    <3>1. \A t \in Sid : t # s => pc'[t] = pc[t] /\ key'[t] = key[t] /\ set'[t] = set[t]
      BY <1>a, <1>1 DEF TaskOK, Register
    <3>2. pc'[s] = "join" /\ key'[s] = k /\ set'[s] \in Sid
      BY <1>a, <1>1 DEF TaskOK, RegistryOK, Register
    <3>3. \A t \in Sid : t >= next_id' => t # s /\ t >= next_id
      BY <1>1, <2>1 DEF Register, Sid
    <3>4. dest' = dest /\ frame' = frame
      BY <1>1 DEF Register
    <3> QED BY <1>a, <3>1, <3>2, <3>3, <3>4 DEF Located, Routed
  <2> QED BY <1>b, <2>2, <2>3, <2>4, <2>5
<1>2. ASSUME NEW s \in Sid, NEW f \in Inbound, ReadFrame(s, f) PROVE TInv'
  <2>1. \A p \in Sid : ActiveOf(p, s) \in Sid \cup {None}
    BY <1>a, ActiveOfType DEF RegistryOK
  <2>2. key[s] \in Key /\ f \in InFrame
    BY <1>a, <1>2, InboundFacts DEF Located, ReadFrame
  <2>3. TaskOK'
    BY <1>a, <1>2, <2>2 DEF TaskOK, ReadFrame
  <2>4. RegistryOK'
    <3>1. CASE duplicate[s] /\ peers[key[s]] # None
      <4>1. peers[key[s]] \in Sid
        BY <1>a, <2>2, <3>1 DEF RegistryOK
      <4>2. set_active' \in [Sid -> Sid \cup {None}]
        BY <1>a, <1>2, <3>1, <4>1, Zenon DEF RegistryOK, ReadFrame
      <4>3. active' \in [Key -> Sid \cup {None}]
        <5> DEFINE now == ActiveOf(peers[key[s]], s)
        <5>1. now \in Sid \cup {None}
          BY <2>1, <4>1
        <5> HIDE DEF now
        <5>2. active' = active \/ active' = [active EXCEPT ![key[s]] = now]
          BY <1>2, <3>1 DEF ReadFrame, now
        <5> QED BY <1>a, <5>1, <5>2 DEF RegistryOK
      <4> QED BY <1>a, <1>2, <4>2, <4>3 DEF RegistryOK, ReadFrame
    <3>2. CASE ~(duplicate[s] /\ peers[key[s]] # None)
      BY <1>a, <1>2, <3>2 DEF RegistryOK, ReadFrame
    <3> QED BY <3>1, <3>2
  <2>5. HandleOK' /\ HistoryOK' /\ OutboxOK' /\ metrics' \in [Counter -> Int]
    BY <1>a, <1>2, <2>2 DEF HandleOK, HistoryOK, OutboxOK, ReadFrame
  <2>6. Located'
    BY <1>a, <1>2 DEF TaskOK, Located, ReadFrame, Routed
  <2> QED BY <1>b, <2>3, <2>4, <2>5, <2>6
<1>3. ASSUME NEW s \in Sid, RegisterJoin(s) PROVE TInv'
  <2> DEFINE joined == Append(sessions[set[s]], s)
             in == {joined[i] : i \in DOMAIN joined}
  <2>1. set[s] \in Sid /\ key[s] \in Key
    BY <1>a, <1>3 DEF Located, RegisterJoin
  <2>2. joined \in Seq(Sid)
    BY <1>a, <2>1 DEF RegistryOK
  <2>3. in \in SUBSET Sid
    <3> HIDE DEF joined
    <3>1. \A i \in DOMAIN joined : joined[i] \in Sid
      BY <2>2
    <3> QED BY <3>1
  <2>4. RegistryOK'
    BY <1>a, <1>3, <2>1, <2>2 DEF RegistryOK, RegisterJoin
  <2>5. HandleOK'
    BY <1>a, <1>3, Zenon DEF HandleOK, RegisterJoin
  <2>6. TaskOK' /\ HistoryOK' /\ metrics' \in [Counter -> Int]
    BY <1>a, <1>3, <2>1 DEF TaskOK, HistoryOK, RegisterJoin
  <2>7. OutboxOK'
    <3>1. CASE SendTo(in, Out("Duplicate", NoKey))
      BY <1>a, <2>3, <3>1, OutType, SendType
    <3>2. CASE UNCHANGED outbox
      BY <1>a, <3>2 DEF OutboxOK
    <3> QED BY <1>3, <3>1, <3>2, Zenon DEF RegisterJoin
  <2>8. Located'
    BY <1>a, <1>3, Zenon DEF TaskOK, Located, RegisterJoin, Routed
  <2> QED BY <1>b, <2>4, <2>5, <2>6, <2>7, <2>8
<1>4. ASSUME NEW s \in Sid, RegisterAnnounce(s) PROVE TInv'
  <2>1. PlainOK'
    BY <1>a, <1>4, Zenon DEF TaskOK, RegistryOK, HandleOK, HistoryOK, Located, RegisterAnnounce
  <2>2. OutboxOK'
    BY <1>a, <1>4, OutType, SendType, Zenon DEF TaskOK, RegistryOK, Located, RegisterAnnounce, Broadcast, Audience
  <2>3. metrics' \in [Counter -> Int]
    BY <1>m, <1>4, CountType, Zenon DEF RegisterAnnounce
  <2>4. Located'
    BY <1>a, <1>4, Zenon DEF TaskOK, RegistryOK, Located, RegisterAnnounce, Routed
  <2> QED BY <1>b, <2>1, <2>2, <2>3, <2>4
<1>5. ASSUME NEW s \in Sid, RouteLookup(s) PROVE TInv'
  <2>1. frame[s].dst \in Key
    BY <1>a, <1>5, InboundFacts DEF Located, RouteLookup
  <2>2. Destination(s) \in Sid \cup {None}
    BY <1>a, <2>1 DEF RegistryOK, Destination
  <2>3. PlainOK' /\ OutboxOK'
    BY <1>a, <1>5, <2>2 DEF TaskOK, RegistryOK, HandleOK, HistoryOK, OutboxOK, RouteLookup
  <2>4. metrics' \in [Counter -> Int]
    BY <1>m, <1>5, CountType, Zenon DEF RouteLookup
  <2>5. Located'
    BY <1>a, <1>5, <2>2 DEF TaskOK, Located, RouteLookup, Routed
  <2> QED BY <1>b, <2>3, <2>4, <2>5
<1>6. ASSUME NEW s \in Sid, RouteDeliver(s) PROVE TInv'
  <2>1. frame[s].dst \in Key /\ Source(s) \in Key /\ dest[s] \in Sid
    BY <1>a, <1>6, RouteFacts, Zenon DEF Located, RouteDeliver
  <2>2. OutboxOK'
    BY <1>a, <1>6, <2>1, OutType, SendType, Zenon DEF RouteDeliver
  <2>3. metrics' \in [Counter -> Int]
    <3>1. CanSend(dest[s]) \in BOOLEAN
      BY DEF CanSend
    <3>2. CountSend(s, CanSend(dest[s])) \in [Counter -> Int]
      BY <1>m, <3>1, CountType, Zenon
    <3> QED BY <1>6, <3>2, Zenon DEF RouteDeliver
  <2>4. RegistryOK' /\ HandleOK' /\ HistoryOK'
    BY <1>a, <1>6, Zenon DEF RegistryOK, HandleOK, HistoryOK, RouteDeliver
  <2>5. CASE CanSend(dest[s])
    <3>1. pc' = [pc EXCEPT ![s] = "record"] /\ UNCHANGED locals
      BY <1>6, <2>5, Zenon DEF RouteDeliver
    <3>2. TaskOK'
      BY <1>a, <3>1 DEF TaskOK
    <3>3. Located'
      BY <1>a, <1>6, <3>1, Zenon DEF TaskOK, Located, Routed, RouteDeliver
    <3> QED BY <1>b, <2>2, <2>3, <2>4, <3>2, <3>3
  <2>6. CASE ~CanSend(dest[s])
    <3>1. Await(s)
      BY <1>6, <2>6, Zenon DEF RouteDeliver
    <3>2. pc[s] \in Running
      BY <1>6, Zenon DEF RouteDeliver
    <3>3. TaskOK' /\ Located'
      BY <1>a, <3>1, <3>2, AwaitType
    <3> QED BY <1>b, <2>2, <2>3, <2>4, <3>3
  <2> QED BY <2>5, <2>6
<1>7. ASSUME NEW s \in Sid, RouteRecord(s) PROVE TInv'
  <2>1. frame[s].dst \in Key /\ Source(s) \in Key /\ dest[s] \in Sid
    BY <1>a, <1>7, RouteFacts DEF Located, RouteRecord
  <2>2. TaskOK' /\ Located'
    BY <1>a, <1>7, AwaitType, Zenon DEF RouteRecord
  <2>3. RegistryOK'
    BY <1>a, <1>7, <2>1, Zenon DEF RegistryOK, RouteRecord, ReversePath
  <2>4. HandleOK'
    BY <1>a, <1>7, <2>1 DEF HandleOK, RouteRecord
  <2>5. HistoryOK' /\ OutboxOK' /\ metrics' \in [Counter -> Int]
    BY <1>a, <1>7 DEF HistoryOK, OutboxOK, RouteRecord
  <2> QED BY <1>b, <2>2, <2>3, <2>4, <2>5
<1>8. ASSUME NEW s \in Sid, RouteMiss(s) PROVE TInv'
  <2>1. frame[s].dst \in Key
    BY <1>a, <1>8, RouteFacts DEF RouteMiss
  <2>2. TaskOK' /\ Located'
    BY <1>a, <1>8, AwaitType, Zenon DEF RouteMiss
  <2>3. RegistryOK' /\ HandleOK' /\ HistoryOK'
    BY <1>a, <1>8, Zenon DEF RegistryOK, HandleOK, HistoryOK, RouteMiss
  <2>4. OutboxOK'
    <3>1. CASE SendTo({s}, Out("PeerNotHere", frame[s].dst))
      BY <1>a, <2>1, <3>1, OutType, SendType
    <3>2. CASE UNCHANGED outbox
      BY <1>a, <3>2 DEF OutboxOK
    <3> QED BY <1>8, <3>1, <3>2, Zenon DEF RouteMiss
  <2>5. metrics' \in [Counter -> Int]
    BY <1>m, <1>8, CountType, Zenon DEF RouteMiss
  <2> QED BY <1>b, <2>2, <2>3, <2>4, <2>5
<1>9. ASSUME NEW s \in Sid, WatchInsert(s) PROVE TInv'
  <2>1. PlainOK' /\ OutboxOK' /\ metrics' \in [Counter -> Int]
    BY <1>a, <1>9, Zenon DEF TaskOK, RegistryOK, HandleOK, HistoryOK, OutboxOK, Located, WatchInsert
  <2>2. Located'
    BY <1>a, <1>9, Zenon DEF TaskOK, RegistryOK, Located, WatchInsert, Routed
  <2> QED BY <1>b, <2>1, <2>2
<1>10. ASSUME NEW s \in Sid, WatchSnapshot(s) PROVE TInv'
  <2>1. PICK k \in todo[s] :
          /\ todo' = [todo EXCEPT ![s] = @ \ {k}]
          /\ SendTo({s}, Out("PeerPresent", k)) \/ UNCHANGED outbox
          /\ pc' = [pc EXCEPT ![s] = IF todo[s] = {k} THEN "serve" ELSE "snapshot"]
          /\ frame' = [frame EXCEPT ![s] = IF todo[s] = {k} THEN Nothing ELSE @]
    BY <1>10, Zenon DEF WatchSnapshot
  <2>2. k \in Key
    BY <1>a, <2>1 DEF TaskOK
  <2>3. TaskOK'
    BY <1>a, <1>10, <2>1, OutType DEF TaskOK, WatchSnapshot
  <2>4. RegistryOK' /\ HandleOK' /\ HistoryOK' /\ metrics' \in [Counter -> Int]
    BY <1>a, <1>10 DEF RegistryOK, HandleOK, HistoryOK, WatchSnapshot
  <2>5. OutboxOK'
    <3>1. CASE SendTo({s}, Out("PeerPresent", k))
      BY <1>a, <2>2, <3>1, OutType, SendType
    <3>2. CASE UNCHANGED outbox
      BY <1>a, <3>2 DEF OutboxOK
    <3> QED BY <2>1, <3>1, <3>2
  <2>6. Located'
    <3>1. pc[s] = "snapshot" /\ UNCHANGED <<next_id, key, dest, set>>
      BY <1>10 DEF WatchSnapshot
    <3>2. CASE todo[s] = {k}
      BY <1>a, <2>1, <3>1, <3>2, Zenon DEF TaskOK, Located, Routed
    <3>3. CASE todo[s] # {k}
      <4>1. frame' = frame /\ pc' = pc
        BY <1>a, <2>1, <3>1, <3>3 DEF TaskOK
      <4> QED BY <1>a, <3>1, <4>1 DEF Located, Routed
    <3> QED BY <3>2, <3>3
  <2> QED BY <1>b, <2>3, <2>4, <2>5, <2>6, Zenon
<1>11. ASSUME NEW s \in Sid, ClosePeer(s) PROVE TInv'
  <2>1. PlainOK' /\ OutboxOK' /\ metrics' \in [Counter -> Int]
    BY <1>a, <1>11, OutType, Zenon DEF TaskOK, RegistryOK, HandleOK, HistoryOK, OutboxOK, Located, ClosePeer, Await
  <2>2. Located'
    BY <1>a, <1>11, Zenon DEF TaskOK, RegistryOK, Located, ClosePeer, Await, Routed
  <2> QED BY <1>b, <2>1, <2>2
<1>12. ASSUME NEW s \in Sid, Ping(s) PROVE TInv'
  <2>1. PlainOK' /\ metrics' \in [Counter -> Int]
    BY <1>a, <1>12, OutType, Zenon DEF TaskOK, RegistryOK, HandleOK, HistoryOK, Located, Ping, Await
  <2>2. OutboxOK'
    BY <1>a, <1>12, OutType, SendType, Zenon DEF TaskOK, RegistryOK, Located, Ping
  <2>3. Located'
    BY <1>a, <1>12, Zenon DEF TaskOK, RegistryOK, Located, Ping, Await, Routed
  <2> QED BY <1>b, <2>1, <2>2, <2>3
<1>13. ASSUME NEW s \in Sid, NotePreferred(s) PROVE TInv'
  <2>1. frame[s].on \in BOOLEAN
    BY <1>a, <1>13, InboundFacts, Zenon DEF Located, NotePreferred
  <2>2. TaskOK' /\ Located'
    BY <1>a, <1>13, AwaitType DEF NotePreferred
  <2>3. HandleOK'
    BY <1>a, <1>13, <2>1, Zenon DEF HandleOK, NotePreferred
  <2>4. RegistryOK' /\ HistoryOK' /\ OutboxOK'
    BY <1>a, <1>13, Zenon DEF RegistryOK, HistoryOK, OutboxOK, NotePreferred
  <2>5. metrics' \in [Counter -> Int]
    BY <1>m, <1>13, CountType, Zenon DEF NotePreferred
  <2> QED BY <1>b, <2>2, <2>3, <2>4, <2>5
<1>14. ASSUME NEW s \in Sid, Ignore(s) PROVE TInv'
  <2>1. PlainOK' /\ OutboxOK' /\ metrics' \in [Counter -> Int]
    BY <1>a, <1>14, OutType, Zenon DEF TaskOK, RegistryOK, HandleOK, HistoryOK, OutboxOK, Located, Ignore, Await
  <2>2. Located'
    BY <1>a, <1>14, Zenon DEF TaskOK, RegistryOK, Located, Ignore, Await, Routed
  <2> QED BY <1>b, <2>1, <2>2
<1>15. ASSUME NEW s \in Sid, Reject(s) PROVE TInv'
  <2>1. PlainOK' /\ OutboxOK'
    BY <1>a, <1>15, OutType, Zenon DEF TaskOK, RegistryOK, HandleOK, HistoryOK, OutboxOK, Located, Reject, BeginUnregister
  <2>2. metrics' \in [Counter -> Int]
    BY <1>m, <1>15, CountType, Zenon DEF Reject, BeginUnregister
  <2>3. Located'
    BY <1>a, <1>15, Zenon DEF TaskOK, RegistryOK, Located, Reject, BeginUnregister, Routed
  <2> QED BY <1>b, <2>1, <2>2, <2>3
<1>16. ASSUME NEW s \in Sid, UnregisterRetain(s) PROVE TInv'
  <2> DEFINE kept == Without(sessions[set[s]], s)
  <2>1. set[s] \in Sid /\ key[s] \in Key
    BY <1>a, <1>16 DEF Located, UnregisterRetain
  <2>2. kept \in Seq(Sid)
    BY <1>a, <2>1, WithoutType, Zenon DEF RegistryOK
  <2> HIDE DEF kept
  <2>3. kept # <<>> => Last(kept) \in Sid /\ kept[1] \in Sid
    BY <2>2 DEF Last
  <2>4. RegistryOK'
    <3>1. sessions' = [sessions EXCEPT ![set[s]] = kept]
      BY <1>16, Zenon DEF UnregisterRetain, kept
    <3>2. \/ UNCHANGED <<set_active, active>>
          \/ /\ set_active' = [set_active EXCEPT ![set[s]] = Last(kept)]
             /\ active' = [active EXCEPT ![key[s]] = Last(kept)]
             /\ kept # <<>>
      BY <1>16, Zenon DEF UnregisterRetain, kept
    <3>3. UNCHANGED <<peers, reverse_paths, watchers>>
      BY <1>16, Zenon DEF UnregisterRetain
    <3>4. sessions' \in [Sid -> Seq(Sid)]
      BY <1>a, <2>2, <3>1, Zenon DEF RegistryOK
    <3>5. set_active' \in [Sid -> Sid \cup {None}] /\ active' \in [Key -> Sid \cup {None}]
      <4>1. CASE UNCHANGED <<set_active, active>>
        BY <1>a, <4>1 DEF RegistryOK
      <4>2. ASSUME NEW t \in Sid,
                   set_active' = [set_active EXCEPT ![set[s]] = t],
                   active' = [active EXCEPT ![key[s]] = t]
            PROVE  set_active' \in [Sid -> Sid \cup {None}] /\ active' \in [Key -> Sid \cup {None}]
        BY <1>a, <4>2, Zenon DEF RegistryOK
      <4> QED BY <2>3, <3>2, <4>1, <4>2
    <3> QED BY <1>a, <3>3, <3>4, <3>5 DEF RegistryOK
  <2>5. HandleOK'
    BY <1>a, <1>16, <2>2, <2>3, Zenon DEF HandleOK, UnregisterRetain, kept
  <2>6. HistoryOK' /\ metrics' \in [Counter -> Int]
    BY <1>a, <1>16, Zenon DEF HistoryOK, UnregisterRetain
  <2>7. OutboxOK'
    <3>1. CASE kept # <<>> /\ SendTo({kept[1]}, Out("Healthy", NoKey))
      BY <1>a, <2>3, <3>1, OutType, SendType
    <3>2. CASE UNCHANGED outbox
      BY <1>a, <3>2 DEF OutboxOK
    <3> QED BY <1>16, <3>1, <3>2, Zenon DEF UnregisterRetain, TellAlone, kept
  <2>8. \/ pc' = [pc EXCEPT ![s] = "drop_peers"]
        \/ pc' = [pc EXCEPT ![s] = "uncount"]
    BY <1>16, Zenon DEF UnregisterRetain
  <2>9. UNCHANGED <<next_id, key, frame, dest, todo>> /\ set' = [set EXCEPT ![s] = None]
    BY <1>16, Zenon DEF UnregisterRetain
  <2>10. TaskOK'
    BY <1>a, <2>8, <2>9 DEF TaskOK
  <2>11. Located'
    <3>1. pc[s] = "retain"
      BY <1>16, Zenon DEF UnregisterRetain
    <3>2. CASE pc' = [pc EXCEPT ![s] = "drop_peers"]
      BY <1>a, <2>1, <2>9, <3>1, <3>2, Zenon DEF TaskOK, Located, Routed
    <3>3. CASE pc' = [pc EXCEPT ![s] = "uncount"]
      BY <1>a, <2>1, <2>9, <3>1, <3>3 DEF TaskOK, Located, Routed
    <3> QED BY <2>8, <3>2, <3>3
  <2> QED BY <1>b, <2>4, <2>5, <2>6, <2>7, <2>10, <2>11
<1>17. ASSUME NEW s \in Sid, UnregisterPeers(s) PROVE TInv'
  <2>1. PlainOK' /\ OutboxOK' /\ metrics' \in [Counter -> Int]
    BY <1>a, <1>17, Zenon DEF TaskOK, RegistryOK, HandleOK, HistoryOK, OutboxOK, Located, UnregisterPeers
  <2>2. Located'
    BY <1>a, <1>17, Zenon DEF TaskOK, RegistryOK, Located, UnregisterPeers, Routed
  <2> QED BY <1>b, <2>1, <2>2
<1>18. ASSUME NEW s \in Sid, UnregisterActive(s) PROVE TInv'
  <2>1. PlainOK' /\ OutboxOK' /\ metrics' \in [Counter -> Int]
    BY <1>a, <1>18, Zenon DEF TaskOK, RegistryOK, HandleOK, HistoryOK, OutboxOK, Located, UnregisterActive, ActiveWithout
  <2>2. Located'
    BY <1>a, <1>18, Zenon DEF TaskOK, RegistryOK, Located, UnregisterActive, ActiveWithout, Routed
  <2> QED BY <1>b, <2>1, <2>2
<1>19. ASSUME NEW s \in Sid, UnregisterTellWatchers(s) PROVE TInv'
  <2>1. PlainOK' /\ metrics' \in [Counter -> Int]
    BY <1>a, <1>19, Zenon DEF TaskOK, RegistryOK, HandleOK, HistoryOK, Located, UnregisterTellWatchers
  <2>2. OutboxOK'
    BY <1>a, <1>19, OutType, SendType, Zenon DEF TaskOK, RegistryOK, Located, UnregisterTellWatchers, Broadcast, Audience
  <2>3. Located'
    BY <1>a, <1>19, Zenon DEF TaskOK, RegistryOK, Located, UnregisterTellWatchers, Routed
  <2> QED BY <1>b, <2>1, <2>2, <2>3
<1>20. ASSUME NEW s \in Sid, UnregisterTellReceivers(s) PROVE TInv'
  <2>1. key[s] \in Key
    BY <1>a, <1>20, Zenon DEF Located, UnregisterTellReceivers
  <2>2. ({active[k] : k \in reverse_paths[key[s]]} \ {None}) \in SUBSET Sid
    BY <1>a, <2>1 DEF RegistryOK
  <2>3. OutboxOK'
    BY <1>a, <1>20, <2>1, <2>2, OutType, SendType, Zenon DEF UnregisterTellReceivers
  <2>4. PlainOK' /\ metrics' \in [Counter -> Int]
    BY <1>a, <1>20, Zenon DEF TaskOK, RegistryOK, HandleOK, HistoryOK, UnregisterTellReceivers
  <2>5. Located'
    BY <1>a, <1>20, Zenon DEF TaskOK, Located, Routed, UnregisterTellReceivers
  <2> QED BY <1>b, <2>3, <2>4, <2>5
<1>21. ASSUME NEW s \in Sid, UnregisterForget(s) PROVE TInv'
  <2>1. PlainOK' /\ OutboxOK' /\ metrics' \in [Counter -> Int]
    BY <1>a, <1>21, Zenon DEF TaskOK, RegistryOK, HandleOK, HistoryOK, OutboxOK, Located, UnregisterForget, PathsWithout
  <2>2. Located'
    BY <1>a, <1>21, Zenon DEF TaskOK, RegistryOK, Located, UnregisterForget, PathsWithout, Routed
  <2> QED BY <1>b, <2>1, <2>2
<1>22. ASSUME NEW s \in Sid, UnregisterUncount(s) PROVE TInv'
  <2>1. PlainOK'
    BY <1>a, <1>22, Zenon DEF TaskOK, RegistryOK, HandleOK, HistoryOK, UnregisterUncount
  <2>2. OutboxOK'
    <3>1. <<>> \in Seq(OutFrame) /\ Len(<<>>) <= QueueDepth
      BY ConstantsOK
    <3> QED BY <1>a, <1>22, <3>1 DEF OutboxOK, UnregisterUncount
  <2>3. metrics' \in [Counter -> Int]
    BY <1>m, <1>22, CountType, Zenon DEF UnregisterUncount
  <2>4. Located'
    BY <1>a, <1>22, Zenon DEF TaskOK, Located, Routed, UnregisterUncount
  <2> QED BY <1>b, <2>1, <2>2, <2>3, <2>4
<1>23. ASSUME NEW s \in Sid, Disconnect(s) PROVE TInv'
  <2>1. PlainOK' /\ OutboxOK'
    BY <1>a, <1>23, OutType, Zenon DEF TaskOK, RegistryOK, HandleOK, HistoryOK, OutboxOK, Located, Disconnect, BeginUnregister
  <2>2. metrics' \in [Counter -> Int]
    BY <1>m, <1>23, CountType, Zenon DEF Disconnect, BeginUnregister
  <2>3. Located'
    BY <1>a, <1>23, Zenon DEF TaskOK, RegistryOK, Located, Disconnect, BeginUnregister, Routed
  <2> QED BY <1>b, <2>1, <2>2, <2>3
<1>24. ASSUME NEW s \in Sid, CloseCheck(s) PROVE TInv'
  <2>1. PlainOK' /\ OutboxOK'
    BY <1>a, <1>24, OutType, Zenon DEF TaskOK, RegistryOK, HandleOK, HistoryOK, OutboxOK, Located, CloseCheck, BeginUnregister
  <2>2. metrics' \in [Counter -> Int]
    BY <1>m, <1>24, CountType, Zenon DEF CloseCheck, BeginUnregister
  <2>3. Located'
    BY <1>a, <1>24, Zenon DEF TaskOK, RegistryOK, Located, CloseCheck, BeginUnregister, Routed
  <2> QED BY <1>b, <2>1, <2>2, <2>3
<1>25. ASSUME NEW s \in Sid, Writer(s) PROVE TInv'
  <2>1. PICK n \in 1..BatchFrames :
          /\ n <= Len(queue[s])
          /\ view' = [view EXCEPT ![s] = Believes(s, @, SubSeq(queue[s], 1, n))]
          /\ queue' = [queue EXCEPT ![s] = SubSeq(@, n + 1, Len(@))]
    BY <1>25, Zenon DEF Writer
  <2>2. SubSeq(queue[s], n + 1, Len(queue[s])) \in Seq(OutFrame)
    BY <1>a DEF OutboxOK
  <2>3. Len(SubSeq(queue[s], n + 1, Len(queue[s]))) <= QueueDepth
    BY <1>a, <2>1, ConstantsOK DEF OutboxOK
  <2>4. OutboxOK'
    BY <1>a, <1>25, <2>1, <2>2, <2>3, Zenon DEF OutboxOK, Writer
  <2>5. HistoryOK'
    BY <1>a, <1>25, <2>1, Zenon DEF HistoryOK, Writer, Believes
  <2>6. TaskOK' /\ RegistryOK' /\ HandleOK' /\ metrics' \in [Counter -> Int] /\ Located'
    BY <1>a, <1>25, Zenon DEF TaskOK, RegistryOK, HandleOK, Located, Routed, Writer
  <2> QED BY <1>b, <2>4, <2>5, <2>6
<1>26. ASSUME NEW s \in Sid, Cancel(s) PROVE TInv'
  <2>1. PlainOK'
    BY <1>a, <1>26 DEF TaskOK, RegistryOK, HandleOK, HistoryOK, Cancel
  <2>2. OutboxOK'
    <3>1. <<>> \in Seq(OutFrame) /\ Len(<<>>) <= QueueDepth
      BY ConstantsOK
    <3> QED BY <1>a, <1>26, <3>1 DEF OutboxOK, Cancel
  <2>3. metrics' \in [Counter -> Int]
    BY <1>a, <1>26 DEF Cancel
  <2>4. Located'
    BY <1>a, <1>26, Zenon DEF TaskOK, Located, Routed, Cancel
  <2> QED BY <1>b, <2>1, <2>2, <2>3, <2>4
<1>27. CASE BroadcastRestart
  <2>1. UNION {Members(peers[k]) : k \in {j \in Key : peers[j] # None}} \in SUBSET Sid
    BY <1>a, MembersType
  <2>2. OutboxOK'
    BY <1>a, <1>27, <2>1, OutType, SendType DEF BroadcastRestart
  <2>3. HistoryOK'
    <3>1. restarts \in 0..MaxRestarts /\ restarts > 0 /\ restarts' = restarts - 1
      BY <1>a, <1>27, Zenon DEF HistoryOK, BroadcastRestart
    <3>2. restarts' \in 0..MaxRestarts
      BY <3>1, ConstantsOK
    <3> QED BY <1>a, <1>27, <3>2, Zenon DEF HistoryOK, BroadcastRestart
  <2>4. TaskOK' /\ RegistryOK' /\ HandleOK' /\ metrics' \in [Counter -> Int] /\ Located'
    BY <1>a, <1>27, Zenon DEF TaskOK, RegistryOK, HandleOK, Located, Routed, BroadcastRestart
  <2> QED BY <1>b, <2>2, <2>3, <2>4
<1>28. CASE UNCHANGED vars
  BY <1>a, <1>b, <1>28, Zenon
  DEF vars, TaskOK, RegistryOK, HandleOK, HistoryOK, OutboxOK, Located, Routed
<1> QED
  BY <1>1, <1>2, <1>3, <1>4, <1>5, <1>6, <1>7, <1>8, <1>9, <1>10, <1>11, <1>12, <1>13, <1>14, <1>15, <1>16, <1>17, <1>18, <1>19, <1>20, <1>21, <1>22, <1>23, <1>24, <1>25, <1>26, <1>27, <1>28 DEF Next, Method

\* The initial state has its types.
LEMMA TypeInit == Init => TInv
<1> SUFFICES ASSUME Init PROVE TInv
  OBVIOUS
<1>1. TaskOK
  <2>1. 1 \in 1..(MaxSessions + 1)
    BY ConstantsOK
  <2> QED BY <2>1, OutType DEF Init, TaskOK, Control
<1>2. RegistryOK
  BY DEF Init, RegistryOK
<1>h. HandleOK
  BY DEF Init, HandleOK
<1>3. OutboxOK
  <2>1. <<>> \in Seq(OutFrame) /\ Len(<<>>) <= QueueDepth
    BY ConstantsOK
  <2> QED BY <2>1 DEF Init, OutboxOK
<1>4. HistoryOK
  <2>1. MaxRestarts \in 0..MaxRestarts
    BY ConstantsOK
  <2> QED BY <2>1 DEF Init, HistoryOK
<1>m. metrics \in [Counter -> Int]
  BY DEF Init
<1>5. Located
  BY DEF Init, Located, Reading
<1> QED BY <1>1, <1>2, <1>h, <1>3, <1>4, <1>m, <1>5 DEF TInv, TypeOK

\* Type correctness: whatever the interleaving of register, route and unregister,
\* every variable keeps its type and no queue outgrows queue_depth; the locals of a
\* method hold a session, a set or a frame wherever the code uses them as such.
THEOREM TypeCorrect == Spec => []TypeOK
<1>1. TInv => TypeOK
  BY DEF TInv
<1>2. Spec => []TInv
  BY TypeInit, TypeStep, PTL DEF Spec
<1> QED BY <1>1, <1>2, PTL

=============================================================================
