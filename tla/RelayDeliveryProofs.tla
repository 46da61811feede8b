------------------------ MODULE RelayDeliveryProofs ------------------------
(***************************************************************************)
(* A packet reaches only connections of the node it is addressed to: the   *)
(* proof, for every number of workers, that the indexes and the handles    *)
(* tasks hold on to never mix up nodes.                                    *)
(***************************************************************************)
EXTENDS RelayProofs

\* Sessions that were not created yet are nowhere.
Unborn ==
    /\ \A s \in Sid : pc[s] = "none" => key[s] = NoKey /\ sessions[s] = <<>> /\ queue[s] = <<>>
    /\ \A s \in Sid : set[s] # None => pc[s] \in {"join", "retain"}

\* Every PeerSet, index entry and looked-up handle belongs to one node.
Owned ==
    /\ \A k \in Key : peers[k] # None => key[peers[k]] = k
    /\ \A s \in Sid : set[s] # None => key[set[s]] = key[s]
    /\ \A p \in Sid : \A i \in DOMAIN sessions[p] : key[sessions[p][i]] = key[p]
    /\ \A k \in Key : active[k] # None => key[active[k]] = k
    /\ \A s \in Sid : pc[s] \in {"deliver", "record"} => key[dest[s]] = frame[s].dst

OInv == Unborn /\ Owned /\ NoMisdelivery

-----------------------------------------------------------------------------

\* A send keeps packets with their node when every receiver is of the packet's node.
LEMMA SendDelivers ==
    ASSUME OutboxOK, NoMisdelivery, NEW to \in SUBSET Sid, NEW f \in OutFrame, SendTo(to, f),
           key' = key, f.type = "RecvPacket" => \A s \in to : f.dst = key[s]
    PROVE  NoMisdelivery'
<1> SUFFICES ASSUME NEW s \in Sid, NEW i \in DOMAIN queue'[s], queue'[s][i].type = "RecvPacket"
             PROVE  queue'[s][i].dst = key[s]
  BY DEF NoMisdelivery
<1>1. queue[s] \in Seq(OutFrame)
  BY DEF OutboxOK
<1>2. CASE queue'[s] = queue[s]
  BY <1>2 DEF NoMisdelivery
<1>3. CASE s \in to /\ queue'[s] = Append(queue[s], f)
  <2>1. i \in 1..(Len(queue[s]) + 1)
    BY <1>1, <1>3
  <2>2. CASE i = Len(queue[s]) + 1
    BY <1>1, <1>3, <2>2
  <2>3. CASE i \in 1..Len(queue[s])
    <3>1. i \in DOMAIN queue[s] /\ queue'[s][i] = queue[s][i]
      BY <1>1, <1>3, <2>3
    <3> QED BY <3>1 DEF NoMisdelivery
  <2> QED BY <1>1, <2>1, <2>2, <2>3
<1> QED BY <1>2, <1>3 DEF SendTo

\* A send leaves the queues of sessions not yet created alone.
LEMMA SendUnborn ==
    ASSUME NEW to, NEW f, SendTo(to, f)
    PROVE  \A s \in Sid : pc[s] = "none" => queue'[s] = queue[s]
BY DEF SendTo, CanSend, RxOpen

\* Members of a PeerSet, and the one PeerSet::active picks, are of the set's node.
LEMMA ActiveOfOwned ==
    ASSUME NEW p \in Sid, NEW s \in Sid, sessions \in [Sid -> Seq(Sid)], Owned,
           ActiveOf(p, s) # None
    PROVE  key[ActiveOf(p, s)] = key[p]
<1>1. sessions[p] \in Seq(Sid)
  OBVIOUS
<1>2. \A i \in DOMAIN sessions[p] : key[sessions[p][i]] = key[p]
  BY DEF Owned
<1>3. sessions[p] # <<>> => Len(sessions[p]) \in DOMAIN sessions[p]
  BY <1>1
<1>4. s \in Members(p) => key[s] = key[p]
  BY <1>2 DEF Members
<1> QED BY <1>2, <1>3, <1>4 DEF ActiveOf, Last

\* A step of task s that leaves the registry alone keeps nodes apart.
LEMMA LocalStep ==
    ASSUME TaskOK, Unborn, Owned, NEW s \in Sid,
           UNCHANGED <<key, peers, sessions, active, set>>,
           \A t \in Sid : t # s => pc'[t] = pc[t] /\ dest'[t] = dest[t] /\ frame'[t] = frame[t],
           pc[s] \notin {"none", "join", "retain"}, pc'[s] \notin {"none", "deliver", "record"},
           \A t \in Sid : pc[t] = "none" => queue'[t] = queue[t]
    PROVE  Unborn' /\ Owned'
<1>1. Unborn'
  BY DEF Unborn
<1>2. \A t \in Sid : pc'[t] \in {"deliver", "record"} => key[dest'[t]] = frame'[t].dst
  BY DEF Owned
<1>3. Owned'
  BY <1>2 DEF Owned
<1> QED BY <1>1, <1>3

\* So does the start of unregister, which looks the PeerSet up.
LEMMA BeginOwned ==
    ASSUME TaskOK, RegistryOK, Located, Unborn, Owned, NoMisdelivery,
           NEW s \in Sid, pc[s] \in {"serve", "dispatch"}, BeginUnregister(s)
    PROVE  Unborn' /\ Owned' /\ NoMisdelivery'
<1> DEFINE p == peers[key[s]]
<1>1. /\ UNCHANGED <<key, dest, peers, sessions, active, queue>>
      /\ set' = [set EXCEPT ![s] = p] /\ frame' = [frame EXCEPT ![s] = Nothing]
      /\ pc' = [pc EXCEPT ![s] = IF p = None THEN "uncount" ELSE "retain"]
  BY DEF BeginUnregister, Goto, registry, outbox
<1>2. key[s] \in Key /\ (p # None => key[p] = key[s])
  BY DEF Located, Owned
<1>3. \A t \in Sid : t # s => pc'[t] = pc[t] /\ set'[t] = set[t] /\ frame'[t] = frame[t]
  BY <1>1 DEF TaskOK
<1>4. set'[s] = p /\ pc'[s] = IF p = None THEN "uncount" ELSE "retain"
  BY <1>1 DEF TaskOK
<1> HIDE DEF p
<1>5. Unborn'
  BY <1>1, <1>3, <1>4 DEF Unborn
<1>6. \A t \in Sid : set'[t] # None => key[set'[t]] = key[t]
  BY <1>2, <1>3, <1>4 DEF Owned
<1>7. \A t \in Sid : pc'[t] \in {"deliver", "record"} => key[dest[t]] = frame'[t].dst
  BY <1>3, <1>4 DEF Owned
<1>8. Owned'
  BY <1>1, <1>6, <1>7 DEF Owned
<1>9. NoMisdelivery'
  BY <1>1 DEF NoMisdelivery
<1> QED BY <1>5, <1>8, <1>9

\* The next step keeps nodes apart, action by action.
LEMMA OwnedStep == TInv /\ OInv /\ [Next]_vars => OInv'
<1> SUFFICES ASSUME TInv, OInv, [Next]_vars PROVE OInv'
  OBVIOUS
<1>a. TaskOK /\ RegistryOK /\ OutboxOK /\ Located /\ Unborn /\ Owned /\ NoMisdelivery
  BY DEF TInv, TypeOK, OInv
<1>c. NoKey \notin Key
  BY ConstantsOK
<1> USE NoneNotSid
<1> USE DEF Goto, locals, registry, handle, outbox, history,
            Control, Running, Registering, Reading, Leaving, Departing
<1>1. ASSUME NEW s \in Sid, NEW k \in Key, Register(s, k) PROVE OInv'
  <2>1. pc[s] = "none" /\ key[s] = NoKey /\ sessions[s] = <<>> /\ queue[s] = <<>> /\ set[s] = None
    <3>1. s >= next_id
      BY <1>a, <1>1 DEF TaskOK, Register
    <3> QED BY <1>a, <3>1 DEF Located, Unborn
  <2>2. key' = [key EXCEPT ![s] = k] /\ UNCHANGED <<sessions, active, dest, frame, queue>>
    BY <1>1 DEF Register
  <2>3. pc' = [pc EXCEPT ![s] = "join"]
    BY <1>1 DEF Register
  <2>4. \A t \in Sid : t # s => key'[t] = key[t] /\ pc'[t] = pc[t]
    BY <1>a, <2>2, <2>3 DEF TaskOK
  <2>5. key'[s] = k /\ pc'[s] = "join"
    BY <1>a, <2>2, <2>3 DEF TaskOK
  <2>6. \A j \in Key : peers[j] # s /\ active[j] # s
    BY <1>a, <1>c, <2>1 DEF Owned
  <2>7. \A t \in Sid : set[t] # s
    <3>1. \A t \in Sid : set[t] # None => key[set[t]] \in Key
      BY <1>a DEF Owned, Unborn, Located
    <3> QED BY <1>c, <2>1, <3>1
  <2>8. \A p \in Sid : \A i \in DOMAIN sessions[p] : p # s /\ sessions[p][i] # s
    <3> SUFFICES ASSUME NEW p \in Sid, NEW i \in DOMAIN sessions[p]
                 PROVE  p # s /\ sessions[p][i] # s
      OBVIOUS
    <3>1. p # s
      BY <2>1
    <3>2. pc[p] # "none"
      <4>1. sessions[p] # <<>>
        BY <1>a DEF RegistryOK
      <4> QED BY <1>a, <4>1 DEF Unborn
    <3> QED BY <1>a, <1>c, <2>1, <3>1, <3>2 DEF Owned, Located
  <2>9. \A t \in Sid : t # s => set'[t] = set[t]
    BY <1>a, <1>1 DEF TaskOK, Register
  <2>10. set'[s] \in Sid /\ key'[set'[s]] = k
    <3>1. CASE peers[k] # None
      <4>1. set'[s] = peers[k] /\ peers[k] \in Sid /\ peers[k] # s /\ key[peers[k]] = k
        BY <1>a, <1>1, <2>6, <3>1 DEF TaskOK, RegistryOK, Owned, Register
      <4> QED BY <2>4, <4>1
    <3>2. CASE peers[k] = None
      <4>1. set'[s] = s
        BY <1>a, <1>1, <3>2 DEF TaskOK, Register
      <4> QED BY <2>5, <4>1
    <3> QED BY <3>1, <3>2
  <2>11. Unborn'
    BY <1>a, <2>2, <2>4, <2>5, <2>9 DEF Unborn
  <2>12. \A j \in Key : peers'[j] # None => key'[peers'[j]] = j
    <3> SUFFICES ASSUME NEW j \in Key, peers'[j] # None PROVE key'[peers'[j]] = j
      OBVIOUS
    <3>1. CASE peers'[j] = peers[j]
      <4>1. peers[j] \in Sid /\ peers[j] # s /\ key[peers[j]] = j
        BY <1>a, <2>6, <3>1 DEF RegistryOK, Owned
      <4> QED BY <2>4, <3>1, <4>1
    <3>2. CASE j = k /\ peers'[j] = s
      BY <2>5, <3>2
    <3> QED BY <1>a, <1>1, <3>1, <3>2 DEF RegistryOK, Register
  <2>13. Owned'
    <3>1. \A t \in Sid : set'[t] # None => key'[set'[t]] = key'[t]
      BY <1>a, <2>4, <2>5, <2>7, <2>9, <2>10 DEF TaskOK, Owned
    <3>2. \A p \in Sid : \A i \in DOMAIN sessions'[p] : key'[sessions'[p][i]] = key'[p]
      <4> SUFFICES ASSUME NEW p \in Sid, NEW i \in DOMAIN sessions[p]
                   PROVE  key'[sessions[p][i]] = key'[p]
        BY <2>2
      <4>1. sessions[p][i] \in Sid
        BY <1>a DEF RegistryOK
      <4> QED BY <1>a, <2>4, <2>8, <4>1 DEF Owned
    <3>3. \A j \in Key : active'[j] # None => key'[active'[j]] = j
      BY <1>a, <2>2, <2>4, <2>6 DEF RegistryOK, Owned
    <3>4. \A t \in Sid : pc'[t] \in {"deliver", "record"} => key'[dest'[t]] = frame'[t].dst
      <4> SUFFICES ASSUME NEW t \in Sid, pc'[t] \in {"deliver", "record"}
                   PROVE  key'[dest[t]] = frame[t].dst
        BY <2>2
      <4>1. t # s /\ pc[t] \in {"deliver", "record"}
        BY <2>4, <2>5
      <4>2. dest[t] \in Sid /\ key[dest[t]] = frame[t].dst /\ frame[t].dst \in Key
        BY <1>a, <4>1, RouteFacts DEF Located, Owned
      <4> QED BY <1>c, <2>1, <2>4, <4>2
    <3> QED BY <2>12, <3>1, <3>2, <3>3, <3>4 DEF Owned
  <2>14. NoMisdelivery'
    <3> SUFFICES ASSUME NEW t \in Sid, NEW i \in DOMAIN queue[t], queue[t][i].type = "RecvPacket"
                 PROVE  queue[t][i].dst = key'[t]
      BY <2>2 DEF NoMisdelivery
    <3>1. t # s
      BY <2>1
    <3> QED BY <1>a, <2>4, <3>1 DEF NoMisdelivery
  <2> QED BY <2>11, <2>13, <2>14 DEF OInv
<1>2. ASSUME NEW s \in Sid, NEW f \in Inbound, ReadFrame(s, f) PROVE OInv'
  <2>1. key' = key /\ UNCHANGED <<peers, sessions, set, dest, queue>>
    BY <1>2 DEF ReadFrame
  <2>2. pc[s] = "serve" /\ pc' = [pc EXCEPT ![s] = "dispatch"] /\ frame' = [frame EXCEPT ![s] = f]
    BY <1>2 DEF ReadFrame
  <2>3. Unborn' /\ NoMisdelivery'
    BY <1>a, <2>1, <2>2 DEF TaskOK, Unborn, NoMisdelivery
  <2>4. \A k \in Key : active'[k] # None => key[active'[k]] = k
    <3> DEFINE p == peers[key[s]]
    <3>1. key[s] \in Key
      BY <1>a, <2>2 DEF Located
    <3>2. CASE active' = active
      BY <1>a, <3>2 DEF Owned
    <3>3. CASE p # None /\ ActiveOf(p, s) # None /\ active' = [active EXCEPT ![key[s]] = ActiveOf(p, s)]
      <4>1. p \in Sid /\ key[p] = key[s]
        BY <1>a, <3>1, <3>3 DEF RegistryOK, Owned
      <4>2. key[ActiveOf(p, s)] = key[s]
        BY <1>a, <3>3, <4>1, ActiveOfOwned DEF RegistryOK
      <4> QED BY <1>a, <3>1, <3>3, <4>2 DEF RegistryOK, Owned
    <3> QED BY <1>2, <3>2, <3>3 DEF ReadFrame
  <2>5. Owned'
    BY <1>a, <2>1, <2>2, <2>4 DEF TaskOK, Owned
  <2> QED BY <2>3, <2>5 DEF OInv
<1>3. ASSUME NEW s \in Sid, RegisterJoin(s) PROVE OInv'
  <2> DEFINE p == set[s]
             joined == Append(sessions[p], s)
             in == {joined[i] : i \in DOMAIN joined}
  <2>1. p \in Sid /\ p # None /\ key[p] = key[s] /\ key[s] \in Key /\ sessions[p] \in Seq(Sid) /\ pc[p] # "none"
    <3>1. p \in Sid /\ p # None /\ key[s] \in Key
      BY <1>a, <1>3, Zenon DEF Located, RegisterJoin
    <3>2. key[p] = key[s] /\ sessions[p] \in Seq(Sid)
      BY <1>a, <3>1 DEF RegistryOK, Owned
    <3> QED BY <1>a, <1>c, <3>1, <3>2 DEF Unborn
  <2>2. /\ UNCHANGED <<key, peers, frame, dest>>
        /\ sessions' = [sessions EXCEPT ![p] = joined]
        /\ active' = [active EXCEPT ![key[s]] = s]
        /\ set' = [set EXCEPT ![s] = None]
        /\ pc[s] = "join" /\ pc' = [pc EXCEPT ![s] = "announce"]
    BY <1>3 DEF RegisterJoin
  <2>3. \A i \in DOMAIN joined : key[joined[i]] = key[p]
    <3> SUFFICES ASSUME NEW i \in DOMAIN joined PROVE key[joined[i]] = key[p]
      OBVIOUS
    <3>1. CASE i = Len(sessions[p]) + 1
      BY <2>1, <3>1
    <3>2. CASE i # Len(sessions[p]) + 1
      <4>1. i \in DOMAIN sessions[p] /\ joined[i] = sessions[p][i]
        BY <2>1, <3>2
      <4> QED BY <1>a, <2>1, <4>1 DEF Owned
    <3> QED BY <3>1, <3>2
  <2>4. in \in SUBSET Sid
    <3>1. joined \in Seq(Sid)
      BY <2>1
    <3> QED BY <3>1
  <2> HIDE DEF joined, in
  <2>5. Owned'
    <3>1. \A q \in Sid : sessions'[q] = IF q = p THEN joined ELSE sessions[q]
      BY <1>a, <2>2 DEF RegistryOK
    <3>2. \A q \in Sid : \A i \in DOMAIN sessions'[q] : key[sessions'[q][i]] = key[q]
      <4> SUFFICES ASSUME NEW q \in Sid, NEW i \in DOMAIN sessions'[q]
                   PROVE  key[sessions'[q][i]] = key[q]
        OBVIOUS
      <4>1. CASE q = p
        BY <2>3, <3>1, <4>1
      <4>2. CASE q # p
        BY <1>a, <3>1, <4>2 DEF Owned
      <4> QED BY <4>1, <4>2
    <3>3. \A k \in Key : active'[k] # None => key[active'[k]] = k
      BY <1>a, <2>1, <2>2 DEF RegistryOK, Owned
    <3>4. \A t \in Sid : set'[t] # None => key[set'[t]] = key[t]
      BY <1>a, <2>2 DEF TaskOK, Owned
    <3>5. \A t \in Sid : pc'[t] \in {"deliver", "record"} => key[dest[t]] = frame[t].dst
      BY <1>a, <2>2 DEF TaskOK, Owned
    <3>6. \A k \in Key : peers[k] # None => key[peers[k]] = k
      BY <1>a DEF Owned
    <3>7. UNCHANGED <<key, peers, frame, dest>>
      BY <2>2
    <3> QED BY <3>2, <3>3, <3>4, <3>5, <3>6, <3>7 DEF Owned
  <2>6. SendTo(in, Out("Duplicate", NoKey)) \/ UNCHANGED queue
    BY <1>3, Zenon DEF RegisterJoin, joined, in
  <2>7. NoMisdelivery'
    <3>1. CASE UNCHANGED queue
      BY <1>a, <2>2, <3>1 DEF NoMisdelivery
    <3>2. CASE SendTo(in, Out("Duplicate", NoKey))
      BY <1>a, <2>2, <2>4, <3>2, OutType, SendDelivers, Zenon DEF Out
    <3> QED BY <2>6, <3>1, <3>2
  <2>8. \A t \in Sid : pc[t] = "none" => queue'[t] = queue[t]
    BY <2>6, SendUnborn
  <2>9. Unborn'
    BY <1>a, <2>1, <2>2, <2>8, Zenon DEF TaskOK, RegistryOK, Unborn
  <2> QED BY <2>5, <2>7, <2>9 DEF OInv
<1>4. ASSUME NEW s \in Sid, RegisterAnnounce(s) PROVE OInv'
  <2>1. /\ key' = key /\ SendTo(watchers \ {s}, Out("PeerPresent", key[s]))
        /\ UNCHANGED <<set, peers, sessions, active>>
    BY <1>4 DEF RegisterAnnounce, Broadcast, Audience
  <2>2. (watchers \ {s}) \in SUBSET Sid /\ Out("PeerPresent", key[s]) \in OutFrame
    BY <1>a, <1>4, OutType, Zenon DEF TaskOK, RegistryOK, Located, RegisterAnnounce
  <2>3. NoMisdelivery'
    BY <1>a, <2>1, <2>2, OutType, SendDelivers DEF Out
  <2>4. \A t \in Sid : pc[t] = "none" => queue'[t] = queue[t]
    BY <2>1, SendUnborn
  <2>5. Unborn' /\ Owned'
    <3>1. /\ pc[s] \notin {"none", "join", "retain"} /\ pc'[s] \notin {"none", "deliver", "record"}
          /\ \A t \in Sid : t # s => pc'[t] = pc[t] /\ dest'[t] = dest[t] /\ frame'[t] = frame[t]
      BY <1>a, <1>4 DEF TaskOK, RegisterAnnounce, Broadcast, Audience
    <3>2. UNCHANGED <<key, peers, sessions, active, set>>
      BY <1>4 DEF RegisterAnnounce, Broadcast, Audience
    <3> QED BY <1>a, <3>1, <3>2, <2>4, LocalStep
  <2> QED BY <2>3, <2>5 DEF OInv
<1>5. ASSUME NEW s \in Sid, RouteLookup(s) PROVE OInv'
  <2>1. frame[s].dst \in Key
    BY <1>a, <1>5, InboundFacts DEF Located, RouteLookup
  <2>2. Destination(s) # None => key[Destination(s)] = frame[s].dst
    BY <1>a, <2>1 DEF Owned, Destination
  <2>3. Unborn' /\ NoMisdelivery'
    BY <1>a, <1>5, Zenon DEF TaskOK, Unborn, NoMisdelivery, RouteLookup
  <2>4. Owned'
    BY <1>a, <1>5, <2>2, Zenon DEF TaskOK, RegistryOK, Owned, RouteLookup
  <2> QED BY <2>3, <2>4 DEF OInv
<1>6. ASSUME NEW s \in Sid, RouteDeliver(s) PROVE OInv'
  <2>1. frame[s].dst \in Key /\ Source(s) \in Key /\ dest[s] \in Sid /\ key[dest[s]] = frame[s].dst
    BY <1>a, <1>6, RouteFacts, Zenon DEF Located, Owned, RouteDeliver
  <2>2. /\ pc[s] = "deliver" /\ SendTo({dest[s]}, RecvPacket(Source(s), frame[s].dst))
        /\ UNCHANGED <<key, set, registry>>
    BY <1>6 DEF RouteDeliver, Await
  <2>3. NoMisdelivery'
    BY <1>a, <2>1, <2>2, OutType, SendDelivers, Zenon DEF RecvPacket
  <2>4. \/ UNCHANGED <<dest, frame>> /\ pc' = [pc EXCEPT ![s] = "record"]
        \/ /\ pc' = [pc EXCEPT ![s] = "serve"]
           /\ dest' = [dest EXCEPT ![s] = None] /\ frame' = [frame EXCEPT ![s] = Nothing]
    BY <1>6 DEF RouteDeliver, Await
  <2>5. Unborn'
    BY <1>a, <2>2, <2>4, SendUnborn, Zenon DEF TaskOK, Unborn
  <2>6. Owned'
    <3>1. \A t \in Sid : pc'[t] \in {"deliver", "record"} =>
            /\ pc[t] \in {"deliver", "record"} /\ dest'[t] = dest[t] /\ frame'[t] = frame[t]
      BY <1>a, <2>2, <2>4 DEF TaskOK
    <3>2. \A t \in Sid : pc'[t] \in {"deliver", "record"} => key[dest'[t]] = frame'[t].dst
      BY <1>a, <3>1, Zenon DEF Owned
    <3> QED BY <1>a, <2>2, <3>2, Zenon DEF Owned
  <2> QED BY <2>3, <2>5, <2>6 DEF OInv
<1>7. ASSUME NEW s \in Sid, RouteRecord(s) PROVE OInv'
  <2>1. queue' = queue /\ key' = key
    BY <1>7 DEF RouteRecord, Await
  <2>2. \A t \in Sid : pc[t] = "none" => queue'[t] = queue[t]
    BY <2>1
  <2>3. NoMisdelivery'
    BY <1>a, <2>1 DEF NoMisdelivery
  <2>4. Unborn' /\ Owned'
    <3>1. /\ pc[s] \notin {"none", "join", "retain"} /\ pc'[s] \notin {"none", "deliver", "record"}
          /\ \A t \in Sid : t # s => pc'[t] = pc[t] /\ dest'[t] = dest[t] /\ frame'[t] = frame[t]
      BY <1>a, <1>7 DEF TaskOK, RouteRecord, Await
    <3>2. UNCHANGED <<key, peers, sessions, active, set>>
      BY <1>7 DEF RouteRecord, Await
    <3> QED BY <1>a, <3>1, <3>2, <2>2, LocalStep
  <2> QED BY <2>3, <2>4 DEF OInv
<1>8. ASSUME NEW s \in Sid, RouteMiss(s) PROVE OInv'
  <2>1. frame[s].dst \in Key
    BY <1>a, <1>8, RouteFacts DEF RouteMiss
  <2>2. key' = key /\ UNCHANGED <<set, peers, sessions, active>>
    BY <1>8, Zenon DEF RouteMiss, Await
  <2>3. SendTo({s}, Out("PeerNotHere", frame[s].dst)) \/ UNCHANGED queue
    BY <1>8, Zenon DEF RouteMiss, Await
  <2>4. NoMisdelivery'
    <3>1. CASE UNCHANGED queue
      BY <1>a, <2>2, <3>1 DEF NoMisdelivery
    <3>2. CASE SendTo({s}, Out("PeerNotHere", frame[s].dst))
      BY <1>a, <2>1, <2>2, <3>2, OutType, SendDelivers, Zenon DEF Out
    <3> QED BY <2>3, <3>1, <3>2
  <2>5. \A t \in Sid : pc[t] = "none" => queue'[t] = queue[t]
    BY <2>3, SendUnborn
  <2>6. Unborn' /\ Owned'
    <3>1. /\ pc[s] \notin {"none", "join", "retain"} /\ pc'[s] \notin {"none", "deliver", "record"}
          /\ \A t \in Sid : t # s => pc'[t] = pc[t] /\ dest'[t] = dest[t] /\ frame'[t] = frame[t]
      BY <1>a, <1>8, Zenon DEF TaskOK, RouteMiss, Await
    <3>2. UNCHANGED <<key, peers, sessions, active, set>>
      BY <1>8 DEF RouteMiss, Await
    <3> QED BY <1>a, <3>1, <3>2, <2>5, LocalStep
  <2> QED BY <2>4, <2>6 DEF OInv
<1>9. ASSUME NEW s \in Sid, WatchInsert(s) PROVE OInv'
  <2>1. queue' = queue /\ key' = key
    BY <1>9, Zenon DEF WatchInsert
  <2>2. \A t \in Sid : pc[t] = "none" => queue'[t] = queue[t]
    BY <2>1
  <2>3. NoMisdelivery'
    BY <1>a, <2>1 DEF NoMisdelivery
  <2>4. Unborn' /\ Owned'
    <3>1. /\ pc[s] \notin {"none", "join", "retain"} /\ pc'[s] \notin {"none", "deliver", "record"}
          /\ \A t \in Sid : t # s => pc'[t] = pc[t] /\ dest'[t] = dest[t] /\ frame'[t] = frame[t]
      BY <1>a, <1>9 DEF TaskOK, WatchInsert
    <3>2. UNCHANGED <<key, peers, sessions, active, set>>
      BY <1>9 DEF WatchInsert
    <3> QED BY <1>a, <3>1, <3>2, <2>2, LocalStep
  <2> QED BY <2>3, <2>4 DEF OInv
<1>10. ASSUME NEW s \in Sid, WatchSnapshot(s) PROVE OInv'
  <2>1. PICK k \in todo[s] :
          /\ SendTo({s}, Out("PeerPresent", k)) \/ UNCHANGED queue
          /\ \/ pc' = [pc EXCEPT ![s] = "serve"] /\ frame' = [frame EXCEPT ![s] = Nothing]
             \/ pc' = [pc EXCEPT ![s] = "snapshot"] /\ frame' = [frame EXCEPT ![s] = @]
    BY <1>10, Zenon DEF WatchSnapshot
  <2>2. pc[s] = "snapshot" /\ key' = key /\ UNCHANGED <<set, peers, sessions, active, dest>>
    BY <1>10 DEF WatchSnapshot
  <2>3. Out("PeerPresent", k) \in OutFrame
    BY <1>a, <2>1, OutType DEF TaskOK
  <2>4. NoMisdelivery'
    <3>1. CASE UNCHANGED queue
      BY <1>a, <2>2, <3>1 DEF NoMisdelivery
    <3>2. CASE SendTo({s}, Out("PeerPresent", k))
      BY <1>a, <2>2, <2>3, <3>2, OutType, SendDelivers DEF Out
    <3> QED BY <2>1, <3>1, <3>2
  <2>5. \A t \in Sid : pc[t] = "none" => queue'[t] = queue[t]
    BY <2>1, SendUnborn
  <2>6. Unborn' /\ Owned'
    <3>1. /\ pc'[s] \notin {"none", "deliver", "record"}
          /\ \A t \in Sid : t # s => pc'[t] = pc[t] /\ frame'[t] = frame[t]
      BY <1>a, <2>1 DEF TaskOK
    <3> QED BY <1>a, <2>2, <2>5, <3>1, LocalStep, Zenon
  <2> QED BY <2>4, <2>6 DEF OInv
<1>11. ASSUME NEW s \in Sid, ClosePeer(s) PROVE OInv'
  <2>1. queue' = queue /\ key' = key
    BY <1>11 DEF ClosePeer, Await
  <2>2. \A t \in Sid : pc[t] = "none" => queue'[t] = queue[t]
    BY <2>1
  <2>3. NoMisdelivery'
    BY <1>a, <2>1 DEF NoMisdelivery
  <2>4. Unborn' /\ Owned'
    <3>1. /\ pc[s] \notin {"none", "join", "retain"} /\ pc'[s] \notin {"none", "deliver", "record"}
          /\ \A t \in Sid : t # s => pc'[t] = pc[t] /\ dest'[t] = dest[t] /\ frame'[t] = frame[t]
      BY <1>a, <1>11, Zenon DEF TaskOK, ClosePeer, Await
    <3>2. UNCHANGED <<key, peers, sessions, active, set>>
      BY <1>11, Zenon DEF ClosePeer, Await
    <3> QED BY <1>a, <3>1, <3>2, <2>2, LocalStep
  <2> QED BY <2>3, <2>4 DEF OInv
<1>12. ASSUME NEW s \in Sid, Ping(s) PROVE OInv'
  <2>1. /\ key' = key /\ SendTo({s}, Out("Pong", NoKey))
        /\ UNCHANGED <<set, peers, sessions, active>>
    BY <1>12 DEF Ping, Await
  <2>2. {s} \in SUBSET Sid /\ Out("Pong", NoKey) \in OutFrame
    BY OutType
  <2>3. NoMisdelivery'
    BY <1>a, <2>1, <2>2, OutType, SendDelivers DEF Out
  <2>4. \A t \in Sid : pc[t] = "none" => queue'[t] = queue[t]
    BY <2>1, SendUnborn, Zenon
  <2>5. Unborn' /\ Owned'
    <3>1. /\ pc[s] \notin {"none", "join", "retain"} /\ pc'[s] \notin {"none", "deliver", "record"}
          /\ \A t \in Sid : t # s => pc'[t] = pc[t] /\ dest'[t] = dest[t] /\ frame'[t] = frame[t]
      BY <1>a, <1>12 DEF TaskOK, Ping, Await
    <3>2. UNCHANGED <<key, peers, sessions, active, set>>
      BY <1>12 DEF Ping, Await
    <3> QED BY <1>a, <3>1, <3>2, <2>4, LocalStep
  <2> QED BY <2>3, <2>5 DEF OInv
<1>13. ASSUME NEW s \in Sid, NotePreferred(s) PROVE OInv'
  <2>1. queue' = queue /\ key' = key
    BY <1>13, Zenon DEF NotePreferred, Await
  <2>2. \A t \in Sid : pc[t] = "none" => queue'[t] = queue[t]
    BY <2>1
  <2>3. NoMisdelivery'
    BY <1>a, <2>1 DEF NoMisdelivery
  <2>4. Unborn' /\ Owned'
    <3>1. /\ pc[s] \notin {"none", "join", "retain"} /\ pc'[s] \notin {"none", "deliver", "record"}
          /\ \A t \in Sid : t # s => pc'[t] = pc[t] /\ dest'[t] = dest[t] /\ frame'[t] = frame[t]
      BY <1>a, <1>13, Zenon DEF TaskOK, NotePreferred, Await
    <3>2. UNCHANGED <<key, peers, sessions, active, set>>
      BY <1>13, Zenon DEF NotePreferred, Await
    <3> QED BY <1>a, <3>1, <3>2, <2>2, LocalStep
  <2> QED BY <2>3, <2>4 DEF OInv
<1>14. ASSUME NEW s \in Sid, Ignore(s) PROVE OInv'
  <2>1. queue' = queue /\ key' = key
    BY <1>14 DEF Ignore, Await
  <2>2. \A t \in Sid : pc[t] = "none" => queue'[t] = queue[t]
    BY <2>1
  <2>3. NoMisdelivery'
    BY <1>a, <2>1 DEF NoMisdelivery
  <2>4. Unborn' /\ Owned'
    <3>1. /\ pc[s] \notin {"none", "join", "retain"} /\ pc'[s] \notin {"none", "deliver", "record"}
          /\ \A t \in Sid : t # s => pc'[t] = pc[t] /\ dest'[t] = dest[t] /\ frame'[t] = frame[t]
      BY <1>a, <1>14 DEF TaskOK, Ignore, Await
    <3>2. UNCHANGED <<key, peers, sessions, active, set>>
      BY <1>14 DEF Ignore, Await
    <3> QED BY <1>a, <3>1, <3>2, <2>2, LocalStep
  <2> QED BY <2>3, <2>4 DEF OInv
<1>15. ASSUME NEW s \in Sid, Reject(s) PROVE OInv'
  <2>1. pc[s] \in {"serve", "dispatch"} /\ BeginUnregister(s)
    BY <1>15 DEF Reject
  <2> QED BY <1>a, <2>1, BeginOwned DEF OInv
<1>16. ASSUME NEW s \in Sid, UnregisterRetain(s) PROVE OInv'
  <2> DEFINE p == set[s]
             kept == Without(sessions[p], s)
  <2>1. p \in Sid /\ p # None /\ key[p] = key[s] /\ key[s] \in Key /\ sessions[p] \in Seq(Sid) /\ pc[p] # "none"
    <3>1. p \in Sid /\ p # None /\ key[s] \in Key
      BY <1>a, <1>16 DEF Located, UnregisterRetain
    <3>2. key[p] = key[s] /\ sessions[p] \in Seq(Sid)
      BY <1>a, <3>1 DEF RegistryOK, Owned
    <3> QED BY <1>a, <1>c, <3>1, <3>2 DEF Unborn
  <2>2. kept \in Seq(Sid) /\ \A i \in DOMAIN kept : key[kept[i]] = key[p]
    <3>1. /\ kept \in Seq(Sid)
          /\ \A i \in DOMAIN kept : \E j \in DOMAIN sessions[p] : kept[i] = sessions[p][j]
      BY <2>1, WithoutType, Zenon
    <3> HIDE DEF kept
    <3>2. \A j \in DOMAIN sessions[p] : key[sessions[p][j]] = key[p]
      BY <1>a, <2>1, Zenon DEF Owned
    <3>3. ASSUME NEW i \in DOMAIN kept PROVE key[kept[i]] = key[p]
      <4>1. PICK j \in DOMAIN sessions[p] : kept[i] = sessions[p][j]
        BY <3>1, Zenon
      <4> QED BY <3>2, <4>1, Zenon
    <3> QED BY <3>1, <3>3, Zenon
  <2> HIDE DEF kept
  <2>3. kept # <<>> => Last(kept) \in Sid /\ key[Last(kept)] = key[s] /\ kept[1] \in Sid
    <3>1. kept # <<>> => 1 \in DOMAIN kept /\ Len(kept) \in DOMAIN kept
      BY <2>2
    <3>2. \A i \in DOMAIN kept : kept[i] \in Sid /\ key[kept[i]] = key[s]
      <4>1. \A i \in DOMAIN kept : kept[i] \in Sid
        BY <2>2
      <4> QED BY <2>1, <2>2, <4>1, Zenon
    <3> QED BY <3>1, <3>2, Zenon DEF Last
  <2>4. /\ UNCHANGED <<key, peers, frame, dest>>
        /\ sessions' = [sessions EXCEPT ![p] = kept]
        /\ set' = [set EXCEPT ![s] = None]
        /\ pc[s] = "retain"
    BY <1>16, Zenon DEF UnregisterRetain, kept
  <2>5. pc' = [pc EXCEPT ![s] = "drop_peers"] \/ pc' = [pc EXCEPT ![s] = "uncount"]
    BY <1>16, Zenon DEF UnregisterRetain
  <2>6. active' = active \/ (kept # <<>> /\ active' = [active EXCEPT ![key[s]] = Last(kept)])
    BY <1>16, Zenon DEF UnregisterRetain, kept
  <2>7. \A k \in Key : active'[k] # None => key[active'[k]] = k
    BY <1>a, <2>1, <2>3, <2>6, Zenon DEF RegistryOK, Owned
  <2>12. /\ pc'[s] \notin {"none", "join", "retain", "deliver", "record"}
         /\ \A t \in Sid : t # s => pc'[t] = pc[t] /\ set'[t] = set[t]
         /\ set'[s] = None
    BY <1>a, <2>4, <2>5 DEF TaskOK
  <2>13. \A q \in Sid : sessions'[q] = IF q = p THEN kept ELSE sessions[q]
    BY <1>a, <2>4, Zenon DEF RegistryOK
  <2>8. Owned'
    <3>1. \A q \in Sid : \A i \in DOMAIN sessions'[q] : key[sessions'[q][i]] = key[q]
      <4> SUFFICES ASSUME NEW q \in Sid, NEW i \in DOMAIN sessions'[q]
                   PROVE  key[sessions'[q][i]] = key[q]
        OBVIOUS
      <4>1. CASE q = p
        BY <2>2, <2>13, <4>1
      <4>2. CASE q # p
        BY <1>a, <2>13, <4>2 DEF Owned
      <4> QED BY <4>1, <4>2
    <3>2. \A t \in Sid : set'[t] # None => key[set'[t]] = key[t]
      BY <1>a, <2>12 DEF Owned
    <3>3. \A t \in Sid : pc'[t] \in {"deliver", "record"} => key[dest[t]] = frame[t].dst
      BY <1>a, <2>12 DEF Owned
    <3>4. UNCHANGED <<key, peers, frame, dest>>
      BY <2>4
    <3>5. \A k \in Key : peers'[k] # None => key'[peers'[k]] = k
      BY <1>a, <3>4 DEF Owned
    <3> QED BY <2>7, <3>1, <3>2, <3>3, <3>4, <3>5 DEF Owned
  <2>9. UNCHANGED queue \/ (kept # <<>> /\ SendTo({kept[1]}, Out("Healthy", NoKey)))
    BY <1>16, Zenon DEF UnregisterRetain, TellAlone, kept
  <2>10. NoMisdelivery'
    <3>1. CASE UNCHANGED queue
      BY <1>a, <2>4, <3>1, Zenon DEF NoMisdelivery
    <3>2. CASE kept # <<>> /\ SendTo({kept[1]}, Out("Healthy", NoKey))
      BY <1>a, <2>3, <2>4, <3>2, OutType, SendDelivers, Zenon DEF Out
    <3> QED BY <2>9, <3>1, <3>2
  <2>11. Unborn'
    <3>1. \A t \in Sid : pc[t] = "none" => queue'[t] = queue[t]
      BY <2>9, SendUnborn
    <3>2. \A t \in Sid : pc'[t] = "none" => pc[t] = "none" /\ sessions'[t] = sessions[t]
      BY <2>1, <2>12, <2>13
    <3>3. \A t \in Sid : set'[t] # None => pc'[t] \in {"join", "retain"}
      BY <1>a, <2>12 DEF Unborn
    <3>4. key' = key
      BY <2>4
    <3> QED BY <1>a, <3>1, <3>2, <3>3, <3>4, Zenon DEF Unborn
  <2> QED BY <2>8, <2>10, <2>11 DEF OInv
<1>17. ASSUME NEW s \in Sid, UnregisterPeers(s) PROVE OInv'
  <2>1. /\ peers' = [peers EXCEPT ![key[s]] = None] /\ pc' = [pc EXCEPT ![s] = "drop_active"]
        /\ pc[s] = "drop_peers" /\ UNCHANGED <<key, set, dest, frame, sessions, active, queue>>
    BY <1>17 DEF UnregisterPeers
  <2>2. Unborn' /\ NoMisdelivery'
    BY <1>a, <2>1, Zenon DEF TaskOK, Unborn, NoMisdelivery
  <2>3. \A k \in Key : peers'[k] \in {peers[k], None}
    BY <1>a, <2>1, Zenon DEF RegistryOK
  <2>4. Owned'
    BY <1>a, <2>1, <2>3, Zenon DEF TaskOK, Owned
  <2> QED BY <2>2, <2>4 DEF OInv
<1>18. ASSUME NEW s \in Sid, UnregisterActive(s) PROVE OInv'
  <2>1. /\ active' = [active EXCEPT ![key[s]] = None] /\ pc' = [pc EXCEPT ![s] = "tell_watchers"]
        /\ pc[s] = "drop_active" /\ UNCHANGED <<key, set, dest, frame, sessions, peers, queue>>
    BY <1>18, Zenon DEF UnregisterActive, ActiveWithout
  <2>2. Unborn' /\ NoMisdelivery'
    BY <1>a, <2>1, Zenon DEF TaskOK, Unborn, NoMisdelivery
  <2>3. \A k \in Key : active'[k] \in {active[k], None}
    BY <1>a, <2>1, Zenon DEF RegistryOK
  <2>4. Owned'
    BY <1>a, <2>1, <2>3, Zenon DEF TaskOK, Owned
  <2> QED BY <2>2, <2>4 DEF OInv
<1>19. ASSUME NEW s \in Sid, UnregisterTellWatchers(s) PROVE OInv'
  <2>1. /\ key' = key /\ SendTo(watchers \ {s}, Out("PeerGone", key[s]))
        /\ UNCHANGED <<set, peers, sessions, active>>
    BY <1>19 DEF UnregisterTellWatchers, Broadcast, Audience
  <2>2. (watchers \ {s}) \in SUBSET Sid /\ Out("PeerGone", key[s]) \in OutFrame
    BY <1>a, <1>19, OutType, Zenon DEF TaskOK, RegistryOK, Located, UnregisterTellWatchers
  <2>3. NoMisdelivery'
    BY <1>a, <2>1, <2>2, OutType, SendDelivers DEF Out
  <2>4. \A t \in Sid : pc[t] = "none" => queue'[t] = queue[t]
    BY <2>1, SendUnborn
  <2>5. Unborn' /\ Owned'
    <3>1. /\ pc[s] \notin {"none", "join", "retain"} /\ pc'[s] \notin {"none", "deliver", "record"}
          /\ \A t \in Sid : t # s => pc'[t] = pc[t] /\ dest'[t] = dest[t] /\ frame'[t] = frame[t]
      BY <1>a, <1>19 DEF TaskOK, UnregisterTellWatchers, Broadcast, Audience
    <3>2. UNCHANGED <<key, peers, sessions, active, set>>
      BY <1>19 DEF UnregisterTellWatchers, Broadcast, Audience
    <3> QED BY <1>a, <3>1, <3>2, <2>4, LocalStep
  <2> QED BY <2>3, <2>5 DEF OInv
<1>20. ASSUME NEW s \in Sid, UnregisterTellReceivers(s) PROVE OInv'
  <2>1. /\ key' = key /\ SendTo({active[k] : k \in reverse_paths[key[s]]} \ {None}, Out("PeerGone", key[s]))
        /\ UNCHANGED <<set, peers, sessions, active>>
    BY <1>20, Zenon DEF UnregisterTellReceivers
  <2>2. ({active[k] : k \in reverse_paths[key[s]]} \ {None}) \in SUBSET Sid /\ Out("PeerGone", key[s]) \in OutFrame
    <3>1. key[s] \in Key
      BY <1>a, <1>20, Zenon DEF Located, UnregisterTellReceivers
    <3>2. ({active[k] : k \in reverse_paths[key[s]]} \ {None}) \in SUBSET Sid
      BY <1>a, <3>1 DEF RegistryOK
    <3> QED BY <3>1, <3>2, OutType, Zenon
  <2>3. NoMisdelivery'
    BY <1>a, <2>1, <2>2, OutType, SendDelivers, Zenon DEF Out
  <2>4. \A t \in Sid : pc[t] = "none" => queue'[t] = queue[t]
    BY <2>1, SendUnborn, Zenon
  <2>5. Unborn' /\ Owned'
    <3>1. /\ pc[s] \notin {"none", "join", "retain"} /\ pc'[s] \notin {"none", "deliver", "record"}
          /\ \A t \in Sid : t # s => pc'[t] = pc[t] /\ dest'[t] = dest[t] /\ frame'[t] = frame[t]
      BY <1>a, <1>20, Zenon DEF TaskOK, UnregisterTellReceivers
    <3>2. UNCHANGED <<key, peers, sessions, active, set>>
      BY <1>20, Zenon DEF UnregisterTellReceivers
    <3> QED BY <1>a, <3>1, <3>2, <2>4, LocalStep
  <2> QED BY <2>3, <2>5 DEF OInv
<1>21. ASSUME NEW s \in Sid, UnregisterForget(s) PROVE OInv'
  <2>1. queue' = queue /\ key' = key
    BY <1>21 DEF UnregisterForget
  <2>2. \A t \in Sid : pc[t] = "none" => queue'[t] = queue[t]
    BY <2>1
  <2>3. NoMisdelivery'
    BY <1>a, <2>1 DEF NoMisdelivery
  <2>4. Unborn' /\ Owned'
    <3>1. /\ pc[s] \notin {"none", "join", "retain"} /\ pc'[s] \notin {"none", "deliver", "record"}
          /\ \A t \in Sid : t # s => pc'[t] = pc[t] /\ dest'[t] = dest[t] /\ frame'[t] = frame[t]
      BY <1>a, <1>21 DEF TaskOK, UnregisterForget
    <3>2. UNCHANGED <<key, peers, sessions, active, set>>
      BY <1>21 DEF UnregisterForget
    <3> QED BY <1>a, <3>1, <3>2, <2>2, LocalStep
  <2> QED BY <2>3, <2>4 DEF OInv
<1>22. ASSUME NEW s \in Sid, UnregisterUncount(s) PROVE OInv'
  <2>1. queue' = [queue EXCEPT ![s] = <<>>] /\ key' = key /\ pc[s] # "none"
    BY <1>22 DEF UnregisterUncount
  <2>2. \A t \in Sid : pc[t] = "none" => queue'[t] = queue[t]
    BY <1>a, <2>1 DEF OutboxOK
  <2>3. NoMisdelivery'
    <3>1. DOMAIN <<>> = {}
      OBVIOUS
    <3>2. \A t \in Sid : queue'[t] = queue[t] \/ queue'[t] = <<>>
      BY <1>a, <2>1 DEF OutboxOK
    <3> QED BY <1>a, <2>1, <3>1, <3>2 DEF NoMisdelivery
  <2>4. Unborn' /\ Owned'
    <3>1. /\ pc[s] \notin {"none", "join", "retain"} /\ pc'[s] \notin {"none", "deliver", "record"}
          /\ \A t \in Sid : t # s => pc'[t] = pc[t] /\ dest'[t] = dest[t] /\ frame'[t] = frame[t]
      BY <1>a, <1>22 DEF TaskOK, UnregisterUncount
    <3>2. UNCHANGED <<key, peers, sessions, active, set>>
      BY <1>22 DEF UnregisterUncount
    <3> QED BY <1>a, <3>1, <3>2, <2>2, LocalStep
  <2> QED BY <2>3, <2>4 DEF OInv
<1>23. ASSUME NEW s \in Sid, Disconnect(s) PROVE OInv'
  <2>1. pc[s] \in {"serve", "dispatch"} /\ BeginUnregister(s)
    BY <1>23 DEF Disconnect
  <2> QED BY <1>a, <2>1, BeginOwned DEF OInv
<1>24. ASSUME NEW s \in Sid, CloseCheck(s) PROVE OInv'
  <2>1. pc[s] \in {"serve", "dispatch"} /\ BeginUnregister(s)
    BY <1>24 DEF CloseCheck
  <2> QED BY <1>a, <2>1, BeginOwned DEF OInv
<1>25. ASSUME NEW s \in Sid, Writer(s) PROVE OInv'
  <2>1. PICK n \in 1..BatchFrames :
          /\ n <= Len(queue[s])
          /\ queue' = [queue EXCEPT ![s] = SubSeq(@, n + 1, Len(@))]
    BY <1>25, Zenon DEF Writer
  <2>2. pc[s] = "serve" /\ UNCHANGED <<pc, locals, registry>>
    BY <1>25, Zenon DEF Writer
  <2>3. NoMisdelivery'
    <3> SUFFICES ASSUME NEW t \in Sid, NEW i \in DOMAIN queue'[t], queue'[t][i].type = "RecvPacket"
                 PROVE  queue'[t][i].dst = key[t]
      BY <2>2 DEF NoMisdelivery
    <3>1. CASE t # s
      BY <1>a, <2>1, <3>1 DEF OutboxOK, NoMisdelivery
    <3>2. CASE t = s
      <4>1. queue[s] \in Seq(OutFrame) /\ queue'[s] = SubSeq(queue[s], n + 1, Len(queue[s]))
        BY <1>a, <2>1 DEF OutboxOK
      <4>2. i + n \in DOMAIN queue[s] /\ queue'[s][i] = queue[s][i + n]
        BY <2>1, <3>2, <4>1
      <4> QED BY <1>a, <3>2, <4>2 DEF NoMisdelivery
    <3> QED BY <3>1, <3>2
  <2>4. Unborn' /\ Owned'
    BY <1>a, <2>1, <2>2, Zenon DEF OutboxOK, Unborn, Owned
  <2> QED BY <2>3, <2>4 DEF OInv
<1>26. ASSUME NEW s \in Sid, Cancel(s) PROVE OInv'
  <2>1. queue' = [queue EXCEPT ![s] = <<>>] /\ key' = key /\ pc[s] # "none"
    BY <1>26 DEF Cancel
  <2>2. \A t \in Sid : pc[t] = "none" => queue'[t] = queue[t]
    BY <1>a, <2>1 DEF OutboxOK
  <2>3. NoMisdelivery'
    <3>1. DOMAIN <<>> = {}
      OBVIOUS
    <3>2. \A t \in Sid : queue'[t] = queue[t] \/ queue'[t] = <<>>
      BY <1>a, <2>1 DEF OutboxOK
    <3> QED BY <1>a, <2>1, <3>1, <3>2 DEF NoMisdelivery
  <2>4. Unborn' /\ Owned'
    <3>1. /\ pc[s] \notin {"none", "join", "retain"} /\ pc'[s] \notin {"none", "deliver", "record"}
          /\ \A t \in Sid : t # s => pc'[t] = pc[t] /\ dest'[t] = dest[t] /\ frame'[t] = frame[t]
      BY <1>a, <1>26 DEF TaskOK, Cancel
    <3>2. UNCHANGED <<key, peers, sessions, active, set>>
      BY <1>26 DEF Cancel
    <3> QED BY <1>a, <3>1, <3>2, <2>2, LocalStep
  <2> QED BY <2>3, <2>4 DEF OInv
<1>27. CASE BroadcastRestart
  <2>1. /\ key' = key /\ SendTo(UNION {Members(peers[k]) : k \in {j \in Key : peers[j] # None}}, Out("Restarting", NoKey))
        /\ UNCHANGED <<set, peers, sessions, active>>
    BY <1>27 DEF BroadcastRestart
  <2>2. (UNION {Members(peers[k]) : k \in {j \in Key : peers[j] # None}}) \in SUBSET Sid /\ Out("Restarting", NoKey) \in OutFrame
    BY <1>a, MembersType, OutType, Zenon
  <2>3. NoMisdelivery'
    BY <1>a, <2>1, <2>2, OutType, SendDelivers, Zenon DEF Out
  <2>4. \A t \in Sid : pc[t] = "none" => queue'[t] = queue[t]
    BY <2>1, SendUnborn
  <2>5. Unborn' /\ Owned'
    <3>1. UNCHANGED <<pc, key, dest, frame, set, peers, sessions, active>>
      BY <1>27 DEF BroadcastRestart
    <3> HIDE <2>1, <2>2
    <3> QED BY <1>a, <2>4, <3>1, Zenon DEF Unborn, Owned
  <2> QED BY <2>3, <2>5 DEF OInv
<1>28. CASE UNCHANGED vars
  BY <1>a, <1>28, Zenon DEF vars, OInv, Unborn, Owned, NoMisdelivery
<1> QED
  BY <1>1, <1>2, <1>3, <1>4, <1>5, <1>6, <1>7, <1>8, <1>9, <1>10, <1>11, <1>12, <1>13, <1>14, <1>15, <1>16, <1>17, <1>18, <1>19, <1>20, <1>21, <1>22, <1>23, <1>24, <1>25, <1>26, <1>27, <1>28 DEF Next, Method

\* No packet is ever queued for a connection of another node than the one it is
\* addressed to: route may hold a stale handle from the active index while register
\* and unregister run on other threads, but never one of another node.
THEOREM PacketsReachTheirNode == Spec => []NoMisdelivery
<1>1. Init => OInv
  <2> SUFFICES ASSUME Init PROVE OInv
    OBVIOUS
  <2>1. DOMAIN <<>> = {}
    OBVIOUS
  <2>2. Unborn
    BY DEF Init, Unborn
  <2>3. Owned
    BY <2>1 DEF Init, Owned
  <2>4. NoMisdelivery
    BY <2>1, Zenon DEF Init, NoMisdelivery
  <2> QED BY <2>2, <2>3, <2>4 DEF OInv
<1>2. OInv => NoMisdelivery
  BY DEF OInv
<1>3. Spec => [](TInv /\ OInv)
  BY <1>1, TypeInit, TypeStep, OwnedStep, PTL DEF Spec
<1> QED BY <1>2, <1>3, PTL

=============================================================================
