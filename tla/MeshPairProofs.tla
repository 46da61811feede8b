--------------------------- MODULE MeshPairProofs --------------------------
(***************************************************************************)
(* Two meshed servers, for any nodes, packets, queue depth and number of   *)
(* worker threads: a packet takes at most one link.                        *)
(***************************************************************************)
EXTENDS MeshPair, FiniteSetTheorems, TLAPS

\* A packet that was sent has a destination; one that was not has taken no link.
Sent ==
    \A p \in Packet : /\ hops[p] <= 1
                      /\ IF place[p] = "unsent" THEN hops[p] = 0 ELSE dst[p] \in Node

\* The packet a server's route is about is nowhere else.
Missed ==
    /\ \A s \in Server : missed[s] # NoPacket => place[missed[s]] = "missed"
    /\ \A s, t \in Server : missed[s] = missed[t] /\ missed[s] # NoPacket => s = t

InQueues ==
    /\ \A s \in Server : \A i \in 1..Len(out[s]) : place[out[s][i]] = "link"
    /\ \A p \in Packet : place[p] = "link" =>
          \E s \in Server : \E i \in 1..Len(out[s]) : out[s][i] = p
    /\ \A s, t \in Server : \A i \in 1..Len(out[s]), j \in 1..Len(out[t]) :
          out[s][i] = out[t][j] => s = t /\ i = j

PacketInv == PairTypeOK /\ Sent /\ Missed /\ InQueues

\* There are two servers.
LEMMA TwoServers ==
    /\ \A s \in Server : Other(s) \in Server /\ Other(s) # s /\ Other(Other(s)) = s
    /\ \A s, t \in Server : t = s \/ t = Other(s)
<1>1. PICK x, y \in Server : x # y /\ Server = {x, y}
  BY PairAssumption
<1>2. Other(x) = y
  BY <1>1 DEF Other
<1>3. Other(y) = x
  BY <1>1 DEF Other
<1>4. QED
  BY <1>1, <1>2, <1>3

\* A server has finitely many keys to tell about.
LEMMA FiniteKeys == IsFiniteSet(Key)
<1>1. PICK x, y \in Server : Server = {x, y}
  BY PairAssumption
<1>2. IsFiniteSet({} \cup {x}) /\ IsFiniteSet(({} \cup {x}) \cup {y})
  BY FS_EmptySet, FS_AddElement
<1>3. IsFiniteSet(Server)
  BY <1>1, <1>2
<1>4. QED
  BY <1>3, FS_Union, PairAssumption, Zenon DEF Key

\* What SessionHandle::send leaves in a mesh client's session.
LEMMA TellTypes ==
    ASSUME PairTypeOK, NEW s \in Server, NEW n \in Key, NEW b \in BOOLEAN, Tell(s, n, b)
    PROVE  /\ news' \in [Server -> Seq(News)] /\ short' \in [Server -> BOOLEAN]
           /\ \A t \in Server : Len(news'[t]) <= Depth
<1>1. [node |-> n, present |-> b] \in News
  BY DEF News
<1>2. /\ news \in [Server -> Seq(News)] /\ short \in [Server -> BOOLEAN]
      /\ link \in [Server -> BOOLEAN] /\ \A t \in Server : Len(news[t]) <= Depth
  BY DEF PairTypeOK
<1>3. CASE link[s] /\ HasRoom(s)
  <2>1. news' = [news EXCEPT ![s] = Append(@, [node |-> n, present |-> b])] /\ short' = short
    BY <1>3 DEF Tell
  <2>2. Append(news[s], [node |-> n, present |-> b]) \in Seq(News)
    BY <1>1, <1>2
  <2>3. Len(Append(news[s], [node |-> n, present |-> b])) <= Depth
    BY <1>1, <1>2, <1>3, PairAssumption DEF HasRoom
  <2>4. QED
    BY <1>2, <2>1, <2>2, <2>3
<1>4. CASE ~(link[s] /\ HasRoom(s))
  BY <1>2, <1>4, Zenon DEF Tell
<1>5. QED
  BY <1>3, <1>4

\* The steps that concern no packet keep the types.
LEMMA PresenceTypes ==
    ASSUME PairTypeOK, NEW s \in Server,
           Connect(s) \/ ReadNews(s) \/ \E n \in Node : Join(s, n) \/ Leave(s, n)
    PROVE  PairTypeOK' /\ UNCHANGED packets
<1> USE PairAssumption
<1>0. Other(s) \in Server
  BY TwoServers
<1>1. CASE Connect(s)
  <2> DEFINE there == local[Other(s)] \cup {s}
             room == IF Cardinality(there) < Depth THEN Cardinality(there) ELSE Depth
  <2>0. there \in SUBSET Key
    BY <1>0 DEF PairTypeOK, Key
  <2>1. room \in Nat /\ room <= Depth
    <3>1. IsFiniteSet(there)
      BY <2>0, FiniteKeys, FS_Subset
    <3>2. Cardinality(there) \in Nat
      BY <3>1, FS_CardinalityType
    <3>3. QED
      BY <3>2
  <2>2. PICK order \in [1..room -> there] :
           news' = [news EXCEPT ![s] = [i \in 1..room |-> [node |-> order[i], present |-> TRUE]]]
    BY <1>1, Zenon DEF Connect
  <2> DEFINE q == [i \in 1..room |-> [node |-> order[i], present |-> TRUE]]
  <2>3. \A i \in 1..room : [node |-> order[i], present |-> TRUE] \in News
    BY <2>0, <2>2, Zenon DEF News
  <2>4. q \in Seq(News) /\ Len(q) <= Depth
    <3> HIDE DEF room, there
    <3>1. q \in Seq(News)
      BY <2>1, <2>3
    <3>2. Len(q) = room
      BY <2>1
    <3>3. QED
      BY <2>1, <3>1, <3>2
  <2>5. news' \in [Server -> Seq(News)] /\ \A t \in Server : Len(news'[t]) <= Depth
    <3>1. news \in [Server -> Seq(News)] /\ \A t \in Server : Len(news[t]) <= Depth
      BY DEF PairTypeOK
    <3> HIDE DEF q
    <3>2. news' = [news EXCEPT ![s] = q]
      BY <2>2 DEF q
    <3>3. QED
      BY <2>4, <3>1, <3>2
  <2>6. local' \in [Server -> SUBSET Key]
    BY <1>1, <2>0, Zenon DEF Connect, PairTypeOK
  <2>7. link' \in [Server -> BOOLEAN] /\ short' \in [Server -> BOOLEAN]
    <3>1. link \in [Server -> BOOLEAN] /\ short \in [Server -> BOOLEAN]
      BY DEF PairTypeOK
    <3> HIDE DEF there
    <3>2. /\ link' = [link EXCEPT ![s] = TRUE]
          /\ short' = [short EXCEPT ![s] = Cardinality(there) > Depth]
      BY <1>1 DEF Connect, there
    <3>3. QED
      BY <3>1, <3>2
  <2>8. QED
    BY <1>1, <2>5, <2>6, <2>7, Zenon DEF Connect, packets, PairTypeOK
<1>2. CASE ReadNews(s)
  <2>1. news[s] \in Seq(News) /\ news[s] # <<>> /\ Len(news[s]) <= Depth
    BY <1>2 DEF ReadNews, PairTypeOK
  <2>2. Head(news[s]) \in News /\ Tail(news[s]) \in Seq(News) /\ Len(Tail(news[s])) <= Depth
    BY <2>1
  <2>3. Head(news[s]).node \in Key
    BY <2>2 DEF News
  <2>4. news' \in [Server -> Seq(News)] /\ \A t \in Server : Len(news'[t]) <= Depth
    BY <1>2, <2>2 DEF ReadNews, PairTypeOK
  <2>5. routes' \in [Server -> SUBSET Key]
    <3>1. routes \in [Server -> SUBSET Key]
      BY DEF PairTypeOK
    <3>2. \A R \in SUBSET Key : R \cup {Head(news[s]).node} \in SUBSET Key
                                /\ R \ {Head(news[s]).node} \in SUBSET Key
      BY <2>3
    <3>3. QED
      BY <1>2, <3>1, <3>2 DEF ReadNews
  <2>6. QED
    BY <1>2, <2>4, <2>5 DEF ReadNews, packets, PairTypeOK
<1>3. ASSUME NEW n \in Node, Join(s, n) PROVE PairTypeOK' /\ UNCHANGED packets
  <2>1. /\ news' \in [Server -> Seq(News)] /\ short' \in [Server -> BOOLEAN]
        /\ \A t \in Server : Len(news'[t]) <= Depth
    BY <1>0, <1>3, TellTypes, Zenon DEF Join, Key
  <2>2. QED
    BY <1>3, <2>1 DEF Join, packets, PairTypeOK, Key
<1>4. ASSUME NEW n \in Node, Leave(s, n) PROVE PairTypeOK' /\ UNCHANGED packets
  <2>1. /\ news' \in [Server -> Seq(News)] /\ short' \in [Server -> BOOLEAN]
        /\ \A t \in Server : Len(news'[t]) <= Depth
    BY <1>0, <1>4, TellTypes, Zenon DEF Leave, Key
  <2>2. QED
    BY <1>4, <2>1 DEF Leave, packets, PairTypeOK, Key
<1>5. QED
  BY <1>1, <1>2, <1>3, <1>4

\* The queues are right as long as they and the set of packets on a link stay the same.
LEMMA SameQueues ==
    ASSUME PairTypeOK, InQueues, out' = out,
           \A r \in Packet : place'[r] = "link" <=> place[r] = "link"
    PROVE  InQueues'
<1>1. \A t \in Server : \A i \in 1..Len(out[t]) : out[t][i] \in Packet
  BY DEF PairTypeOK
<1>2. \A t \in Server : \A i \in 1..Len(out'[t]) : place'[out'[t][i]] = "link"
  BY <1>1 DEF InQueues
<1>3. \A r \in Packet : place'[r] = "link" =>
         \E t \in Server : \E i \in 1..Len(out'[t]) : out'[t][i] = r
  BY DEF InQueues
<1>4. \A t, u \in Server : \A i \in 1..Len(out'[t]), j \in 1..Len(out'[u]) :
         out'[t][i] = out'[u][j] => t = u /\ i = j
  BY DEF InQueues
<1>5. QED
  BY <1>2, <1>3, <1>4 DEF InQueues

\* A packet that is sent enters one queue at its end, or none.
LEMMA SendKeeps ==
    ASSUME PacketInv, NEW s \in Server, NEW p \in Packet, NEW n \in Node, Send(s, p, n)
    PROVE  PacketInv'
<1>0. Depth \in Nat /\ NoPacket \notin Packet
  BY PairAssumption
<1>1. PICK where \in Outcomes(s, n, FALSE) :
         /\ place' = [place EXCEPT ![p] = IF where = "missed" THEN "dropped" ELSE where]
         /\ out' = [out EXCEPT ![s] = Queue(@, p, where)]
         /\ hops' = Hops(p, where)
  BY Zenon DEF Send
<1>2. /\ where \in {"delivered", "dropped", "link", "missed"}
      /\ where = "link" => Len(out[s]) < Depth
  BY <1>1 DEF Outcomes, Forwards
<1>3. /\ out \in [Server -> Seq(Packet)] /\ place \in [Packet -> Places]
      /\ hops \in [Packet -> Nat] /\ dst \in [Packet -> Node \cup {NoNode}]
      /\ missed \in [Server -> Packet \cup {NoPacket}]
      /\ \A t \in Server : Len(out[t]) <= Depth
  BY DEF PacketInv, PairTypeOK
<1>4. /\ place[p] = "unsent" /\ hops[p] = 0
      /\ dst' = [dst EXCEPT ![p] = n] /\ missed' = missed
  BY DEF Send, PacketInv, Sent
<1>5. CASE where = "link"
  <2>1. out' = [out EXCEPT ![s] = Append(@, p)] /\ place' = [place EXCEPT ![p] = "link"]
        /\ hops' = [hops EXCEPT ![p] = @ + 1]
    BY <1>1, <1>5 DEF Queue, Hops
  <2>2. /\ out'[s] \in Seq(Packet) /\ Len(out'[s]) = Len(out[s]) + 1
        /\ out'[s][Len(out[s]) + 1] = p /\ \A i \in 1..Len(out[s]) : out'[s][i] = out[s][i]
    <3>1. out'[s] = Append(out[s], p) /\ out[s] \in Seq(Packet)
      BY <1>3, <2>1
    <3>2. QED
      BY <3>1
  <2>3. \A t \in Server \ {s} : out'[t] = out[t]
    BY <1>3, <2>1
  <2>4. PairTypeOK'
    <3>1. out' \in [Server -> Seq(Packet)] /\ \A t \in Server : Len(out'[t]) <= Depth
      BY <1>0, <1>2, <1>3, <1>5, <2>1, <2>2, <2>3
    <3>2. place' \in [Packet -> Places] /\ hops' \in [Packet -> Nat]
          /\ dst' \in [Packet -> Node \cup {NoNode}]
      BY <1>3, <1>4, <2>1 DEF Places
    <3>3. QED
      BY <3>1, <3>2 DEF Send, PacketInv, PairTypeOK
  <2>5. Sent'
    BY <1>3, <1>4, <2>1 DEF PacketInv, Sent
  <2>6. Missed'
    BY <1>0, <1>3, <1>4, <2>1 DEF PacketInv, Missed
  <2>7. \A t \in Server : \A i \in 1..Len(out[t]) : out[t][i] # p
    BY <1>4 DEF PacketInv, InQueues
  <2>8. \A t \in Server : \A i \in 1..Len(out'[t]) :
           \/ t = s /\ i = Len(out[s]) + 1 /\ out'[t][i] = p
           \/ i \in 1..Len(out[t]) /\ out'[t][i] = out[t][i] /\ out[t][i] # p
    <3> SUFFICES ASSUME NEW t \in Server, NEW i \in 1..Len(out'[t]),
                        ~(t = s /\ i = Len(out[s]) + 1)
                 PROVE  i \in 1..Len(out[t]) /\ out'[t][i] = out[t][i] /\ out[t][i] # p
      BY <2>2
    <3>1. Len(out[t]) \in Nat
      BY <1>3
    <3>2. CASE t = s
      <4>1. i \in 1..Len(out[s])
        BY <2>2, <3>1, <3>2
      <4>2. QED
        BY <2>2, <2>7, <3>2, <4>1
    <3>3. CASE t # s
      BY <2>3, <2>7, <3>3
    <3>4. QED
      BY <3>2, <3>3
  <2>9. InQueues'
    <3>1. \A t \in Server : \A i \in 1..Len(out'[t]) : place'[out'[t][i]] = "link"
      <4>1. \A t \in Server : \A i \in 1..Len(out[t]) : out[t][i] \in Packet
        BY <1>3
      <4>2. \A t \in Server : \A i \in 1..Len(out[t]) : place[out[t][i]] = "link"
        BY DEF PacketInv, InQueues
      <4>3. \A r \in Packet : place'[r] = IF r = p THEN "link" ELSE place[r]
        BY <1>3, <2>1
      <4>4. QED
        BY <2>8, <4>1, <4>2, <4>3
    <3>2. ASSUME NEW r \in Packet, place'[r] = "link"
          PROVE  \E t \in Server : \E i \in 1..Len(out'[t]) : out'[t][i] = r
      <4>1. CASE r = p
        <5>1. Len(out[s]) + 1 \in 1..Len(out'[s])
          BY <1>3, <2>2
        <5>2. QED
          BY <2>2, <4>1, <5>1
      <4>2. CASE r # p
        <5>1. place[r] = "link"
          BY <1>3, <2>1, <3>2, <4>2
        <5>2. PICK t \in Server : \E i \in 1..Len(out[t]) : out[t][i] = r
          BY <5>1 DEF PacketInv, InQueues
        <5>3. \E i \in 1..Len(out'[t]) : out'[t][i] = r
          <6>1. Len(out[s]) \in Nat
            BY <1>3
          <6>2. CASE t = s
            BY <2>2, <5>2, <6>1, <6>2
          <6>3. CASE t # s
            BY <2>3, <5>2, <6>3
          <6>4. QED
            BY <6>2, <6>3
        <5>4. QED
          BY <5>3
      <4>3. QED
        BY <4>1, <4>2
    <3>3. \A t, u \in Server : \A i \in 1..Len(out'[t]), j \in 1..Len(out'[u]) :
             out'[t][i] = out'[u][j] => t = u /\ i = j
      <4> SUFFICES ASSUME NEW t \in Server, NEW u \in Server, NEW i \in 1..Len(out'[t]),
                          NEW j \in 1..Len(out'[u]), out'[t][i] = out'[u][j]
                   PROVE  t = u /\ i = j
        OBVIOUS
      <4>1. CASE out'[t][i] = p
        <5>1. t = s /\ i = Len(out[s]) + 1
          BY <2>8, <4>1
        <5>2. out'[u][j] = p
          BY <4>1
        <5>3. u = s /\ j = Len(out[s]) + 1
          BY <2>8, <5>2
        <5>4. QED
          BY <5>1, <5>3
      <4>2. CASE out'[t][i] # p
        <5>1. i \in 1..Len(out[t]) /\ j \in 1..Len(out[u]) /\ out[t][i] = out[u][j]
          BY <2>8, <4>2
        <5>2. QED
          BY <5>1 DEF PacketInv, InQueues
      <4>3. QED
        BY <4>1, <4>2
    <3>4. QED
      BY <3>1, <3>2, <3>3 DEF InQueues
  <2>10. QED
    BY <2>4, <2>5, <2>6, <2>9 DEF PacketInv
<1>6. CASE where # "link"
  <2>1. out' = out /\ hops' = hops
    BY <1>1, <1>3, <1>6 DEF Queue, Hops
  <2>2. PICK w \in {"delivered", "dropped"} : place' = [place EXCEPT ![p] = w]
    BY <1>1, <1>2, <1>6, Zenon
  <2>3. PairTypeOK'
    <3>1. place' \in [Packet -> Places] /\ dst' \in [Packet -> Node \cup {NoNode}]
      BY <1>3, <1>4, <2>2 DEF Places
    <3>2. QED
      BY <2>1, <3>1 DEF Send, PacketInv, PairTypeOK
  <2>4. Sent'
    BY <1>3, <1>4, <2>1, <2>2 DEF PacketInv, Sent
  <2>5. Missed'
    BY <1>0, <1>3, <1>4, <2>2 DEF PacketInv, Missed
  <2>6. InQueues'
    <3>1. \A r \in Packet : place'[r] = "link" <=> place[r] = "link"
      BY <1>3, <1>4, <2>2
    <3>2. QED
      BY <2>1, <3>1, SameQueues DEF PacketInv
  <2>7. QED
    BY <2>3, <2>4, <2>5, <2>6 DEF PacketInv
<1>7. QED
  BY <1>5, <1>6

\* A packet that arrives leaves its queue for good: forwarded, it is not forwarded again.
LEMMA ArriveKeeps ==
    ASSUME PacketInv, NEW s \in Server, Arrive(s)
    PROVE  PacketInv'
<1>0. Depth \in Nat /\ NoPacket \notin Packet
  BY PairAssumption
<1> DEFINE p == Head(out[s])
           o == Other(s)
<1>1. o \in Server /\ o # s
  BY TwoServers
<1>2. /\ out \in [Server -> Seq(Packet)] /\ place \in [Packet -> Places]
      /\ hops \in [Packet -> Nat] /\ missed \in [Server -> Packet \cup {NoPacket}]
      /\ \A t \in Server : Len(out[t]) <= Depth
  BY DEF PacketInv, PairTypeOK
<1>3. /\ out[s] # <<>> /\ out[s] \in Seq(Packet) /\ p \in Packet /\ p = out[s][1]
      /\ Len(out[s]) \in Nat \ {0} /\ 1 \in 1..Len(out[s])
  BY <1>2 DEF Arrive
<1>4. place[p] = "link" /\ missed[o] = NoPacket
  <2>1. missed[o] = NoPacket
    BY DEF Arrive
  <2>2. place[out[s][1]] = "link"
    BY <1>3 DEF PacketInv, InQueues
  <2>3. QED
    BY <1>3, <2>1, <2>2
<1>5. PICK where \in {"delivered", "dropped", "missed"} :
         /\ place' = [place EXCEPT ![p] = where]
         /\ out' = [out EXCEPT ![s] = Tail(@), ![o] = Queue(@, p, where)]
         /\ hops' = Hops(p, where)
         /\ missed' = [missed EXCEPT ![o] = IF where = "missed" THEN p ELSE NoPacket]
  BY Zenon DEF Arrive, Outcomes, Forwards
<1>6. out' = [out EXCEPT ![s] = Tail(@)] /\ hops' = hops
  BY <1>1, <1>2, <1>5, Zenon DEF Queue, Hops
<1>7. /\ out'[s] \in Seq(Packet) /\ Len(out'[s]) = Len(out[s]) - 1
      /\ \A i \in 1..Len(out'[s]) : i + 1 \in 1..Len(out[s]) /\ out'[s][i] = out[s][i + 1]
  BY <1>2, <1>3, <1>6
<1>8. \A t \in Server \ {s} : out'[t] = out[t]
  BY <1>2, <1>6
<1> HIDE DEF p, o
<1>9. PairTypeOK'
  <2>1. out' \in [Server -> Seq(Packet)] /\ \A t \in Server : Len(out'[t]) <= Depth
    BY <1>0, <1>2, <1>3, <1>6, <1>7, <1>8
  <2>2. place' \in [Packet -> Places] /\ missed' \in [Server -> Packet \cup {NoPacket}]
    BY <1>2, <1>3, <1>5, Zenon DEF Places
  <2>3. QED
    BY <1>6, <2>1, <2>2, Zenon DEF Arrive, PacketInv, PairTypeOK
<1>10. Sent'
  BY <1>2, <1>4, <1>5, <1>6 DEF Arrive, PacketInv, Sent
<1>11. Missed'
  <2>1. \A t \in Server : missed[t] # p
    BY <1>0, <1>3, <1>4 DEF PacketInv, Missed
  <2>2. \A t \in Server : missed'[t] # NoPacket => place'[missed'[t]] = "missed"
    <3> SUFFICES ASSUME NEW t \in Server, missed'[t] # NoPacket
                 PROVE  place'[missed'[t]] = "missed"
      OBVIOUS
    <3>1. CASE t = o
      BY <1>2, <1>3, <1>5, <3>1
    <3>2. CASE t # o
      <4>1. missed'[t] = missed[t] /\ missed[t] \in Packet
        BY <1>2, <1>5, <3>2
      <4>2. QED
        BY <1>2, <1>5, <2>1, <4>1 DEF PacketInv, Missed
    <3>3. QED
      BY <3>1, <3>2
  <2>3. \A t, u \in Server : missed'[t] = missed'[u] /\ missed'[t] # NoPacket => t = u
    BY <1>1, <1>2, <1>4, <1>5, <2>1 DEF PacketInv, Missed
  <2>4. QED
    BY <2>2, <2>3 DEF Missed
<1>12. InQueues'
  <2>1. \A t \in Server : \A i \in 1..Len(out'[t]) : \E k \in 1..Len(out[t]) :
           /\ k = IF t = s THEN i + 1 ELSE i
           /\ out'[t][i] = out[t][k] /\ out[t][k] # p /\ out[t][k] \in Packet
    <3> SUFFICES ASSUME NEW t \in Server, NEW i \in 1..Len(out'[t])
                 PROVE  \E k \in 1..Len(out[t]) :
                           /\ k = IF t = s THEN i + 1 ELSE i
                           /\ out'[t][i] = out[t][k] /\ out[t][k] # p /\ out[t][k] \in Packet
      OBVIOUS
    <3>1. Len(out[t]) \in Nat /\ \A k \in 1..Len(out[t]) : out[t][k] \in Packet
      BY <1>2
    <3>2. CASE t = s
      <4>1. i + 1 \in 1..Len(out[s]) /\ out'[s][i] = out[s][i + 1] /\ i + 1 # 1
        BY <1>7, <3>2
      <4>2. out[s][i + 1] # p
        BY <1>3, <4>1 DEF PacketInv, InQueues
      <4>3. QED
        BY <3>1, <3>2, <4>1, <4>2
    <3>3. CASE t # s
      <4>1. i \in 1..Len(out[t]) /\ out'[t][i] = out[t][i]
        BY <1>8, <3>3
      <4>2. out[t][i] # p
        BY <1>3, <3>3, <4>1 DEF PacketInv, InQueues
      <4>3. QED
        BY <3>1, <3>3, <4>1, <4>2
    <3>4. QED
      BY <3>2, <3>3
  <2>2. \A t \in Server : \A i \in 1..Len(out'[t]) : place'[out'[t][i]] = "link"
    <3> SUFFICES ASSUME NEW t \in Server, NEW i \in 1..Len(out'[t])
                 PROVE  place'[out'[t][i]] = "link"
      OBVIOUS
    <3>1. PICK k \in 1..Len(out[t]) :
             out'[t][i] = out[t][k] /\ out[t][k] # p /\ out[t][k] \in Packet
      BY <2>1
    <3>2. place[out[t][k]] = "link"
      BY DEF PacketInv, InQueues
    <3>3. QED
      BY <1>2, <1>5, <3>1, <3>2
  <2>3. ASSUME NEW r \in Packet, place'[r] = "link"
        PROVE  \E t \in Server : \E i \in 1..Len(out'[t]) : out'[t][i] = r
    <3>1. place[r] = "link" /\ r # p
      BY <1>2, <1>3, <1>5, <2>3
    <3>2. PICK t \in Server : \E i \in 1..Len(out[t]) : out[t][i] = r
      BY <3>1 DEF PacketInv, InQueues
    <3>3. PICK i \in 1..Len(out[t]) : out[t][i] = r
      BY <3>2
    <3>4. CASE t = s
      <4>1. i # 1
        BY <1>3, <3>1, <3>3, <3>4
      <4>2. i - 1 \in 1..Len(out'[s])
        BY <1>3, <1>7, <3>4, <4>1
      <4>3. out'[s][i - 1] = out[s][(i - 1) + 1] /\ (i - 1) + 1 = i
        BY <1>7, <4>2
      <4>4. QED
        BY <3>3, <3>4, <4>2, <4>3
    <3>5. CASE t # s
      BY <1>8, <3>3, <3>5
    <3>6. QED
      BY <3>4, <3>5
  <2>4. \A t, u \in Server : \A i \in 1..Len(out'[t]), j \in 1..Len(out'[u]) :
           out'[t][i] = out'[u][j] => t = u /\ i = j
    <3> SUFFICES ASSUME NEW t \in Server, NEW u \in Server, NEW i \in 1..Len(out'[t]),
                        NEW j \in 1..Len(out'[u]), out'[t][i] = out'[u][j]
                 PROVE  t = u /\ i = j
      OBVIOUS
    <3>1. PICK k \in 1..Len(out[t]) :
             k = (IF t = s THEN i + 1 ELSE i) /\ out'[t][i] = out[t][k]
      BY <2>1
    <3>2. PICK l \in 1..Len(out[u]) :
             l = (IF u = s THEN j + 1 ELSE j) /\ out'[u][j] = out[u][l]
      BY <2>1
    <3>3. t = u /\ k = l
      <4>1. out[t][k] = out[u][l]
        BY <3>1, <3>2, Zenon
      <4>2. QED
        BY <4>1 DEF PacketInv, InQueues
    <3>4. QED
      BY <3>1, <3>2, <3>3
  <2>5. QED
    BY <2>2, <2>3, <2>4 DEF InQueues
<1>13. QED
  BY <1>9, <1>10, <1>11, <1>12 DEF PacketInv

\* A link that fails loses the packets in its queue, which are in no other.
LEMMA BreakKeeps ==
    ASSUME PacketInv, NEW s \in Server, Break(s)
    PROVE  PacketInv'
<1>1. /\ out \in [Server -> Seq(Packet)] /\ place \in [Packet -> Places]
      /\ missed \in [Server -> Packet \cup {NoPacket}]
      /\ \A t \in Server : Len(out[t]) <= Depth
  BY DEF PacketInv, PairTypeOK
<1>2. /\ out' = [out EXCEPT ![s] = <<>>]
      /\ place' = [p \in Packet |-> IF \E i \in 1..Len(out[s]) : out[s][i] = p
                                    THEN "lost" ELSE place[p]]
      /\ missed' = missed /\ hops' = hops /\ dst' = dst
  <2>1. DOMAIN out[s] = 1..Len(out[s])
    BY <1>1
  <2>2. QED
    BY <2>1 DEF Break
<1>3. \A r \in Packet : \/ place'[r] = place[r]
                        \/ place[r] = "link" /\ place'[r] = "lost"
  BY <1>2 DEF PacketInv, InQueues
<1>4. PairTypeOK'
  <2>1. out' \in [Server -> Seq(Packet)] /\ \A t \in Server : Len(out'[t]) <= Depth
    BY <1>1, <1>2, PairAssumption
  <2>2. place' \in [Packet -> Places]
    BY <1>1, <1>2 DEF Places
  <2>3. news' \in [Server -> Seq(News)] /\ \A t \in Server : Len(news'[t]) <= Depth
    BY PairAssumption DEF Break, PacketInv, PairTypeOK
  <2>4. local' \in [Server -> SUBSET Key] /\ routes' \in [Server -> SUBSET Key]
    BY TwoServers DEF Break, RemoveMesh, PacketInv, PairTypeOK
  <2>5. link' \in [Server -> BOOLEAN] /\ short' \in [Server -> BOOLEAN]
    BY DEF Break, PacketInv, PairTypeOK
  <2>6. breaks' \in 0..MaxBreaks
    BY PairAssumption DEF Break, PacketInv, PairTypeOK
  <2>7. QED
    BY <1>2, <2>1, <2>2, <2>3, <2>4, <2>5, <2>6 DEF Break, PacketInv, PairTypeOK
<1>5. Sent'
  BY <1>2, <1>3 DEF PacketInv, Sent
<1>6. Missed'
  BY <1>1, <1>2, <1>3, Zenon DEF PacketInv, Missed
<1>7. InQueues'
  <2>1. Len(out'[s]) = 0 /\ \A t \in Server \ {s} : out'[t] = out[t]
    BY <1>1, <1>2
  <2>2. ASSUME NEW t \in Server, NEW i \in 1..Len(out'[t]) PROVE place'[out'[t][i]] = "link"
    <3>1. t # s /\ out'[t] = out[t] /\ i \in 1..Len(out[t]) /\ out[t][i] \in Packet
      BY <1>1, <2>1, <2>2
    <3>2. \A j \in 1..Len(out[s]) : out[s][j] # out[t][i]
      <4>1. InQueues
        BY DEF PacketInv
      <4>2. QED
        BY <3>1, <4>1 DEF InQueues
    <3>3. place[out[t][i]] = "link"
      BY <3>1 DEF PacketInv, InQueues
    <3>4. QED
      BY <1>2, <3>1, <3>2, <3>3
  <2>3. ASSUME NEW r \in Packet, place'[r] = "link"
        PROVE  \E t \in Server : \E i \in 1..Len(out'[t]) : out'[t][i] = r
    <3>1. place[r] = "link" /\ ~(\E i \in 1..Len(out[s]) : out[s][i] = r)
      BY <1>2, <2>3
    <3>2. PICK t \in Server : \E i \in 1..Len(out[t]) : out[t][i] = r
      BY <3>1 DEF PacketInv, InQueues
    <3>3. t # s
      BY <3>1, <3>2
    <3>4. QED
      BY <2>1, <3>2, <3>3
  <2>4. \A t, u \in Server : \A i \in 1..Len(out'[t]), j \in 1..Len(out'[u]) :
           out'[t][i] = out'[u][j] => t = u /\ i = j
    <3> SUFFICES ASSUME NEW t \in Server, NEW u \in Server, NEW i \in 1..Len(out'[t]),
                        NEW j \in 1..Len(out'[u]), out'[t][i] = out'[u][j]
                 PROVE  t = u /\ i = j
      OBVIOUS
    <3>1. t # s /\ u # s
      BY <2>1
    <3>2. out'[t] = out[t] /\ out'[u] = out[u]
      BY <2>1, <3>1
    <3>3. QED
      BY <3>2 DEF PacketInv, InQueues
  <2>5. QED
    BY <2>2, <2>3, <2>4 DEF InQueues
<1>8. QED
  BY <1>4, <1>5, <1>6, <1>7 DEF PacketInv

\* The answer to a packet that found no session ends it.
LEMMA AnswerKeeps ==
    ASSUME PacketInv, NEW s \in Server, Answer(s)
    PROVE  PacketInv'
<1> DEFINE p == missed[s]
<1>1. /\ p \in Packet /\ p # NoPacket /\ place[p] = "missed" /\ dst[p] \in Node
      /\ place \in [Packet -> Places] /\ missed \in [Server -> Packet \cup {NoPacket}]
      /\ out \in [Server -> Seq(Packet)]
  BY DEF Answer, PacketInv, PairTypeOK, Sent, Missed
<1>2. /\ place' = [place EXCEPT ![p] = "dropped"]
      /\ missed' = [missed EXCEPT ![s] = NoPacket]
      /\ out' = out /\ dst' = dst /\ hops' = hops
  BY DEF Answer
<1>3. PairTypeOK'
  <2>1. /\ news' \in [Server -> Seq(News)] /\ short' \in [Server -> BOOLEAN]
        /\ \A t \in Server : Len(news'[t]) <= Depth
    <3>1. CASE Tell(Other(s), dst[p], FALSE)
      BY <1>1, <3>1, TellTypes, TwoServers, Zenon DEF PacketInv, Key
    <3>2. CASE UNCHANGED <<news, short>>
      BY <3>2 DEF PacketInv, PairTypeOK
    <3>3. QED
      BY <3>1, <3>2, Zenon DEF Answer
  <2>2. place' \in [Packet -> Places] /\ missed' \in [Server -> Packet \cup {NoPacket}]
    BY <1>1, <1>2 DEF Places
  <2>3. QED
    BY <2>1, <2>2 DEF Answer, PacketInv, PairTypeOK
<1> HIDE DEF p
<1>4. Sent'
  BY <1>1, <1>2 DEF PacketInv, Sent
<1>5. Missed'
  <2>1. \A t \in Server : t # s /\ missed[t] # NoPacket => missed[t] # p
    BY DEF PacketInv, Missed, p
  <2>2. QED
    BY <1>1, <1>2, <2>1 DEF PacketInv, Missed
<1>6. InQueues'
  <2>1. \A r \in Packet : place'[r] = "link" <=> place[r] = "link"
    BY <1>1, <1>2
  <2>2. QED
    BY <1>2, <2>1, SameQueues DEF PacketInv
<1>7. QED
  BY <1>3, <1>4, <1>5, <1>6 DEF PacketInv

\* The invariant of the packets holds at the start and is kept.
LEMMA PacketStart == PairInit => PacketInv
<1> SUFFICES ASSUME PairInit PROVE PacketInv
  OBVIOUS
<1>1. PairTypeOK
  BY PairAssumption DEF PairInit, PairTypeOK, Places
<1>2. Sent /\ Missed /\ InQueues
  BY DEF PairInit, Sent, Missed, InQueues
<1>3. QED
  BY <1>1, <1>2 DEF PacketInv

LEMMA PacketStep == PacketInv /\ [PairNext]_pairVars => PacketInv'
<1> SUFFICES ASSUME PacketInv, [PairNext]_pairVars PROVE PacketInv'
  OBVIOUS
<1>1. ASSUME PairTypeOK', UNCHANGED packets PROVE PacketInv'
  <2>1. out' = out /\ missed' = missed /\ place' = place /\ dst' = dst /\ hops' = hops
    BY <1>1 DEF packets
  <2>2. Sent' /\ Missed'
    BY <2>1 DEF PacketInv, Sent, Missed
  <2>3. InQueues'
    BY <2>1, SameQueues DEF PacketInv
  <2>4. QED
    BY <1>1, <2>2, <2>3 DEF PacketInv
<1>2. CASE UNCHANGED pairVars
  <2>1. PairTypeOK'
    BY <1>2 DEF pairVars, packets, PacketInv, PairTypeOK
  <2>2. QED
    BY <1>1, <1>2, <2>1 DEF pairVars
<1>3. ASSUME NEW s \in Server,
             Connect(s) \/ ReadNews(s) \/ \E n \in Node : Join(s, n) \/ Leave(s, n)
      PROVE  PacketInv'
  <2>1. PairTypeOK' /\ UNCHANGED packets
    BY <1>3, PresenceTypes DEF PacketInv
  <2>2. QED
    BY <1>1, <2>1
<1>4. QED
  BY <1>2, <1>3, SendKeeps, ArriveKeeps, BreakKeeps, AnswerKeeps DEF PairNext

\* For any nodes, packets, queue depth and number of workers: however stale the routes of
\* two servers are, route and forward_to_mesh send a packet over one link at most, and it
\* comes out once.
THEOREM PairForwardsOnce == PairSpec => [](PairTypeOK /\ ForwardedOnce)
<1>1. PacketInv => PairTypeOK /\ ForwardedOnce
  <2> SUFFICES ASSUME PacketInv PROVE PairTypeOK /\ ForwardedOnce
    OBVIOUS
  <2>1. \A s \in Server : Len(out[s]) \in Nat /\ Len(out[s]) <= Depth
                          /\ DOMAIN out[s] = 1..Len(out[s])
    BY DEF PacketInv, PairTypeOK
  <2>2. \A p \in Packet : hops[p] <= 1
    BY DEF PacketInv, Sent
  <2>3. ASSUME NEW p \in Packet
        PROVE  place[p] = "link" <=> \E s \in Server, i \in 1..Depth :
                  i \in DOMAIN out[s] /\ out[s][i] = p
    <3>1. place[p] = "link" <=> \E s \in Server : \E i \in 1..Len(out[s]) : out[s][i] = p
      BY DEF PacketInv, InQueues
    <3>2. ASSUME NEW s \in Server, NEW i \in 1..Len(out[s])
          PROVE  i \in 1..Depth /\ i \in DOMAIN out[s]
      BY <2>1, PairAssumption
    <3>3. ASSUME NEW s \in Server, NEW i \in DOMAIN out[s] PROVE i \in 1..Len(out[s])
      BY <2>1
    <3>4. QED
      BY <3>1, <3>2, <3>3
  <2>4. ASSUME NEW p \in Packet, NEW s \in Server, NEW t \in Server,
               NEW i \in DOMAIN out[s], NEW j \in DOMAIN out[t], out[s][i] = p, out[t][j] = p
        PROVE  s = t /\ i = j
    <3>1. i \in 1..Len(out[s]) /\ j \in 1..Len(out[t])
      BY <2>1
    <3>2. out[s][i] = out[t][j]
      BY <2>4
    <3>3. InQueues
      BY DEF PacketInv
    <3>4. QED
      BY <3>1, <3>2, <3>3 DEF InQueues
  <2>5. QED
    BY <2>2, <2>3, <2>4 DEF PacketInv, ForwardedOnce
<1>2. QED
  BY <1>1, PacketStart, PacketStep, PTL DEF PairSpec
=============================================================================
