------------------------ MODULE MeshPairRouteProofs ------------------------
(***************************************************************************)
(* Two meshed servers, for any nodes and queue depth: with one worker      *)
(* thread, a mesh client that has read all it was told has exactly the     *)
(* routes it should.                                                       *)
(***************************************************************************)
EXTENDS MeshPairProofs

-----------------------------------------------------------------------------
(* What a queue of presence frames says *)

\* q read to its end turns the routes R into those to the nodes of L: the last frame
\* about a node is right, and where there is none the route is.
Shows(q, R, L) ==
    \A n \in Node :
        /\ (\A i \in 1..Len(q) : q[i].node # n) => (n \in R <=> n \in L)
        /\ \A i \in 1..Len(q) :
              q[i].node = n /\ (\A j \in (i + 1)..Len(q) : q[j].node # n)
                  => (q[i].present = TRUE <=> n \in L)

\* A frame about the node that joined or left keeps what the queue says true
\* (broadcast_presence, SessionHandle::send).
LEMMA ShowsAppend ==
    ASSUME NEW q \in Seq(News), NEW R, NEW L, NEW M, NEW n \in Node, NEW b \in BOOLEAN,
           Shows(q, R, L), n \in M <=> b = TRUE, \A m \in Node \ {n} : m \in M <=> m \in L
    PROVE  Shows(Append(q, [node |-> n, present |-> b]), R, M)
<1> DEFINE f == [node |-> n, present |-> b]
           r == Append(q, f)
<1>1. Len(r) = Len(q) + 1 /\ r[Len(q) + 1] = f /\ \A i \in 1..Len(q) : r[i] = q[i]
  BY DEF News, Key
<1>2. Len(q) \in Nat /\ f.node = n /\ f.present = b
  OBVIOUS
<1> HIDE DEF f, r
<1> SUFFICES ASSUME NEW m \in Node
             PROVE  /\ (\A i \in 1..Len(r) : r[i].node # m) => (m \in R <=> m \in M)
                    /\ \A i \in 1..Len(r) :
                          r[i].node = m /\ (\A j \in (i + 1)..Len(r) : r[j].node # m)
                              => (r[i].present = TRUE <=> m \in M)
  BY DEF Shows, f, r
<1>3. CASE m = n
  <2>1. \A i \in 1..Len(q) : Len(q) + 1 \in (i + 1)..Len(r)
    BY <1>1, <1>2
  <2>2. QED
    BY <1>1, <1>2, <1>3, <2>1
<1>4. CASE m # n
  <2>1. m \in M <=> m \in L
    BY <1>4
  <2>2. (\A i \in 1..Len(r) : r[i].node # m) => (\A i \in 1..Len(q) : q[i].node # m)
    BY <1>1, <1>2
  <2>3. ASSUME NEW i \in 1..Len(r), r[i].node = m,
               \A j \in (i + 1)..Len(r) : r[j].node # m
        PROVE  /\ i \in 1..Len(q) /\ r[i] = q[i]
               /\ \A j \in (i + 1)..Len(q) : q[j].node # m
    BY <1>1, <1>2, <1>4, <2>3
  <2>4. QED
    BY <2>1, <2>2, <2>3 DEF Shows
<1>5. QED
  BY <1>3, <1>4, Zenon

\* So does reading a frame (mesh::run).
LEMMA ShowsTail ==
    ASSUME NEW q \in Seq(News), q # <<>>, NEW R, NEW L, Shows(q, R, L)
    PROVE  Shows(Tail(q), IF Head(q).present THEN R \cup {Head(q).node}
                          ELSE R \ {Head(q).node}, L)
<1> DEFINE f == Head(q)
           r == Tail(q)
           Q == IF f.present THEN R \cup {f.node} ELSE R \ {f.node}
<1>1. /\ Len(q) \in Nat \ {0} /\ Len(r) = Len(q) - 1 /\ f = q[1]
      /\ \A i \in 1..Len(r) : r[i] = q[i + 1]
  OBVIOUS
<1>2. f.present \in BOOLEAN
  <2>1. f \in News
    OBVIOUS
  <2>2. QED
    BY <2>1 DEF News
<1>3. \A m : m \in Q <=> IF m = f.node THEN f.present = TRUE ELSE m \in R
  BY <1>2
<1> HIDE DEF f, r, Q
<1> SUFFICES ASSUME NEW m \in Node
             PROVE  /\ (\A i \in 1..Len(r) : r[i].node # m) => (m \in Q <=> m \in L)
                    /\ \A i \in 1..Len(r) :
                          r[i].node = m /\ (\A j \in (i + 1)..Len(r) : r[j].node # m)
                              => (r[i].present = TRUE <=> m \in L)
  BY Zenon DEF Shows, f, r, Q
<1>4. \A i \in 2..Len(q) : i - 1 \in 1..Len(r) /\ q[i] = r[i - 1]
  BY <1>1
<1>5. ASSUME \A i \in 1..Len(r) : r[i].node # m PROVE m \in Q <=> m \in L
  <2>1. \A i \in 2..Len(q) : q[i].node # m
    BY <1>4, <1>5
  <2>2. CASE f.node = m
    <3>1. 1 \in 1..Len(q) /\ q[1].node = m /\ \A j \in (1 + 1)..Len(q) : q[j].node # m
      BY <1>1, <2>1, <2>2
    <3>2. q[1].present = TRUE <=> m \in L
      BY <3>1 DEF Shows
    <3>3. QED
      BY <1>1, <1>3, <2>2, <3>2
  <2>3. CASE f.node # m
    <3>1. \A i \in 1..Len(q) : q[i].node # m
      BY <1>1, <2>1, <2>3
    <3>2. QED
      BY <1>3, <2>3, <3>1 DEF Shows
  <2>4. QED
    BY <2>2, <2>3
<1>6. ASSUME NEW i \in 1..Len(r), r[i].node = m, \A j \in (i + 1)..Len(r) : r[j].node # m
      PROVE  r[i].present = TRUE <=> m \in L
  <2>1. i + 1 \in 1..Len(q) /\ q[i + 1] = r[i]
    BY <1>1
  <2>2. \A j \in ((i + 1) + 1)..Len(q) : q[j].node # m
    <3> SUFFICES ASSUME NEW j \in ((i + 1) + 1)..Len(q) PROVE q[j].node # m
      OBVIOUS
    <3>1. j \in 2..Len(q) /\ j - 1 \in (i + 1)..Len(r)
      BY <1>1
    <3>2. QED
      BY <1>4, <1>6, <3>1
  <2>3. QED
    BY <1>6, <2>1, <2>2 DEF Shows
<1>7. QED
  BY <1>5, <1>6, Zenon

\* A snapshot of all nodes tells a mesh client without routes what there is (watch).
LEMMA ShowsSnapshot ==
    ASSUME NEW q \in Seq(News), NEW S, \A i \in 1..Len(q) : q[i].present = TRUE,
           \A i \in 1..Len(q) : q[i].node \in S,
           \A n \in S : \E i \in 1..Len(q) : q[i].node = n
    PROVE  Shows(q, {}, S)
BY DEF Shows

\* As many different elements of a finite set as it has are all of them.
LEMMA AllOfThem ==
    ASSUME NEW S, IsFiniteSet(S), NEW order \in [1..Cardinality(S) -> S],
           \A i, j \in 1..Cardinality(S) : order[i] = order[j] => i = j
    PROVE  \A x \in S : \E i \in 1..Cardinality(S) : order[i] = x
<1> DEFINE c == Cardinality(S)
<1>1. c \in Nat /\ Cardinality(1..c) = c
  BY FS_CardinalityType, FS_Interval
<1>2. order \in Injection(1..c, S)
  BY DEF Injection, IsInjective
<1>3. order \in Surjection(1..c, S)
  BY <1>1, <1>2, FS_Injection
<1>4. QED
  BY <1>3 DEF Surjection

\* The snapshot that watch queues, all of it, says what there is.
LEMMA SnapshotShows ==
    ASSUME NEW S \in SUBSET Key, NEW order \in [1..Cardinality(S) -> S],
           \A i, j \in 1..Cardinality(S) : order[i] = order[j] => i = j,
           NEW q, q = [i \in 1..Cardinality(S) |-> [node |-> order[i], present |-> TRUE]]
    PROVE  Shows(q, {}, S)
<1> DEFINE c == Cardinality(S)
           d == [i \in 1..c |-> [node |-> order[i], present |-> TRUE]]
<1>1. IsFiniteSet(S) /\ c \in Nat
  BY FiniteKeys, FS_Subset, FS_CardinalityType
<1>2. \A x \in S : \E i \in 1..c : order[i] = x
  BY <1>1, AllOfThem
<1>3. q = d
  OBVIOUS
<1> HIDE DEF c
<1>4. \A i \in 1..c : order[i] \in S /\ order[i] \in Key
  BY DEF c
<1>5. d \in Seq(News) /\ Len(d) = c
  <2>1. \A i \in 1..c : [node |-> order[i], present |-> TRUE] \in News
    BY <1>4 DEF News
  <2>2. QED
    BY <1>1, <2>1
<1>6. \A i \in 1..c : d[i].present = TRUE /\ d[i].node = order[i]
  OBVIOUS
<1> HIDE DEF d
<1>7. \A i \in 1..Len(d) : d[i].present = TRUE /\ d[i].node \in S
  BY <1>4, <1>5, <1>6
<1>8. \A n \in S : \E i \in 1..Len(d) : d[i].node = n
  BY <1>2, <1>5, <1>6
<1>9. QED
  BY <1>3, <1>5, <1>7, <1>8, ShowsSnapshot, Zenon

-----------------------------------------------------------------------------
(* Routes *)

\* What the mesh client of s knows and has still to read, against the other server.
View(s) ==
    /\ link[s] /\ ~short[s] => Shows(news[s], routes[s], local[Other(s)])
    /\ ~link[s] => news[s] = <<>> /\ routes[s] = {}

\* The node a server's only worker is about to answer NotHere for is not there yet.
StillMissing ==
    \A o \in Server : missed[o] # NoPacket => dst[missed[o]] \notin local[o]

RouteInv == PacketInv /\ (workers = 1 => StillMissing /\ \A s \in Server : View(s))

\* A frame about a node of the other server keeps the view of it.
LEMMA TellKeepsView ==
    ASSUME PairTypeOK, NEW s \in Server, NEW n \in Node, NEW b \in BOOLEAN,
           View(s), Tell(s, n, b), routes' = routes, link' = link,
           n \in local'[Other(s)] <=> b = TRUE,
           \A m \in Node \ {n} : m \in local'[Other(s)] <=> m \in local[Other(s)]
    PROVE  View(s)'
<1>1. /\ news \in [Server -> Seq(News)] /\ short \in [Server -> BOOLEAN]
      /\ link[s] \in BOOLEAN
  BY DEF PairTypeOK
<1>2. CASE link[s] /\ HasRoom(s)
  <2>1. news'[s] = Append(news[s], [node |-> n, present |-> b]) /\ short' = short
    BY <1>1, <1>2 DEF Tell
  <2>2. ASSUME ~short[s] PROVE Shows(news'[s], routes[s], local'[Other(s)])
    <3>1. Shows(news[s], routes[s], local[Other(s)]) /\ news[s] \in Seq(News)
      BY <1>1, <1>2, <2>2 DEF View
    <3>2. QED
      BY <2>1, <3>1, ShowsAppend, Zenon
  <2>3. QED
    BY <1>2, <2>1, <2>2, Zenon DEF View
<1>3. CASE link[s] /\ ~HasRoom(s)
  <2>1. short'[s] = TRUE
    BY <1>1, <1>3, Zenon DEF Tell
  <2>2. QED
    BY <1>3, <2>1, Zenon DEF View
<1>4. CASE ~link[s]
  BY <1>4 DEF Tell, View
<1>5. QED
  BY <1>1, <1>2, <1>3, <1>4

\* What a frame for one mesh client leaves of the other's.
LEMMA TellsOne ==
    ASSUME PairTypeOK, NEW s \in Server, NEW n, NEW b, Tell(s, n, b),
           NEW t \in Server, t # s
    PROVE  news'[t] = news[t] /\ short'[t] = short[t]
BY DEF Tell, PairTypeOK

\* Every step keeps the routes and the news about them.
LEMMA RouteStep == RouteInv /\ [PairNext]_pairVars => RouteInv'
<1> SUFFICES ASSUME RouteInv, [PairNext]_pairVars, workers = 1
             PROVE  StillMissing' /\ \A s \in Server : View(s)'
  <2>1. ASSUME [PairNext]_pairVars PROVE workers' = workers
    BY <2>1, Zenon DEF PairNext, pairVars, Connect, Break, ReadNews, Arrive, Answer, Join, Leave, Send
  <2>2. QED
    BY <2>1, PacketStep DEF RouteInv
<1>0. PairTypeOK /\ PacketInv /\ StillMissing /\ \A s \in Server : View(s)
  BY DEF RouteInv, PacketInv
<1>1. ASSUME UNCHANGED <<local, link, news, short, routes>>
      PROVE  \A s \in Server : View(s)'
  BY <1>0, <1>1 DEF View
<1>2. ASSUME UNCHANGED pairVars PROVE StillMissing' /\ \A s \in Server : View(s)'
  BY <1>0, <1>1, <1>2, Zenon DEF pairVars, packets, StillMissing
<1>3. ASSUME NEW s \in Server, NEW n \in Node, Join(s, n)
      PROVE  StillMissing' /\ \A t \in Server : View(t)'
  <2>0. /\ Other(s) \in Server /\ Other(s) # s /\ Other(Other(s)) = s
        /\ \A t \in Server : t = s \/ t = Other(s)
    BY TwoServers
  <2>1. /\ local' = [local EXCEPT ![s] = @ \cup {n}] /\ local \in [Server -> SUBSET Key]
        /\ Tell(Other(s), n, TRUE)
        /\ missed' = missed /\ dst' = dst /\ routes' = routes /\ link' = link
    BY <1>0, <1>3, Zenon DEF Join, packets, PairTypeOK
  <2>2. StillMissing'
    <3>1. missed[s] = NoPacket
      BY <1>3 DEF Join, Free
    <3>2. QED
      BY <1>0, <2>1, <3>1 DEF StillMissing
  <2>3. View(Other(s))'
    BY <2>0, <1>0, <2>1, TellKeepsView, Zenon
  <2>4. View(s)'
    <3>1. news'[s] = news[s] /\ short'[s] = short[s] /\ local'[Other(s)] = local[Other(s)]
      BY <2>0, <1>0, <2>1, TellsOne, Zenon
    <3>2. QED
      BY <1>0, <2>1, <3>1, Zenon DEF View
  <2>5. QED
    BY <2>0, <2>2, <2>3, <2>4
<1>4. ASSUME NEW s \in Server, NEW n \in Node, Leave(s, n)
      PROVE  StillMissing' /\ \A t \in Server : View(t)'
  <2>0. /\ Other(s) \in Server /\ Other(s) # s /\ Other(Other(s)) = s
        /\ \A t \in Server : t = s \/ t = Other(s)
    BY TwoServers
  <2>1. /\ local' = [local EXCEPT ![s] = @ \ {n}] /\ local \in [Server -> SUBSET Key]
        /\ Tell(Other(s), n, FALSE)
        /\ missed' = missed /\ dst' = dst /\ routes' = routes /\ link' = link
    BY <1>0, <1>4, Zenon DEF Leave, packets, PairTypeOK
  <2>2. StillMissing'
    BY <2>0, <1>0, <2>1, Zenon DEF StillMissing
  <2>3. View(Other(s))'
    BY <2>0, <1>0, <2>1, TellKeepsView, Zenon
  <2>4. View(s)'
    <3>1. news'[s] = news[s] /\ short'[s] = short[s] /\ local'[Other(s)] = local[Other(s)]
      BY <2>0, <1>0, <2>1, TellsOne, Zenon
    <3>2. QED
      BY <1>0, <2>1, <3>1 DEF View
  <2>5. QED
    BY <2>0, <2>2, <2>3, <2>4
<1>5. ASSUME NEW s \in Server, Answer(s)
      PROVE  StillMissing' /\ \A t \in Server : View(t)'
  <2>0. /\ Other(s) \in Server /\ Other(s) # s /\ Other(Other(s)) = s
        /\ \A t \in Server : t = s \/ t = Other(s)
    BY TwoServers
  <2> DEFINE p == missed[s]
  <2>1. /\ p # NoPacket /\ dst[p] \in Node /\ dst[p] \notin local[s]
        /\ missed' = [missed EXCEPT ![s] = NoPacket] /\ missed \in [Server -> Packet \cup {NoPacket}]
        /\ dst' = dst /\ routes' = routes /\ link' = link /\ local' = local
    <3>1. /\ p # NoPacket /\ missed' = [missed EXCEPT ![s] = NoPacket]
          /\ dst' = dst /\ routes' = routes /\ link' = link /\ local' = local
      BY <1>5 DEF Answer
    <3>2. missed \in [Server -> Packet \cup {NoPacket}]
      BY <1>0 DEF PairTypeOK
    <3>3. p \in Packet /\ place[p] = "missed"
      BY <1>0, <3>1, <3>2 DEF PacketInv, Missed
    <3>4. dst[p] \in Node
      BY <1>0, <3>3 DEF PacketInv, Sent
    <3>5. dst[p] \notin local[s]
      BY <1>0, <3>1 DEF StillMissing
    <3>6. QED
      BY <3>1, <3>2, <3>4, <3>5
  <2>2. StillMissing'
    BY <2>0, <1>0, <2>1 DEF StillMissing
  <2>3. CASE Tell(Other(s), dst[p], FALSE)
    <3>1. View(Other(s))'
      BY <2>0, <1>0, <2>1, <2>3, TellKeepsView, Zenon
    <3>2. View(s)'
      <4>1. news'[s] = news[s] /\ short'[s] = short[s]
        BY <2>0, <1>0, <2>3, TellsOne, Zenon
      <4>2. QED
        BY <1>0, <2>1, <4>1 DEF View
    <3>3. QED
      BY <2>0, <2>2, <3>1, <3>2
  <2>4. CASE UNCHANGED <<news, short>>
    BY <1>1, <2>1, <2>2, <2>4
  <2>5. QED
    BY <1>5, <2>3, <2>4, Zenon DEF Answer
<1>6. ASSUME NEW s \in Server, ReadNews(s)
      PROVE  StillMissing' /\ \A t \in Server : View(t)'
  <2> DEFINE f == Head(news[s])
             R == IF f.present THEN routes[s] \cup {f.node} ELSE routes[s] \ {f.node}
  <2>1. /\ link[s] /\ news[s] # <<>> /\ news[s] \in Seq(News)
        /\ news' = [news EXCEPT ![s] = Tail(@)] /\ news \in [Server -> Seq(News)]
        /\ routes' = [routes EXCEPT ![s] = R] /\ routes \in [Server -> SUBSET Key]
        /\ missed' = missed /\ dst' = dst /\ local' = local /\ link' = link /\ short' = short
    BY <1>0, <1>6, Zenon DEF ReadNews, packets, PairTypeOK
  <2>2. StillMissing'
    BY <1>0, <2>1, Zenon DEF StillMissing
  <2>3. View(s)'
    <3>1. news'[s] = Tail(news[s]) /\ routes'[s] = R
      BY <2>1, Zenon
    <3>2. ASSUME ~short[s] PROVE Shows(Tail(news[s]), R, local[Other(s)])
      <4>1. Shows(news[s], routes[s], local[Other(s)])
        BY <1>0, <2>1, <3>2 DEF View
      <4>2. QED
        BY <2>1, <4>1, ShowsTail, Zenon
    <3>3. QED
      BY <2>1, <3>1, <3>2, Zenon DEF View
  <2>4. ASSUME NEW t \in Server, t # s PROVE View(t)'
    <3>1. news'[t] = news[t] /\ routes'[t] = routes[t]
      BY <2>1, <2>4, Zenon
    <3>2. QED
      BY <1>0, <2>1, <3>1, Zenon DEF View
  <2>5. QED
    BY <2>2, <2>3, <2>4
<1>7. ASSUME NEW s \in Server, NEW n \in Node, NEW p \in Packet, Send(s, p, n)
      PROVE  StillMissing' /\ \A t \in Server : View(t)'
  <2>1. /\ place[p] = "unsent" /\ dst' = [dst EXCEPT ![p] = n] /\ missed' = missed
        /\ local' = local /\ dst \in [Packet -> Node \cup {NoNode}]
        /\ missed \in [Server -> Packet \cup {NoPacket}]
    BY <1>0, <1>7 DEF Send, PairTypeOK
  <2>2. StillMissing'
    <3>1. \A o \in Server : missed[o] # NoPacket => missed[o] # p /\ missed[o] \in Packet
      BY <1>0, <2>1 DEF PacketInv, Missed
    <3>2. QED
      BY <1>0, <2>1, <3>1 DEF StillMissing
  <2>3. QED
    BY <1>1, <1>7, <2>2 DEF Send
<1>8. ASSUME NEW s \in Server, Arrive(s)
      PROVE  StillMissing' /\ \A t \in Server : View(t)'
  <2> DEFINE p == Head(out[s])
             o == Other(s)
  <2>1. PICK where \in Outcomes(o, dst[p], TRUE) :
           missed' = [missed EXCEPT ![o] = IF where = "missed" THEN p ELSE NoPacket]
    BY <1>8, Zenon DEF Arrive
  <2>2. where = "missed" => dst[p] \notin local[o]
    BY <2>1, Zenon DEF Outcomes
  <2>3. dst' = dst /\ local' = local /\ missed \in [Server -> Packet \cup {NoPacket}]
    BY <1>0, <1>8 DEF Arrive, PairTypeOK
  <2> HIDE DEF p, o
  <2>4. StillMissing'
    BY <1>0, <2>1, <2>2, <2>3 DEF StillMissing
  <2>5. QED
    BY <1>1, <1>8, <2>4 DEF Arrive
<1>9. ASSUME NEW s \in Server, Break(s)
      PROVE  StillMissing' /\ \A t \in Server : View(t)'
  <2>0. /\ Other(s) \in Server /\ Other(s) # s /\ Other(Other(s)) = s
        /\ \A t \in Server : t = s \/ t = Other(s)
    BY TwoServers
  <2>1. /\ local' = [local EXCEPT ![Other(s)] = @ \ {s}] /\ local \in [Server -> SUBSET Key]
        /\ link' = [link EXCEPT ![s] = FALSE] /\ link \in [Server -> BOOLEAN]
        /\ news' = [news EXCEPT ![s] = <<>>] /\ news \in [Server -> Seq(News)]
        /\ routes' = [routes EXCEPT ![s] = {}] /\ routes \in [Server -> SUBSET Key]
        /\ short' = [short EXCEPT ![s] = FALSE] /\ short \in [Server -> BOOLEAN]
        /\ missed' = missed /\ dst' = dst
    BY <1>0, <1>9 DEF Break, RemoveMesh, PairTypeOK
  <2>2. StillMissing'
    BY <2>0, <1>0, <2>1 DEF StillMissing
  <2>3. View(s)'
    BY <2>1 DEF View
  <2>4. View(Other(s))'
    <3> DEFINE t == Other(s)
    <3>1. /\ news'[t] = news[t] /\ routes'[t] = routes[t] /\ short'[t] = short[t]
          /\ link'[t] = link[t] /\ local'[Other(t)] = local[Other(t)]
      BY <2>0, <2>1
    <3>2. QED
      BY <1>0, <2>0, <3>1, Zenon DEF View
  <2>5. QED
    BY <2>0, <2>2, <2>3, <2>4
<1>10. ASSUME NEW s \in Server, Connect(s)
       PROVE  StillMissing' /\ \A t \in Server : View(t)'
  <2>0. /\ Other(s) \in Server /\ Other(s) # s /\ Other(Other(s)) = s
        /\ \A t \in Server : t = s \/ t = Other(s)
    BY TwoServers
  <2> DEFINE there == local[Other(s)] \cup {s}
             room == IF Cardinality(there) < Depth THEN Cardinality(there) ELSE Depth
  <2>1. /\ ~link[s] /\ missed[Other(s)] = NoPacket
        /\ link' = [link EXCEPT ![s] = TRUE] /\ link \in [Server -> BOOLEAN]
        /\ local' = [local EXCEPT ![Other(s)] = there] /\ local \in [Server -> SUBSET Key]
        /\ short' = [short EXCEPT ![s] = Cardinality(there) > Depth]
        /\ short \in [Server -> BOOLEAN] /\ news \in [Server -> Seq(News)]
        /\ missed' = missed /\ dst' = dst /\ routes' = routes
    <3>1. missed[Other(s)] = NoPacket
      <4>1. Free(Other(s))
        BY <1>10 DEF Connect
      <4>2. QED
        BY <4>1 DEF Free
    <3>2. /\ ~link[s] /\ link' = [link EXCEPT ![s] = TRUE]
          /\ local' = [local EXCEPT ![Other(s)] = there]
          /\ short' = [short EXCEPT ![s] = Cardinality(there) > Depth]
          /\ missed' = missed /\ dst' = dst /\ routes' = routes
      BY <1>10 DEF Connect, packets
    <3>3. QED
      BY <1>0, <3>1, <3>2 DEF PairTypeOK
  <2>2. PICK order \in [1..room -> there] :
           /\ \A i, j \in 1..room : order[i] = order[j] => i = j
           /\ news' = [news EXCEPT ![s] = [i \in 1..room |-> [node |-> order[i], present |-> TRUE]]]
    BY <1>10, Zenon DEF Connect
  <2>3. StillMissing'
    BY <2>0, <1>0, <2>1, Zenon DEF StillMissing
  <2>4. View(Other(s))'
    <3> DEFINE t == Other(s)
    <3>1. /\ news'[t] = news[t] /\ routes'[t] = routes[t] /\ short'[t] = short[t]
          /\ link'[t] = link[t] /\ local'[Other(t)] = local[Other(t)]
      <4>1. t # s /\ Other(t) = s /\ t \in Server
        BY <2>0
      <4>2. news'[t] = news[t]
        BY <2>1, <2>2, <4>1
      <4>3. QED
        BY <2>1, <4>1, <4>2, Zenon
    <3>2. QED
      BY <1>0, <2>0, <3>1, Zenon DEF View
  <2>5. View(s)'
    <3>1. routes'[s] = {} /\ link'[s] /\ local'[Other(s)] = there
      BY <2>0, <1>0, <2>1 DEF View
    <3>2. ASSUME ~short'[s] PROVE Shows(news'[s], {}, there)
      <4>1. there \in SUBSET Key /\ ~(Cardinality(there) > Depth)
        BY <2>0, <2>1, <3>2, Zenon DEF Key
      <4>2. Cardinality(there) \in Nat
        BY <4>1, FiniteKeys, FS_Subset, FS_CardinalityType
      <4>3. room = Cardinality(there)
        <5> HIDE DEF there
        <5> QED
          BY <4>1, <4>2, PairAssumption
      <4>4. news'[s] = [i \in 1..room |-> [node |-> order[i], present |-> TRUE]]
        BY <2>1, <2>2
      <4> HIDE DEF there, room
      <4>5. /\ order \in [1..Cardinality(there) -> there]
            /\ \A i, j \in 1..Cardinality(there) : order[i] = order[j] => i = j
            /\ news'[s] = [i \in 1..Cardinality(there) |-> [node |-> order[i], present |-> TRUE]]
        BY <2>2, <4>3, <4>4
      <4>6. QED
        BY <4>1, <4>5, SnapshotShows, Zenon
    <3>3. QED
      BY <3>1, <3>2, Zenon DEF View
  <2>6. QED
    BY <2>0, <2>3, <2>4, <2>5
<1>11. QED
  BY <1>2, <1>3, <1>4, <1>5, <1>6, <1>7, <1>8, <1>9, <1>10 DEF PairNext

\* For any nodes and queue depth, with one worker thread: a mesh client that has read all
\* it was told, no frame of it dropped, has the routes to the nodes of the other server
\* and no others (mesh::run, watch, broadcast_presence, send_peer_not_here).
THEOREM PairRoutesFollow == PairSpec => []RoutesFollow
<1>1. PairInit => RouteInv
  <2> SUFFICES ASSUME PairInit PROVE RouteInv
    OBVIOUS
  <2>1. StillMissing /\ \A s \in Server : View(s)
    BY DEF PairInit, StillMissing, View
  <2>2. QED
    BY <2>1, PacketStart DEF RouteInv
<1>2. RouteInv => RoutesFollow
  <2> SUFFICES ASSUME RouteInv, workers = 1, NEW s \in Server, UpToDate(s), ~short[s]
               PROVE  Nodes(routes[s]) = Nodes(local[Other(s)])
    BY DEF RoutesFollow
  <2>1. Shows(<<>>, routes[s], local[Other(s)])
    BY Zenon DEF RouteInv, View, UpToDate
  <2>2. \A n \in Node : n \in routes[s] <=> n \in local[Other(s)]
    <3>1. 1..Len(<<>>) = {}
      OBVIOUS
    <3>2. QED
      BY <2>1, <3>1 DEF Shows
  <2>3. QED
    BY <2>2, Zenon DEF Nodes
<1>3. QED
  BY <1>1, <1>2, RouteStep, PTL DEF PairSpec
=============================================================================
