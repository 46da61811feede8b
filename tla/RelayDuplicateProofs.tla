------------------------ MODULE RelayDuplicateProofs ------------------------
(***************************************************************************)
(* The duplicate flag of a session, which note_activity reads without the  *)
(* PeerSet mutex, agrees with the PeerSet: the proof for every number of   *)
(* workers.  Sets that a racing unregister took out of peers are covered.  *)
(***************************************************************************)
EXTENDS RelayProofs

\* A session is in one place of one PeerSet, from the time it joined; until then it
\* is nobody's duplicate.
OneSet ==
    /\ \A p, q \in Sid : \A i \in DOMAIN sessions[p], j \in DOMAIN sessions[q] :
          sessions[p][i] = sessions[q][j] => p = q /\ i = j
    /\ \A p \in Sid : \A i \in DOMAIN sessions[p] : pc[sessions[p][i]] \notin {"none", "join"}
    /\ \A s \in Sid : pc[s] \in {"none", "join"} => ~duplicate[s]

DInv == OneSet /\ DuplicateFlag

-----------------------------------------------------------------------------

\* The flag of the session at place i of set p.
LEMMA FlagAt ==
    DuplicateFlag <=> \A p \in Sid : \A i \in DOMAIN sessions[p] :
                          duplicate[sessions[p][i]] <=> Len(sessions[p]) > 1
BY DEF DuplicateFlag, Members

\* Removing a session keeps the others distinct, and never makes a set longer.
LEMMA WithoutDistinct ==
    ASSUME NEW q \in Seq(Sid), NEW s \in Sid,
           \A i, j \in DOMAIN q : q[i] = q[j] => i = j
    PROVE  /\ \A i, j \in DOMAIN Without(q, s) : Without(q, s)[i] = Without(q, s)[j] => i = j
           /\ Len(Without(q, s)) <= Len(q)
<1>1. CASE \E i \in DOMAIN q : q[i] = s
  <2> DEFINE at == CHOOSE i \in DOMAIN q : q[i] = s
             r == [j \in 1..(Len(q) - 1) |-> IF j < at THEN q[j] ELSE q[j + 1]]
  <2>1. at \in 1..Len(q)
    BY <1>1
  <2>2. Without(q, s) = r
    BY <1>1 DEF Without
  <2>3. Len(q) - 1 \in Nat
    BY <2>1
  <2>4. Len(r) = Len(q) - 1 /\ DOMAIN r = 1..(Len(q) - 1)
    <3>1. \A j \in 1..(Len(q) - 1) : r[j] \in Sid
      <4> SUFFICES ASSUME NEW j \in 1..(Len(q) - 1) PROVE r[j] \in Sid
        OBVIOUS
      <4>1. q[j] \in Sid /\ q[j + 1] \in Sid
        BY <2>3
      <4> QED BY <4>1
    <3> QED BY <2>3, <3>1
  <2> HIDE DEF at
  <2>5. ASSUME NEW i \in DOMAIN r, NEW j \in DOMAIN r, r[i] = r[j] PROVE i = j
    <3>1. i \in 1..(Len(q) - 1) /\ j \in 1..(Len(q) - 1)
      BY <2>4
    <3> DEFINE from(n) == IF n < at THEN n ELSE n + 1
    <3>2. from(i) \in DOMAIN q /\ from(j) \in DOMAIN q
      BY <2>1, <3>1
    <3>3. r[i] = q[from(i)] /\ r[j] = q[from(j)]
      BY <3>1
    <3>4. from(i) = from(j)
      BY <2>5, <3>2, <3>3
    <3> QED BY <2>1, <3>1, <3>4
  <2> QED BY <2>2, <2>3, <2>4, <2>5
<1>2. CASE ~ \E i \in DOMAIN q : q[i] = s
  BY <1>2 DEF Without
<1> QED BY <1>1, <1>2

\* A step that leaves sets and flags alone, and takes no task back to before its join.
LEMMA KeepSets ==
    ASSUME TaskOK, RegistryOK, DInv, UNCHANGED <<sessions, duplicate>>,
           \A t \in Sid : pc'[t] \in {"none", "join"} => pc[t] \in {"none", "join"}
    PROVE  DInv'
<1>1. \A p \in Sid : \A i \in DOMAIN sessions[p] : sessions[p][i] \in Sid
  BY DEF RegistryOK
<1>2. OneSet'
  BY <1>1 DEF DInv, OneSet
<1>3. DuplicateFlag'
  BY DEF DInv, DuplicateFlag, Members
<1> QED BY <1>2, <1>3 DEF DInv

\* Joining: all members become duplicates of each other, or the new one is alone.
LEMMA JoinFlags ==
    ASSUME TInv, DInv, NEW s \in Sid, RegisterJoin(s)
    PROVE  DInv'
<1> DEFINE p == set[s]
           joined == Append(sessions[p], s)
           in == {joined[i] : i \in DOMAIN joined}
<1>0. TaskOK /\ RegistryOK /\ HandleOK /\ Located
  BY DEF TInv, TypeOK
<1>1. p \in Sid /\ sessions[p] \in Seq(Sid)
  BY <1>0 DEF Located, RegistryOK, RegisterJoin
<1>2. /\ joined \in Seq(Sid) /\ Len(joined) = Len(sessions[p]) + 1
      /\ DOMAIN joined = 1..(Len(sessions[p]) + 1)
      /\ \A i \in DOMAIN joined : i \in DOMAIN sessions[p] => joined[i] = sessions[p][i]
      /\ \A i \in DOMAIN joined : i \notin DOMAIN sessions[p] => joined[i] = s /\ i = Len(joined)
      /\ Len(joined) > 1 <=> sessions[p] # <<>>
  BY <1>1
<1>3. /\ pc[s] = "join" /\ pc' = [pc EXCEPT ![s] = "announce"]
      /\ sessions' = [sessions EXCEPT ![p] = joined]
      /\ duplicate' = IF Len(joined) > 1 THEN [t \in Sid |-> t \in in \/ duplicate[t]] ELSE duplicate
  BY DEF RegisterJoin, Goto, Duplicates
<1>4. \A q \in Sid : \A i \in DOMAIN sessions[q] : sessions[q][i] \in Sid /\ sessions[q][i] # s
  BY <1>0, <1>3 DEF RegistryOK, DInv, OneSet
<1>5. ~duplicate[s]
  BY <1>3 DEF DInv, OneSet
<1> HIDE DEF joined, in
<1>6. \A q \in Sid : sessions'[q] = IF q = p THEN joined ELSE sessions[q]
  BY <1>0, <1>3 DEF RegistryOK
<1>7. pc'[s] = "announce" /\ \A t \in Sid : t # s => pc'[t] = pc[t]
  BY <1>0, <1>3 DEF TaskOK
<1>8. \A q \in Sid : \A i \in DOMAIN sessions'[q] :
         \/ i \in DOMAIN sessions[q] /\ sessions'[q][i] = sessions[q][i]
         \/ q = p /\ i = Len(joined) /\ sessions'[q][i] = s
  BY <1>2, <1>6
<1>9. OneSet'
  <2>1. ASSUME NEW q \in Sid, NEW r \in Sid,
               NEW i \in DOMAIN sessions'[q], NEW j \in DOMAIN sessions'[r],
               sessions'[q][i] = sessions'[r][j]
        PROVE  q = r /\ i = j
    BY <1>4, <1>8, <2>1 DEF DInv, OneSet
  <2>2. \A q \in Sid : \A i \in DOMAIN sessions'[q] : pc'[sessions'[q][i]] \notin {"none", "join"}
    BY <1>4, <1>7, <1>8 DEF DInv, OneSet
  <2>3. \A t \in Sid : pc'[t] \in {"none", "join"} => ~duplicate'[t]
    <3> SUFFICES ASSUME NEW t \in Sid, pc'[t] \in {"none", "join"} PROVE ~duplicate'[t]
      OBVIOUS
    <3>1. t # s /\ pc[t] \in {"none", "join"}
      BY <1>7
    <3>2. t \notin in
      BY <1>1, <1>2, <3>1 DEF DInv, OneSet, in
    <3>3. ~duplicate[t]
      BY <3>1 DEF DInv, OneSet
    <3> QED BY <1>3, <3>2, <3>3, Zenon
  <2> QED BY <2>1, <2>2, <2>3 DEF OneSet
<1>10. DuplicateFlag'
  <2> SUFFICES ASSUME NEW q \in Sid, NEW i \in DOMAIN sessions'[q]
               PROVE  duplicate'[sessions'[q][i]] <=> Len(sessions'[q]) > 1
    BY DEF DuplicateFlag, Members
  <2> DEFINE t == sessions'[q][i]
  <2>1. t \in Sid
    BY <1>4, <1>8
  <2>2. CASE q = p
    <3>1. sessions'[q] = joined /\ t \in in
      BY <1>6, <2>2 DEF in
    <3>2. CASE Len(joined) > 1
      BY <1>3, <2>1, <3>1, <3>2, Zenon
    <3>3. CASE ~(Len(joined) > 1)
      <4>1. sessions[p] = <<>>
        BY <1>2, <3>3
      <4>2. t = s
        BY <1>8, <2>2, <4>1
      <4> QED BY <1>3, <1>5, <3>1, <3>3, <4>2
    <3> QED BY <3>2, <3>3
  <2>3. CASE q # p
    <3>1. sessions'[q] = sessions[q] /\ i \in DOMAIN sessions[q] /\ t = sessions[q][i]
      BY <1>6, <2>3
    <3>2. t \notin in
      <4>1. t # s
        BY <1>4, <3>1
      <4>2. \A j \in DOMAIN sessions[p] : sessions[p][j] # t
        BY <1>1, <2>3, <3>1 DEF DInv, OneSet
      <4> QED BY <1>2, <4>1, <4>2 DEF in
    <3>3. duplicate'[t] = duplicate[t]
      BY <1>0, <1>3, <2>1, <3>2 DEF HandleOK
    <3>4. duplicate[t] <=> Len(sessions[q]) > 1
      BY <3>1, FlagAt DEF DInv
    <3> QED BY <3>1, <3>3, <3>4
  <2> QED BY <2>2, <2>3
<1> QED BY <1>9, <1>10 DEF DInv

\* Leaving: the flag is cleared on the one session that is left.
LEMMA RetainFlags ==
    ASSUME TInv, DInv, NEW s \in Sid, UnregisterRetain(s)
    PROVE  DInv'
<1> DEFINE p == set[s]
           kept == Without(sessions[p], s)
<1>0. TaskOK /\ RegistryOK /\ HandleOK /\ Located
  BY DEF TInv, TypeOK
<1>1. p \in Sid /\ sessions[p] \in Seq(Sid)
  BY <1>0 DEF Located, RegistryOK, UnregisterRetain
<1>2. /\ kept \in Seq(Sid)
      /\ \A i \in DOMAIN kept : \E j \in DOMAIN sessions[p] : kept[i] = sessions[p][j]
  BY <1>1, WithoutType, Zenon
<1>3. /\ \A i, j \in DOMAIN kept : kept[i] = kept[j] => i = j
      /\ Len(kept) <= Len(sessions[p])
  <2>1. \A i, j \in DOMAIN sessions[p] : sessions[p][i] = sessions[p][j] => i = j
    BY <1>1 DEF DInv, OneSet
  <2> QED BY <1>1, <2>1, WithoutDistinct
<1> HIDE DEF kept
<1>4. /\ sessions' = [sessions EXCEPT ![p] = kept]
      /\ duplicate' = duplicate \/ (Len(kept) = 1 /\ duplicate' = [duplicate EXCEPT ![kept[1]] = FALSE])
      /\ Len(kept) = 1 => duplicate' = [duplicate EXCEPT ![kept[1]] = FALSE]
  <2>1. Len(kept) = 1 => kept # <<>>
    <3>1. Len(<<>>) = 0
      OBVIOUS
    <3> QED BY <3>1
  <2> QED BY <2>1 DEF UnregisterRetain, Alone, kept
<1>5. pc' = [pc EXCEPT ![s] = "drop_peers"] \/ pc' = [pc EXCEPT ![s] = "uncount"]
  BY DEF UnregisterRetain, Goto
<1>6. \A q \in Sid : sessions'[q] = IF q = p THEN kept ELSE sessions[q]
  BY <1>0, <1>4 DEF RegistryOK
<1>7. \A t \in Sid : pc'[t] \in {"none", "join"} => pc[t] \in {"none", "join"}
  BY <1>0, <1>5 DEF TaskOK
<1>8. \A q \in Sid : \A i \in DOMAIN sessions'[q] :
          \E j \in DOMAIN sessions[q] : sessions'[q][i] = sessions[q][j]
  BY <1>2, <1>6
<1>9. \A q \in Sid : \A i \in DOMAIN sessions[q] : sessions[q][i] \in Sid
  BY <1>0 DEF RegistryOK
<1>10. OneSet'
  <2>1. ASSUME NEW q \in Sid, NEW r \in Sid,
               NEW i \in DOMAIN sessions'[q], NEW j \in DOMAIN sessions'[r],
               sessions'[q][i] = sessions'[r][j]
        PROVE  q = r /\ i = j
    <3>1. q = r
      <4>1. PICK a \in DOMAIN sessions[q] : sessions'[q][i] = sessions[q][a]
        BY <1>8
      <4>2. PICK b \in DOMAIN sessions[r] : sessions'[r][j] = sessions[r][b]
        BY <1>8
      <4>3. sessions[q][a] = sessions[r][b]
        BY <2>1, <4>1, <4>2, Zenon
      <4> HIDE <2>1
      <4> QED BY <4>3 DEF DInv, OneSet
    <3>2. CASE q = p
      BY <1>3, <1>6, <2>1, <3>1, <3>2
    <3>3. CASE q # p
      BY <1>6, <2>1, <3>1, <3>3 DEF DInv, OneSet
    <3> QED BY <3>1, <3>2, <3>3
  <2>2. ASSUME NEW q \in Sid, NEW i \in DOMAIN sessions'[q]
        PROVE  pc'[sessions'[q][i]] \notin {"none", "join"}
    <3>1. PICK j \in DOMAIN sessions[q] : sessions'[q][i] = sessions[q][j]
      BY <1>8
    <3> QED BY <1>7, <1>9, <3>1 DEF DInv, OneSet
  <2>3. ASSUME NEW t \in Sid, pc'[t] \in {"none", "join"} PROVE ~duplicate'[t]
    <3>1. ~duplicate[t]
      BY <1>7, <2>3 DEF DInv, OneSet
    <3> QED BY <1>0, <1>4, <3>1 DEF HandleOK
  <2> QED BY <2>1, <2>2, <2>3 DEF OneSet
<1>11. DuplicateFlag'
  <2> SUFFICES ASSUME NEW q \in Sid, NEW i \in DOMAIN sessions'[q]
               PROVE  duplicate'[sessions'[q][i]] <=> Len(sessions'[q]) > 1
    BY DEF DuplicateFlag, Members
  <2> DEFINE t == sessions'[q][i]
  <2>1. PICK j \in DOMAIN sessions[q] : t = sessions[q][j]
    BY <1>8
  <2>2. t \in Sid /\ (duplicate[t] <=> Len(sessions[q]) > 1)
    BY <1>9, <2>1, FlagAt DEF DInv
  <2> HIDE DEF t
  <2>3. CASE q = p /\ Len(kept) = 1
    <3>1. sessions'[q] = kept /\ i = 1
      <4>1. sessions'[q] = kept
        BY <1>6, <2>3
      <4>2. i \in 1..1
        BY <1>2, <2>3, <4>1
      <4> QED BY <4>1, <4>2
    <3>2. duplicate'[kept[1]] = FALSE
      <4>1. kept[1] \in Sid
        <5>1. 1 \in DOMAIN kept
          BY <1>2, <2>3
        <5> QED BY <1>2, <5>1
      <4> QED BY <1>0, <1>4, <2>3, <4>1 DEF HandleOK
    <3>3. sessions'[q][i] = kept[1]
      BY <3>1
    <3>4. Len(sessions'[q]) = 1
      BY <2>3, <3>1
    <3>5. ~(Len(sessions'[q]) > 1)
      BY <3>4
    <3> QED BY <3>2, <3>3, <3>5
  <2>4. CASE q = p /\ Len(kept) # 1
    <3>1. sessions'[q] = kept /\ duplicate' = duplicate
      BY <1>4, <1>6, <2>4
    <3>2. i \in 1..Len(kept) /\ Len(kept) \in Nat /\ Len(sessions[p]) \in Nat
      BY <1>1, <1>2, <3>1
    <3>3. Len(kept) > 1 /\ Len(sessions[p]) > 1
      <4>1. Len(kept) <= Len(sessions[p]) /\ Len(kept) # 1
        BY <1>3, <2>4
      <4>2. \A x, y \in Nat : \A z \in 1..x : x # 1 /\ x <= y => x > 1 /\ y > 1
        OBVIOUS
      <4> QED BY <3>2, <4>1, <4>2, Zenon
    <3> QED BY <2>2, <2>4, <3>1, <3>3 DEF t
  <2>5. CASE q # p
    <3>1. sessions'[q] = sessions[q]
      BY <1>6, <2>5
    <3>2. Len(kept) = 1 => kept[1] # t
      <4> SUFFICES ASSUME Len(kept) = 1 PROVE kept[1] # t
        OBVIOUS
      <4>1. 1 \in DOMAIN kept
        BY <1>2
      <4>2. PICK n \in DOMAIN sessions[p] : kept[1] = sessions[p][n]
        BY <1>2, <4>1
      <4> QED BY <1>1, <2>1, <2>5, <4>2 DEF DInv, OneSet
    <3>3. duplicate'[t] = duplicate[t]
      BY <1>0, <1>4, <2>2, <3>2 DEF HandleOK
    <3> QED BY <2>2, <3>1, <3>3 DEF t
  <2> QED BY <2>3, <2>4, <2>5
<1> QED BY <1>10, <1>11 DEF DInv

\* The next step keeps sets disjoint and flags right.
LEMMA FlagStep == TInv /\ DInv /\ [Next]_vars => DInv'
<1> SUFFICES ASSUME TInv, DInv, [Next]_vars PROVE DInv'
  OBVIOUS
<1>a. TaskOK /\ RegistryOK
  BY DEF TInv, TypeOK
<1> USE DEF Goto, locals, registry, handle, outbox, history, Await, BeginUnregister
<1>1. ASSUME NEW s \in Sid, NEW k \in Key, Register(s, k) PROVE DInv'
  <2>1. /\ UNCHANGED <<sessions, duplicate>>
        /\ \A t \in Sid : pc'[t] \in {"none", "join"} => pc[t] \in {"none", "join"}
    <3>1. pc[s] = "none"
      BY <1>a, <1>1 DEF TInv, TaskOK, Located, Register
    <3> QED BY <1>a, <1>1, <3>1 DEF TaskOK, Register
  <2> QED BY <1>a, <2>1, KeepSets
<1>2. ASSUME NEW s \in Sid, NEW f \in Inbound, ReadFrame(s, f) PROVE DInv'
  <2>1. /\ UNCHANGED <<sessions, duplicate>>
        /\ \A t \in Sid : pc'[t] \in {"none", "join"} => pc[t] \in {"none", "join"}
    BY <1>a, <1>2 DEF TaskOK, ReadFrame
  <2> QED BY <1>a, <2>1, KeepSets
<1>3. ASSUME NEW s \in Sid, RegisterAnnounce(s) PROVE DInv'
  <2>1. /\ UNCHANGED <<sessions, duplicate>>
        /\ \A t \in Sid : pc'[t] \in {"none", "join"} => pc[t] \in {"none", "join"}
    BY <1>a, <1>3 DEF TaskOK, RegisterAnnounce
  <2> QED BY <1>a, <2>1, KeepSets
<1>4. ASSUME NEW s \in Sid, RouteLookup(s) PROVE DInv'
  <2>1. /\ UNCHANGED <<sessions, duplicate>>
        /\ \A t \in Sid : pc'[t] \in {"none", "join"} => pc[t] \in {"none", "join"}
    BY <1>a, <1>4 DEF TaskOK, RouteLookup
  <2> QED BY <1>a, <2>1, KeepSets
<1>5. ASSUME NEW s \in Sid, RouteDeliver(s) PROVE DInv'
  <2>1. /\ UNCHANGED <<sessions, duplicate>>
        /\ \A t \in Sid : pc'[t] \in {"none", "join"} => pc[t] \in {"none", "join"}
    BY <1>a, <1>5 DEF TaskOK, RouteDeliver
  <2> QED BY <1>a, <2>1, KeepSets
<1>6. ASSUME NEW s \in Sid, RouteRecord(s) PROVE DInv'
  <2>1. /\ UNCHANGED <<sessions, duplicate>>
        /\ \A t \in Sid : pc'[t] \in {"none", "join"} => pc[t] \in {"none", "join"}
    BY <1>a, <1>6 DEF TaskOK, RouteRecord
  <2> QED BY <1>a, <2>1, KeepSets
<1>7. ASSUME NEW s \in Sid, RouteMiss(s) PROVE DInv'
  <2>1. /\ UNCHANGED <<sessions, duplicate>>
        /\ \A t \in Sid : pc'[t] \in {"none", "join"} => pc[t] \in {"none", "join"}
    BY <1>a, <1>7 DEF TaskOK, RouteMiss
  <2> QED BY <1>a, <2>1, KeepSets
<1>8. ASSUME NEW s \in Sid, WatchInsert(s) PROVE DInv'
  <2>1. /\ UNCHANGED <<sessions, duplicate>>
        /\ \A t \in Sid : pc'[t] \in {"none", "join"} => pc[t] \in {"none", "join"}
    BY <1>a, <1>8 DEF TaskOK, WatchInsert
  <2> QED BY <1>a, <2>1, KeepSets
<1>9. ASSUME NEW s \in Sid, WatchSnapshot(s) PROVE DInv'
  <2>1. /\ UNCHANGED <<sessions, duplicate>>
        /\ \A t \in Sid : pc'[t] \in {"none", "join"} => pc[t] \in {"none", "join"}
    BY <1>a, <1>9 DEF TaskOK, WatchSnapshot
  <2> QED BY <1>a, <2>1, KeepSets
<1>10. ASSUME NEW s \in Sid, ClosePeer(s) PROVE DInv'
  <2>1. /\ UNCHANGED <<sessions, duplicate>>
        /\ \A t \in Sid : pc'[t] \in {"none", "join"} => pc[t] \in {"none", "join"}
    BY <1>a, <1>10 DEF TaskOK, ClosePeer
  <2> QED BY <1>a, <2>1, KeepSets
<1>11. ASSUME NEW s \in Sid, Ping(s) PROVE DInv'
  <2>1. /\ UNCHANGED <<sessions, duplicate>>
        /\ \A t \in Sid : pc'[t] \in {"none", "join"} => pc[t] \in {"none", "join"}
    BY <1>a, <1>11 DEF TaskOK, Ping
  <2> QED BY <1>a, <2>1, KeepSets
<1>12. ASSUME NEW s \in Sid, NotePreferred(s) PROVE DInv'
  <2>1. /\ UNCHANGED <<sessions, duplicate>>
        /\ \A t \in Sid : pc'[t] \in {"none", "join"} => pc[t] \in {"none", "join"}
    BY <1>a, <1>12 DEF TaskOK, NotePreferred
  <2> QED BY <1>a, <2>1, KeepSets
<1>13. ASSUME NEW s \in Sid, Ignore(s) PROVE DInv'
  <2>1. /\ UNCHANGED <<sessions, duplicate>>
        /\ \A t \in Sid : pc'[t] \in {"none", "join"} => pc[t] \in {"none", "join"}
    BY <1>a, <1>13 DEF TaskOK, Ignore
  <2> QED BY <1>a, <2>1, KeepSets
<1>14. ASSUME NEW s \in Sid, Reject(s) PROVE DInv'
  <2>1. /\ UNCHANGED <<sessions, duplicate>>
        /\ \A t \in Sid : pc'[t] \in {"none", "join"} => pc[t] \in {"none", "join"}
    BY <1>a, <1>14 DEF TaskOK, Reject
  <2> QED BY <1>a, <2>1, KeepSets
<1>15. ASSUME NEW s \in Sid, UnregisterPeers(s) PROVE DInv'
  <2>1. /\ UNCHANGED <<sessions, duplicate>>
        /\ \A t \in Sid : pc'[t] \in {"none", "join"} => pc[t] \in {"none", "join"}
    BY <1>a, <1>15 DEF TaskOK, UnregisterPeers
  <2> QED BY <1>a, <2>1, KeepSets
<1>16. ASSUME NEW s \in Sid, UnregisterActive(s) PROVE DInv'
  <2>1. /\ UNCHANGED <<sessions, duplicate>>
        /\ \A t \in Sid : pc'[t] \in {"none", "join"} => pc[t] \in {"none", "join"}
    BY <1>a, <1>16 DEF TaskOK, UnregisterActive
  <2> QED BY <1>a, <2>1, KeepSets
<1>17. ASSUME NEW s \in Sid, UnregisterTellWatchers(s) PROVE DInv'
  <2>1. /\ UNCHANGED <<sessions, duplicate>>
        /\ \A t \in Sid : pc'[t] \in {"none", "join"} => pc[t] \in {"none", "join"}
    BY <1>a, <1>17 DEF TaskOK, UnregisterTellWatchers
  <2> QED BY <1>a, <2>1, KeepSets
<1>18. ASSUME NEW s \in Sid, UnregisterTellReceivers(s) PROVE DInv'
  <2>1. /\ UNCHANGED <<sessions, duplicate>>
        /\ \A t \in Sid : pc'[t] \in {"none", "join"} => pc[t] \in {"none", "join"}
    BY <1>a, <1>18 DEF TaskOK, UnregisterTellReceivers
  <2> QED BY <1>a, <2>1, KeepSets
<1>19. ASSUME NEW s \in Sid, UnregisterForget(s) PROVE DInv'
  <2>1. /\ UNCHANGED <<sessions, duplicate>>
        /\ \A t \in Sid : pc'[t] \in {"none", "join"} => pc[t] \in {"none", "join"}
    BY <1>a, <1>19 DEF TaskOK, UnregisterForget
  <2> QED BY <1>a, <2>1, KeepSets
<1>20. ASSUME NEW s \in Sid, UnregisterUncount(s) PROVE DInv'
  <2>1. /\ UNCHANGED <<sessions, duplicate>>
        /\ \A t \in Sid : pc'[t] \in {"none", "join"} => pc[t] \in {"none", "join"}
    BY <1>a, <1>20 DEF TaskOK, UnregisterUncount
  <2> QED BY <1>a, <2>1, KeepSets
<1>21. ASSUME NEW s \in Sid, Disconnect(s) PROVE DInv'
  <2>1. /\ UNCHANGED <<sessions, duplicate>>
        /\ \A t \in Sid : pc'[t] \in {"none", "join"} => pc[t] \in {"none", "join"}
    BY <1>a, <1>21, Zenon DEF TaskOK, Disconnect
  <2> QED BY <1>a, <2>1, KeepSets
<1>22. ASSUME NEW s \in Sid, CloseCheck(s) PROVE DInv'
  <2>1. /\ UNCHANGED <<sessions, duplicate>>
        /\ \A t \in Sid : pc'[t] \in {"none", "join"} => pc[t] \in {"none", "join"}
    BY <1>a, <1>22 DEF TaskOK, CloseCheck
  <2> QED BY <1>a, <2>1, KeepSets
<1>23. ASSUME NEW s \in Sid, Writer(s) PROVE DInv'
  <2>1. /\ UNCHANGED <<sessions, duplicate>>
        /\ \A t \in Sid : pc'[t] \in {"none", "join"} => pc[t] \in {"none", "join"}
    BY <1>a, <1>23 DEF TaskOK, Writer
  <2> QED BY <1>a, <2>1, KeepSets
<1>24. ASSUME NEW s \in Sid, Cancel(s) PROVE DInv'
  <2>1. /\ UNCHANGED <<sessions, duplicate>>
        /\ \A t \in Sid : pc'[t] \in {"none", "join"} => pc[t] \in {"none", "join"}
    BY <1>a, <1>24 DEF TaskOK, Cancel
  <2> QED BY <1>a, <2>1, KeepSets
<1>25. CASE BroadcastRestart
  <2>1. /\ UNCHANGED <<sessions, duplicate>>
        /\ \A t \in Sid : pc'[t] \in {"none", "join"} => pc[t] \in {"none", "join"}
    BY <1>a, <1>25 DEF TaskOK, BroadcastRestart
  <2> QED BY <1>a, <2>1, KeepSets
<1>26. CASE UNCHANGED vars
  BY <1>a, <1>26, KeepSets DEF vars
<1> QED
  BY <1>1, <1>2, <1>3, <1>4, <1>5, <1>6, <1>7, <1>8, <1>9, <1>10, <1>11, <1>12, <1>13, <1>14, <1>15, <1>16, <1>17, <1>18, <1>19, <1>20, <1>21, <1>22, <1>23, <1>24, <1>25, <1>26, JoinFlags, RetainFlags DEF Next, Method

\* In every PeerSet the duplicate flag of a member says whether the set has another
\* one, for all interleavings of register and unregister: note_activity skips the
\* mutex exactly when there is nothing to choose.
THEOREM FlagsAgree == Spec => []DuplicateFlag
<1>1. Init => DInv
  <2> SUFFICES ASSUME Init PROVE DInv
    OBVIOUS
  <2>1. \A p \in Sid : sessions[p] = <<>> /\ DOMAIN sessions[p] = {}
    BY DEF Init
  <2>2. OneSet
    BY <2>1 DEF Init, OneSet
  <2> QED BY <2>1, <2>2 DEF DInv, DuplicateFlag, Members
<1>2. DInv => DuplicateFlag
  BY DEF DInv
<1>3. Spec => [](TInv /\ DInv)
  BY <1>1, TypeInit, TypeStep, FlagStep, PTL DEF Spec
<1> QED BY <1>2, <1>3, PTL

=============================================================================
