--------------------------- MODULE KeyFileProofs ---------------------------
(***************************************************************************)
(* The identity of a server is stable, for any number of processes, keys   *)
(* and power losses.                                                       *)
(***************************************************************************)
EXTENDS KeyFile, TLAPS

\* How far the process that created the file has got, and what it therefore left.
Progress ==
    \A p \in Process :
        /\ pc[p] \in Writing \cup {"create"} => key[p] \in KeyId
        /\ pc[p] \in Writing => maker = key[p] /\ ~named
        /\ pc[p] = "write" => file = Short("empty")
        /\ pc[p] = "hex" => file = Short("prefix")
        /\ pc[p] = "sync" => file = Whole(key[p])

OneWriter == \A p, q \in Process : pc[p] \in Writing /\ pc[q] \in Writing => p = q

\* A key is generated once, and belongs to the start that made it until it is created.
Making == Writing \cup {"create"}
Fresh ==
    /\ \A k \in created : k <= generated
    /\ \A p \in Process : pc[p] \in Making => key[p] <= generated /\ key[p] \notin created
    /\ \A p, q \in Process : pc[p] \in Making /\ pc[q] \in Making /\ key[p] = key[q] => p = q

\* What was synced is still there, and what was created was synced.
Durable ==
    /\ saved.stage = "key" => file = saved
    /\ named => saved = file /\ file.stage # "absent"
    /\ maker \in created => saved = Whole(maker)

IInv == TypeOK /\ SameIdentity /\ Progress /\ OneWriter /\ Fresh /\ Durable

\* The contents a file can have differ in their stage, and whole ones in their key.
LEMMA Contents ==
    /\ \A k \in KeyId : Whole(k) \in Content /\ Whole(k).stage = "key" /\ Whole(k).key = k
    /\ \A s \in Stage : Short(s) \in Content /\ Short(s).stage = s /\ s # "key"
    /\ \A c \in Content : c.stage = "key" => c.key \in KeyId /\ c = Whole(c.key)
    /\ NoKey \notin KeyId
BY DEF Content, Whole, Short, Stage, KeyId, NoKey

\* A content as far as a whole key is a whole key.
LEMMA RankOfKey ==
    ASSUME NEW c \in Content, NEW d \in Content, d.stage = "key", Rank(d) <= Rank(c)
    PROVE  c.stage = "key"
<1>1. Rank(d) = 3
  BY DEF Rank
<1>2. c.stage # "key" => Rank(c) \in 0..2
  BY DEF Rank, Content, Stage
<1>3. QED
  BY <1>1, <1>2

\* The initial states satisfy the invariant.
LEMMA KeyInit == Init => IInv
<1>1. 0 \in 0..MaxKeys /\ 0 \in 0..MaxLosses
  BY KeyConstantsOK
<1>2. QED
  BY <1>1, Contents DEF Init, IInv, TypeOK, SameIdentity, Progress, OneWriter, Fresh,
     Making, Durable, Writing, Control, Stage

\* Every step of load_or_create, every crash and every power loss preserves it.
LEMMA KeyStep == IInv /\ [Next]_vars => IInv'
<1> SUFFICES ASSUME IInv, [Next]_vars PROVE IInv'
  OBVIOUS
<1> USE DEF Writing, Control, Stage
<1>t. TypeOK /\ SameIdentity /\ Progress /\ OneWriter /\ Fresh /\ Durable
  BY DEF IInv
<1>1. ASSUME NEW p \in Process, Load(p) PROVE IInv'
  <2>1. /\ UNCHANGED <<file, saved, named, generated, losses, maker, created>>
        /\ pc[p] = "stopped"
        /\ key' = [key EXCEPT ![p] = file.key]
        /\ pc' = [pc EXCEPT ![p] = IF file.stage = "key" THEN "running" ELSE "failed"]
    BY <1>1 DEF Load, Goto
  <2>2. file.key \in KeyId \cup {NoKey}
    BY <1>t DEF TypeOK, Content
  <2>3. TypeOK'
    BY <1>t, <2>1, <2>2 DEF TypeOK
  <2>4. file.stage = "key" => file = Whole(file.key)
    BY <1>t, Contents DEF TypeOK
  <2>5. SameIdentity'
    BY <1>t, <2>1, <2>4 DEF SameIdentity, TypeOK
  <2>6. Progress' /\ OneWriter' /\ Durable'
    BY <1>t, <2>1 DEF Progress, OneWriter, Durable, TypeOK
  <2>7. Fresh'
    BY <1>t, <2>1 DEF Fresh, Making, TypeOK
  <2>8. QED
    BY <2>3, <2>5, <2>6, <2>7 DEF IInv
<1>2. ASSUME NEW p \in Process, Generate(p) PROVE IInv'
  <2>1. /\ UNCHANGED <<file, saved, named, losses, maker, created>>
        /\ generated' = generated + 1 /\ generated < MaxKeys
        /\ key' = [key EXCEPT ![p] = generated + 1]
        /\ pc' = [pc EXCEPT ![p] = "create"]
        /\ pc[p] = "stopped"
    BY <1>2 DEF Generate, Goto
  <2>2. generated + 1 \in KeyId /\ generated + 1 \in 0..MaxKeys
    BY <1>t, <2>1, KeyConstantsOK DEF TypeOK, KeyId
  <2>3. TypeOK'
    BY <1>t, <2>1, <2>2 DEF TypeOK
  <2>4. SameIdentity' /\ Progress' /\ OneWriter' /\ Durable'
    BY <1>t, <2>1, <2>2 DEF SameIdentity, Progress, OneWriter, Durable, TypeOK
  <2>5. Fresh'
    <3>1. created \subseteq Nat /\ generated \in Nat /\ generated + 1 \notin created
      BY <1>t, KeyConstantsOK DEF Fresh, TypeOK, KeyId
    <3>2. \A q \in Process \ {p} : key'[q] = key[q] /\ pc'[q] = pc[q]
      BY <1>t, <2>1 DEF TypeOK
    <3>3. key'[p] = generated + 1
      BY <1>t, <2>1 DEF TypeOK
    <3>4. \A q \in Process : key[q] \in Nat
      BY <1>t, KeyConstantsOK DEF TypeOK, KeyId, NoKey
    <3>5. \A q \in Process \ {p} : pc[q] \in Making => key[q] <= generated
      BY <1>t DEF Fresh
    <3>6. \A k \in created' : k <= generated'
      BY <1>t, <2>1, <3>1 DEF Fresh
    <3>7. ASSUME NEW q \in Process, pc'[q] \in Making
          PROVE  key'[q] <= generated' /\ key'[q] \notin created'
      BY <1>t, <2>1, <3>1, <3>2, <3>3, <3>4, <3>5, <3>7 DEF Fresh
    <3>8. ASSUME NEW q \in Process, NEW r \in Process, pc'[q] \in Making, pc'[r] \in Making,
                 key'[q] = key'[r]
          PROVE  q = r
      <4>1. CASE q = p \/ r = p
        BY <3>1, <3>2, <3>3, <3>4, <3>5, <3>8, <4>1
      <4>2. CASE q # p /\ r # p
        BY <1>t, <3>2, <3>8, <4>2 DEF Fresh
      <4>3. QED
        BY <4>1, <4>2
    <3>9. QED
      BY <3>6, <3>7, <3>8 DEF Fresh
  <2>6. QED
    BY <2>3, <2>4, <2>5 DEF IInv
<1>3. ASSUME NEW p \in Process, Create(p) PROVE IInv'
  <2>1. UNCHANGED <<saved, named, key, generated, losses, created>> /\ pc[p] = "create"
    BY <1>3 DEF Create
  <2>2. CASE file.stage = "absent"
    <3>1. file' = Short("empty") /\ maker' = key[p] /\ pc' = [pc EXCEPT ![p] = "write"]
      BY <1>3, <2>2 DEF Create, Goto, MayCreate
    <3>2. TypeOK'
      BY <1>t, <2>1, <3>1, Contents DEF TypeOK
    <3>3. \A q \in Process : pc[q] \notin Writing \cup {"running"}
      BY <1>t, <2>2, Contents DEF SameIdentity, Progress, Whole, Short
    <3>4. ~named /\ saved.stage # "key"
      BY <1>t, <2>2 DEF Durable
    <3>5. SameIdentity' /\ Progress' /\ OneWriter'
      BY <1>t, <2>1, <3>1, <3>3, <3>4 DEF SameIdentity, Progress, OneWriter, TypeOK
    <3>6. Fresh'
      BY <1>t, <2>1, <3>1 DEF Fresh, Making, TypeOK
    <3>7. key[p] \notin created
      BY <1>t, <2>1 DEF Fresh, Making
    <3>8. Durable'
      BY <2>1, <3>1, <3>4, <3>7 DEF Durable
    <3>9. QED
      BY <3>2, <3>5, <3>6, <3>8 DEF IInv
  <2>3. CASE file.stage # "absent"
    <3>1. file' = file /\ maker' = maker /\ pc' = [pc EXCEPT ![p] = "failed"]
      BY <1>3, <2>3 DEF Create, Goto, MayCreate
    <3>2. TypeOK'
      BY <1>t, <2>1, <3>1 DEF TypeOK
    <3>3. SameIdentity' /\ Progress' /\ OneWriter' /\ Durable'
      BY <1>t, <2>1, <3>1 DEF SameIdentity, Progress, OneWriter, Durable, TypeOK
    <3>4. Fresh'
      BY <1>t, <2>1, <3>1 DEF Fresh, Making, TypeOK
    <3>5. QED
      BY <3>2, <3>3, <3>4 DEF IInv
  <2>4. QED
    BY <2>2, <2>3
<1>4. ASSUME NEW p \in Process, NEW done \in {"hex", "sync"},
             pc[p] \in {"write", "hex"}, pc' = [pc EXCEPT ![p] = done],
             file' = IF done = "hex" THEN Short("prefix") ELSE Whole(key[p]),
             UNCHANGED <<saved, named, key, generated, losses, maker, created>>
      PROVE  IInv'
  <2>1. file.stage # "key" /\ key[p] \in KeyId /\ ~named
    BY <1>t, <1>4, Contents DEF Progress, Short
  <2>2. \A q \in Process : pc[q] # "running" /\ (q # p => pc[q] \notin Writing)
    BY <1>t, <1>4, <2>1 DEF SameIdentity, OneWriter, Whole
  <2>3. TypeOK'
    BY <1>t, <1>4, <2>1, Contents DEF TypeOK
  <2>4. SameIdentity' /\ Progress' /\ OneWriter'
    BY <1>t, <1>4, <2>1, <2>2 DEF SameIdentity, Progress, OneWriter, TypeOK
  <2>5. Fresh'
    BY <1>t, <1>4 DEF Fresh, Making, TypeOK
  <2>6. Durable'
    BY <1>t, <1>4, <2>1 DEF Durable, Whole
  <2>7. QED
    BY <2>3, <2>4, <2>5, <2>6 DEF IInv
<1>5. ASSUME NEW p \in Process, WritePrefix(p) PROVE IInv'
  BY <1>4, <1>5 DEF WritePrefix, Goto
<1>6. ASSUME NEW p \in Process, WriteKey(p) PROVE IInv'
  BY <1>4, <1>6 DEF WriteKey, Goto
<1>7. ASSUME NEW p \in Process, Sync(p) PROVE IInv'
  <2>1. /\ UNCHANGED <<file, named, generated, losses, key, maker>>
        /\ pc[p] = "sync" /\ pc' = [pc EXCEPT ![p] = "running"]
        /\ saved' = file /\ created' = created \cup {key[p]}
    BY <1>7 DEF Sync, Goto, Synced
  <2>2. file = Whole(key[p]) /\ key[p] \in KeyId /\ maker = key[p] /\ ~named
    BY <1>t, <2>1 DEF Progress
  <2>3. TypeOK'
    BY <1>t, <2>1, <2>2 DEF TypeOK
  <2>4. SameIdentity' /\ Progress' /\ OneWriter'
    BY <1>t, <2>1, <2>2 DEF SameIdentity, Progress, OneWriter, TypeOK
  <2>5. Fresh'
    BY <1>t, <2>1 DEF Fresh, Making, TypeOK
  <2>6. Durable'
    BY <2>1, <2>2 DEF Durable
  <2>7. QED
    BY <2>3, <2>4, <2>5, <2>6 DEF IInv
<1>8. ASSUME NEW p \in Process, NEW label \in {"failed", "stopped"},
             pc' = [pc EXCEPT ![p] = label], key' \in {key, [key EXCEPT ![p] = NoKey]},
             UNCHANGED <<file, saved, named, generated, losses, maker, created>>
      PROVE  IInv'
  <2>1. TypeOK'
    BY <1>t, <1>8 DEF TypeOK
  <2>2. SameIdentity' /\ Progress' /\ OneWriter' /\ Durable'
    BY <1>t, <1>8 DEF SameIdentity, Progress, OneWriter, Durable, TypeOK
  <2>3. Fresh'
    BY <1>t, <1>8 DEF Fresh, Making, TypeOK
  <2>4. QED
    BY <2>1, <2>2, <2>3 DEF IInv
<1>9. ASSUME NEW p \in Process, WriteFails(p) \/ Stop(p) PROVE IInv'
  BY <1>8, <1>9 DEF WriteFails, Stop, Goto
<1>10. ASSUME PowerLoss PROVE IInv'
  <2>1. PICK c : /\ c \in {saved, file, Short("absent"), Short("empty"), Short("prefix")}
                 /\ Survives(c)
                 /\ file' = c /\ saved' = c
                 /\ named' = (c.stage # "absent")
                 /\ maker' = IF c.stage = "absent" THEN NoKey ELSE maker
    BY <1>10 DEF PowerLoss
  <2>2. /\ losses' = losses + 1 /\ losses < MaxLosses
        /\ pc' = [p \in Process |-> "stopped"] /\ key' = [p \in Process |-> NoKey]
        /\ generated' = generated /\ created' = created
    BY <1>10 DEF PowerLoss
  <2>3. c \in Content
    BY <1>t, <2>1, Contents DEF TypeOK
  <2>4. losses + 1 \in 0..MaxLosses
    BY <1>t, <2>2, KeyConstantsOK DEF TypeOK
  <2>5. TypeOK'
    BY <1>t, <2>1, <2>2, <2>3, <2>4 DEF TypeOK
  <2>6. SameIdentity' /\ Progress' /\ OneWriter'
    BY <2>2 DEF SameIdentity, Progress, OneWriter
  <2>7. Fresh'
    BY <1>t, <2>2 DEF Fresh, Making
  <2>8. ASSUME maker' \in created' PROVE c = Whole(maker')
    <3>1. maker' = maker /\ c.stage # "absent"
      BY <1>t, <2>1, <2>2, <2>8, Contents DEF TypeOK
    <3>2. saved = Whole(maker) /\ file = saved /\ maker \in KeyId
      BY <1>t, <2>2, <2>8, <3>1 DEF Durable, Whole, TypeOK
    <3>3. Rank(saved) <= Rank(c)
      BY <2>1, <3>1, Contents DEF Survives
    <3>4. c.stage = "key"
      BY <1>t, <2>3, <3>2, <3>3, RankOfKey, Contents DEF TypeOK
    <3>5. QED
      BY <2>1, <3>1, <3>2, <3>4, Contents
  <2>9. Durable'
    BY <2>1, <2>8 DEF Durable
  <2>10. QED
    BY <2>5, <2>6, <2>7, <2>9 DEF IInv
<1>11. CASE UNCHANGED vars
  BY <1>t, <1>11 DEF vars, IInv, TypeOK, SameIdentity, Progress, OneWriter, Fresh, Durable
<1>12. QED
  BY <1>1, <1>2, <1>3, <1>5, <1>6, <1>7, <1>9, <1>10, <1>11 DEF Next

\* However starts, crashes and power losses interleave in load_or_create, a server that
\* runs has the identity in the file, and a file whose creation returned is whole for as
\* long as it is there.  The name of the file is not taken to be durable.
THEOREM IdentityStable == Spec => [](SameIdentity /\ KeptWhole)
<1>1. IInv => SameIdentity /\ KeptWhole
  BY DEF IInv, Durable, KeptWhole, Whole
<1>2. QED
  BY KeyInit, KeyStep, <1>1, PTL DEF Spec

\* The system calls of load_or_create implement the promise of one lasting identity: each
\* maps to a step of Identity or to none.
THEOREM IdentityImplemented == Spec => KeepsPromise
<1>1. Init => Promise!IdentityInit
  BY DEF Init, Promise!IdentityInit, Short
<1>2. ASSUME IInv, [Next]_vars
      PROVE  Promise!IdentityNext \/ UNCHANGED Promise!identityVars
  <2> DEFINE Id == IF file.stage = "key" THEN file.key ELSE NoKey
             Kept == named /\ file.stage = "key"
             Up == {p \in Process : pc[p] = "running"}
  <2>t. TypeOK /\ SameIdentity /\ Progress /\ Durable
    BY <1>2 DEF IInv
  <2>s. ASSUME UNCHANGED <<Id, Kept, Up>> PROVE UNCHANGED Promise!identityVars
    BY <2>s DEF Promise!identityVars
  <2>q. ASSUME NEW p \in Process, Up' = Up \ {p}, UNCHANGED <<Id, Kept>>
        PROVE  Promise!IdentityNext
    BY <2>q DEF Promise!IdentityNext, Promise!Quit
  <2>v. ASSUME NEW p \in Process, Id # NoKey, Up' = Up \cup {p}, Id' = Id, Kept' = Kept
        PROVE  Promise!IdentityNext
    BY <2>v DEF Promise!IdentityNext, Promise!Serve
  <2>1. ASSUME NEW p \in Process, Load(p) PROVE Promise!IdentityNext \/ UNCHANGED Promise!identityVars
    <3>1. /\ file' = file /\ named' = named /\ pc[p] = "stopped"
          /\ pc' = [pc EXCEPT ![p] = IF file.stage = "key" THEN "running" ELSE "failed"]
      BY <2>1 DEF Load, Goto
    <3>2. CASE file.stage = "key"
      <4>1. Id # NoKey
        BY <2>t, <3>2, Contents DEF TypeOK
      <4>2. Up' = Up \cup {p}
        BY <2>t, <3>1, <3>2 DEF TypeOK
      <4>3. QED
        BY <2>v, <3>1, <4>1, <4>2
    <3>3. CASE file.stage # "key"
      <4>1. Up' = Up
        BY <2>t, <3>1, <3>3 DEF TypeOK
      <4>2. QED
        BY <2>s, <3>1, <4>1
    <3>4. QED
      BY <3>2, <3>3
  <2>2. ASSUME NEW p \in Process, Generate(p) PROVE UNCHANGED Promise!identityVars
    <3>1. /\ file' = file /\ named' = named /\ pc[p] = "stopped"
          /\ pc' = [pc EXCEPT ![p] = "create"]
      BY <2>2 DEF Generate, Goto
    <3>2. Up' = Up
      BY <2>t, <3>1 DEF TypeOK
    <3>3. QED
      BY <2>s, <3>1, <3>2
  <2>3. ASSUME NEW p \in Process, Create(p) PROVE UNCHANGED Promise!identityVars
    <3>1. named' = named /\ pc[p] = "create"
      BY <2>3 DEF Create
    <3>2. /\ file' = file \/ (file.stage = "absent" /\ file' = Short("empty"))
          /\ pc' = [pc EXCEPT ![p] = "write"] \/ pc' = [pc EXCEPT ![p] = "failed"]
      BY <2>3 DEF Create, Goto, MayCreate
    <3>3. Up' = Up
      BY <2>t, <3>1, <3>2 DEF TypeOK
    <3>4. Id' = Id /\ Kept' = Kept
      BY <3>1, <3>2 DEF Short
    <3>5. QED
      BY <2>s, <3>1, <3>3, <3>4
  <2>4. ASSUME NEW p \in Process, WritePrefix(p) PROVE UNCHANGED Promise!identityVars
    <3>1. /\ named' = named /\ pc[p] = "write" /\ file' = Short("prefix")
          /\ pc' = [pc EXCEPT ![p] = "hex"]
      BY <2>4 DEF WritePrefix, Goto
    <3>2. Up' = Up
      BY <2>t, <3>1 DEF TypeOK
    <3>3. Id' = Id /\ Kept' = Kept
      BY <2>t, <3>1 DEF Progress, Short
    <3>4. QED
      BY <2>s, <3>1, <3>2, <3>3
  <2>5. ASSUME NEW p \in Process, WriteKey(p) PROVE Promise!IdentityNext
    <3>1. /\ named' = named /\ pc[p] = "hex" /\ file' = Whole(key[p])
          /\ pc' = [pc EXCEPT ![p] = "sync"]
      BY <2>5 DEF WriteKey, Goto
    <3>2. key[p] \in KeyId /\ Id = NoKey /\ ~named
      BY <2>t, <3>1 DEF Progress, Short, Writing
    <3>3. Id' = key[p]
      BY <3>1 DEF Whole
    <3>4. Up' = Up
      BY <2>t, <3>1 DEF TypeOK
    <3>5. QED
      BY <3>1, <3>2, <3>3, <3>4 DEF Promise!IdentityNext, Promise!Choose
  <2>6. ASSUME NEW p \in Process, Sync(p) PROVE Promise!IdentityNext
    <3>1. /\ file' = file /\ pc[p] = "sync" /\ pc' = [pc EXCEPT ![p] = "running"]
          /\ named' = named
      BY <2>6 DEF Sync, Goto
    <3>2. Id # NoKey
      BY <2>t, <3>1, Contents DEF Progress, Writing
    <3>3. Up' = Up \cup {p}
      BY <2>t, <3>1 DEF TypeOK
    <3>4. QED
      BY <2>v, <3>1, <3>2, <3>3
  <2>7. ASSUME NEW p \in Process, WriteFails(p) PROVE UNCHANGED Promise!identityVars
    <3>1. /\ file' = file /\ named' = named /\ pc[p] # "running"
          /\ pc' = [pc EXCEPT ![p] = "failed"]
      BY <2>7 DEF WriteFails, Goto, Writing
    <3>2. Up' = Up
      BY <2>t, <3>1 DEF TypeOK
    <3>3. QED
      BY <2>s, <3>1, <3>2
  <2>8. ASSUME NEW p \in Process, Stop(p) PROVE Promise!IdentityNext
    <3>1. file' = file /\ named' = named /\ pc' = [pc EXCEPT ![p] = "stopped"]
      BY <2>8 DEF Stop, Goto
    <3>2. Up' = Up \ {p}
      BY <2>t, <3>1 DEF TypeOK
    <3>3. QED
      BY <2>q, <3>1, <3>2
  <2>9. ASSUME PowerLoss PROVE Promise!IdentityNext
    <3>1. PICK c : /\ c \in {saved, file, Short("absent"), Short("empty"), Short("prefix")}
                   /\ Survives(c)
                   /\ file' = c
                   /\ named' = (c.stage # "absent")
      BY <2>9 DEF PowerLoss
    <3>2. Up' = {}
      BY <2>9 DEF PowerLoss
    <3>3. c \in Content
      BY <2>t, <3>1, Contents DEF TypeOK, Stage
    <3>4. c.stage = "key" => c = file
      BY <2>t, <3>1, Contents DEF Durable, Stage
    <3>5. ASSUME Kept PROVE Id' = Id
      <4>1. saved = file /\ saved.stage = "key" /\ Rank(saved) <= Rank(c)
        BY <2>t, <3>1, <3>5 DEF Durable, Survives
      <4>2. c.stage = "key"
        BY <2>t, <3>3, <4>1, RankOfKey DEF TypeOK
      <4>3. QED
        BY <3>1, <3>4, <4>2
    <3>6. Id' = Id \/ Id' = NoKey
      BY <3>1, <3>4
    <3>7. Kept' = (Id' # NoKey)
      BY <3>1, <3>3, Contents
    <3>8. QED
      BY <3>2, <3>5, <3>6, <3>7 DEF Promise!IdentityNext, Promise!Loss
  <2>10. ASSUME UNCHANGED vars PROVE UNCHANGED Promise!identityVars
    BY <2>10, <2>s DEF vars
  <2>11. QED
    BY <1>2, <2>1, <2>2, <2>3, <2>4, <2>5, <2>6, <2>7, <2>8, <2>9, <2>10 DEF Next
<1>3. QED
  BY KeyInit, KeyStep, <1>1, <1>2, PTL DEF Spec, KeepsPromise, Promise!IdentitySpec
=============================================================================
