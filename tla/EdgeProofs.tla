----------------------------- MODULE EdgeProofs ----------------------------
(***************************************************************************)
(* A connection before and around its session, for any number of           *)
(* connections and any capacities: who gets registered and who stays       *)
(* (Session), and who may wait for whom (WsBridge).                        *)
(***************************************************************************)
EXTENDS Session, WsBridge, FiniteSetTheorems, TLAPS

Verdicts == {"none", "mesh", "open"} \cup Answers

SessionTypes ==
    /\ server \in {"accepting", "grace", "exited"}
    /\ verify \in BOOLEAN /\ fail_open \in BOOLEAN
    /\ phase \in [Conn -> Phase]
    /\ websocket \in [Conn -> BOOLEAN]
    /\ proved \in [Conn -> BOOLEAN]
    /\ verdict \in [Conn -> Verdicts]
    /\ registered \in SUBSET Conn
    /\ rejected \in Nat

Cleared(c) ==
    \/ verdict[c] = "mesh" \/ ~verify \/ verdict[c] = "allow"
    \/ verdict[c] = "unreachable" /\ fail_open

\* How far a connection that is not registered yet has got, and where one that is can be.
Steps(c) ==
    /\ phase[c] \in {"new", "request", "greeting", "flush", "info", "admission"} => verdict[c] = "none"
    /\ phase[c] \in {"admission", "accepted"} => proved[c]
    /\ phase[c] = "accepted" => Cleared(c)
    /\ c \in registered =>
          /\ phase[c] \in {"registered", "serving", "ended"}
          /\ phase[c] = "ended" => websocket[c]
          /\ proved[c] /\ Cleared(c)

Denied == {c \in Conn : verdict[c] = "deny"}
Counted == rejected = Cardinality(Denied)

SInv == SessionTypes /\ (\A c \in Conn : Steps(c)) /\ Counted

\* The initial states of Session satisfy its invariant.
LEMMA SessionStart == SessionInit => SInv
<1> SUFFICES ASSUME SessionInit PROVE SInv
  OBVIOUS
<1>1. SessionTypes
  BY DEF SessionInit, SessionTypes, Phase, Verdicts
<1>2. \A c \in Conn : Steps(c)
  BY DEF SessionInit, Steps
<1>3. Denied = {}
  BY DEF SessionInit, Denied
<1>4. Counted
  BY <1>3, FS_EmptySet DEF SessionInit, Counted
<1>5. QED
  BY <1>1, <1>2, <1>4 DEF SInv

\* The count of the denied follows when no verdict changes.
LEMMA SameCount ==
    ASSUME Counted, verdict' = verdict, rejected' = rejected
    PROVE  Counted'
BY DEF Counted, Denied

\* A verdict on a connection that had none counts if it is a denial.
LEMMA NewVerdict ==
    ASSUME SInv, NEW c \in Conn, NEW v \in Verdicts, verdict[c] = "none",
           verdict' = [verdict EXCEPT ![c] = v],
           rejected' = IF v = "deny" THEN rejected + 1 ELSE rejected
    PROVE  Counted'
<1>1. verdict \in [Conn -> Verdicts] /\ rejected = Cardinality(Denied)
  BY DEF SInv, SessionTypes, Counted
<1>2. IsFiniteSet(Denied) /\ c \notin Denied
  <2>1. Denied \subseteq Conn
    BY DEF Denied
  <2>2. QED
    BY <2>1, FS_Subset, SessionAssumption DEF Denied
<1>3. CASE v = "deny"
  <2>1. Denied' = Denied \cup {c}
    BY <1>1, <1>3 DEF Denied
  <2>2. Cardinality(Denied \cup {c}) = Cardinality(Denied) + 1
    BY <1>2, FS_AddElement
  <2>3. QED
    BY <1>1, <1>3, <2>1, <2>2 DEF Counted
<1>4. CASE v # "deny"
  <2>1. Denied' = Denied
    BY <1>1, <1>4 DEF Denied
  <2>2. QED
    BY <1>1, <1>4, <2>1 DEF Counted
<1>5. QED
  BY <1>3, <1>4

\* A step of one connection leaves the others as they were.
LEMMA OtherSteps ==
    ASSUME SInv, NEW c \in Conn, Steps(c)',
           UNCHANGED setup,
           \A d \in Conn \ {c} : /\ phase'[d] = phase[d] /\ websocket'[d] = websocket[d]
                                 /\ proved'[d] = proved[d] /\ verdict'[d] = verdict[d]
                                 /\ d \in registered' <=> d \in registered
    PROVE  \A d \in Conn : Steps(d)'
<1> SUFFICES ASSUME NEW d \in Conn, d # c PROVE Steps(d)'
  OBVIOUS
<1>1. Steps(d) /\ verify' = verify /\ fail_open' = fail_open
  BY DEF SInv, setup
<1>2. QED
  BY <1>1 DEF Steps, Cleared

\* Every step of a connection, of main or of another session keeps the invariant.
LEMMA SessionStep == SInv /\ [SessionNext]_sessionVars => SInv'
<1> SUFFICES ASSUME SInv, [SessionNext]_sessionVars PROVE SInv'
  OBVIOUS
<1> USE DEF SInv
<1>1. ASSUME NEW c \in Conn, Accept(c) PROVE SInv'
  <2>1. SessionTypes' /\ Steps(c)'
    BY <1>1 DEF Accept, Enter, setup, SessionTypes, Phase, Steps, Cleared
  <2>2. \A d \in Conn : Steps(d)'
    BY <1>1, <2>1, OtherSteps DEF Accept, Enter, setup, SessionTypes
  <2>3. QED
    BY <1>1, <2>1, <2>2, SameCount DEF Accept
<1>2. ASSUME NEW c \in Conn, NEW r \in Requests, Upgrade(c, r) PROVE SInv'
  <2>1. IsWebSocket(r) \in BOOLEAN
    BY DEF IsWebSocket, Requests
  <2>2. SessionTypes' /\ Steps(c)'
    BY <1>2, <2>1 DEF Upgrade, At, Enter, setup, SessionTypes, Phase, Steps, Cleared
  <2>3. \A d \in Conn : Steps(d)'
    BY <1>2, <2>2, OtherSteps DEF Upgrade, Enter, setup, SessionTypes
  <2>4. QED
    BY <1>2, <2>2, <2>3, SameCount DEF Upgrade
<1>3. ASSUME NEW c \in Conn, NEW r \in Requests, Respond(c, r) PROVE SInv'
  <2>1. SessionTypes' /\ Steps(c)'
    BY <1>3 DEF Respond, At, Enter, setup, SessionTypes, Phase, Steps, Cleared
  <2>2. \A d \in Conn : Steps(d)'
    BY <1>3, <2>1, OtherSteps DEF Respond, Enter, setup, SessionTypes
  <2>3. QED
    BY <1>3, <2>1, <2>2, SameCount DEF Respond
<1>4. ASSUME NEW c \in Conn, Greet(c) \/ Flushed(c) PROVE SInv'
  <2>1. SessionTypes' /\ Steps(c)'
    BY <1>4 DEF Greet, Flushed, At, Enter, setup, SessionTypes, Phase, Steps, Cleared
  <2>2. \A d \in Conn : Steps(d)'
    BY <1>4, <2>1, OtherSteps DEF Greet, Flushed, Enter, setup, SessionTypes
  <2>3. QED
    BY <1>4, <2>1, <2>2, SameCount DEF Greet, Flushed
<1>5. ASSUME NEW c \in Conn, NEW mesh \in BOOLEAN, Identify(c, mesh) PROVE SInv'
  <2> DEFINE v == IF mesh THEN "mesh" ELSE "none"
  <2>1. verdict[c] = "none" /\ v \in Verdicts /\ v # "deny"
    BY <1>5 DEF Identify, At, Steps, Verdicts
  <2>2. verdict' = [verdict EXCEPT ![c] = v]
    BY <1>5, <2>1 DEF Identify, SessionTypes
  <2>3. SessionTypes' /\ Steps(c)'
    BY <1>5, <2>1, <2>2 DEF Identify, At, Enter, setup, SessionTypes, Phase, Steps, Cleared
  <2>4. \A d \in Conn : Steps(d)'
    BY <1>5, <2>3, OtherSteps DEF Identify, Enter, setup, SessionTypes
  <2>5. rejected' = IF v = "deny" THEN rejected + 1 ELSE rejected
    BY <1>5, <2>1 DEF Identify
  <2>6. Counted'
    <3> HIDE DEF v
    <3> QED
      BY <2>1, <2>2, <2>5, NewVerdict
  <2>7. QED
    BY <2>3, <2>4, <2>6
<1>6. ASSUME NEW c \in Conn, NEW answer \in Answers, Admission(c, answer) PROVE SInv'
  <2> DEFINE v == IF verify THEN answer ELSE "open"
  <2>1. verdict[c] = "none" /\ v \in Verdicts
    BY <1>6 DEF Admission, At, Steps, Verdicts
  <2>2. rejected' = IF v = "deny" THEN rejected + 1 ELSE rejected
    BY <1>6 DEF Admission, SessionTypes
  <2>3. SessionTypes' /\ Steps(c)'
    BY <1>6, <2>1 DEF Admission, Admits, At, Enter, setup, SessionTypes, Phase, Steps, Cleared
  <2>4. \A d \in Conn : Steps(d)'
    BY <1>6, <2>3, OtherSteps DEF Admission, Enter, setup, SessionTypes
  <2>5. verdict' = [verdict EXCEPT ![c] = v]
    BY <1>6 DEF Admission
  <2>6. Counted'
    <3> HIDE DEF v
    <3> QED
      BY <2>1, <2>2, <2>5, NewVerdict
  <2>7. QED
    BY <2>3, <2>4, <2>6
<1>7. ASSUME NEW c \in Conn, Register(c) PROVE SInv'
  <2>1. SessionTypes' /\ Steps(c)'
    BY <1>7 DEF Register, At, Enter, setup, SessionTypes, Phase, Steps, Cleared
  <2>2. \A d \in Conn : Steps(d)'
    BY <1>7, <2>1, OtherSteps DEF Register, Enter, setup, SessionTypes
  <2>3. QED
    BY <1>7, <2>1, <2>2, SameCount DEF Register
<1>8. ASSUME NEW c \in Conn, Inform(c) PROVE SInv'
  <2>1. SessionTypes' /\ Steps(c)'
    BY <1>8 DEF Inform, At, Enter, setup, SessionTypes, Phase, Steps, Cleared
  <2>2. \A d \in Conn : Steps(d)'
    BY <1>8, <2>1, OtherSteps DEF Inform, Enter, setup, SessionTypes
  <2>3. QED
    BY <1>8, <2>1, <2>2, SameCount DEF Inform
<1>9. ASSUME NEW c \in Conn, Fail(c) PROVE SInv'
  <2>1. SessionTypes' /\ Steps(c)'
    BY <1>9 DEF Fail, Before, Enter, setup, SessionTypes, Phase, Steps, Cleared
  <2>2. \A d \in Conn : Steps(d)'
    BY <1>9, <2>1, OtherSteps DEF Fail, Enter, setup, SessionTypes
  <2>3. QED
    BY <1>9, <2>1, <2>2, SameCount DEF Fail
<1>10. ASSUME NEW c \in Conn, Leave(c) PROVE SInv'
  <2>1. SessionTypes' /\ Steps(c)'
    BY <1>10 DEF Leave, Unregisters, Enter, setup, SessionTypes, Phase, Steps, Cleared
  <2>2. \A d \in Conn : Steps(d)'
    BY <1>10, <2>1, OtherSteps DEF Leave, Unregisters, Enter, setup, SessionTypes
  <2>3. QED
    BY <1>10, <2>1, <2>2, SameCount DEF Leave
<1>11. ASSUME NEW c \in Conn, Drop(c) PROVE SInv'
  <2>1. SessionTypes' /\ Steps(c)'
    BY <1>11 DEF Drop, Enter, setup, SessionTypes, Phase, Steps, Cleared
  <2>2. \A d \in Conn : Steps(d)'
    BY <1>11, <2>1, OtherSteps DEF Drop, Enter, setup, SessionTypes
  <2>3. QED
    BY <1>11, <2>1, <2>2, SameCount DEF Drop
<1>12. CASE /\ UNCHANGED <<setup, phase, websocket, proved, verdict, registered, rejected>>
            /\ server' \in {"accepting", "grace", "exited"}
  BY <1>12, SameCount DEF setup, SessionTypes, Steps, Cleared
<1>13. ASSUME NEW c \in Conn, WriteNext(c) \/ Tell(c) \/ ClosePeer(c) PROVE SInv'
  BY <1>12, <1>13 DEF WriteNext, Tell, ClosePeer, SessionTypes
<1>14. CASE Shutdown \/ Exit \/ UNCHANGED sessionVars
  BY <1>12, <1>14 DEF Shutdown, Exit, sessionVars, SessionTypes
<1>15. QED
  BY <1>1, <1>2, <1>3, <1>4, <1>5, <1>6, <1>7, <1>8, <1>9, <1>10, <1>11, <1>13, <1>14
     DEF SessionNext

\* For any number of connections: whoever is registered proved its key and was admitted,
\* every denied client is counted (serve_stream, admit), and a connection that does not
\* go through the bridge is unregistered whichever way it ends.
THEOREM SessionsAdmitted == SessionSpec => [](AdmittedOnly /\ NoLeak)
<1>1. SInv => AdmittedOnly /\ NoLeak
  <2> SUFFICES ASSUME SInv PROVE AdmittedOnly /\ NoLeak
    OBVIOUS
  <2>1. AdmittedOnly
    BY DEF SInv, SessionTypes, Steps, Cleared, Counted, Denied, AdmittedOnly
  <2>2. NoLeak
    BY DEF SInv, SessionTypes, Steps, NoLeak
  <2>3. QED
    BY <2>1, <2>2
<1>2. QED
  BY <1>1, SessionStart, SessionStep, PTL DEF SessionSpec

-----------------------------------------------------------------------------

\* Where the four parties of a WebSocket connection can be.
BInv ==
    /\ client \in {"reading", "stalled"}
    /\ bridge \in {"select", "write", "send", "pong", "returned"}
    /\ (bridge = "returned") => (over = "bridge")
    /\ up \in Seq(Message) /\ sentUp \in 0..MaxUp

\* Nobody can move although a batch waits: follow who waits for whom from the writer
\* (the full pipe, the bridge, the other pipe or the socket) to the client or the limiter.
LEMMA WaitsEndOutside ==
    ASSUME BInv, Stuck
    PROVE  client = "stalled" \/ asleep
<1> USE BridgeAssumption
<1>1. outbound # <<>>
  BY DEF Stuck, CanMove, CanFlush
<1>2. bridge \in {"write", "send", "pong"}
  BY <1>1 DEF Stuck, CanMove, CanFetch, BInv
<1>3. CASE bridge = "write"
  <2>1. inbound # <<>>
    BY <1>3 DEF Stuck, CanMove, CanWrite
  <2>2. QED
    BY <2>1 DEF Stuck, CanMove, CanRead
<1>4. CASE bridge \in {"send", "pong"}
  <2>1. down # <<>>
    BY <1>4 DEF Stuck, CanMove, CanSendMessage
  <2>2. QED
    BY <2>1 DEF Stuck, CanMove, CanReceive, BInv
<1>5. QED
  BY <1>2, <1>3, <1>4

\* Every step of a party keeps the places.
LEMMA BridgeKeeps == BInv /\ [BridgeNext]_bridgeVars => BInv'
<1> SUFFICES ASSUME BInv, [BridgeNext]_bridgeVars PROVE BInv'
  OBVIOUS
<1> USE BridgeAssumption
<1>1. CASE UNCHANGED bridgeVars
  BY <1>1 DEF bridgeVars, upVars, downVars, BInv
<1>2. CASE BridgeNext
  <2>0. over = "no" /\ BridgeStep
    BY <1>2 DEF BridgeNext
  <2>1. CASE Take
    <3>1. Head(up) \in Message /\ Tail(up) \in Seq(Message)
      BY <2>1 DEF Take, CanTake, BInv
    <3>2. Head(up).type \in {"Binary", "Ping", "Text", "Close"}
      BY <3>1 DEF Message
    <3>3. QED
      BY <2>0, <2>1, <3>1, <3>2 DEF Take, BInv
  <2>2. CASE Write \/ Fetch \/ SendMessage
    BY <2>0, <2>2 DEF Write, Fetch, SendMessage, upVars, BInv
  <2>3. CASE Read \/ WakeReader \/ Deliver \/ StartBatch \/ KeepAlive \/ FlushBatch
    BY <2>0, <2>3 DEF Read, WakeReader, Deliver, StartBatch, KeepAlive, FlushBatch, upVars, BInv
  <2>4. CASE Receive \/ Stall
    BY <2>0, <2>4 DEF Receive, Stall, upVars, BInv
  <2>5. CASE WriteTimeout
    BY <2>0, <2>5 DEF WriteTimeout, BInv
  <2>6. ASSUME NEW type \in {"Binary", "Ping", "Text", "Close"}, NEW n \in 0..2, Say(type, n)
        PROVE BInv'
    <3>1. [i \in 1..n |-> sentUp + i] \in Seq(1..MaxUp)
      BY <2>6 DEF Say, BInv
    <3>2. [type |-> type, data |-> [i \in 1..n |-> sentUp + i]] \in Message
      BY <3>1 DEF Message
    <3>3. up' \in Seq(Message) /\ sentUp' \in 0..MaxUp
      BY <2>6, <3>2 DEF Say, BInv
    <3>4. QED
      BY <2>0, <2>6, <3>3 DEF Say, BInv
  <2>7. QED
    BY <2>0, <2>1, <2>2, <2>3, <2>4, <2>5, <2>6 DEF BridgeStep
<1>3. QED
  BY <1>1, <1>2

\* For all capacities of pipes, buffer, socket and queue: bridge_websocket and
\* serve_stream never wait for each other in a circle, so a write is stuck only because
\* of the client or of the rate limiter.
THEOREM BridgeNeverCircular == BridgeSpec => []NoCircularWait
<1>1. BridgeInit => BInv
  BY BridgeAssumption DEF BridgeInit, BInv
<1>2. BInv => NoCircularWait
  BY WaitsEndOutside DEF NoCircularWait
<1>3. QED
  BY <1>1, <1>2, BridgeKeeps, PTL DEF BridgeSpec
=============================================================================
