------------------------------- MODULE MCEdge ------------------------------
(***************************************************************************)
(* Instances for TLC of the components at the edge of the server, which    *)
(* share no state: a behaviour is one of the component it chooses, while   *)
(* the others stay as they start.                                          *)
(***************************************************************************)
EXTENDS RateLimit, AnswerLimit, WsBridge, Session, Wire, Stun, KeyFile

CONSTANTS c1, p1, p2, p3

VARIABLE component

edgeVars == <<component, rateVars, answerVars, bridgeVars, sessionVars, wireVars, stunVars,
              vars>>

\* Of the components that do not run, one initial state is enough.
Components == {"rate", "answer", "bridge", "session", "wire", "stun", "key"}
Fixed ==
    /\ rate = 0 => ~can_mesh
    /\ component = "rate" \/ rate = 0
    /\ component = "session" \/ (~verify /\ ~fail_open)
    /\ component = "wire" \/ message = <<"mesh", <<Refusal>>, <<>>>>

EdgeInit ==
    /\ component \in Components
    /\ RateInit /\ AnswerInit /\ BridgeInit /\ SessionInit /\ WireInit /\ StunInit
    /\ Init
    /\ Fixed

EdgeNext ==
    /\ IF component = "rate" THEN RateNext ELSE UNCHANGED rateVars
    /\ IF component = "answer" THEN AnswerNext ELSE UNCHANGED answerVars
    /\ IF component = "bridge" THEN BridgeNext ELSE UNCHANGED bridgeVars
    /\ IF component = "session" THEN SessionNext ELSE UNCHANGED sessionVars
    /\ IF component = "wire" THEN WireNext ELSE UNCHANGED wireVars
    /\ IF component = "stun" THEN StunNext ELSE UNCHANGED stunVars
    /\ IF component = "key" THEN Next ELSE UNCHANGED vars
    /\ UNCHANGED component

EdgeSpec == EdgeInit /\ [][EdgeNext]_edgeVars /\ BridgeFairness /\ SessionFairness

-----------------------------------------------------------------------------
(* What is sent to Wire: the frames this program encodes, one or two of each kind, and
   frames of other programs with what they should decode to *)

Data == {<<>>, <<3>>, <<0, 3>>}
OwnFrames ==
    {Frame(k, <<1>>, d) : k \in {Type.SendPacket, Type.RecvPacket}, d \in Data}
    \cup {Frame(Type.ForwardPacket, <<1, 2>>, d) : d \in Data}
    \cup {Frame(k, <<1>>, <<>>) : k \in {Type.ServerKey, Type.ClosePeer, Type.PeerPresent}}
    \cup {Frame(k, <<>>, <<>>) : k \in {Type.KeepAlive, Type.WatchConns, Type.Health}}
    \cup {Frame(k, <<>>, <<3>>) : k \in {Type.Ping, Type.Pong, Type.ServerInfo, Type.Health}}
    \cup {Frame(Type.ClientInfo, <<1>>, <<3, 0>>), Frame(Type.NotePreferred, <<>>, <<0>>),
          Frame(Type.PeerGone, <<1>>, <<1>>), Frame(Type.PeerPresent, <<1>>, <<3, 0, 3>>),
          Frame(Type.Restarting, <<>>, <<0, 3>>)}

Others ==
    {Foreign(Type.PeerGone, <<1>>, Frame(Type.PeerGone, <<1>>, <<Disconnected>>)),
     Foreign(Type.Ping, <<3, 0>>, Frame(Type.Ping, <<>>, <<3>>)),
     Foreign(Type.Ping, <<3, 0, 0>>, Bad),
     Foreign(Type.SendPacket, <<1, 0, 0, 0>>, Bad),
     Foreign(Type.SendPacket, <<0>>, Bad),
     Foreign(Type.SendPacket, <<>>, Bad),
     Foreign(Type.KeepAlive, <<0>>, Bad),
     Foreign(Type.NotePreferred, <<3>>, Frame(Type.NotePreferred, <<>>, <<1>>)),
     Foreign(Type.ServerKey, <<0, 1>>, Bad),
     Foreign(Type.PeerPresent, <<1, 3>>, Frame(Type.PeerPresent, <<1>>, <<>>)),
     Foreign(Type.Restarting, <<0, 3, 3>>, Frame(Type.Restarting, <<>>, <<0, 3>>)),
     Foreign(99, <<0, 3>>, Frame(99, <<>>, <<0, 3>>)),
     Foreign(99, <<0, 0, 0, 0, 0, 0>>, Bad)}

EdgeBodies ==
    {<<item, Sent(Frame(Type.Ping, <<>>, <<3>>))>> : item \in Others \cup {Sent(f) : f \in OwnFrames}}
    \cup {<<>>}
EdgeHeads == {<<Text>>, <<Refusal>>, <<Text, Line, Text>>, <<Text, Text, Text, Text>>}

-----------------------------------------------------------------------------
(* What is sent to Stun: up to three attributes, and lengths that fit them or do not *)

Attr(type, len, right) == [type |-> type, len |-> len, right |-> right]
Attrs == {Attr("SOFTWARE", 8, TRUE), Attr("SOFTWARE", 7, FALSE), Attr("FINGERPRINT", 4, TRUE),
          Attr("FINGERPRINT", 4, FALSE), Attr("FINGERPRINT", 3, FALSE), Attr("other", 1, FALSE)}
Total(attributes) ==
    LET sum[i \in 0..Len(attributes)] == IF i = 0 THEN 0 ELSE sum[i - 1] + Skip(attributes[i].len)
    IN  sum[Len(attributes)]
Lists == UNION {[1..n -> Attrs] : n \in 0..2} \cup {<<a, b, Attr("FINGERPRINT", 4, TRUE)>> : a, b \in Attrs}
EdgeDatagrams ==
    {[binding |-> TRUE, size |-> Header + Total(l) - cut, declared |-> Total(l) - less,
      attributes |-> l] : l \in Lists, cut \in {0, 5}, less \in {0, 1, 6, 8}}
    \cup {[binding |-> FALSE, size |-> Header + 8, declared |-> 8,
           attributes |-> <<Attr("FINGERPRINT", 4, TRUE)>>]}
=============================================================================
