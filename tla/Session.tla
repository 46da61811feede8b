------------------------------- MODULE Session -----------------------------
(***************************************************************************)
(* The life of a connection, from main's accept loop through the HTTP      *)
(* request (src/src/http.rs), the DERP handshake and admission to the      *)
(* registered session and its end (src/src/server.rs), while other         *)
(* sessions and the shutdown broadcast queue frames for it.                *)
(*                                                                         *)
(* What the registry does with a session is module Relay; here it is the   *)
(* set of connections that are in it.  A connection that waits for its     *)
(* client is in the phase of that await.                                   *)
(***************************************************************************)
EXTENDS Naturals, Sequences, FiniteSets

CONSTANTS
    Conn,           \* connections
    QueueLimit,     \* Config.queue_depth
    MaxWrote        \* bound: frames of a client's stream that are remembered

ASSUME SessionAssumption ==
    /\ IsFiniteSet(Conn)
    /\ QueueLimit \in Nat \ {0} /\ MaxWrote \in Nat

Phase == {"new", "request", "greeting", "flush", "info", "admission",
          "accepted", "registered", "serving", "ended"}
Frames == {"101", "response", "ServerKey", "ServerInfo", "other", "Restarting"}

\* What serve_connection looks at: the path, the Upgrade header, whether the WebSocket
\* subprotocol is derp and its key is there, and Derp-Fast-Start.
Requests == [path : {"/derp", "other"}, upgrade : {"derp", "websocket", "none"},
             subprotocol : BOOLEAN, key : BOOLEAN, fast : BOOLEAN]

VARIABLES
    server,             \* main: "accepting", "grace" (shutdown broadcast sent) or "exited"
    verify, fail_open,  \* Config.verify_client_url is set; verify_client_fail_open
    phase, websocket,   \* a connection's phase; whether it goes through the bridge
    proved,             \* the sealed ClientInfo opened with the key it names
    verdict,            \* how the connection was admitted, or why not
    registered,         \* connections in the relay's registry
    marked,             \* those whose handle close_peer has marked closed
    pending,            \* frames in a session's queue
    wrote,              \* history: the first frames written to a client
    rejected            \* metrics.admission_rejected

setup == <<verify, fail_open>>
sessionVars == <<server, setup, phase, websocket, proved, verdict, registered, marked, pending,
                 wrote, rejected>>

SessionInit ==
    /\ server = "accepting"
    /\ verify \in BOOLEAN /\ fail_open \in BOOLEAN
    /\ phase = [c \in Conn |-> "new"]
    /\ websocket = [c \in Conn |-> FALSE]
    /\ proved = [c \in Conn |-> FALSE]
    /\ verdict = [c \in Conn |-> "none"]
    /\ registered = {} /\ marked = {}
    /\ pending = [c \in Conn |-> <<>>]
    /\ wrote = [c \in Conn |-> <<>>]
    /\ rejected = 0

-----------------------------------------------------------------------------

At(c, p) == phase[c] = p /\ server # "exited"
Enter(c, p) == phase' = [phase EXCEPT ![c] = p]
Puts(c, f) == wrote' = [wrote EXCEPT ![c] = IF Len(@) < MaxWrote THEN Append(@, f) ELSE @]
Queued(c, f) == IF phase[c] # "ended" /\ Len(pending[c]) < QueueLimit
                THEN Append(pending[c], f)
                ELSE pending[c]

\* main's accept loop and the connection's task; its TLS handshake, where configured,
\* waits for the client like the request that follows.
Accept(c) ==
    /\ phase[c] = "new" /\ server = "accepting"
    /\ Enter(c, "request")
    /\ UNCHANGED <<server, setup, websocket, proved, verdict, registered, marked, pending,
                   wrote, rejected>>

\* serve_connection.  A WebSocket without the derp subprotocol is served like a native
\* upgrade; one without its key is dropped.
IsWebSocket(r) == r.path = "/derp" /\ r.upgrade = "websocket" /\ r.subprotocol
Native(r) == r.path = "/derp" /\ r.upgrade # "none" /\ ~IsWebSocket(r)

Upgrade(c, r) ==
    /\ At(c, "request")
    /\ Native(r) \/ (IsWebSocket(r) /\ r.key)
    /\ Enter(c, "greeting")
    /\ websocket' = [websocket EXCEPT ![c] = IsWebSocket(r)]
    /\ IF Native(r) /\ r.fast THEN UNCHANGED wrote ELSE Puts(c, "101")
    /\ UNCHANGED <<server, setup, proved, verdict, registered, marked, pending, rejected>>

Respond(c, r) ==
    /\ At(c, "request")
    /\ ~Native(r) /\ ~IsWebSocket(r)
    /\ Puts(c, "response")
    /\ Enter(c, "ended")
    /\ UNCHANGED <<server, setup, websocket, proved, verdict, registered, marked, pending,
                   rejected>>

\* serve_stream, up to register.
Greet(c) ==
    /\ At(c, "greeting")
    /\ Puts(c, "ServerKey")
    /\ Enter(c, "flush")
    /\ UNCHANGED <<server, setup, websocket, proved, verdict, registered, marked, pending,
                   rejected>>

Flushed(c) ==
    /\ At(c, "flush")
    /\ Enter(c, "info")
    /\ UNCHANGED <<server, setup, websocket, proved, verdict, registered, marked, pending, wrote,
                   rejected>>

\* A ClientInfo whose box opens and parses; a mesh key that is the server's (is_mesh_key)
\* saves it the admission.
Identify(c, mesh) ==
    /\ At(c, "info")
    /\ proved' = [proved EXCEPT ![c] = TRUE]
    /\ Enter(c, IF mesh THEN "accepted" ELSE "admission")
    /\ verdict' = [verdict EXCEPT ![c] = IF mesh THEN "mesh" ELSE @]
    /\ UNCHANGED <<server, setup, websocket, registered, marked, pending, wrote, rejected>>

\* admit: no controller, or its answer.  Only a request that got no answer fails open.
AdmitsOnError(answer) ==                                                \* mutant
    ~verify \/ answer = "allow" \/ (answer # "deny" /\ fail_open)
Admits(answer) ==
    \/ ~verify
    \/ answer = "allow"
    \/ answer = "unreachable" /\ fail_open

Admission(c, answer) ==
    /\ At(c, "admission")
    /\ verdict' = [verdict EXCEPT ![c] = IF verify THEN answer ELSE "open"]
    /\ Enter(c, IF Admits(answer) THEN "accepted" ELSE "ended")
    /\ rejected' = IF verify /\ answer = "deny" THEN rejected + 1 ELSE rejected
    /\ UNCHANGED <<server, setup, websocket, proved, registered, marked, pending, wrote>>

Register(c) ==
    /\ At(c, "accepted")
    /\ registered' = registered \cup {c}
    /\ Enter(c, "registered")
    /\ UNCHANGED <<server, setup, websocket, proved, verdict, marked, pending, wrote, rejected>>

\* The writer starts only after the ServerInfo is out.
Inform(c) ==
    /\ At(c, "registered")
    /\ Puts(c, "ServerInfo")
    /\ Enter(c, "serving")
    /\ UNCHANGED <<server, setup, websocket, proved, verdict, registered, marked, pending,
                   rejected>>

WritesEarly == {"registered", "serving"}                                \* mutant
Writes == {"serving"}

WriteNext(c) ==
    /\ phase[c] \in Writes /\ server # "exited"
    /\ pending[c] # <<>>
    /\ Puts(c, Head(pending[c]))
    /\ pending' = [pending EXCEPT ![c] = Tail(@)]
    /\ UNCHANGED <<server, setup, phase, websocket, proved, verdict, registered, marked,
                   rejected>>

\* An error or a timeout before register ends the task; after it, also when the
\* ServerInfo cannot be written, unregister comes first.
Before == {"request", "greeting", "flush", "info", "admission"}

Fail(c) ==
    /\ phase[c] \in Before /\ server # "exited"
    /\ Enter(c, "ended")
    /\ UNCHANGED <<server, setup, websocket, proved, verdict, registered, marked, pending,
                   wrote, rejected>>

UnregistersServed == {"serving"}                                        \* mutant
Unregisters == {"registered", "serving"}

Leave(c) ==
    /\ phase[c] \in {"registered", "serving"} /\ server # "exited"
    /\ pending' = [pending EXCEPT ![c] = <<>>]
    /\ registered' = IF phase[c] \in Unregisters THEN registered \ {c} ELSE registered
    /\ Enter(c, "ended")
    /\ UNCHANGED <<server, setup, websocket, proved, verdict, marked, wrote, rejected>>

\* The bridge ends first: serve_stream is dropped at its await, unregister with it.
Drop(c) ==
    /\ websocket[c] /\ phase[c] \in Phase \ {"new", "request", "accepted", "ended"}
    /\ server # "exited"
    /\ Enter(c, "ended")
    /\ pending' = [pending EXCEPT ![c] = <<>>]
    /\ UNCHANGED <<server, setup, websocket, proved, verdict, registered, marked, wrote,
                   rejected>>

-----------------------------------------------------------------------------

\* Another session queues a frame (Health, PeerPresent, a packet...).
Tell(c) ==
    /\ c \in registered /\ server # "exited"
    /\ pending' = [pending EXCEPT ![c] = Queued(c, "other")]
    /\ UNCHANGED <<server, setup, phase, websocket, proved, verdict, registered, marked, wrote,
                   rejected>>

\* A mesh peer asks for the node to be closed.
ClosePeer(c) ==
    /\ c \in registered /\ server # "exited"
    /\ marked' = marked \cup {c}
    /\ UNCHANGED <<server, setup, phase, websocket, proved, verdict, registered, pending, wrote,
                   rejected>>

\* The shutdown signal: accept no more, broadcast_restart, sleep, return from main.
Shutdown ==
    /\ server = "accepting"
    /\ server' = "grace"
    /\ pending' = [c \in Conn |-> IF c \in registered THEN Queued(c, "Restarting") ELSE pending[c]]
    /\ UNCHANGED <<setup, phase, websocket, proved, verdict, registered, marked, wrote,
                   rejected>>

Exit ==
    /\ server = "grace"
    /\ server' = "exited"
    /\ UNCHANGED <<setup, phase, websocket, proved, verdict, registered, marked, pending, wrote,
                   rejected>>

Answers == {"allow", "deny", "unreachable", "error"}

SessionNext ==
    \/ \E c \in Conn :
          \/ Accept(c) \/ \E r \in Requests : Upgrade(c, r) \/ Respond(c, r)
          \/ Greet(c) \/ Flushed(c) \/ \E mesh \in BOOLEAN : Identify(c, mesh)
          \/ \E answer \in Answers : Admission(c, answer)
          \/ Register(c) \/ Inform(c) \/ WriteNext(c)
          \/ Fail(c) \/ Leave(c) \/ Drop(c) \/ Tell(c) \/ ClosePeer(c)
    \/ Shutdown \/ Exit

SessionSpec == SessionInit /\ [][SessionNext]_sessionVars

\* The greeting and the wait for ClientInfo have a timeout each, the controller's answer
\* that of the HTTP client; the flush between them has none.
ExpireGreeting(c) == phase[c] = "greeting" /\ Fail(c)                    \* mutant
Expire(c) == phase[c] \in {"greeting", "info", "admission"} /\ Fail(c)

\* The writer's select! is biased: it looks at the flag only when nothing is queued.
CloseDueAfterWrite(c) == c \in marked /\ pending[c] # <<>>              \* mutant
CloseDue(c) == c \in marked /\ pending[c] = <<>>
CloseCheck(c) == phase[c] = "serving" /\ CloseDue(c) /\ Leave(c)

\* write_batch has a timeout: what is queued is written or ends the session.
Flush(c) == phase[c] = "serving" /\ pending[c] # <<>> /\ (WriteNext(c) \/ Leave(c))

\* Each of these is what the connection's task does in its phase, and the task runs.
SessionFairness ==
    \A c \in Conn : WF_sessionVars(Expire(c) \/ Register(c) \/ CloseCheck(c) \/ Flush(c))

-----------------------------------------------------------------------------

\* Only a node that proved its key is registered, and only with the mesh key, without
\* a controller, with its consent or, failing open, without its answer; every client
\* the controller denies is counted.
AdmittedOnly ==
    /\ \A c \in registered :
          /\ proved[c]
          /\ \/ verdict[c] = "mesh" \/ ~verify \/ verdict[c] = "allow"
             \/ verdict[c] = "unreachable" /\ fail_open
    /\ rejected = Cardinality({c \in Conn : verdict[c] = "deny"})

\* Wherever a connection that is not a WebSocket fails, it does not stay registered.
NoLeak == \A c \in Conn : phase[c] = "ended" /\ ~websocket[c] => c \notin registered

\* A client reads ServerKey and ServerInfo, once each, before any other DERP frame, although
\* frames are queued for it from the moment it is registered.
InfoFirst ==
    \A c \in Conn :
        LET derp == SelectSeq(wrote[c], LAMBDA f : f \notin {"101", "response"})
        IN  /\ \A i \in DOMAIN derp : /\ (i = 1) = (derp[i] = "ServerKey")
                                     /\ (i = 2) = (derp[i] = "ServerInfo")
            /\ \A i \in DOMAIN wrote[c] : wrote[c][i] = "101" => i = 1

\* A client that stops answering does not keep the connection: the greeting is written in
\* time or the connection ends, and so it is, once the greeting is flushed, with the
\* client's registration.
HandshakeEnds ==
    \A c \in Conn :
        phase[c] \in {"greeting", "info", "admission", "accepted"} ~>
            (phase[c] \in {"flush", "registered", "ended"} \/ server = "exited")

\* A served session that close_peer has marked ends, unless others queue frames for it
\* for ever: then the check may never come.
ClosedLeaves ==
    \A c \in Conn :
        \/ []<><<Tell(c)>>_sessionVars
        \/ (c \in marked /\ phase[c] = "serving") ~> (phase[c] = "ended" \/ server = "exited")
=============================================================================
