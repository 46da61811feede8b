# A TLA+ verification of derp-rs

derp-rs is a DERP relay server: clients connect over TCP, TLS or WebSocket, prove
possession of a node key, and send packets addressed to other node keys; the server
queues each packet for a connection of its addressee. Servers of a region mesh: each
watches who is connected to the others and forwards packets to them.

This directory holds TLA+ modules translated from the source under `src/src/`, TLC
configurations that model-check them, and TLAPS proofs. `PROJECT.json` maps every
definition to the source lines it models.

## 1. The system

| Part | Source | State | Operations | Modelled by |
|---|---|---|---|---|
| Relay core | `relay.rs` | `peers` (key → PeerSet), `active` index, `reverse_paths`, `watchers`, per-session flags and queue | register, note_activity, note_preferred, route, watch, close_peer, unregister, broadcast_restart | `Relay`, `Directory` |
| PeerGone limiter | `relay.rs` | tokens, last update | allow | `AnswerLimit` |
| Connection task | `server.rs` | one future per connection: reader and writer under one `select!` | handshake, admission, dispatch of a frame, batch write, close check, disconnect | `Session` (its life), `Relay` (reader, writer, close check) |
| Rate limiter | `server.rs` | tokens, last update | consume, which sleeps | `RateLimit` |
| Mesh client and mesh routes | `mesh.rs`, `relay.rs` | one task per `--mesh-with`; `mesh_routes` (key → routes) | connect, PeerPresent, PeerGone, fail and retry, forward_to_mesh | `MeshRoutes`; two servers: `MeshPair` |
| WebSocket bridge | `http.rs` | a duplex pipe between the socket and serve_stream | copy both ways; ends serve_stream by dropping it | `WsBridge`; `Relay.Cancel`, `Session.Drop` |
| HTTP front end | `http.rs` | bytes read beyond the head | read_request, serve_connection, PrefixedIo | `Session` (decisions), `Wire` (reading) |
| Frame codec | `protocol.rs` | none | encode_into, decode, read_frame | `Codec`, `Wire` |
| STUN responder | `stun.rs` | none | serve, respond | `Stun` |
| Node key file | `crypto.rs`, `main.rs` | the file, the starting processes | load_or_create | `KeyFile`, `Identity` |
| Accept loop and shutdown | `main.rs` | the listener | accept, broadcast_restart, exit | `Session`, `Relay.BroadcastRestart` |
| Metrics | `metrics.rs` | atomic counters | inc, dec | `Relay.metrics`, `Session.rejected`, `Stun.requests` |

What makes it hard to get right:

* tokio runs tasks on several threads. `Relay`'s methods have no await, but they touch
  several DashMaps and a mutex one after the other, and other threads run in between.
* `seen_sources`, the `duplicate` flag and the handle `route` looked up are caches of
  state that changes under them.
* Every queue is bounded and every send is a `try_send`: control frames are dropped too.
* A future may be dropped at an await, so code after it may never run.
* Two servers' views of each other are only as good as the frames that carried them.
* The WebSocket bridge reads from neither side while it writes to one.
* A reader asleep in its rate limiter notices nothing.
* Lengths on the wire are the sender's, and a stream comes in pieces of any size.
* The key file is created while other starts, crashes and power losses happen.

## 2. Modules

| Module | Role |
|---|---|
| `Relay` | the relay core with its connection tasks; properties |
| `Directory` | abstract: for every node, the connection its packets go to |
| `MCRelay`, `Relay*.cfg` | instances for TLC |
| `RelayProofs` | type correctness, and the shared lemmas |
| `RelayDeliveryProofs`, `RelayDuplicateProofs` | `NoMisdelivery`, `DuplicateFlag` |
| `MeshRoutes`, `MCMeshRoutes`, `MeshRoutes*.cfg` | mesh links and routes of one server |
| `MeshPair`, `MCMeshPair`, `MeshPair.cfg` | two servers composed |
| `MeshPairProofs`, `MeshPairRouteProofs` | `ForwardedOnce`, `RoutesFollow` |
| `Session` | a connection from accept to unregister |
| `WsBridge` | the WebSocket bridge and the session behind it |
| `RateLimit`, `AnswerLimit` | the two token buckets |
| `Codec`, `Wire` | frames; a stream of them cut into reads |
| `Stun` | the STUN responder |
| `MCEdge`, `Edge.cfg` | one instance of the last six and of `KeyFile`, for TLC |
| `EdgeProofs`, `LimitsProofs` | theorems about `Session` and `WsBridge`; about the limiters |
| `KeyFile`, `MCKeyFile`, `KeyFileAtomic.cfg`, `KeyFileProofs` | the node key file |
| `Identity` | abstract: the one identity of the servers on a key file |

### Relay

A session is a number (`SessionId`), and so is a PeerSet: it bears the number of the
session that created it, so a set dropped from `peers` but still held by a task keeps
its contents. `pc[s]` is where the task of session `s` stands: `"serve"` is the await of
`serve_stream`, the other running values are inside a method.

*Atomicity.* An action is what other threads cannot split, or what they can split
without any property noticing:

* the section under the PeerSet mutex is one action (`RegisterJoin`,
  `UnregisterRetain`); so is an operation on one DashMap entry;
* `note_activity` (`ReadFrame`) reads the duplicate flag and then takes the lock in one
  action: `DuplicateFlag` is about all the interleavings of the flag's writers;
* a broadcast, the notices to the receivers and the removal from the reverse paths are
  one action each: the properties speak of each receiver by itself;
* `BeginUnregister` joins the removal from `watchers`, the flags of the handle and the
  lookup in `peers`; only the lookup is read by others' steps in a way that matters;
* `route` is four actions: lookup, send, record of the reverse path, and the miss;
* the snapshot of `watch` visits the keys one at a time, in any order.

`FreeWorker` limits the tasks inside a method to `Workers`. With `Workers = 1` methods
exclude each other, as in a runtime with one worker thread; `main` uses
`multi_thread`, whose number of workers is the number of cores.

*Data.* Payloads, addresses and byte counters are left out. A node has mesh permission
or not for all its connections (`MeshKeys`). Whether a packet looks like disco, and
the state of the `PeerGone` limiter, are a free choice in `RouteMiss`. A
`RecvPacket` remembers the key it was addressed to, for `NoMisdelivery`. `view`,
`lost` and `recent` are history: what a client can conclude from the frames written
to it, the sessions that missed a frame, and the connection of a node that joined or
sent last.

### MeshRoutes

One task per link. A connection's id is fresh (`NEXT_MESH_ID`). `remove_mesh_route` is
two actions, since it lets go of the entry before it removes it. `workers` is chosen
once, from `WorkerCounts`. The server at the other end is the `Relay` of that server as
far as `watch` and `broadcast_presence` go: it tells its snapshot and all changes in order,
as `WatcherExact` says of one worker, but with `try_send` into a queue of `RemoteDepth`.
`missed[l]` holds the nodes of which its last frame was dropped, until a later frame or
a new connection makes up for it. It may answer a packet to a node that has left with
PeerGone(NotHere); the answer that overtakes a registration is in `MeshPair`.

### MeshPair

The composition of two relays, each with a mesh client of the other. A method of `Relay`
is one step here, but for `route`, which may be overtaken between the lookup that finds
no session and its answer NotHere: the mesh client takes that answer for a departure
(`mesh.rs` looks at no reason). `news[s]` is the queue of the session that the mesh
client of `s` has at the other server, the bytes under way included; `short[s]` says
that a presence frame to it was dropped. A server's key is registered at the other
server like a node's, and is part of the snapshot. When a link fails both ends see it
at once; in the code the session notices the end of its stream by itself, perhaps later.

### Session

`phase[c]` is the await that the task of connection `c` is in; everything between two
awaits is one action. The write of the greeting and the flush after it are separate awaits,
since only the first has a timeout. `marked` holds the connections that `close_peer` asked to
close; the writer looks when nothing is queued (`CloseCheck`). The relay's registry is the set `registered`, and `Tell` is any
method of another session that queues a frame. `Admission` has the four outcomes of
`admit`: a 2xx with Allow or without, no answer (including the HTTP client's timeout),
and any other answer.

### WsBridge

Four parties: the client, the bridge, the session's reader and its writer. A unit of
data is numbered when it enters a direction, so order and loss can be seen. The write
timeout is a matter of wall-clock time and may expire during any write, also while a slow
client still reads; it drops what is in the pipes and the queue. `Stuck` is a write
that nobody can bring further (a reader in its rate limiter cannot): there, and only
there, it is assumed to expire.

### RateLimit and AnswerLimit

Time is an integer number of ticks and tokens are counted in units that a tick earns
in whole numbers, so the arithmetic of the code is exact and rounding is left out.
A window that may be restarted at any time (`Mark`, `Observe`) makes "in any window"
an invariant. In `RateLimit` time does not pass while the reader can run, and a
sleeping reader wakes at most `Late` ticks after its time.

### Codec, Wire and Stun

A field of fixed length is one unit, as is each byte of a field of any length. `Wire`
sends one head and a list of frames, some of this program and some of others (short,
oversized, unknown, with trailing bytes), each with the frame it should decode to; the
network returns any part of a read. `Stun` walks attribute by attribute with the
arithmetic of `respond`; a datagram may declare a length that cuts its attributes.

### KeyFile

Each system call of `load_or_create` is an action; `writeln!` on an unbuffered file is
a write per piece of the format. `saved` is what surely survives a power loss of the
contents, and `named` says whether the file's name does. `sync_all` is for the contents
only; `load_or_create` syncs neither the directory nor those that it made, so the first power
loss may take the whole file away, a key whose creation returned included. What is there after
a power loss is on disk.

### Refinements

`Relay.Index` maps the relay to `Directory`: the connections of a node that have joined
and not left, by `pc`, and the active index. With one worker every step of every method
is a step or a stutter of it (`KeepsDirectory`). `KeyFile.Promise` maps the key file and
the processes to `Identity` (`KeepsPromise`): an identity is chosen only when there is none,
servers never run with another, it is lost only by a power loss, and once it has outlived
one it stays for good. That it outlives the first one is not promised, for want of
the directory's sync. `Directory.Leave` is written from the code: the newest of the other
connections becomes active, which is not what PROTOCOL.md says of three connections (see
`RelayThreeConnections`).

### Mutants

A definition marked as a mutant is a plausible slip in the definition that follows it
(an off-by-one, a missing reset, a dropped check). It is not part of any
specification; `PROJECT.json` names, for each property, the mutant under which TLC
finds the property violated.

## 3. What TLC checks

Runs that pass:

| Run | Properties | Shows |
|---|---|---|
| `RelaySequential` | `TypeOK`, `RegistryExact`, `ReversePathsLive`, `WatcherExact`, `KeepsDirectory` | one worker, a node with up to three connections, a mesh watcher that also closes it, and a shutdown: indexes and reverse paths match the connections served; the watcher's snapshot plus changes is the connected set; the index is a directory at every step |
| `RelayConcurrent` | `NoMisdelivery`, `DuplicateFlag`, `PacketsAccounted`, `GaugesExact`, `SenderDepartureReported` | two workers, forwarded packets, cancelled sessions, a queue of one: also, no gauge is decremented twice or left behind by a session that unregisters (a cancelled one stays counted), and the departure of a node that sent its packets here itself is reported |
| `MeshRoutes` | `TypeOK`, `RoutesSound`, `RoutesCompleteAlone` | links that fail and return, to servers that drop presence frames: no stale route with one worker or two, no missing route with one, but for the nodes whose news was dropped |
| `MeshPair` | `PairTypeOK`, `RoutesFollow`, `ForwardedOnce`, `Converges` | two servers: routes that have caught up are right, a packet crosses at most once; when changes stop the servers agree, if there is one worker or no lookup for a forwarded packet fails, and except for a server to which a presence frame was dropped |
| `Edge`: `RateLimit` | `RateBounded`, `EndNoticed` | no window admits more than the rate allows; the end of a stream is noticed in bounded time |
| `Edge`: `AnswerLimit` | `AnswersBounded`, `RefusalsAreFree` | at most three answers and three per second; refusals cost nothing |
| `Edge`: `WsBridge` | `InOrder`, `NoCircularWait`, `WriteEnds`, `ClientHeard` | no byte lost or reordered while the connection lasts, no circle of waits, a batch is written and what a client sends is read, or the connection ends or its client stalls |
| `Edge`: `Session` | `AdmittedOnly`, `NoLeak`, `InfoFirst`, `HandshakeEnds`, `ClosedLeaves` | only admitted clients are registered; they leave the registry wherever they fail; ServerKey and ServerInfo come first; a handshake ends, but for its flush; a session marked by `close_peer` leaves, unless frames are queued for it for ever |
| `Edge`: `Wire`, `Codec` | `FramesFaithful` | the frames decoded are those sent, however the stream is cut |
| `Edge`: `Stun` | `AnswersExactly`, `WithinDatagram` | exactly the right datagrams are answered; no read beyond one |
| `Edge`: `KeyFile` | `SameIdentity`, `KeptWhole`, `KeepsPromise` | three overlapping starts, two power losses: one identity, and a file whose creation returned is whole as long as it is there |

`Edge` is one run of seven components that share no state: `MCEdge` chooses one in the
initial state and only that one moves. TLC reports its steps as the one action `EdgeNext`;
that each action of the seven happens is seen with `-coverage 1`, where no expression of
theirs has a count of zero.

Runs in which the code and what is said of it disagree. Each checks a statement of a
document or a comment of the repository:

| Run | Statement | What the code does |
|---|---|---|
| `RelayReconnect` | PROTOCOL.md: when A's final connection leaves, B receives PeerGone | `seen_sources` keeps A, so a second stay records no reverse path; needs one worker only |
| `RelayWebSocket` | the same | the session's future is dropped by the `select!` of `websocket_derp`; unregister never runs |
| `RelayRegisterRace` | PROTOCOL.md: the last active connection receives packets | two workers: a session joining a set that is being emptied is removed from both indexes |
| `RelayThreeConnections` | the same, and "Recent activity selects the active duplicate" | one worker: when one of three connections leaves, the newest of the other two becomes active, whichever was active last |
| `RelayForwardRace` | PROTOCOL.md: when A's final connection leaves, B receives PeerGone | two workers: A, whose packet a mesh peer forwards, leaves between the send and the record of the reverse path; B is not told |
| `MeshRoutesRace` | the report: the relay looks up the mesh route of a node that is not local | two workers: a route added between the two halves of `remove_mesh_route` is removed |
| `KeyFileAtomic` | `crypto.rs`: "creating it atomically" | a crash after create_new leaves a file that is refused ever after |

Relatives of these that are not runs of their own:

* With two workers `WatcherExact` and `KeepsDirectory` fail by the race of
  `RelayRegisterRace`.
* With two workers `RoutesFollow` fails: a node registers between a failed lookup and
  its NotHere, whose PeerGone then follows the node's PeerPresent and removes the route.
* A link whose presence frames were dropped (`short`) stays incomplete: a snapshot larger
  than `queue_depth` is truncated for good.
* The proviso of `ClosedLeaves` is needed: the writer's `select!` is biased to the queue, so
  a session whose queue is refilled for ever does not reach its close check.
* The proviso of `SenderDepartureReported`, that no mesh peer forwards for the node, is what
  `RelayForwardRace` goes without. The node's own task delivers its packets, so it cannot
  leave during a delivery of its own.

### Bounds

`MaxSessions` and `Conns` bound the connections: the races need a node's departing
connection, its returning one and one observer, so three sessions suffice, and so do they
for three connections of a node. `QueueDepth` of 1 to 3 makes full
queues happen in a few frames. `MaxPackets` of 1 to 3 covers a first packet, one after
a departure and one after a return. `MaxMoves`, `MaxRestarts`, `MaxIds`, `MaxMissed`,
`MaxKeys` and `MaxLosses` bound what would otherwise grow without end; three mesh ids
for two links let one of them fail and return while the other is up.

`RelayConcurrent` has the constraint `Apart`: behaviours with packets, and behaviours of two
sessions with home moves and pings, but not both at once; no property relates the two.
`RelaySequential` has `ShutdownApart`: a behaviour with a shutdown has two sessions and no
packet. `RelayForwardRace` has `SourceHere`: the source of a forwarded packet is connected
until the packet is queued, so that the violation is about a node that was there.

`MeshRoutes`: a queue of one at the other server, so that it is full with every frame, and one node
of one link whose news was dropped at a time; `OneQueued` lets one mesh connection at
a time have a frame to write. `MeshRoutesRace` has queues of two.

`MeshPair`: one node, moving between both servers with four changes (join, leave, join
elsewhere, leave), two packets, one failure of a link; queues of two fill
up. A snapshot larger than a queue needs more nodes and is covered by the proofs of section
4 only. `Edge`: pipes and a queue of two, a read buffer of one and messages of up to two
units in the bridge, so that batches of two frames, partial writes and partial reads happen
in both directions and every buffer fills; one connection in `Session`, since
connections share only `main`'s state and a counter, and a client's first four frames
remembered and the later ones forgotten; five ticks of `RateLimit` cover a frame
beyond the burst and the sleep it costs, nine of `AnswerLimit` two seconds; streams of
two frames in `Wire`, the second to see whether the first shifted it; up to three attributes in
`Stun`.

Deadlock is not checked: when the connections, packets or ticks of a behaviour are used
up the system is at rest.

Symmetry is used for `Process` in `KeyFile` and for `Link` and `Node` in `MeshRoutes`,
with safety properties only (`KeyFile` has it in `KeyFileAtomic`). `Relay`'s runs use none, their keys having different roles.

### Fairness

`BridgeFairness`: weak fairness of every await that stays ready, of the end of a sleep, of
a client that has not stalled, and of the write timeout when a write is stuck; strong
fairness of the two branches of the bridge's `select!`, which is not biased and picks at
random among those that are ready.

`SessionFairness`: the task of a connection runs. In the handshake that is the timeouts of
the greeting, of the ClientInfo and of the admission request, and the step to register,
which awaits nothing; for a served session, a queued frame is written or its write fails or
times out, and with nothing queued a due close check fires. The close check gets no strong
fairness: `biased` polls the queue first each time, so being due again and again is not
enough. Nothing is assumed of the request head, the flush of the greeting and the write of
ServerInfo, which have no timeout.

`PairFairness`: `spawn` connects again for ever, and readers and methods run.

## 4. What is proved

TLAPS checks these for every value of the constants that satisfies the `ASSUME`s (any
number of nodes, sessions, connections, packets and workers, any capacity):

| Theorem | Statement |
|---|---|
| `RelayProofs!TypeCorrect` | `Spec => []TypeOK` |
| `RelayDeliveryProofs!PacketsReachTheirNode` | `Spec => []NoMisdelivery` |
| `RelayDuplicateProofs!FlagsAgree` | `Spec => []DuplicateFlag` |
| `KeyFileProofs!IdentityStable` | `Spec => [](SameIdentity /\ KeptWhole)` |
| `KeyFileProofs!IdentityImplemented` | `Spec => KeepsPromise` |
| `LimitsProofs!RateLimited` | `RateSpec => []RateBounded` |
| `LimitsProofs!AnswersLimited` | `AnswerSpec => [](AnswersBounded /\ RefusalsAreFree)` |
| `EdgeProofs!SessionsAdmitted` | `SessionSpec => [](AdmittedOnly /\ NoLeak)` |
| `EdgeProofs!BridgeNeverCircular` | `BridgeSpec => []NoCircularWait` |
| `MeshPairProofs!PairForwardsOnce` | `PairSpec => [](PairTypeOK /\ ForwardedOnce)` |
| `MeshPairRouteProofs!PairRoutesFollow` | `PairSpec => []RoutesFollow` |

*TypeCorrect.* `TypeOK` is not inductive: that `key[s]` may index `peers` needs to
know that a running session has a key and that a task in `join` or `retain` holds a
set, and one in `deliver` or `record` a destination and a frame to route. `Located`
says so by `pc`; `TInv` is `TypeOK` and `Located`.

*PacketsReachTheirNode.* `Owned` adds that everything found under a key belongs to it:
the PeerSet in `peers[k]`, the sessions of a set, the session in `active[k]`, the set
and destination a task holds; `Unborn` that sessions not yet registered are in none of
these. Ids are never reused, so a handle looked up before an interleaving still
belongs to the addressee after it. `RouteDeliver` then appends only to a queue of the
node; no other action queues a packet.

*FlagsAgree.* `OneSet` says that a session is in at most one PeerSet and once in it,
and in none before `join`. The sections under the mutex then keep the flag right in
the set they change, and change no flag of a session in another set.

*IdentityStable, IdentityImplemented.* At most one process is writing (`OneWriter`, from
create_new), its progress determines what the file holds (`Progress`), a key that is still
to be written is nobody else's (`Fresh`), and the contents that were synced are there for
as long as the file is (`Durable`). No durability of the file's name is assumed. With that invariant, the initial state maps to the
initial state of `Identity`, `WriteKey` to `Choose`, the two ways to run to `Serve`, an
exit to `Quit`, a power loss to `Loss`, and everything else to a stutter.

*RateLimited, AnswersLimited.* The bytes of a window and the tokens left are together
bounded by the capacity and what the window has earned; the invariant says so for the
bucket as it is, and for a reader asleep, whose frame has spent the bucket and is paid
for by the time at which it wakes. `min` and the products of rate and time are the only arithmetic.

*SessionsAdmitted.* `Steps(c)` says for each phase what has been established by then
(proof, verdict, registration); `Counted` ties the counter to the set of denied
connections.

*BridgeNeverCircular.* From the writer that waits: its pipe is full, so the bridge is not
at its `select!`; it waits for the other pipe, whose reader is then asleep, or for
the socket, whose client has then stopped reading (`WaitsEndOutside`). `BInv` has only the
places each party can be in.

*PairForwardsOnce.* A packet that is on a link has one hop and is in one queue, one that
was looked up in vain is in none and may only be answered, one that was not sent has
no hop (`Sent`, `Missed`, `InQueues`).

*PairRoutesFollow.* `RoutesFollow` speaks of empty queues only. The invariant `View` says it
of any queue: what reading `news[s]` to its end makes of the routes (`Shows`: the last frame
about a node decides, without one the routes do) is the set of nodes at the other server.
`StillMissing` adds, for one worker, that a packet looked up in vain is to a node that
is still not there when the answer is sent.

## 5. Only model-checked

Liveness and fairness are outside the prover's reach. `PacketsAccounted` and `GaugesExact`
(cardinalities over changing sets), `SenderDepartureReported`, the one-worker properties of
`Relay` with `KeepsDirectory`, `RoutesSound`, `EndNoticed`, `InOrder` and `InfoFirst` are
checked by TLC on the instances above. `FramesFaithful` and `AnswersExactly` compare with
recursively defined references (`Raw`, `Offset`); what a recursive definition
computes for every input cannot be proved with the provers at hand.

## 6. Hazards

`PROJECT.json` lists them with their lines and the properties that would notice. Those
without a property have a note: a request head, a TLS handshake, a greeting's flush, a
ServerInfo write and a mesh writer without a timeout; a session that registers after the
restart broadcast; frames in the duplex pipe when a client closes its WebSocket; frames
dropped at a full queue, of which a client or a mesh link is never told again; presence
that is reordered, or a NotHere that overtakes a registration, with two workers; a write
that times out because the rate limiter holds the reader; a key file that is lost with its
directory entry. The models have these behaviours (the properties say where they make an
exception for one), and neither the code nor its documents promise anything about them.

## 7. Not modelled

* Sealing (`seal_to`, `open_from`) is the NaCl box of a library; `Session` has whether a
  box opens. TLS is a library too, an await before the request.
* The JSON of `ClientInfo`, `ServerInfo` and of the admission request, `httparse`, the texts of
  HTTP responses, of `/metrics` and of logs, and the WebSocket accept key: formatting
  without state.
* The bytes of a STUN response and its checksum; the address in it is the datagram's source.
* Option parsing and PEM loading (`config.rs`, `load_tls`, `load_mesh_key`): read once,
  before anything runs concurrently.
* Rounding of `f64` in the two limiters, and the release of a writer's batch buffer
  (`shrink_check`), which only concerns memory.
* More than two servers: routes of several links are in `MeshRoutes`, and a forwarded
  packet is not forwarded again whichever link it came from (`ForwardedOnce`).
