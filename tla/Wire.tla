-------------------------------- MODULE Wire -------------------------------
(***************************************************************************)
(* A stream of frames as it is cut into reads.  A server reads the request *)
(* head in chunks and may read on into the frames behind it (read_request, *)
(* PrefixedIo: src/src/http.rs); a mesh client reads the response head     *)
(* byte by byte (read_upgrade: src/src/mesh.rs); both then read frames     *)
(* with read_frame (src/src/protocol.rs).                                  *)
(*                                                                         *)
(* The network returns as much of a read as it likes, and may fail.        *)
(***************************************************************************)
EXTENDS Codec

CONSTANTS
    HeadLimit,      \* MAX_HTTP_HEADER
    Chunk,          \* length of a read of read_request (4096 in the code)
    FrameLimit,     \* the max of read_frame
    Heads,          \* heads the other end sends, without the empty line that ends them
    Bodies          \* what it sends then: sequences of items

ASSUME WireAssumption ==
    /\ HeadLimit \in Nat /\ Chunk \in Nat \ {0}
    /\ FrameLimit >= PacketLimit + 2    \* both keys and the packet of a ForwardPacket fit

\* An item is what is sent and what it should decode to: a frame this program encodes,
\* or one of another program.
Sent(f) == [raw |-> EncodeInto(<<>>, f), frame |-> f]
Foreign(kind, payload, f) == [raw |-> <<kind, Len(payload)>> \o payload, frame |-> f]

\* A head is made of line ends and text.  One that starts with Refusal does not parse as
\* a request, or is a response other than 101.
Text == 0
Line == 1
Refusal == 2

VARIABLES
    role,           \* "server" or "mesh"
    head, body,     \* what the other end sends
    flight, lost,   \* the units of it not read yet; the connection was cut
    stage,          \* "head", "header", "payload" or "failed"
    text,           \* buffer of read_request and read_upgrade
    prefix,         \* PrefixedIo.prefix: what was read of the frames with the head
    part, header,   \* read_exact's buffer; the last header, a kind and a length
    decoded         \* the frames decoded

message == <<role, head, body>>
wireVars == <<message, flight, lost, stage, text, prefix, part, header, decoded>>

Raw(items) ==
    LET all[i \in 0..Len(items)] == IF i = 0 THEN <<>> ELSE all[i - 1] \o items[i].raw
    IN  all[Len(items)]

WireInit ==
    /\ role \in {"server", "mesh"} /\ head \in Heads /\ body \in Bodies
    /\ flight = head \o <<Line, Line>> \o Raw(body) /\ lost = FALSE
    /\ stage = "head" /\ text = <<>> /\ prefix = <<>>
    /\ part = <<>> /\ header = <<>> /\ decoded = <<>>

-----------------------------------------------------------------------------
(* The head: read_request and read_upgrade *)

Front(n, s) == SubSeq(s, 1, n)
Rest(n, s) == SubSeq(s, n + 1, Len(s))

\* The buffer holds the end of the head at n.
EndsAt(n) == n >= 2 /\ text[n - 1] = Line /\ text[n] = Line
Ended == \E n \in DOMAIN text : EndsAt(n)

TooLarge == ~Ended /\ IF role = "server" THEN Len(text) >= HeadLimit ELSE Len(text) > HeadLimit

\* A read returns some of what has been asked for.
ReadHead ==
    /\ stage = "head" /\ ~Ended /\ ~TooLarge
    /\ \E n \in 1..(IF role = "server" THEN Chunk ELSE 1) :
          /\ n <= Len(flight)
          /\ text' = text \o Front(n, flight)
          /\ flight' = Rest(n, flight)
    /\ UNCHANGED <<message, lost, stage, prefix, part, header, decoded>>

Refused == TooLarge \/ (Ended /\ text[1] = Refusal)
HeadRefused ==
    /\ stage = "head" /\ Refused
    /\ stage' = "failed"
    /\ UNCHANGED <<message, flight, lost, text, prefix, part, header, decoded>>

\* What was read beyond the head is the prefix of the stream.
LeftoverLost(n) == <<>>                                                 \* mutant
Leftover(n) == Rest(n, text)

HeadDone ==
    /\ stage = "head" /\ Ended /\ ~Refused
    /\ \E n \in DOMAIN text :
          /\ EndsAt(n) /\ \A i \in 1..(n - 1) : ~EndsAt(i)
          /\ prefix' = Leftover(n)
    /\ text' = <<>>
    /\ stage' = "header"
    /\ UNCHANGED <<message, flight, lost, part, header, decoded>>

-----------------------------------------------------------------------------
(* read_frame, through PrefixedIo *)

Want == CASE stage = "header" -> 2 [] stage = "payload" -> header[2] [] OTHER -> 0
Wants == stage \in {"header", "payload"} /\ Len(part) < Want

ReadPrefix ==
    LET room == Want - Len(part)
        n == IF Len(prefix) <= room THEN Len(prefix) ELSE room
    IN  /\ Wants /\ prefix # <<>>
        /\ part' = part \o Front(n, prefix)
        /\ prefix' = Rest(n, prefix)
        /\ UNCHANGED <<message, flight, lost, stage, text, header, decoded>>

ReadMore ==
    /\ Wants /\ prefix = <<>>
    /\ \E n \in 1..(Want - Len(part)) :
          /\ n <= Len(flight)
          /\ part' = part \o Front(n, flight)
          /\ flight' = Rest(n, flight)
    /\ UNCHANGED <<message, lost, stage, text, prefix, header, decoded>>

HeaderRead ==
    /\ stage = "header" /\ ~Wants
    /\ header' = part
    /\ part' = <<>>
    /\ stage' = IF part[2] > FrameLimit THEN "failed" ELSE "payload"
    /\ UNCHANGED <<message, flight, lost, text, prefix, decoded>>

PayloadRead ==
    LET f == Decode(header[1], part)
    IN  /\ stage = "payload" /\ ~Wants
        /\ decoded' = IF f = Bad THEN decoded ELSE Append(decoded, f)
        /\ stage' = IF f = Bad THEN "failed" ELSE "header"
        /\ part' = <<>>
        /\ UNCHANGED <<message, flight, lost, text, prefix, header>>

\* The end of the stream, or of what is left of it.
ReadEof ==
    /\ flight = <<>> /\ prefix = <<>>
    /\ Wants \/ (stage = "head" /\ ~Ended /\ ~TooLarge)
    /\ stage' = "failed"
    /\ UNCHANGED <<message, flight, lost, text, prefix, part, header, decoded>>

Cut ==
    /\ flight # <<>>
    /\ flight' = <<>> /\ lost' = TRUE
    /\ UNCHANGED <<message, stage, text, prefix, part, header, decoded>>

WireNext ==
    \/ ReadHead \/ HeadRefused \/ HeadDone
    \/ ReadPrefix \/ ReadMore \/ HeaderRead \/ PayloadRead \/ ReadEof \/ Cut

WireSpec == WireInit /\ [][WireNext]_wireVars

-----------------------------------------------------------------------------

\* The frames up to the first that is not one.
Expected == LET good == {n \in 0..Len(body) : \A i \in 1..n : body[i].frame # Bad}
                n == CHOOSE m \in good : \A i \in good : i <= m
            IN  [i \in 1..n |-> body[i].frame]

GoodHead == head[1] # Refusal /\ Len(head) + 2 <= HeadLimit

\* However the stream is cut into reads, the frames decoded are those that were sent, in
\* order, and unknown ones do not shift those behind them; none is missing unless the
\* connection was cut or the head refused.
FramesFaithful ==
    /\ Len(decoded) <= Len(Expected) /\ decoded = Front(Len(decoded), Expected)
    /\ stage = "failed" /\ ~lost /\ GoodHead => decoded = Expected
=============================================================================
