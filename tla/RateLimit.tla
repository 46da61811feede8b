------------------------------ MODULE RateLimit ----------------------------
(***************************************************************************)
(* The TokenBucket a connection's reader passes every frame through        *)
(* (src/src/server.rs), with the client that fills the stream.             *)
(*                                                                         *)
(* Time is counted in ticks, the granularity of tokio's timers, and bytes  *)
(* in units so small that a tick earns rate of them: the floating-point    *)
(* arithmetic of the code is exact in these units.                         *)
(***************************************************************************)
EXTENDS Integers, Sequences

CONSTANTS
    Rates,          \* the values of Config.rate_limit
    Burst,          \* Config.rate_burst
    Sizes,          \* the lengths of packets clients send
    MaxPacket,      \* MAX_PACKET_SIZE
    Overhead,       \* what frame_cost adds to a packet (64 in the code)
    Late,           \* how late the runtime may wake a sleeping reader
    MaxTime,        \* bound: ticks
    MaxBacklog      \* bound: frames sent and not read

ASSUME RateAssumption ==
    /\ Rates \subseteq Nat /\ Burst \in Nat
    /\ MaxPacket \in Nat /\ Sizes \subseteq 0..MaxPacket
    /\ Overhead \in Nat \ {0} /\ Late \in Nat
    /\ MaxTime \in Nat /\ MaxBacklog \in Nat

NoPacket == -1      \* a frame without a packet

VARIABLES
    now,
    rate, can_mesh,         \* the configured rate; whether the session is exempt
    tokens, last,           \* TokenBucket
    reader, cost, wake,     \* the reader's await; the frame it sleeps for, and until when
    backlog, closed, due,   \* frames not read yet; end of the stream; when it must be noticed
    start, bytes            \* a window: its start, and the bytes admitted in it

config == <<rate, can_mesh>>
bucket == <<tokens, last, reader, cost, wake>>
stream == <<backlog, closed, due>>
window == <<start, bytes>>
rateVars == <<now, config, bucket, stream, window>>

RateInit ==
    /\ now = 0
    /\ rate \in Rates /\ can_mesh \in BOOLEAN
    /\ tokens = Burst /\ last = 0
    /\ reader = "reading" /\ cost = 0 /\ wake = 0
    /\ backlog = <<>> /\ closed = FALSE /\ due = 0
    /\ start = 0 /\ bytes = 0

-----------------------------------------------------------------------------
(* The reader and its TokenBucket *)

AtMost(a, b) == IF a <= b THEN a ELSE b

FrameCost(f) == (IF f = NoPacket THEN 0 ELSE f) + Overhead
MaxCost == MaxPacket + Overhead

Unlimited == can_mesh \/ rate = 0
RefilledUncapped == tokens + (now - last) * rate                      \* mutant
Refilled == AtMost(tokens + (now - last) * rate, Burst)

\* The sleep that earns what is missing ends with the first tick that has earned it.
WaitsLong(w, n) == rate * w >= n + Refilled /\ rate * (w - 1) < n + Refilled   \* mutant
Waits(w, n) == rate * w >= n - Refilled /\ rate * (w - 1) < n - Refilled

Admit(n) == bytes' = bytes + n

ReadFree ==
    /\ reader = "reading" /\ backlog # <<>> /\ Unlimited
    /\ backlog' = Tail(backlog)
    /\ UNCHANGED <<now, config, bucket, closed, due, window>>

ReadWithin ==
    LET n == FrameCost(Head(backlog))
    IN  /\ reader = "reading" /\ backlog # <<>> /\ ~Unlimited
        /\ Refilled >= n
        /\ tokens' = Refilled - n /\ last' = now
        /\ backlog' = Tail(backlog)
        /\ Admit(n)
        /\ UNCHANGED <<now, config, reader, cost, wake, closed, due, start>>

\* The bucket is emptied and the frame waits for the rest.
ReadBeyond ==
    LET n == FrameCost(Head(backlog))
    IN  /\ reader = "reading" /\ backlog # <<>> /\ ~Unlimited
        /\ Refilled < n
        /\ \E w \in 1..(n + Burst) : Waits(w, n) /\ wake' = now + w
        /\ tokens' = 0 /\ last' = now
        /\ reader' = "asleep" /\ cost' = n
        /\ backlog' = Tail(backlog)
        /\ UNCHANGED <<now, config, closed, due, window>>

Wake ==
    /\ reader = "asleep" /\ now >= wake
    /\ last' = now
    /\ reader' = "reading" /\ cost' = 0
    /\ Admit(cost)
    /\ UNCHANGED <<now, config, tokens, wake, backlog, closed, due, start>>

\* read_frame meets the end of the stream.
ReadEnd ==
    /\ reader = "reading" /\ backlog = <<>> /\ closed
    /\ reader' = "ended"
    /\ UNCHANGED <<now, config, tokens, last, cost, wake, backlog, closed, due, window>>

-----------------------------------------------------------------------------
(* The client, the clock and the observer *)

Send(f) ==
    /\ ~closed /\ Len(backlog) < MaxBacklog
    /\ backlog' = Append(backlog, f)
    /\ UNCHANGED <<now, config, bucket, closed, due, window>>

\* Each frame before the end of the stream may take as long as the largest one.
Longest == IF Unlimited THEN 0 ELSE MaxCost \div rate + 1 + Late

CloseStream ==
    /\ ~closed
    /\ closed' = TRUE
    /\ due' = (IF reader = "asleep" THEN wake + Late ELSE now) + Len(backlog) * Longest
    /\ UNCHANGED <<now, config, bucket, backlog, window>>

\* The reader runs when it can, and wakes at most Late ticks after its time.
Urgent == \/ reader = "reading" /\ (backlog # <<>> \/ closed)
          \/ reader = "asleep" /\ now >= wake + Late

Tick ==
    /\ now < MaxTime /\ ~Urgent
    /\ now' = now + 1
    /\ UNCHANGED <<config, bucket, stream, window>>

\* A window may start at any time.
Mark ==
    /\ start' = now /\ bytes' = 0
    /\ UNCHANGED <<now, config, bucket, stream>>

RateNext ==
    \/ ReadFree \/ ReadWithin \/ ReadBeyond \/ Wake \/ ReadEnd
    \/ \E f \in Sizes \cup {NoPacket} : Send(f)
    \/ CloseStream \/ Tick \/ Mark

RateSpec == RateInit /\ [][RateNext]_rateVars

-----------------------------------------------------------------------------

Largest == IF Burst >= MaxCost THEN Burst ELSE MaxCost

\* A client gets no more through the reader than it is configured for: in any window,
\* the burst (or the one frame that exceeds it) and the rate times the window.
RateBounded == ~Unlimited => bytes <= Largest + rate * (now - start)

\* The end of the stream is noticed although the reader sleeps: at the latest when the
\* frames sent before it have been paid for.
EndNoticed == closed /\ reader # "ended" => now <= due
=============================================================================
