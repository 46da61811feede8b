----------------------------- MODULE AnswerLimit ---------------------------
(***************************************************************************)
(* The PeerGoneLimiter of a connection: how often a packet to an absent    *)
(* node is answered with PeerGone(NotHere) (src/src/relay.rs).             *)
(*                                                                         *)
(* Time is counted in ticks, Second of them in a second.  An answer is     *)
(* worth Second units of the bucket, so a tick earns three units, and the  *)
(* floating-point arithmetic of the code is exact.                         *)
(***************************************************************************)
EXTENDS Integers

CONSTANTS
    Second,         \* ticks of a second
    MaxClock        \* bound: ticks

ASSUME AnswerAssumption == Second \in Nat \ {0} /\ MaxClock \in Nat

VARIABLES
    clock,
    credit, updated,    \* PeerGoneLimiter.tokens and .updated
    answered,           \* time of the last answer, or of the connection
    from, answers       \* a window: its start, and the answers in it

answerVars == <<clock, credit, updated, answered, from, answers>>

AnswerInit ==
    /\ clock = 0
    /\ credit = 3 * Second /\ updated = 0
    /\ answered = 0 /\ from = 0 /\ answers = 0

CreditDoubled == LET c == credit + (clock - updated) * 6                \* mutant
                 IN  IF c <= 3 * Second THEN c ELSE 3 * Second
Credit == LET c == credit + (clock - updated) * 3
          IN  IF c <= 3 * Second THEN c ELSE 3 * Second

\* A packet that looks like disco is answered,
Allow ==
    /\ Credit >= Second
    /\ credit' = Credit - Second /\ updated' = clock
    /\ answered' = clock /\ answers' = answers + 1
    /\ UNCHANGED <<clock, from>>

\* or it is not.
RefuseAndEmpty ==                                                       \* mutant
    /\ Credit < Second
    /\ credit' = 0 /\ updated' = clock
    /\ UNCHANGED <<clock, answered, from, answers>>
Refuse ==
    /\ Credit < Second
    /\ credit' = Credit /\ updated' = clock
    /\ UNCHANGED <<clock, answered, from, answers>>

Advance ==
    /\ clock < MaxClock
    /\ clock' = clock + 1
    /\ UNCHANGED <<credit, updated, answered, from, answers>>

\* A window may start at any time.
Observe ==
    /\ from' = clock /\ answers' = 0
    /\ UNCHANGED <<clock, credit, updated, answered>>

AnswerNext == Allow \/ Refuse \/ Advance \/ Observe

AnswerSpec == AnswerInit /\ [][AnswerNext]_answerVars

-----------------------------------------------------------------------------

\* A connection gets at most three NotHere answers and three per second in any window,
\* and so never more than six in a second.
AnswersBounded == answers * Second <= 3 * Second + 3 * (clock - from)

\* A refused answer costs nothing: a second after the last answer, three more may be
\* given, however many packets were refused in between.
RefusalsAreFree ==
    Credit >= IF clock - answered <= Second THEN 3 * (clock - answered) ELSE 3 * Second
=============================================================================
