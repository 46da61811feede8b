---------------------------- MODULE LimitsProofs ---------------------------
(* What the two limiters of a connection admit, for every rate, burst, packet *)
(* size and window.                                                           *)
EXTENDS AnswerLimit, RateLimit, TLAPS

\* Products by sums, for the arithmetic of elapsed time.
LEMMA Distributes ==
    ASSUME NEW r \in Int, NEW a \in Int, NEW b \in Int
    PROVE  r * (a + b) = r * a + r * b
BY SMT

\* A longer time earns no less.
LEMMA Monotonic ==
    ASSUME NEW r \in Nat, NEW a \in Int, NEW b \in Int, a <= b
    PROVE  r * a <= r * b
<1>1. r * (a + (b - a)) = r * a + r * (b - a)
  BY Distributes
<1>2. b - a \in Nat
  OBVIOUS
<1>3. r * (b - a) \in Nat
  BY <1>2
<1>4. r * a \in Int /\ r * b \in Int /\ a + (b - a) = b
  OBVIOUS
<1> QED
  BY <1>1, <1>3, <1>4

-----------------------------------------------------------------------------
(* PeerGoneLimiter *)

\* The types of the limiter, and times that lie in the past.
AnswerTypes ==
    /\ clock \in Nat /\ credit \in 0..(3 * Second) /\ answers \in Nat
    /\ updated \in 0..clock /\ answered \in 0..clock /\ from \in 0..clock

\* What was given out in the window and what the bucket holds was earned in it, or was
\* there when it started.
CreditEarned == answers * Second + Credit <= 3 * Second + 3 * (clock - from)

AnswerInv == AnswerTypes /\ CreditEarned /\ RefusalsAreFree

\* In any window a connection gets at most three answers and three per second, and a
\* refused packet delays no later answer.
THEOREM AnswersLimited == AnswerSpec => [](AnswersBounded /\ RefusalsAreFree)
<1>1. AnswerInit => AnswerInv
  BY AnswerAssumption DEF AnswerInit, AnswerInv, AnswerTypes, CreditEarned, RefusalsAreFree, Credit
<1>2. AnswerInv /\ [AnswerNext]_answerVars => AnswerInv'
  <2> SUFFICES ASSUME AnswerInv, [AnswerNext]_answerVars
               PROVE  AnswerInv'
    OBVIOUS
  <2> USE AnswerAssumption
  <2>0. Credit \in 0..(3 * Second) /\ answers * Second \in Nat
    BY DEF AnswerInv, AnswerTypes, Credit
  <2>1. CASE Allow
    <3>1. (answers + 1) * Second = answers * Second + Second
      BY Distributes DEF AnswerInv, AnswerTypes
    <3>2. AnswerTypes'
      BY <2>0, <2>1 DEF Allow, AnswerInv, AnswerTypes
    <3>3. Credit' = Credit - Second
      BY <2>0, <2>1 DEF Allow, Credit, AnswerInv, AnswerTypes
    <3>4. CreditEarned'
      BY <2>0, <2>1, <3>1, <3>3 DEF Allow, AnswerInv, AnswerTypes, CreditEarned
    <3>5. RefusalsAreFree'
      BY <2>0, <2>1, <3>3 DEF Allow, AnswerInv, AnswerTypes, RefusalsAreFree
    <3> QED
      BY <3>2, <3>4, <3>5 DEF AnswerInv
  <2>2. CASE Refuse
    <3>1. Credit' = Credit
      BY <2>0, <2>2 DEF Refuse, Credit, AnswerInv, AnswerTypes
    <3> QED
      BY <2>0, <2>2, <3>1 DEF Refuse, AnswerInv, AnswerTypes, CreditEarned, RefusalsAreFree
  <2>3. CASE Advance
    <3>1. Credit' = IF Credit + 3 <= 3 * Second THEN Credit + 3 ELSE 3 * Second
      BY <2>3 DEF Advance, Credit, AnswerInv, AnswerTypes
    <3> QED
      BY <2>0, <2>3, <3>1 DEF Advance, AnswerInv, AnswerTypes, CreditEarned, RefusalsAreFree
  <2>4. CASE Observe
    <3>1. Credit' = Credit
      BY <2>4 DEF Observe, Credit
    <3> QED
      BY <2>0, <2>4, <3>1 DEF Observe, AnswerInv, AnswerTypes, CreditEarned, RefusalsAreFree
  <2>5. CASE UNCHANGED answerVars
    BY <2>5 DEF answerVars, AnswerInv, AnswerTypes, CreditEarned, RefusalsAreFree, Credit
  <2> QED
    BY <2>1, <2>2, <2>3, <2>4, <2>5 DEF AnswerNext
<1>3. AnswerInv => AnswersBounded /\ RefusalsAreFree
  <2> SUFFICES ASSUME AnswerInv
               PROVE  AnswersBounded
    BY DEF AnswerInv
  <2>1. Credit \in Nat /\ answers * Second \in Nat
    BY AnswerAssumption DEF AnswerInv, AnswerTypes, Credit
  <2> QED
    BY <2>1, AnswerAssumption DEF AnswerInv, AnswerTypes, CreditEarned, AnswersBounded
<1> QED
  BY <1>1, <1>2, <1>3, PTL DEF AnswerSpec

-----------------------------------------------------------------------------
(* TokenBucket *)

\* The types of the bucket, the stream and the window, and times that lie in the past.
RateTypes ==
    /\ now \in Nat /\ rate \in Nat /\ can_mesh \in BOOLEAN
    /\ tokens \in 0..Burst /\ last \in 0..now
    /\ reader \in {"reading", "asleep", "ended"} /\ cost \in 0..MaxCost /\ wake \in Nat
    /\ backlog \in Seq(Sizes \cup {NoPacket})
    /\ start \in 0..now /\ bytes \in Nat

\* When the frame the reader sleeps for counts.
Paid == IF wake >= now THEN wake ELSE now

\* What was admitted in the window, with what the bucket holds or with the frame that is
\* being paid for, was earned in it or was there when it started.
BytesEarned ==
    /\ reader = "reading" => bytes + Refilled <= Largest + rate * (now - start)
    /\ reader = "asleep" => bytes + cost <= Largest + rate * (Paid - start) /\ tokens = 0
    /\ bytes <= Largest + rate * (now - start)

RateInv == RateTypes /\ (~Unlimited => BytesEarned)

\* The numbers the invariant speaks of.
LEMMA RateNumbers ==
    ASSUME RateTypes
    PROVE  /\ Burst \in Nat /\ MaxCost \in Nat /\ Largest \in Nat
           /\ Burst <= Largest /\ MaxCost <= Largest
           /\ rate * (now - start) \in Nat /\ rate * (now - last) \in Nat
           /\ Refilled \in 0..Burst
<1>1. now - start \in Nat /\ now - last \in Nat
  BY DEF RateTypes
<1>2. rate * (now - start) \in Nat /\ rate * (now - last) \in Nat /\ (now - last) * rate \in Nat
  BY <1>1 DEF RateTypes
<1> QED
  BY <1>2, RateAssumption DEF RateTypes, MaxCost, Largest, Refilled, AtMost

\* What a frame costs.
LEMMA CostBounded ==
    ASSUME NEW f \in Sizes \cup {NoPacket}
    PROVE  FrameCost(f) \in 1..MaxCost
BY RateAssumption DEF FrameCost, MaxCost, NoPacket

\* In any window the reader lets through the burst, or one larger frame, and the rate
\* times the window, for every rate, burst, frame size and lateness of the timer.
THEOREM RateLimited == RateSpec => []RateBounded
<1>1. RateInit => RateInv
  <2> SUFFICES ASSUME RateInit
               PROVE  RateInv
    OBVIOUS
  <2>1. RateTypes
    BY RateAssumption DEF RateInit, RateTypes, MaxCost
  <2>2. bytes + Refilled <= Largest + rate * (now - start)
    BY <2>1, RateNumbers DEF RateInit
  <2> QED
    BY <2>1, <2>2, RateNumbers DEF RateInit, RateInv, BytesEarned
<1>2. RateInv /\ [RateNext]_rateVars => RateInv'
  <2> SUFFICES ASSUME RateInv, [RateNext]_rateVars
               PROVE  RateInv'
    OBVIOUS
  <2>0. RateTypes
    BY DEF RateInv
  <2>n. /\ Burst \in Nat /\ MaxCost \in Nat /\ Largest \in Nat
        /\ Burst <= Largest /\ MaxCost <= Largest
        /\ rate * (now - start) \in Nat /\ rate * (now - last) \in Nat
        /\ Refilled \in 0..Burst
    BY <2>0, RateNumbers
  <2>c. backlog # <<>> => /\ FrameCost(Head(backlog)) \in 1..MaxCost
                          /\ Tail(backlog) \in Seq(Sizes \cup {NoPacket})
    <3>1. backlog # <<>> => Head(backlog) \in Sizes \cup {NoPacket}
      BY <2>0 DEF RateTypes
    <3> QED
      BY <2>0, <3>1, CostBounded DEF RateTypes
  <2>1. CASE ReadFree
    BY <2>0, <2>1, <2>c DEF ReadFree, RateInv, RateTypes, Unlimited, config, bucket, window
  <2>2. CASE ReadWithin
    <3> DEFINE n == FrameCost(Head(backlog))
    <3>1. n \in 1..MaxCost
      BY <2>2, <2>c DEF ReadWithin
    <3>2. /\ Refilled >= n /\ tokens' = Refilled - n /\ last' = now /\ now' = now
          /\ bytes' = bytes + n /\ reader = "reading" /\ reader' = "reading"
          /\ rate' = rate /\ can_mesh' = can_mesh /\ start' = start
          /\ backlog' = Tail(backlog) /\ backlog # <<>> /\ cost' = cost /\ wake' = wake
          /\ ~Unlimited
      BY <2>2 DEF ReadWithin, config, Admit
    <3> HIDE DEF n
    <3>3. RateTypes'
      BY <2>0, <2>n, <2>c, <3>1, <3>2 DEF RateTypes
    <3>4. Refilled' = Refilled - n
      <4>1. (now' - last') * rate' = 0
        BY <2>0, <3>2 DEF RateTypes
      <4> QED
        BY <2>0, <2>n, <3>1, <3>2, <4>1 DEF RateTypes, Refilled, AtMost
    <3>5. rate' * (now' - start') = rate * (now - start)
      BY <3>2
    <3>6. bytes' + Refilled' = bytes + Refilled
      BY <2>0, <2>n, <3>1, <3>2, <3>4 DEF RateTypes
    <3>7. bytes' + Refilled' <= Largest + rate' * (now' - start')
      BY <3>2, <3>5, <3>6 DEF RateInv, BytesEarned
    <3> QED
      BY <2>n, <3>2, <3>3, <3>4, <3>7 DEF RateInv, BytesEarned, RateTypes
  <2>3. CASE ReadBeyond
    <3> DEFINE n == FrameCost(Head(backlog))
    <3>1. n \in 1..MaxCost
      BY <2>3, <2>c DEF ReadBeyond
    <3>2. /\ Refilled < n /\ tokens' = 0 /\ last' = now /\ now' = now
          /\ bytes' = bytes /\ reader = "reading" /\ reader' = "asleep" /\ cost' = n
          /\ rate' = rate /\ can_mesh' = can_mesh /\ start' = start
          /\ backlog' = Tail(backlog) /\ backlog # <<>> /\ ~Unlimited
      BY <2>3 DEF ReadBeyond, config, window
    <3>3. PICK w \in 1..(n + Burst) : Waits(w, n) /\ wake' = now + w
      BY <2>3 DEF ReadBeyond
    <3> HIDE DEF n
    <3>4. w \in Nat /\ n \in Nat /\ rate * w >= n - Refilled
      BY <2>n, <3>1, <3>3 DEF Waits
    <3>5. RateTypes'
      BY <2>0, <2>n, <2>c, <3>1, <3>2, <3>3, <3>4 DEF RateTypes
    <3>6. Paid' = now + w
      BY <2>0, <3>2, <3>3, <3>4 DEF Paid, RateTypes
    <3>7. rate * ((now - start) + w) = rate * (now - start) + rate * w
      BY <2>0, <3>4, Distributes DEF RateTypes
    <3>8. rate' * (Paid' - start') = rate * ((now - start) + w)
      <4>1. Paid' - start' = (now - start) + w
        BY <2>0, <3>2, <3>4, <3>6 DEF RateTypes
      <4> QED
        BY <3>2, <4>1
    <3>9. bytes + Refilled <= Largest + rate * (now - start)
      BY <3>2 DEF RateInv, BytesEarned
    <3>10. rate * w \in Int /\ bytes \in Int
      BY <2>0, <3>4 DEF RateTypes
    <3>11. bytes' + cost' <= Largest + rate' * (Paid' - start')
      BY <2>n, <3>2, <3>4, <3>7, <3>8, <3>9, <3>10
    <3>12. bytes' <= Largest + rate' * (now' - start')
      BY <3>2 DEF RateInv, BytesEarned
    <3> QED
      BY <3>2, <3>5, <3>11, <3>12 DEF RateInv, BytesEarned
  <2>4. CASE Wake
    <3>1. /\ reader = "asleep" /\ now >= wake /\ last' = now /\ now' = now /\ cost' = 0
          /\ reader' = "reading" /\ bytes' = bytes + cost /\ rate' = rate
          /\ can_mesh' = can_mesh /\ tokens' = tokens /\ wake' = wake /\ backlog' = backlog
          /\ start' = start
      BY <2>4 DEF Wake, Admit, config
    <3>2. RateTypes'
      BY <2>0, <2>n, <3>1 DEF RateTypes
    <3>3. ASSUME ~Unlimited'
          PROVE  /\ bytes' + Refilled' <= Largest + rate' * (now' - start')
                 /\ bytes' <= Largest + rate' * (now' - start')
      <4>1. ~Unlimited
        BY <3>1, <3>3 DEF Unlimited
      <4>2. tokens = 0 /\ bytes + cost <= Largest + rate * (now - start)
        BY <2>0, <3>1, <4>1 DEF RateInv, BytesEarned, Paid, RateTypes
      <4>3. (now' - last') * rate' = 0
        BY <2>0, <3>1 DEF RateTypes
      <4>4. Refilled' = 0
        BY <2>n, <3>1, <4>2, <4>3 DEF Refilled, AtMost
      <4> QED
        BY <2>0, <2>n, <3>1, <4>2, <4>4 DEF RateTypes
    <3> QED
      BY <3>1, <3>2, <3>3 DEF RateInv, BytesEarned
  <2>5. CASE ReadEnd
    <3>1. RateTypes'
      BY <2>0, <2>5 DEF ReadEnd, RateTypes, config, window
    <3>2. ~Unlimited => bytes <= Largest + rate * (now - start)
      BY <2>0, <2>n, <2>5 DEF ReadEnd, RateInv, BytesEarned, RateTypes
    <3> QED
      BY <2>5, <3>1, <3>2 DEF ReadEnd, RateInv, BytesEarned, Unlimited, config, window
  <2>6. ASSUME NEW f \in Sizes \cup {NoPacket}, Send(f)
        PROVE  RateInv'
    <3>1. RateTypes'
      BY <2>0, <2>6 DEF Send, RateTypes, config, bucket, window
    <3> QED
      BY <2>6, <3>1 DEF Send, RateInv, BytesEarned, Unlimited, Refilled, Paid, config, bucket, window
  <2>7. CASE CloseStream
    <3>1. RateTypes'
      BY <2>0, <2>7 DEF CloseStream, RateTypes, config, bucket, window
    <3> QED
      BY <2>7, <3>1 DEF CloseStream, RateInv, BytesEarned, Unlimited, Refilled, Paid, config, bucket, window
  <2>8. CASE Tick
    <3>1. /\ now' = now + 1 /\ rate' = rate /\ can_mesh' = can_mesh /\ tokens' = tokens
          /\ last' = last /\ reader' = reader /\ cost' = cost /\ wake' = wake
          /\ backlog' = backlog /\ start' = start /\ bytes' = bytes
      BY <2>8 DEF Tick, config, bucket, stream, window
    <3>2. RateTypes'
      BY <2>0, <3>1 DEF RateTypes
    <3>3. rate' * (now' - start') = rate * (now - start) + rate
      <4>1. now' - start' = (now - start) + 1
        BY <2>0, <3>1 DEF RateTypes
      <4>2. rate * ((now - start) + 1) = rate * (now - start) + rate * 1
        BY <2>0, Distributes DEF RateTypes
      <4> QED
        BY <2>0, <3>1, <4>1, <4>2 DEF RateTypes
    <3>4. Refilled' <= Refilled + rate
      <4>1. now' - last' = (now - last) + 1
        BY <2>0, <3>1 DEF RateTypes
      <4>2. (now' - last') * rate' = rate * ((now - last) + 1)
        BY <2>0, <3>1, <4>1 DEF RateTypes
      <4>3. rate * ((now - last) + 1) = rate * (now - last) + rate * 1
        BY <2>0, Distributes DEF RateTypes
      <4>4. (now - last) * rate = rate * (now - last)
        BY <2>0 DEF RateTypes
      <4> QED
        BY <2>0, <2>n, <3>1, <4>2, <4>3, <4>4 DEF RateTypes, Refilled, AtMost
    <3>5. Refilled' \in Nat
      <4>1. now' - last' \in Nat /\ rate' \in Nat /\ tokens' \in Nat
        BY <2>0, <2>n, <3>1 DEF RateTypes
      <4>2. (now' - last') * rate' \in Nat
        BY <4>1
      <4> QED
        BY <2>n, <4>1, <4>2 DEF Refilled, AtMost
    <3>6. rate * (Paid - start) <= rate' * (Paid' - start')
      <4>1. Paid <= Paid' /\ Paid \in Nat /\ Paid' \in Nat
        BY <2>0, <3>1 DEF RateTypes, Paid
      <4>0. start \in Nat
        BY <2>0 DEF RateTypes
      <4>2. Paid - start <= Paid' - start /\ Paid - start \in Int /\ Paid' - start \in Int
        <5>1. \A p, q, a \in Nat : p <= q => p - a <= q - a /\ p - a \in Int /\ q - a \in Int
          OBVIOUS
        <5> QED
          BY <4>0, <4>1, <5>1
      <4> QED
        BY <2>0, <3>1, <4>2, Monotonic DEF RateTypes
    <3>7. rate * (Paid - start) \in Int /\ rate' * (Paid' - start') \in Int
      BY <2>0, <3>1 DEF RateTypes, Paid
    <3>8. ASSUME ~Unlimited'
          PROVE  BytesEarned'
      <4>1. BytesEarned
        BY <3>1, <3>8 DEF RateInv, Unlimited
      <4>2. reader' = "reading" => bytes' + Refilled' <= Largest + rate' * (now' - start')
        <5>1. reader = "reading" => bytes + Refilled <= Largest + rate * (now - start)
          BY <4>1 DEF BytesEarned
        <5>2. bytes \in Nat /\ rate \in Nat
          BY <2>0 DEF RateTypes
        <5> QED
          BY <2>n, <3>1, <3>3, <3>4, <3>5, <5>1, <5>2
      <4>3. reader' = "asleep" => bytes' + cost' <= Largest + rate' * (Paid' - start') /\ tokens' = 0
        BY <2>0, <2>n, <3>1, <3>6, <3>7, <4>1 DEF RateTypes, BytesEarned
      <4>4. bytes' <= Largest + rate' * (now' - start')
        BY <2>0, <2>n, <3>1, <3>3, <4>1 DEF RateTypes, BytesEarned
      <4> QED
        BY <4>2, <4>3, <4>4 DEF BytesEarned
    <3> QED
      BY <3>2, <3>8 DEF RateInv
  <2>9. CASE Mark
    <3>1. /\ start' = now /\ bytes' = 0 /\ now' = now /\ rate' = rate /\ can_mesh' = can_mesh
          /\ tokens' = tokens /\ last' = last /\ reader' = reader /\ cost' = cost
          /\ wake' = wake /\ backlog' = backlog
      BY <2>9 DEF Mark, config, bucket, stream
    <3>2. RateTypes'
      BY <2>0, <3>1 DEF RateTypes
    <3>3. rate' * (now' - start') = 0
      BY <2>0, <3>1 DEF RateTypes
    <3>4. Refilled' = Refilled
      BY <3>1 DEF Refilled
    <3>5. rate' * (Paid' - start') \in Nat
      <4>1. Paid' - start' \in Nat
        BY <2>0, <3>1 DEF RateTypes, Paid
      <4> QED
        BY <2>0, <3>1, <4>1 DEF RateTypes
    <3>6. ASSUME ~Unlimited'
          PROVE  BytesEarned'
      <4>1. BytesEarned
        BY <3>1, <3>6 DEF RateInv, Unlimited
      <4> QED
        BY <2>0, <2>n, <3>1, <3>3, <3>4, <3>5, <4>1 DEF RateTypes, BytesEarned
    <3> QED
      BY <3>2, <3>6 DEF RateInv
  <2>10. CASE UNCHANGED rateVars
    BY <2>10 DEF rateVars, config, bucket, stream, window, RateInv, RateTypes, BytesEarned, Unlimited, Refilled, Paid
  <2> QED
    BY <2>1, <2>2, <2>3, <2>4, <2>5, <2>6, <2>7, <2>8, <2>9, <2>10 DEF RateNext
<1>3. RateInv => RateBounded
  <2> SUFFICES ASSUME RateInv, ~Unlimited
               PROVE  bytes <= Largest + rate * (now - start)
    BY DEF RateBounded
  <2> QED
    BY DEF RateInv, BytesEarned
<1> QED
  BY <1>1, <1>2, <1>3, PTL DEF RateSpec
=============================================================================
