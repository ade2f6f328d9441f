------------------------- MODULE PromotionLaneProofs -------------------------
(* Theorems about PromotionLane, for every value of its constants. *)
EXTENDS PromotionLane, TLAPS

\* The arithmetic of the client stays in the naturals.
LEMMA Arithmetic ==
  ASSUME NEW a \in Nat, NEW b \in Nat
  PROVE  /\ Larger(a, b) \in Nat /\ Larger(a, b) >= a /\ Larger(a, b) >= b
         /\ Smaller(a, b) \in Nat
         /\ Left(a) \in Nat /\ Left(a) <= a
         /\ LongBackoff * (a + 1) \in Nat
<1>1. LongBackoff \in Nat
  BY LaneAssumption
<1>2. \A x \in Nat, y \in Nat : x * y \in Nat
  OBVIOUS
<1>3. LongBackoff * (a + 1) \in Nat
  BY <1>1, <1>2
<1>4. QED
  BY <1>3 DEF Larger, Smaller, Left

\* The waits a call may meet.
LEMMA Waits ==
  ASSUME TypeOK, NEW r \in Request
  PROVE  /\ LaneOf[r] \in Lane /\ MinInterval[LaneOf[r]] \in Nat
         /\ call[r] \in Calls /\ call[r].wait \in Nat /\ call[r].quiet \in Nat
         /\ call[r].attempt \in 0..RetryAttempts
         /\ QuietWait(r) \in Nat /\ SlotWait(r) \in Nat /\ BaseDelay(r) \in Nat
<1>1. LaneOf[r] \in Lane /\ MinInterval[LaneOf[r]] \in Nat /\ cooldown[LaneOf[r]] \in Nat
  BY LaneAssumption DEF TypeOK
<1>2. call[r] \in Calls
  BY DEF TypeOK
<1>3. call[r].wait \in Nat /\ call[r].quiet \in Nat /\ call[r].attempt \in 0..RetryAttempts
  BY <1>2 DEF Calls
<1>4. Backoff[call[r].attempt] \in Nat
  BY <1>3, LaneAssumption
<1>5. QuietWait(r) \in Nat
  BY <1>3 DEF QuietWait
<1>6. QED
  BY <1>1, <1>2, <1>3, <1>4, <1>5, Arithmetic DEF SlotWait, BaseDelay

LEMMA InitTypeOK == Init => TypeOK
<1> SUFFICES ASSUME Init PROVE TypeOK
  OBVIOUS
<1>1. 0 \in 0..RetryAttempts
  BY LaneAssumption
<1>2. call \in [Request -> Calls]
  BY <1>1 DEF Init, Calls, CallStep
<1>3. queue \in [Lane -> Seq(Request)]
  BY DEF Init
<1>4. QED
  BY <1>2, <1>3, LaneAssumption DEF Init, TypeOK

\* A call that changes some of its fields stays a call.
LEMMA CallMoves ==
  ASSUME TypeOK, NEW r \in Request, NEW s \in CallStep, NEW n \in Nat, NEW a \in 0..RetryAttempts
  PROVE  /\ [call EXCEPT ![r].step = s] \in [Request -> Calls]
         /\ [call EXCEPT ![r].step = s, ![r].quiet = n] \in [Request -> Calls]
         /\ [call EXCEPT ![r].step = s, ![r].wait = n] \in [Request -> Calls]
         /\ [call EXCEPT ![r].step = s, ![r].wait = n, ![r].attempt = a] \in [Request -> Calls]
  BY DEF TypeOK, Calls

\* What backing off does to the types.
LEMMA HandlerTypeOK ==
  ASSUME TypeOK, NEW r \in Request, NEW delay \in Nat, NEW b \in BOOLEAN,
         GiveUp(r) \/ (~LastAttempt(r) /\ BackOff(r, delay, b))
  PROVE  /\ call' \in [Request -> Calls] /\ cooldown' \in [Lane -> Nat]
         /\ quiet' \in Nat
<1>1. CASE GiveUp(r)
  <2>1. call' \in [Request -> Calls]
    <3>1. call' = [call EXCEPT ![r].step = "failed"]
      BY <1>1 DEF GiveUp
    <3>2. 0 \in Nat /\ call[r].attempt \in 0..RetryAttempts
      BY Waits
    <3>3. QED
      BY <3>1, <3>2, CallMoves DEF CallStep
  <2>2. QED
    BY <1>1, <2>1 DEF GiveUp, TypeOK
<1>2. CASE ~LastAttempt(r) /\ BackOff(r, delay, b)
  <2>1. call[r].attempt + 1 \in 0..RetryAttempts
    <3>1. RetryAttempts \in Nat /\ call[r].attempt \in 0..RetryAttempts
      BY Waits, LaneAssumption
    <3>2. call[r].attempt # RetryAttempts
      BY <1>2 DEF LastAttempt
    <3>3. QED
      BY <3>1, <3>2
  <2>2. call' = [call EXCEPT ![r].step = "backoff", ![r].wait = delay,
                             ![r].attempt = call[r].attempt + 1]
    BY <1>2 DEF BackOff, TypeOK
  <2>3. call' \in [Request -> Calls]
    BY <2>1, <2>2, CallMoves DEF CallStep
  <2>4. cooldown' \in [Lane -> Nat]
    BY <1>2, Waits, Arithmetic DEF BackOff, TypeOK
  <2>5. quiet' \in Nat
    BY <1>2, Arithmetic DEF BackOff, TypeOK
  <2>6. QED
    BY <2>3, <2>4, <2>5
<1>3. QED
  BY <1>1, <1>2

\* The error handler gives up or backs off, and touches nothing else.
LEMMA HandlerSteps ==
  ASSUME TypeOK, NEW r \in Request,
         Refuse(r) \/ Throttled(r) \/ Unavailable(r) \/ Rejected(r)
  PROVE  /\ \E delay \in Nat, b \in BOOLEAN : GiveUp(r) \/ (~LastAttempt(r) /\ BackOff(r, delay, b))
         /\ UNCHANGED <<since, promised>>
         /\ UNCHANGED queue \/ (AtHead(r) /\ Leave(LaneOf[r]))
<1>1. ASSUME NEW after \in Nat, Handle429(r, after)
      PROVE  \E delay \in Nat, b \in BOOLEAN : GiveUp(r) \/ (~LastAttempt(r) /\ BackOff(r, delay, b))
  <2>1. Larger(BaseDelay(r), after) \in Nat
    BY Waits, Arithmetic
  <2>2. QED
    BY <1>1, <2>1 DEF Handle429
<1>2. ASSUME HandleBusy(r)
      PROVE  \E delay \in Nat, b \in BOOLEAN : GiveUp(r) \/ (~LastAttempt(r) /\ BackOff(r, delay, b))
  BY <1>2, Waits DEF HandleBusy
<1>3. CASE Refuse(r)
  BY <1>1, <1>2, <1>3, Waits DEF Refuse
<1>4. CASE Throttled(r)
  <2>1. call[r].attempt \in Nat
    BY Waits, LaneAssumption
  <2>2. \A after \in RetryAfter \union {LongBackoff * (call[r].attempt + 1)} : after \in Nat
    BY <2>1, Arithmetic, LaneAssumption
  <2>3. QED
    BY <1>1, <1>4, <2>2 DEF Throttled
<1>5. CASE Unavailable(r)
  BY <1>2, <1>5 DEF Unavailable
<1>6. CASE Rejected(r)
  <2>1. 0 \in Nat /\ TRUE \in BOOLEAN
    OBVIOUS
  <2>2. QED
    BY <1>6, <2>1 DEF Rejected
<1>7. QED
  BY <1>3, <1>4, <1>5, <1>6

\* A chain only holds calls.
LEMMA ChainTypes ==
  ASSUME TypeOK, NEW r \in Request
  PROVE  /\ [queue EXCEPT ![LaneOf[r]] = Append(queue[LaneOf[r]], r)] \in [Lane -> Seq(Request)]
         /\ queue[LaneOf[r]] # <<>> =>
              [queue EXCEPT ![LaneOf[r]] = Tail(queue[LaneOf[r]])] \in [Lane -> Seq(Request)]
<1>1. LaneOf[r] \in Lane /\ queue[LaneOf[r]] \in Seq(Request)
  BY LaneAssumption DEF TypeOK
<1>2. Append(queue[LaneOf[r]], r) \in Seq(Request)
  BY <1>1
<1>3. queue[LaneOf[r]] # <<>> => Tail(queue[LaneOf[r]]) \in Seq(Request)
  BY <1>1
<1>4. QED
  BY <1>2, <1>3 DEF TypeOK

\* Whoever sleeps or is served is at the head of the chain of its lane.
HeadOf(l) == Head(queue[l])
Chained ==
  \A r \in Request : call[r].step = "sleeping" => queue[LaneOf[r]] # <<>> /\ HeadOf(LaneOf[r]) = r

\* Every step keeps the types.
LEMMA StepTypeOK == TypeOK /\ Chained /\ [Next]_vars => TypeOK'
<1> SUFFICES ASSUME TypeOK, Chained, [Next]_vars PROVE TypeOK'
  OBVIOUS
<1>1. CASE Tick
  <2>1. call' \in [Request -> Calls]
    <3>1. \A r \in Request : [call[r] EXCEPT !.wait = Left(call[r].wait)] \in Calls
      <4>1. TAKE r \in Request
      <4>2. Left(call[r].wait) \in Nat /\ call[r] \in Calls
        BY Waits, Arithmetic
      <4>3. QED
        BY <4>2 DEF Calls
    <3>2. QED
      BY <1>1, <3>1 DEF Tick
  <2>2. cooldown' \in [Lane -> Nat] /\ promised' \in [Request -> Nat]
    BY <1>1, Arithmetic DEF Tick, TypeOK
  <2>3. quiet' \in Nat
    BY <1>1, Arithmetic DEF Tick, TypeOK
  <2>4. since' \in [Lane -> Nat]
    <3>1. \A l \in Lane : since[l] + 1 \in Nat /\ MinInterval[l] \in Nat
      BY LaneAssumption DEF TypeOK
    <3>2. QED
      BY <1>1, <3>1, Arithmetic DEF Tick
  <2>5. QED
    BY <1>1, <2>1, <2>2, <2>3, <2>4 DEF Tick, TypeOK
<1>2. ASSUME NEW d \in Priorities, Prioritize(d) PROVE TypeOK'
  <2>1. Larger(quiet, d) \in Nat
    BY Arithmetic, LaneAssumption DEF TypeOK
  <2>2. QED
    BY <1>2, <2>1 DEF Prioritize, TypeOK
<1>3. ASSUME NEW r \in Request, Start(r) \/ Retry(r) PROVE TypeOK'
  <2>1. Join(r)
    BY <1>3 DEF Start, Retry
  <2>2. call' \in [Request -> Calls]
    <3>1. quiet \in Nat /\ call[r].attempt \in 0..RetryAttempts
      BY Waits DEF TypeOK
    <3>2. QED
      BY <2>1, <3>1, CallMoves DEF Join, CallStep
  <2>3. QED
    BY <2>1, <2>2, ChainTypes DEF Join, TypeOK
<1>4. ASSUME NEW r \in Request, Sleep(r) PROVE TypeOK'
  <2>1. SlotWait(r) \in Nat /\ call[r].attempt \in 0..RetryAttempts
    BY Waits
  <2>2. call' \in [Request -> Calls]
    BY <1>4, <2>1, CallMoves DEF Sleep, CallStep
  <2>3. QED
    BY <1>4, <2>2 DEF Sleep, TypeOK
<1>5. ASSUME NEW r \in Request, TakeSlot(r) PROVE TypeOK'
  <2>1. queue[LaneOf[r]] # <<>>
    BY <1>5 DEF TakeSlot, HasSlot, AtHead, Chained
  <2>2. 0 \in Nat /\ call[r].attempt \in 0..RetryAttempts
    BY Waits
  <2>3. call' \in [Request -> Calls]
    BY <1>5, <2>2, CallMoves DEF TakeSlot, CallStep
  <2>4. queue' \in [Lane -> Seq(Request)]
    BY <1>5, <2>1, ChainTypes DEF TakeSlot, Leave
  <2>5. QED
    BY <1>5, <2>3, <2>4, LaneAssumption DEF TakeSlot, TypeOK
<1>6. ASSUME NEW r \in Request, Succeed(r) PROVE TypeOK'
  <2>1. 0 \in Nat /\ call[r].attempt \in 0..RetryAttempts
    BY Waits
  <2>2. call' \in [Request -> Calls]
    BY <1>6, <2>1, CallMoves DEF Succeed, CallStep
  <2>3. QED
    BY <1>6, <2>2 DEF Succeed, TypeOK
<1>7. ASSUME NEW r \in Request, Refuse(r) \/ Throttled(r) \/ Unavailable(r) \/ Rejected(r)
      PROVE TypeOK'
  <2>1. UNCHANGED <<since, promised>> /\ (UNCHANGED queue \/ (AtHead(r) /\ Leave(LaneOf[r])))
    BY <1>7, HandlerSteps
  <2>2. queue' \in [Lane -> Seq(Request)]
    BY <2>1, ChainTypes DEF AtHead, Leave, TypeOK
  <2>3. /\ call' \in [Request -> Calls] /\ cooldown' \in [Lane -> Nat]
        /\ quiet' \in Nat
    BY <1>7, HandlerSteps, HandlerTypeOK
  <2>4. QED
    BY <2>1, <2>2, <2>3 DEF TypeOK
<1>8. CASE UNCHANGED vars
  BY <1>8 DEF vars, TypeOK
<1>9. QED
  BY <1>1, <1>2, <1>3, <1>4, <1>5, <1>6, <1>7, <1>8 DEF Next, Progress

-----------------------------------------------------------------------------
(* Slots are an interval apart, and reads keep to what they were promised. *)

\* Why a slot is never too early: what is left to wait, for the lane or for
\* the call that sleeps, covers what is missing from the interval; and a read
\* still has to wait for as long as the suppression it was called under.
SlotInv ==
  /\ Chained
  /\ \A l \in Lane : cooldown[l] + since[l] >= MinInterval[l]
  /\ \A r \in Request :
       call[r].step = "sleeping" => call[r].wait + since[LaneOf[r]] >= MinInterval[LaneOf[r]]
  /\ \A r \in Request : LaneOf[r] \notin WriteLane =>
       /\ call[r].step = "queued" => promised[r] <= call[r].quiet
       /\ call[r].step = "sleeping" => promised[r] <= call[r].wait

LEMMA InitSlot == Init => SlotInv
<1> SUFFICES ASSUME Init PROVE SlotInv
  OBVIOUS
<1>1. \A r \in Request : call[r].step = "idle"
  BY DEF Init
<1>2. \A l \in Lane : cooldown[l] = 0 /\ since[l] = MinInterval[l] /\ MinInterval[l] \in Nat
  BY LaneAssumption DEF Init
<1>3. \A l \in Lane : cooldown[l] + since[l] >= MinInterval[l]
  BY <1>2
<1>4. QED
  BY <1>1, <1>3 DEF SlotInv, Chained

\* A call that is not served waits in front of nobody: when r leaves the head
\* of its chain, no other call of the lane sleeps.
LEMMA OneSleeper ==
  ASSUME Chained, NEW r \in Request, NEW q \in Request, call[q].step = "sleeping",
         LaneOf[q] = LaneOf[r], HeadOf(LaneOf[r]) = r
  PROVE  q = r
  BY DEF Chained

\* When r moves and its lane's chain grows at the end, or loses r at its head,
\* the other sleepers stay at the head of their chains.
LEMMA OthersChained ==
  ASSUME TypeOK, Chained, NEW r \in Request,
         \A q \in Request \ {r} : call'[q] = call[q],
         call'[r].step # "sleeping",
         \/ queue' = queue
         \/ queue' = [queue EXCEPT ![LaneOf[r]] = Append(queue[LaneOf[r]], r)]
         \/ HeadOf(LaneOf[r]) = r /\ Leave(LaneOf[r])
  PROVE  Chained'
<1> SUFFICES ASSUME NEW q \in Request, call'[q].step = "sleeping"
             PROVE  queue'[LaneOf[q]] # <<>> /\ Head(queue'[LaneOf[q]]) = q
  BY DEF Chained, HeadOf
<1>1. q # r /\ call[q].step = "sleeping"
  OBVIOUS
<1>2. queue[LaneOf[q]] # <<>> /\ Head(queue[LaneOf[q]]) = q
  BY <1>1 DEF Chained, HeadOf
<1>3. LaneOf[q] \in Lane /\ LaneOf[r] \in Lane /\ queue[LaneOf[q]] \in Seq(Request)
  BY LaneAssumption DEF TypeOK
<1>4. CASE queue' = queue
  BY <1>2, <1>4
<1>5. CASE queue' = [queue EXCEPT ![LaneOf[r]] = Append(queue[LaneOf[r]], r)]
  <2>1. CASE LaneOf[q] = LaneOf[r]
    <3>1. queue'[LaneOf[q]] = Append(queue[LaneOf[q]], r)
      BY <1>3, <1>5, <2>1 DEF TypeOK
    <3>2. QED
      BY <1>2, <1>3, <3>1
  <2>2. CASE LaneOf[q] # LaneOf[r]
    <3>1. queue'[LaneOf[q]] = queue[LaneOf[q]]
      BY <1>3, <1>5, <2>2 DEF TypeOK
    <3>2. QED
      BY <1>2, <3>1
  <2>3. QED
    BY <2>1, <2>2
<1>6. CASE HeadOf(LaneOf[r]) = r /\ Leave(LaneOf[r])
  <2>1. LaneOf[q] # LaneOf[r]
    BY <1>1, <1>6, OneSleeper
  <2>2. queue'[LaneOf[q]] = queue[LaneOf[q]]
    BY <1>3, <1>6, <2>1 DEF Leave, TypeOK
  <2>3. QED
    BY <1>2, <2>2
<1>7. QED
  BY <1>4, <1>5, <1>6

\* What counting down does.
LEMMA Countdown ==
  ASSUME NEW t \in Nat, NEW s \in Nat, NEW m \in Nat, t + s >= m
  PROVE  Left(t) + Smaller(s + 1, m) >= m
  BY DEF Left, Smaller

LEMMA StepSlot == TypeOK /\ SlotInv /\ [Next]_vars => SlotInv'
<1> SUFFICES ASSUME TypeOK, SlotInv, [Next]_vars PROVE SlotInv'
  OBVIOUS
<1>0. /\ Chained
      /\ \A l \in Lane : cooldown[l] \in Nat /\ since[l] \in Nat /\ MinInterval[l] \in Nat
      /\ \A r \in Request : LaneOf[r] \in Lane /\ call[r].wait \in Nat /\ promised[r] \in Nat
  BY Waits, LaneAssumption DEF SlotInv, TypeOK
<1>1. CASE Tick
  <2>1. \A l \in Lane : cooldown'[l] = Left(cooldown[l]) /\ since'[l] = Smaller(since[l] + 1, MinInterval[l])
    BY <1>1 DEF Tick
  <2>2. \A r \in Request : /\ call'[r].step = call[r].step /\ call'[r].quiet = call[r].quiet
                           /\ call'[r].wait = Left(call[r].wait) /\ promised'[r] = Left(promised[r])
    BY <1>1 DEF Tick, TypeOK, Calls
  <2>3. Chained'
    BY <1>0, <1>1, <2>2 DEF Tick, Chained, HeadOf
  <2>4. \A l \in Lane : cooldown'[l] + since'[l] >= MinInterval[l]
    BY <1>0, <2>1, Countdown DEF SlotInv
  <2>5. \A r \in Request :
          call'[r].step = "sleeping" => call'[r].wait + since'[LaneOf[r]] >= MinInterval[LaneOf[r]]
    BY <1>0, <2>1, <2>2, Countdown DEF SlotInv
  <2>6. ASSUME NEW r \in Request, LaneOf[r] \notin WriteLane
        PROVE  /\ call'[r].step = "queued" => promised'[r] <= call'[r].quiet
               /\ call'[r].step = "sleeping" => promised'[r] <= call'[r].wait
    <3>1. /\ call[r].step = "queued" => promised[r] <= call[r].quiet
          /\ call[r].step = "sleeping" => promised[r] <= call[r].wait
      BY <2>6 DEF SlotInv
    <3>2. promised[r] \in Nat /\ call[r].wait \in Nat /\ call[r].quiet \in Nat
      BY <1>0, Waits
    <3>3. QED
      BY <2>2, <3>1, <3>2 DEF Left
  <2>7. QED
    BY <2>3, <2>4, <2>5, <2>6 DEF SlotInv
<1>2. CASE \E d \in Priorities : Prioritize(d)
  <2>1. UNCHANGED <<cooldown, queue, call, since, promised>>
    BY <1>2 DEF Prioritize
  <2>2. QED
    BY <2>1 DEF SlotInv, Chained, HeadOf
<1>3. ASSUME NEW r \in Request, Start(r) \/ Retry(r) PROVE SlotInv'
  <2>1. Join(r)
    BY <1>3 DEF Start, Retry
  <2>2. call'[r].step = "queued" /\ call'[r].quiet = quiet /\ promised'[r] = quiet
        /\ \A q \in Request \ {r} : call'[q] = call[q] /\ promised'[q] = promised[q]
    BY <2>1 DEF Join, TypeOK, Calls
  <2>3. Chained'
    BY <1>0, <2>1, <2>2, OthersChained DEF Join
  <2>4. UNCHANGED <<cooldown, since>> /\ quiet \in Nat
    BY <2>1 DEF Join, TypeOK
  <2>5. QED
    BY <1>0, <2>2, <2>3, <2>4 DEF SlotInv
<1>4. ASSUME NEW r \in Request, Sleep(r) PROVE SlotInv'
  <2>1. /\ AtHead(r) /\ UNCHANGED <<cooldown, queue, since, promised>>
        /\ call' = [call EXCEPT ![r].step = "sleeping", ![r].wait = SlotWait(r)]
    BY <1>4 DEF Sleep
  <2>2. call'[r].step = "sleeping" /\ call'[r].wait = SlotWait(r)
        /\ \A q \in Request \ {r} : call'[q] = call[q]
    BY <2>1 DEF TypeOK, Calls
  <2>3. SlotWait(r) >= cooldown[LaneOf[r]] /\ SlotWait(r) >= QuietWait(r) /\ SlotWait(r) \in Nat
    BY <1>0, Waits, Arithmetic DEF SlotWait
  <2>4. Chained'
    BY <1>0, <2>1, <2>2 DEF Chained, HeadOf, AtHead
  <2>5. call'[r].wait + since'[LaneOf[r]] >= MinInterval[LaneOf[r]]
    <3>1. cooldown[LaneOf[r]] + since[LaneOf[r]] >= MinInterval[LaneOf[r]]
      BY <1>0 DEF SlotInv
    <3>2. QED
      BY <1>0, <2>1, <2>2, <2>3, <3>1
  <2>6. LaneOf[r] \notin WriteLane => promised[r] <= call'[r].wait
    <3>1. ASSUME LaneOf[r] \notin WriteLane PROVE promised[r] <= call[r].quiet /\ QuietWait(r) = call[r].quiet
      BY <2>1, <3>1 DEF SlotInv, AtHead, QuietWait
    <3>2. QED
      BY <1>0, <2>2, <2>3, <3>1, Waits
  <2>7. QED
    BY <1>0, <2>1, <2>2, <2>4, <2>5, <2>6 DEF SlotInv
<1>5. ASSUME NEW r \in Request, TakeSlot(r) PROVE SlotInv'
  <2> DEFINE l == LaneOf[r]
  <2>1. /\ HeadOf(l) = r /\ Leave(l) /\ promised' = promised
        /\ cooldown' = [cooldown EXCEPT ![l] = MinInterval[l]] /\ since' = [since EXCEPT ![l] = 0]
    BY <1>0, <1>5 DEF TakeSlot, HasSlot, AtHead, Chained, HeadOf
  <2>2. call'[r].step = "sending" /\ \A q \in Request \ {r} : call'[q] = call[q]
    BY <1>5 DEF TakeSlot, TypeOK, Calls
  <2>3. Chained'
    BY <1>0, <2>1, <2>2, OthersChained
  <2>4. \A m \in Lane : cooldown'[m] + since'[m] >= MinInterval[m]
    <3>1. TAKE m \in Lane
    <3>2. CASE m = l
      BY <1>0, <2>1, <3>2 DEF TypeOK
    <3>3. CASE m # l
      BY <2>1, <3>3 DEF SlotInv, TypeOK
    <3>4. QED
      BY <3>2, <3>3
  <2>5. ASSUME NEW q \in Request, call'[q].step = "sleeping"
        PROVE  call'[q].wait + since'[LaneOf[q]] >= MinInterval[LaneOf[q]]
    <3>1. q # r /\ call[q].step = "sleeping" /\ call'[q] = call[q]
      BY <2>2, <2>5
    <3>2. LaneOf[q] # l
      BY <1>0, <2>1, <3>1, OneSleeper
    <3>3. since'[LaneOf[q]] = since[LaneOf[q]]
      BY <1>0, <2>1, <3>2 DEF TypeOK
    <3>4. QED
      BY <3>1, <3>3 DEF SlotInv
  <2>6. QED
    BY <2>1, <2>2, <2>3, <2>4, <2>5 DEF SlotInv
<1>6. ASSUME NEW r \in Request, Succeed(r) PROVE SlotInv'
  <2>1. call'[r].step = "done" /\ \A q \in Request \ {r} : call'[q] = call[q]
    BY <1>6 DEF Succeed, TypeOK, Calls
  <2>2. Chained'
    BY <1>0, <1>6, <2>1, OthersChained DEF Succeed
  <2>3. UNCHANGED <<cooldown, since, promised>>
    BY <1>6 DEF Succeed
  <2>4. QED
    BY <2>1, <2>2, <2>3 DEF SlotInv
<1>7. ASSUME NEW r \in Request, Refuse(r) \/ Throttled(r) \/ Unavailable(r) \/ Rejected(r)
      PROVE SlotInv'
  <2>1. UNCHANGED <<since, promised>> /\ (UNCHANGED queue \/ (HeadOf(LaneOf[r]) = r /\ Leave(LaneOf[r])))
    BY <1>7, HandlerSteps DEF AtHead, HeadOf
  <2>2. PICK delay \in Nat, b \in BOOLEAN : GiveUp(r) \/ (~LastAttempt(r) /\ BackOff(r, delay, b))
    BY <1>7, HandlerSteps
  <2>3. call'[r].step \in {"failed", "backoff"} /\ \A q \in Request \ {r} : call'[q] = call[q]
    BY <2>2 DEF GiveUp, BackOff, TypeOK, Calls
  <2>4. Chained'
    BY <1>0, <2>1, <2>3, OthersChained
  <2>5. \A m \in Lane : cooldown'[m] >= cooldown[m] /\ cooldown'[m] \in Nat
    <3>1. CASE GiveUp(r)
      BY <1>0, <3>1 DEF GiveUp
    <3>2. CASE BackOff(r, delay, b)
      <4>1. cooldown' = [cooldown EXCEPT ![LaneOf[r]] = Larger(cooldown[LaneOf[r]], delay)]
        BY <3>2 DEF BackOff
      <4>2. Larger(cooldown[LaneOf[r]], delay) \in Nat /\ Larger(cooldown[LaneOf[r]], delay) >= cooldown[LaneOf[r]]
        BY <1>0, Arithmetic
      <4>3. QED
        BY <1>0, <4>1, <4>2 DEF TypeOK
    <3>3. QED
      BY <2>2, <3>1, <3>2
  <2>6. \A m \in Lane : cooldown'[m] + since'[m] >= MinInterval[m]
    BY <1>0, <2>1, <2>5 DEF SlotInv
  <2>7. QED
    BY <2>1, <2>3, <2>4, <2>6 DEF SlotInv
<1>8. CASE UNCHANGED vars
  BY <1>8 DEF vars, SlotInv, Chained, HeadOf
<1>9. QED
  BY <1>1, <1>2, <1>3, <1>4, <1>5, <1>6, <1>7, <1>8 DEF Next, Progress

\* Type correctness of the lanes.
THEOREM TypeCorrect == Spec => []TypeOK
<1>1. Init => TypeOK /\ SlotInv
  BY InitTypeOK, InitSlot
<1>2. TypeOK /\ SlotInv /\ [Next]_vars => (TypeOK /\ SlotInv)'
  BY StepTypeOK, StepSlot DEF SlotInv
<1>3. QED
  BY <1>1, <1>2, PTL DEF Spec

\* A request leaves only with a slot.
LEMMA SendsBySlot ==
  ASSUME TypeOK, [Next]_vars, NEW r \in Request, Sends(r) PROVE TakeSlot(r)
<1>1. ASSUME NEW q \in Request, q # r, Start(q) \/ Progress(q) PROVE FALSE
  <2>1. Start(q) \/ Retry(q) \/ Sleep(q) \/ TakeSlot(q) \/ Succeed(q) => call'[r] = call[r]
    BY <1>1 DEF Start, Retry, Join, Sleep, TakeSlot, Succeed, TypeOK, Calls
  <2>2. Refuse(q) \/ Throttled(q) \/ Unavailable(q) \/ Rejected(q) => call'[r] = call[r]
    <3>1. ASSUME NEW delay, NEW b, GiveUp(q) \/ BackOff(q, delay, b) PROVE call'[r] = call[r]
      BY <1>1, <3>1 DEF GiveUp, BackOff, TypeOK, Calls
    <3>2. QED
      BY <3>1, HandlerSteps
  <2>3. QED
    BY <1>1, <2>1, <2>2 DEF Sends, Progress
<1>2. CASE Start(r) \/ Retry(r) \/ Sleep(r) \/ Succeed(r)
  BY <1>2 DEF Start, Retry, Join, Sleep, Succeed, TypeOK, Calls, Sends
<1>3. CASE Refuse(r) \/ Throttled(r) \/ Unavailable(r) \/ Rejected(r)
  <2>1. ASSUME NEW delay, NEW b, GiveUp(r) \/ BackOff(r, delay, b) PROVE call'[r].step # "sending"
    BY <2>1 DEF GiveUp, BackOff, TypeOK, Calls
  <2>2. QED
    BY <1>3, <2>1, HandlerSteps DEF Sends
<1>4. CASE Tick
  <2>1. call'[r].step = call[r].step
    BY <1>4 DEF Tick, TypeOK, Calls
  <2>2. QED
    BY <2>1 DEF Sends
<1>5. CASE \E d \in Priorities : Prioritize(d)
  BY <1>5 DEF Prioritize, Sends
<1>6. CASE UNCHANGED vars
  BY <1>6 DEF vars, Sends
<1>7. QED
  BY <1>1, <1>2, <1>3, <1>4, <1>5, <1>6 DEF Next, Progress

\* Two requests of a lane are MinInterval apart, for any number of calls and
\* lanes and any delays.
THEOREM PacedCorrect == Spec => Paced
<1>1. TypeOK /\ SlotInv /\ [Next]_vars =>
        [\A r \in Request : Sends(r) => since[LaneOf[r]] >= MinInterval[LaneOf[r]]]_vars
  <2> SUFFICES ASSUME TypeOK, SlotInv, [Next]_vars, NEW r \in Request, Sends(r)
               PROVE  since[LaneOf[r]] >= MinInterval[LaneOf[r]]
    OBVIOUS
  <2>1. HasSlot(r)
    BY SendsBySlot DEF TakeSlot
  <2>2. /\ LaneOf[r] \in Lane /\ cooldown[LaneOf[r]] \in Nat /\ since[LaneOf[r]] \in Nat
        /\ MinInterval[LaneOf[r]] \in Nat /\ QuietWait(r) \in Nat
        /\ cooldown[LaneOf[r]] + since[LaneOf[r]] >= MinInterval[LaneOf[r]]
    BY Waits DEF TypeOK, SlotInv
  <2>3. CASE SlotWait(r) = 0
    <3>1. cooldown[LaneOf[r]] = 0
      BY <2>2, <2>3 DEF SlotWait, Larger
    <3>2. QED
      BY <2>2, <3>1
  <2>4. CASE call[r].step = "sleeping" /\ call[r].wait = 0
    BY <2>2, <2>4 DEF SlotInv
  <2>5. QED
    BY <2>1, <2>3, <2>4 DEF HasSlot
<1>2. Init => TypeOK /\ SlotInv
  BY InitTypeOK, InitSlot
<1>3. TypeOK /\ SlotInv /\ [Next]_vars => (TypeOK /\ SlotInv)'
  BY StepTypeOK, StepSlot DEF SlotInv
<1>4. QED
  BY <1>1, <1>2, <1>3, PTL DEF Spec, Paced

\* No read leaves before the suppression it was called under is over.
THEOREM CalledQuietCorrect == Spec => CalledQuietHeld
<1>1. TypeOK /\ SlotInv /\ [Next]_vars =>
        [\A r \in Request : Sends(r) /\ LaneOf[r] \notin WriteLane => promised[r] = 0]_vars
  <2> SUFFICES ASSUME TypeOK, SlotInv, [Next]_vars, NEW r \in Request, Sends(r),
                      LaneOf[r] \notin WriteLane
               PROVE  promised[r] = 0
    OBVIOUS
  <2>1. HasSlot(r)
    BY SendsBySlot DEF TakeSlot
  <2>2. cooldown[LaneOf[r]] \in Nat /\ call[r].quiet \in Nat /\ promised[r] \in Nat
    BY Waits DEF TypeOK
  <2>3. CASE AtHead(r) /\ SlotWait(r) = 0
    <3>1. promised[r] <= call[r].quiet /\ QuietWait(r) = call[r].quiet
      BY <2>3 DEF SlotInv, AtHead, QuietWait
    <3>2. QED
      BY <2>2, <2>3, <3>1 DEF SlotWait, Larger
  <2>4. CASE call[r].step = "sleeping" /\ call[r].wait = 0
    BY <2>2, <2>4 DEF SlotInv
  <2>5. QED
    BY <2>1, <2>3, <2>4 DEF HasSlot
<1>2. Init => TypeOK /\ SlotInv
  BY InitTypeOK, InitSlot
<1>3. TypeOK /\ SlotInv /\ [Next]_vars => (TypeOK /\ SlotInv)'
  BY StepTypeOK, StepSlot DEF SlotInv
<1>4. QED
  BY <1>1, <1>2, <1>3, PTL DEF Spec, CalledQuietHeld

=============================================================================
