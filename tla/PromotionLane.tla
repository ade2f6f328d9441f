---------------------------- MODULE PromotionLane ----------------------------
(***************************************************************************)
(* The request lanes of the WB Promotion API client                        *)
(* (wb-promotion-api.client.ts and its parts): every call takes a slot of  *)
(* its lane, waits for the cooldown of the lane, sends, and on a retryable *)
(* failure backs off and takes another slot.                               *)
(*                                                                         *)
(* An absolute time of the code (nextAllowedRequestAtMs,                   *)
(* backgroundSuppressedUntilMs, the end of a sleep) is kept as the time    *)
(* that is left until it, so Tick counts all of them down together.  A     *)
(* timer may fire late: nothing forces a step when its time has come.      *)
(***************************************************************************)
EXTENDS Naturals, Sequences

CONSTANTS
  Request,       \* calls of the client
  Lane,
  LaneOf,        \* [Request -> Lane]
  WriteLane,     \* lanes that ignore the suppression of background reads
  MinInterval,   \* [Lane -> Nat]
  FailFast,      \* calls with failFastOnTooManyRequests
  Unlimited,     \* no maxQueueWaitMs
  MaxQueueWait,  \* [Request -> Nat \union {Unlimited}]
  RetryAttempts, \* wbPromotionRetryAttempts
  Backoff,       \* Backoff[n]: wbPromotionRetryBaseDelayMs * 2 ^ n
  LongBackoff,   \* 60 seconds, per attempt, for a 429 that names no delay
  RetryAfter,    \* delays a 429 may name
  Priorities     \* durations prioritizeBidWrites is called with

ASSUME LaneAssumption ==
  /\ LaneOf \in [Request -> Lane]
  /\ WriteLane \subseteq Lane
  /\ MinInterval \in [Lane -> Nat]
  /\ FailFast \subseteq Request
  /\ MaxQueueWait \in [Request -> Nat \union {Unlimited}]
  /\ Unlimited \notin Nat
  /\ RetryAttempts \in Nat
  /\ Backoff \in [0..RetryAttempts -> Nat]
  /\ LongBackoff \in Nat
  /\ RetryAfter \subseteq Nat
  /\ Priorities \subseteq Nat \ {0}

CallStep == {"idle", "queued", "sleeping", "sending", "backoff", "done", "failed"}

VARIABLES
  cooldown, \* per lane: time until nextAllowedRequestAtMs
  quiet,    \* time until backgroundSuppressedUntilMs
  queue,    \* per lane: calls linked in requestThrottleQueue
  call,     \* per call: step, time left to sleep, suppression read, attempt
  since,    \* ghost, per lane: time since the last slot, up to MinInterval
  promised  \* ghost, per call: suppression left that was in force at the call

vars == <<cooldown, quiet, queue, call, since, promised>>

Calls == [step : CallStep, wait : Nat, quiet : Nat, attempt : 0..RetryAttempts]

\* The types of the lanes and of the calls.
TypeOK ==
  /\ cooldown \in [Lane -> Nat]
  /\ quiet \in Nat
  /\ queue \in [Lane -> Seq(Request)]
  /\ call \in [Request -> Calls]
  /\ since \in [Lane -> Nat]
  /\ promised \in [Request -> Nat]

Init ==
  /\ cooldown = [l \in Lane |-> 0]
  /\ quiet = 0
  /\ queue = [l \in Lane |-> <<>>]
  /\ call = [r \in Request |-> [step |-> "idle", wait |-> 0, quiet |-> 0, attempt |-> 0]]
  /\ since = MinInterval
  /\ promised = [r \in Request |-> 0]

Larger(a, b) == IF a < b THEN b ELSE a
Smaller(a, b) == IF a < b THEN a ELSE b

-----------------------------------------------------------------------------
\* Time passes for everybody.
\* Faulty variant: a remaining delay that is not floored at zero.
Left_Unfloored(t) == t - 1

Left(t) == IF t = 0 THEN 0 ELSE t - 1

Tick ==
  /\ cooldown' = [l \in Lane |-> Left(cooldown[l])]
  /\ quiet' = Left(quiet)
  /\ call' = [r \in Request |-> [call[r] EXCEPT !.wait = Left(call[r].wait)]]
  /\ since' = [l \in Lane |-> Smaller(since[l] + 1, MinInterval[l])]
  /\ promised' = [r \in Request |-> Left(promised[r])]
  /\ UNCHANGED queue

\* prioritizeBidWrites: background reads are to stay away for a while.
Prioritize(d) ==
  /\ quiet' = Larger(quiet, d)
  /\ UNCHANGED <<cooldown, queue, call, since, promised>>

\* A call, or its next attempt, reads the suppression and joins the chain.
Join(r) ==
  /\ queue' = [queue EXCEPT ![LaneOf[r]] = Append(queue[LaneOf[r]], r)]
  /\ call' = [call EXCEPT ![r].step = "queued", ![r].quiet = quiet]
  /\ promised' = [promised EXCEPT ![r] = quiet]
  /\ UNCHANGED <<cooldown, quiet, since>>

Start(r) == call[r].step = "idle" /\ Join(r)

Retry(r) == call[r].step = "backoff" /\ call[r].wait = 0 /\ Join(r)

\* The chain resolved: r computes how long it has to wait.
AtHead(r) == call[r].step = "queued" /\ queue[LaneOf[r]] # <<>> /\ Head(queue[LaneOf[r]]) = r

\* Faulty variant: nobody waits for the suppression.
QuietWait_Nobody(r) == 0

QuietWait(r) == IF LaneOf[r] \in WriteLane THEN 0 ELSE call[r].quiet

SlotWait(r) == Larger(cooldown[LaneOf[r]], QuietWait(r))

TooLong(r) == MaxQueueWait[r] # Unlimited /\ SlotWait(r) > MaxQueueWait[r]

Sleep(r) ==
  /\ AtHead(r) /\ ~TooLong(r) /\ SlotWait(r) > 0
  /\ call' = [call EXCEPT ![r].step = "sleeping", ![r].wait = SlotWait(r)]
  /\ UNCHANGED <<cooldown, quiet, queue, since, promised>>

HasSlot(r) == \/ AtHead(r) /\ ~TooLong(r) /\ SlotWait(r) = 0
              \/ call[r].step = "sleeping" /\ call[r].wait = 0

Leave(l) == queue' = [queue EXCEPT ![l] = Tail(queue[l])]

\* Faulty variant: the slot does not start an interval.
TakeSlot_Free(r) ==
  /\ HasSlot(r)
  /\ since' = [since EXCEPT ![LaneOf[r]] = 0]
  /\ call' = [call EXCEPT ![r].step = "sending"]
  /\ Leave(LaneOf[r])
  /\ UNCHANGED <<cooldown, quiet, promised>>

\* The slot: the lane's next one is an interval away, and the request leaves.
TakeSlot(r) ==
  /\ HasSlot(r)
  /\ cooldown' = [cooldown EXCEPT ![LaneOf[r]] = MinInterval[LaneOf[r]]]
  /\ since' = [since EXCEPT ![LaneOf[r]] = 0]
  /\ call' = [call EXCEPT ![r].step = "sending"]
  /\ Leave(LaneOf[r])
  /\ UNCHANGED <<quiet, promised>>

Succeed(r) ==
  /\ call[r].step = "sending"
  /\ call' = [call EXCEPT ![r].step = "done"]
  /\ UNCHANGED <<cooldown, quiet, queue, since, promised>>

\* The error handler of an attempt; after: the delay a 429 names, if any.
BaseDelay(r) == Larger(MinInterval[LaneOf[r]], Backoff[call[r].attempt])

GiveUp(r) ==
  /\ call' = [call EXCEPT ![r].step = "failed"]
  /\ UNCHANGED <<cooldown, quiet>>

BackOff(r, delay, is429) ==
  /\ call' = [call EXCEPT ![r].step = "backoff", ![r].wait = delay,
                          ![r].attempt = call[r].attempt + 1]
  /\ cooldown' = [cooldown EXCEPT ![LaneOf[r]] = Larger(cooldown[LaneOf[r]], delay)]
  /\ quiet' = IF is429 THEN Larger(quiet, delay) ELSE quiet

LastAttempt(r) == call[r].attempt = RetryAttempts

Handle429(r, after) ==
  IF r \in FailFast \/ LastAttempt(r) THEN GiveUp(r)
                                      ELSE BackOff(r, Larger(BaseDelay(r), after), TRUE)

HandleBusy(r) == IF LastAttempt(r) THEN GiveUp(r) ELSE BackOff(r, BaseDelay(r), FALSE)

\* The wait is longer than the caller allows: a local 429 on a write lane,
\* a 503 on a read lane; both go through the error handler.
\* Faulty variant: the chain is not released.
Refuse_Holding(r) ==
  /\ AtHead(r) /\ TooLong(r)
  /\ IF LaneOf[r] \in WriteLane THEN Handle429(r, SlotWait(r)) ELSE HandleBusy(r)
  /\ UNCHANGED <<queue, since, promised>>

Refuse(r) ==
  /\ AtHead(r) /\ TooLong(r)
  /\ IF LaneOf[r] \in WriteLane THEN Handle429(r, SlotWait(r)) ELSE HandleBusy(r)
  /\ Leave(LaneOf[r])
  /\ UNCHANGED <<since, promised>>

Throttled(r) ==
  /\ call[r].step = "sending"
  /\ \E after \in RetryAfter \union {LongBackoff * (call[r].attempt + 1)} : Handle429(r, after)
  /\ UNCHANGED <<queue, since, promised>>

\* 502, 503, 504, a timeout or a broken connection.
Unavailable(r) ==
  /\ call[r].step = "sending"
  /\ HandleBusy(r)
  /\ UNCHANGED <<queue, since, promised>>

\* 400 and 403 are not retried.
Rejected(r) ==
  /\ call[r].step = "sending"
  /\ GiveUp(r)
  /\ UNCHANGED <<queue, since, promised>>

-----------------------------------------------------------------------------
Progress(r) == \/ Retry(r) \/ Sleep(r) \/ TakeSlot(r) \/ Refuse(r)
               \/ Succeed(r) \/ Throttled(r) \/ Unavailable(r) \/ Rejected(r)

Next ==
  \/ Tick
  \/ \E d \in Priorities : Prioritize(d)
  \/ \E r \in Request : Start(r) \/ Progress(r)

Spec == Init /\ [][Next]_vars

\* Time passes, timers fire and every request is answered or times out.
Fairness == WF_vars(Tick) /\ \A r \in Request : WF_vars(Progress(r))

FairSpec == Spec /\ Fairness

-----------------------------------------------------------------------------
(* Properties. *)

Sends(r) == call[r].step # "sending" /\ call'[r].step = "sending"

\* Two requests of a lane leave at least MinInterval apart, however slots,
\* retries and refusals interleave (waitForPromotionRequestSlot).
Paced == [][\A r \in Request : Sends(r) => since[LaneOf[r]] >= MinInterval[LaneOf[r]]]_vars

\* A read lane sends nothing before the suppression it was called under is
\* over, even after a wait in the chain.
CalledQuietHeld ==
  [][\A r \in Request : Sends(r) /\ LaneOf[r] \notin WriteLane => promised[r] = 0]_vars

\* Every call returns: the chain of a lane is always released and retries end.
CallsReturn == \A r \in Request : call[r].step = "queued" ~> call[r].step \in {"done", "failed"}
=============================================================================
