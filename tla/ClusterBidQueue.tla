--------------------------- MODULE ClusterBidQueue ---------------------------
(***************************************************************************)
(* The durable cluster bid queue of backend/src/wb-clusters: HTTP commands *)
(* write the desired bid of some clusters and a job in PostgreSQL; a       *)
(* single-flight write pass of the one backend process claims due jobs,    *)
(* merges them, sends bids to the WB Promotion API and resolves the jobs.  *)
(*                                                                         *)
(* One action is one database transaction, one autocommitted query, one WB *)
(* call or one synchronous stretch of JavaScript between two awaits, so    *)
(* commands, the pass, background statements, timers and crashes           *)
(* interleave exactly where the code yields.                               *)
(*                                                                         *)
(* Data: a bid is identified with the job that asked for it, so "WB shows  *)
(* bid j" means WB shows the value job j carried.  A key is one            *)
(* (advert, product, cluster); its group is the (advert, product).         *)
(***************************************************************************)
EXTENDS Naturals, FiniteSets

CONSTANTS
  Key,          \* (advertId, nmId, normalized cluster name)
  Group,        \* (advertId, nmId)
  GroupOf,      \* [Key -> Group]
  Job,          \* bid commands, each with the job it creates
  Requests,     \* the sets of keys a command may name (one group each)
  None,         \* "no bid"
  PassLimit,    \* maxBidJobsPerPass (200)
  BatchLimit,   \* bids per WB request (100)
  MaxAttempts,  \* maxClusterBidJobAttempts (8)
  WbOutcomes,   \* what a setNormQueryBids request may end in
  ReadbackMode, \* WB_CLUSTER_BID_READBACK
  ReadbackFails,\* may the readback request itself fail?
  Faults,       \* kinds of failure considered
  MaxFaults     \* bound on the number of failures

ASSUME BidQueueAssumption ==
  /\ GroupOf \in [Key -> Group]
  /\ Requests \subseteq (SUBSET Key) \ {{}}
  /\ \A K \in Requests : \A k, l \in K : GroupOf[k] = GroupOf[l]
  /\ None \notin Job
  /\ PassLimit \in Nat \ {0}
  /\ BatchLimit \in Nat \ {0}
  /\ MaxAttempts \in Nat \ {0}
  /\ WbOutcomes \subseteq {"accepted", "ignored", "throttled", "lost", "rejected"}
  /\ ReadbackMode \in {"off", "observe", "enforce"}
  /\ ReadbackFails \in BOOLEAN
  /\ Faults \subseteq {"crash", "query", "command"}
  /\ MaxFaults \in Nat

JobActive  == {"queued", "running", "retry_scheduled"}
JobStatus  == JobActive \union {"absent", "succeeded", "failed"}
ItemActive == {"queued", "running", "retry_scheduled"}
ItemStatus == ItemActive \union {"none", "confirmed", "failed"}
RowWaiting == {"queued", "sending", "throttled", "pending"}
RowStatus  == RowWaiting \union {"none", "confirmed", "failed"}
CmdStage   == {"idle", "desired", "stamped", "opened", "accepted", "lost"}
PassStep   == {"idle", "claim", "pick", "mark", "send", "verify", "confirm",
               "completeJobs", "completeItems", "catch",
               "reschedJobs", "reschedItems", "failJobs", "failItems"}
PassError  == {"none", "recoverable", "fatal"}

VARIABLES
  cmd,      \* stage of each HTTP command
  asks,     \* keys each command names
  follows,  \* ghost: commands already answered when this one arrived
  sees,     \* jobs visible to the command's supersede statements
  older,    \* older[j]: jobs with an earlier created_at
  ahead,    \* ahead[j]: jobs with an earlier next_attempt_at
  status,   \* wb_cluster_bid_jobs.status
  item,     \* wb_cluster_bid_job_items.item_status, per job and key
  attempts, \* wb_cluster_bid_jobs.attempt_count
  ready,    \* jobs whose claim-time condition on the clock holds
  row,      \* wb_cluster_bids: desired bid and bid_sync_status
  wb,       \* the bid WB really uses
  cooldown, \* bid-write lane has nextAllowedRequestAtMs in the future
  timer,    \* bidQueuePassTimer is armed
  pass,     \* the in-flight write pass
  drops,    \* fire-and-forget failClusterBidJobs calls not finished yet
  faults    \* failures so far

cmdVars == <<cmd, asks, follows, sees, older>>
jobVars == <<status, item, attempts>>
vars == <<cmdVars, jobVars, ahead, ready, row, wb, cooldown, timer, pass,
          drops, faults>>

NoPlan   == [k \in Key |-> None]
IdlePass == [step |-> "idle", claimed |-> {}, plan |-> NoPlan, jobs |-> {},
             keys |-> {}, unsent |-> {}, error |-> "none"]

Passes == [step : PassStep, claimed : SUBSET Job, plan : [Key -> Job \union {None}],
           jobs : SUBSET Job, keys : SUBSET Key, unsent : SUBSET Key,
           error : PassError]

Drops == [jobs : SUBSET Job, step : {"jobs", "items"}]

\* The type invariant of the queue: tables, volatile state and the pass.
TypeOK ==
  /\ cmd \in [Job -> CmdStage]
  /\ asks \in [Job -> SUBSET Key]
  /\ follows \in [Job -> SUBSET Job]
  /\ sees \in [Job -> SUBSET Job]
  /\ older \in [Job -> SUBSET Job]
  /\ ahead \in [Job -> SUBSET Job]
  /\ status \in [Job -> JobStatus]
  /\ item \in [Job -> [Key -> ItemStatus]]
  /\ attempts \in [Job -> Nat]
  /\ ready \subseteq Job
  /\ row \in [Key -> [job : Job \union {None}, status : RowStatus]]
  /\ wb \in [Key -> Job \union {None}]
  /\ cooldown \in BOOLEAN
  /\ timer \in BOOLEAN
  /\ pass \in Passes
  /\ drops \subseteq Drops
  /\ faults \in Nat

Init ==
  /\ cmd = [j \in Job |-> "idle"]
  /\ asks = [j \in Job |-> {}]
  /\ follows = [j \in Job |-> {}]
  /\ sees = [j \in Job |-> {}]
  /\ older = [j \in Job |-> {}]
  /\ ahead = [j \in Job |-> {}]
  /\ status = [j \in Job |-> "absent"]
  /\ item = [j \in Job |-> [k \in Key |-> "none"]]
  /\ attempts = [j \in Job |-> 0]
  /\ ready = {}
  /\ row = [k \in Key |-> [job |-> None, status |-> "none"]]
  /\ wb = [k \in Key |-> None]
  /\ cooldown = FALSE
  /\ timer = FALSE
  /\ pass = IdlePass
  /\ drops = {}
  /\ faults = 0

-----------------------------------------------------------------------------
(* Commands: applyProductClusterBids, then createClusterBidJob. *)

\* Transaction 1: the desired bid is upserted as "queued".
Desire(j, K) ==
  /\ cmd[j] = "idle"
  /\ cmd' = [cmd EXCEPT ![j] = "desired"]
  /\ asks' = [asks EXCEPT ![j] = K]
  /\ follows' = [follows EXCEPT ![j] = {i \in Job : cmd[i] = "accepted"}]
  /\ row' = [k \in Key |-> IF k \in K THEN [job |-> j, status |-> "queued"]
                                      ELSE row[k]]
  /\ UNCHANGED <<sees, older, jobVars, ahead, ready, wb, cooldown, timer, pass,
                 drops, faults>>

Stamped == {j \in Job : cmd[j] \in {"stamped", "opened", "accepted"} \/ status[j] # "absent"}

\* j goes to the end of the next_attempt_at order.
MoveLast(j) ==
  ahead' = [i \in Job |-> IF i = j THEN {m \in Stamped : m # j} ELSE ahead[i] \ {j}]

\* queuedAt, taken before the connection: created_at and next_attempt_at.
Stamp(j) ==
  /\ cmd[j] = "desired"
  /\ cmd' = [cmd EXCEPT ![j] = "stamped"]
  /\ older' = [older EXCEPT ![j] = {m \in Stamped : m # j}]
  /\ MoveLast(j)
  /\ UNCHANGED <<asks, follows, sees, jobVars, ready, row, wb, cooldown, timer,
                 pass, drops, faults>>

\* The supersede statements start: READ COMMITTED shows them committed jobs.
Open(j) ==
  /\ cmd[j] = "stamped"
  /\ cmd' = [cmd EXCEPT ![j] = "opened"]
  /\ sees' = [sees EXCEPT ![j] = {i \in Job : status[i] # "absent"}]
  /\ UNCHANGED <<asks, follows, older, jobVars, ahead, ready, row, wb, cooldown,
                 timer, pass, drops, faults>>

SameGroup(i, j) == \E k \in asks[i], l \in asks[j] : GroupOf[k] = GroupOf[l]

\* Rows of other jobs that j's statements match, and what they make of them.
Rivals(j) == {i \in sees[j] : status[i] \in JobActive /\ SameGroup(i, j)}

\* Faulty variants: every item of a rival, or only items not yet claimed.
Superseded_All(j) ==
  [i \in Job |-> [k \in Key |->
     IF i \in Rivals(j) /\ item[i][k] \in ItemActive THEN "failed" ELSE item[i][k]]]
Superseded_Idle(j) ==
  [i \in Job |-> [k \in Key |->
     IF i \in Rivals(j) /\ k \in asks[j] /\ item[i][k] \in {"queued", "retry_scheduled"}
       THEN "failed" ELSE item[i][k]]]

Superseded(j) ==
  [i \in Job |-> [k \in Key |->
     IF i \in Rivals(j) /\ k \in asks[j] /\ item[i][k] \in ItemActive
       THEN "failed" ELSE item[i][k]]]

\* COMMIT of transaction 2, then the debounce timer; the archive write
\* between the two may fail, which skips the timer.
Accept(j) ==
  /\ cmd[j] = "opened"
  /\ cmd' = [cmd EXCEPT ![j] = "accepted"]
  /\ LET left == Superseded(j) IN
       /\ item' = [left EXCEPT ![j] = [k \in Key |-> IF k \in asks[j] THEN "queued" ELSE "none"]]
       /\ status' = [i \in Job |->
            IF i = j THEN "queued"
            ELSE IF i \in Rivals(j) /\ \A k \in Key : left[i][k] \notin ItemActive
              THEN "failed" ELSE status[i]]
  /\ ready' = ready \union {j}
  /\ timer' \in {timer, TRUE}
  /\ UNCHANGED <<asks, follows, sees, older, attempts, ahead, row, wb, cooldown,
                 pass, drops, faults>>

-----------------------------------------------------------------------------
(* Clock: jobs become due, stale or the lane cools down. *)

\* Jobs the process holds in memory; nobody else reads their readiness.
Held == pass.claimed \union pass.jobs \union UNION {d.jobs : d \in drops}

\* next_attempt_at of a retry is reached.
Due(j) ==
  /\ status[j] = "retry_scheduled" /\ j \notin ready
  /\ j \notin Held
  /\ ready' = ready \union {j}
  /\ MoveLast(j)
  /\ UNCHANGED <<cmdVars, jobVars, row, wb, cooldown, timer, pass, drops, faults>>

\* 90 seconds since last_attempt_at of a job nobody works on any more.
Age(j) ==
  /\ status[j] = "running" /\ j \notin ready
  /\ j \notin Held
  /\ ready' = ready \union {j}
  /\ UNCHANGED <<cmdVars, jobVars, ahead, row, wb, cooldown, timer, pass, drops,
                 faults>>

CooldownEnds ==
  /\ cooldown
  /\ cooldown' = FALSE
  /\ UNCHANGED <<cmdVars, jobVars, ahead, ready, row, wb, timer, pass, drops, faults>>

-----------------------------------------------------------------------------
(* The write pass. *)

\* The debounce timer: a pass in flight or a cooldown swallows it.
TimerFires ==
  /\ timer
  /\ timer' = FALSE
  /\ pass' = IF pass.step = "idle" /\ ~cooldown THEN [pass EXCEPT !.step = "claim"] ELSE pass
  /\ UNCHANGED <<cmdVars, jobVars, ahead, ready, row, wb, cooldown, drops, faults>>

CronTick ==
  /\ pass.step = "idle" /\ ~cooldown
  /\ pass' = [pass EXCEPT !.step = "claim"]
  /\ UNCHANGED <<cmdVars, jobVars, ahead, ready, row, wb, cooldown, timer, drops, faults>>

\* Faulty variant: no reclaim of running jobs.
Claimable_NoReclaim == {j \in ready : status[j] \in {"queued", "retry_scheduled"}}

Claimable == {j \in ready : status[j] \in JobActive}

\* ORDER BY next_attempt_at LIMIT PassLimit.
FirstDue(C) ==
  /\ \A j \in C : ahead[j] \intersect Claimable \subseteq C
  /\ Cardinality(C) <= PassLimit
  /\ C = Claimable \/ Cardinality(C) = PassLimit

Live(C, k) == {j \in C : item[j][k] \in ItemActive}

\* The newest created_at among claimed jobs wins each key.
Merged(C, plan) ==
  \A k \in Key :
    IF Live(C, k) = {} THEN plan[k] = None
    ELSE plan[k] \in Live(C, k) /\ Live(C, k) \ {plan[k]} \subseteq older[plan[k]]

JobsOf(C, gs) == {j \in C : \E k \in asks[j] : GroupOf[k] \in gs}
KeysOf(plan, gs) == {k \in Key : GroupOf[k] \in gs /\ plan[k] # None}

\* Groups of C, with something to send or with nothing left.
GroupsOf(C) == {g \in Group : JobsOf(C, {g}) # {}}
Sendable(C, plan) == {g \in GroupsOf(C) : KeysOf(plan, {g}) # {}}

\* Claim and prepare: a group without live items is failed in the background.
Claim(C, plan) ==
  /\ pass.step = "claim" /\ ~cooldown
  /\ C \in SUBSET Claimable /\ C # {}
  /\ FirstDue(C)
  /\ Merged(C, plan)
  /\ status' = [j \in Job |-> IF j \in C THEN "running" ELSE status[j]]
  /\ attempts' = [j \in Job |-> IF j \in C THEN attempts[j] + 1 ELSE attempts[j]]
  /\ item' = [j \in Job |-> [k \in Key |->
       IF j \in C /\ item[j][k] \in ItemActive THEN "running" ELSE item[j][k]]]
  /\ ready' = ready \ C
  /\ pass' = [IdlePass EXCEPT !.step = "pick", !.plan = plan,
                !.claimed = JobsOf(C, Sendable(C, plan))]
  /\ drops' = drops \union
       {[jobs |-> JobsOf(C, {g}), step |-> "jobs"] : g \in GroupsOf(C) \ Sendable(C, plan)}
  /\ UNCHANGED <<cmdVars, ahead, row, wb, cooldown, timer, faults>>

\* The loop ends on a cooldown or an empty claim.
Drained ==
  /\ pass.step = "claim"
  /\ cooldown \/ Claimable = {}
  /\ pass' = IdlePass
  /\ UNCHANGED <<cmdVars, jobVars, ahead, ready, row, wb, cooldown, timer, drops, faults>>

Rest == Sendable(pass.claimed, pass.plan)
SizeOf(gs) == Cardinality(KeysOf(pass.plan, gs))

\* Oversized groups go first and alone; the others are packed greedily.
NextBatch(gs) ==
  /\ gs # {}
  /\ LET large == {g \in Rest : SizeOf({g}) > BatchLimit} IN
       IF large # {}
         THEN \E g \in large : gs = {g}
         ELSE /\ SizeOf(gs) <= BatchLimit
              /\ \/ gs = Rest
                 \/ \E g \in Rest \ gs : SizeOf(gs \union {g}) > BatchLimit

Pick(gs) ==
  /\ pass.step = "pick" /\ pass.claimed # {}
  /\ gs \in SUBSET Rest /\ NextBatch(gs)
  /\ LET js == JobsOf(pass.claimed, gs)
         ks == KeysOf(pass.plan, gs)
     IN pass' = [pass EXCEPT !.step = "mark", !.jobs = js, !.keys = ks, !.unsent = ks,
                             !.claimed = @ \ js, !.error = "none"]
  /\ UNCHANGED <<cmdVars, jobVars, ahead, ready, row, wb, cooldown, timer, drops, faults>>

NextRound ==
  /\ pass.step = "pick" /\ pass.claimed = {}
  /\ pass' = [IdlePass EXCEPT !.step = "claim"]
  /\ UNCHANGED <<cmdVars, jobVars, ahead, ready, row, wb, cooldown, timer, drops, faults>>

WriteRows(st) ==
  row' = [k \in Key |-> IF k \in pass.keys THEN [job |-> pass.plan[k], status |-> st]
                                           ELSE row[k]]

Mark ==
  /\ pass.step = "mark"
  /\ WriteRows("sending")
  /\ pass' = [pass EXCEPT !.step = "send"]
  /\ UNCHANGED <<cmdVars, jobVars, ahead, ready, wb, cooldown, timer, drops, faults>>

\* Faulty variant: only a 4xx counts as an error.
ErrorOf_Swallowed(outcome) == IF outcome = "rejected" THEN "fatal" ELSE "none"

ErrorOf(outcome) ==
  CASE outcome = "rejected" -> "fatal"
    [] outcome \in {"throttled", "lost"} -> "recoverable"
    [] OTHER -> "none"

\* One request of at most BatchLimit bids; a slot taken starts the interval.
Send(chunk, outcome) ==
  /\ pass.step = "send"
  /\ chunk \in SUBSET pass.unsent
  /\ Cardinality(chunk) <= BatchLimit
  /\ chunk = pass.unsent \/ Cardinality(chunk) = BatchLimit
  /\ wb' = [k \in Key |-> IF k \in chunk /\ outcome \in {"accepted", "lost"}
                            THEN pass.plan[k] ELSE wb[k]]
  /\ cooldown' = TRUE
  /\ LET e == ErrorOf(outcome)
         left == pass.unsent \ chunk
     IN pass' = [pass EXCEPT
          !.step = IF e # "none" THEN "catch" ELSE IF left = {} THEN "verify" ELSE "send",
          !.unsent = IF e # "none" THEN @ ELSE left,
          !.error = e]
  /\ UNCHANGED <<cmdVars, jobVars, ahead, ready, row, timer, drops, faults>>

Mismatch == \E k \in pass.keys : wb[k] # pass.plan[k]

\* verifyBidReadback: only "enforce" turns a mismatch into a retry.
Verify ==
  /\ pass.step = "verify"
  /\ \/ /\ ReadbackMode = "enforce" /\ Mismatch
        /\ pass' = [pass EXCEPT !.step = "catch", !.error = "recoverable"]
     \/ /\ ReadbackMode # "enforce" \/ ReadbackFails \/ ~Mismatch
        /\ pass' = [pass EXCEPT !.step = "confirm"]
  /\ UNCHANGED <<cmdVars, jobVars, ahead, ready, row, wb, cooldown, timer, drops, faults>>

Confirm ==
  /\ pass.step = "confirm"
  /\ WriteRows("confirmed")
  /\ pass' = [pass EXCEPT !.step = "completeJobs"]
  /\ UNCHANGED <<cmdVars, jobVars, ahead, ready, wb, cooldown, timer, drops, faults>>

\* The error handler: give up, or back off and try again.
\* Faulty variant: one attempt too many.
Exhausted_Late == \E j \in pass.jobs : attempts[j] > MaxAttempts

Exhausted == \E j \in pass.jobs : attempts[j] >= MaxAttempts

\* Faulty variant: giving up leaves the rows as they are.
Catch_Silent ==
  /\ pass.step = "catch"
  /\ IF pass.error = "fatal" \/ Exhausted
       THEN /\ UNCHANGED row
            /\ pass' = [pass EXCEPT !.step = "failJobs"]
       ELSE /\ \E st \in {"throttled", "pending"} : WriteRows(st)
            /\ pass' = [pass EXCEPT !.step = "reschedJobs"]
  /\ UNCHANGED <<cmdVars, jobVars, ahead, ready, wb, cooldown, timer, drops, faults>>

Catch ==
  /\ pass.step = "catch"
  /\ IF pass.error = "fatal" \/ Exhausted
       THEN /\ WriteRows("failed")
            /\ pass' = [pass EXCEPT !.step = "failJobs"]
       ELSE /\ \E st \in {"throttled", "pending"} : WriteRows(st)
            /\ pass' = [pass EXCEPT !.step = "reschedJobs"]
  /\ UNCHANGED <<cmdVars, jobVars, ahead, ready, wb, cooldown, timer, drops, faults>>

-----------------------------------------------------------------------------
(* Resolution: two autocommitted queries each, on every row of the jobs. *)

JobsBecome(js, st) == status' = [j \in Job |-> IF j \in js THEN st ELSE status[j]]

ItemsBecome(js, st) ==
  item' = [j \in Job |-> [k \in Key |->
             IF j \in js /\ item[j][k] # "none" THEN st ELSE item[j][k]]]

\* The first query moves the jobs to st and the pass to the second one.
ResolveJobs(from, st, to) ==
  /\ pass.step = from
  /\ JobsBecome(pass.jobs, st)
  /\ pass' = [pass EXCEPT !.step = to]
  /\ UNCHANGED <<cmdVars, item, attempts, ahead, ready, row, wb, cooldown, timer,
                 drops, faults>>

\* The second query moves all their items, superseded ones too.
ResolveItems(from, st) ==
  /\ pass.step = from
  /\ ItemsBecome(pass.jobs, st)
  /\ pass' = [pass EXCEPT !.step = "pick", !.jobs = {}, !.keys = {}, !.unsent = {},
                          !.error = "none"]
  /\ UNCHANGED <<cmdVars, status, attempts, ahead, ready, row, wb, cooldown, timer,
                 drops, faults>>

\* Faulty variant: the item status written to the job.
CompleteJobs_ItemStatus == ResolveJobs("completeJobs", "confirmed", "completeItems")

CompleteJobs == ResolveJobs("completeJobs", "succeeded", "completeItems")
CompleteItems == ResolveItems("completeItems", "confirmed")
RescheduleJobs == ResolveJobs("reschedJobs", "retry_scheduled", "reschedItems")
RescheduleItems == ResolveItems("reschedItems", "retry_scheduled")
FailJobs == ResolveJobs("failJobs", "failed", "failItems")
FailItems == ResolveItems("failItems", "failed")

\* The two queries of a background failClusterBidJobs.
Drop(d) ==
  /\ d \in drops
  /\ IF d.step = "jobs"
       THEN /\ JobsBecome(d.jobs, "failed")
            /\ drops' = (drops \ {d}) \union {[d EXCEPT !.step = "items"]}
            /\ UNCHANGED item
       ELSE /\ ItemsBecome(d.jobs, "failed")
            /\ drops' = drops \ {d}
            /\ UNCHANGED status
  /\ UNCHANGED <<cmdVars, attempts, ahead, ready, row, wb, cooldown, timer, pass, faults>>

-----------------------------------------------------------------------------
(* Failures. *)

Fault(kind) == kind \in Faults /\ faults < MaxFaults /\ faults' = faults + 1

\* A query of the try block throws, the report after the last one included:
\* PostgreSQL errors are not HttpExceptions.
TryFails ==
  /\ Fault("query")
  /\ pass.step \in {"mark", "send", "verify", "confirm", "completeJobs", "completeItems"}
  /\ \/ UNCHANGED item
     \/ pass.step = "completeItems" /\ ItemsBecome(pass.jobs, "confirmed")
  /\ pass' = [pass EXCEPT !.step = "catch", !.error = "fatal"]
  /\ UNCHANGED <<cmdVars, status, attempts, ahead, ready, row, wb, cooldown, timer, drops>>

\* A query outside it throws: the pass ends, its jobs stay as they are.
PassFails ==
  /\ Fault("query")
  /\ pass.step \in {"claim", "pick", "catch", "reschedJobs", "reschedItems",
                    "failJobs", "failItems"}
  /\ pass' = IdlePass
  /\ UNCHANGED <<cmdVars, jobVars, ahead, ready, row, wb, cooldown, timer, drops>>

\* A command answers 5xx: its transaction is rolled back, the row is not.
CommandFails(j) ==
  /\ Fault("command")
  /\ cmd[j] \in {"desired", "stamped", "opened"}
  /\ cmd' = [cmd EXCEPT ![j] = "lost"]
  /\ UNCHANGED <<asks, follows, sees, older, jobVars, ahead, ready, row, wb, cooldown,
                 timer, pass, drops>>

\* The process dies and PM2 starts it again: PostgreSQL and WB remain.
Crash ==
  /\ Fault("crash")
  /\ cmd' = [j \in Job |-> IF cmd[j] \in {"desired", "stamped", "opened"} THEN "lost" ELSE cmd[j]]
  /\ cooldown' = FALSE
  /\ timer' = FALSE
  /\ pass' = IdlePass
  /\ drops' = {}
  /\ UNCHANGED <<asks, follows, sees, older, jobVars, ahead, ready, row, wb>>

-----------------------------------------------------------------------------
Command(j) ==
  \/ \E K \in Requests : Desire(j, K)
  \/ Stamp(j)
  \/ Open(j)
  \/ Accept(j)

Clock == \/ \E j \in Job : Due(j) \/ Age(j)
         \/ CooldownEnds

PassWork ==
  \/ \E C \in SUBSET Job, plan \in [Key -> Job \union {None}] : Claim(C, plan)
  \/ Drained
  \/ \E gs \in SUBSET Group : Pick(gs)
  \/ NextRound
  \/ Mark
  \/ \E chunk \in SUBSET Key, outcome \in WbOutcomes : Send(chunk, outcome)
  \/ Verify
  \/ Confirm
  \/ Catch
  \/ CompleteJobs \/ CompleteItems
  \/ RescheduleJobs \/ RescheduleItems
  \/ FailJobs \/ FailItems

Failure == \/ TryFails \/ PassFails \/ Crash
           \/ \E j \in Job : CommandFails(j)

Next ==
  \/ \E j \in Job : Command(j)
  \/ Clock
  \/ TimerFires
  \/ CronTick
  \/ PassWork
  \/ \E d \in drops : Drop(d)
  \/ Failure

Spec == Init /\ [][Next]_vars

\* The event loop runs what was started; the cron fires every five seconds.
Fairness ==
  /\ \A j \in Job : /\ WF_vars(Stamp(j)) /\ WF_vars(Open(j)) /\ WF_vars(Accept(j))
                    /\ WF_vars(Due(j)) /\ WF_vars(Age(j))
  /\ WF_vars(CooldownEnds)
  /\ WF_vars(CronTick)
  /\ WF_vars(PassWork)
  /\ WF_vars(\E d \in drops : Drop(d))

FairSpec == Spec /\ Fairness

-----------------------------------------------------------------------------
(* Properties. *)

\* A row shown as confirmed is the bid WB uses: "confirmed" is only written
\* after every request of the batch was accepted, whatever crashed, was
\* superseded or retried meanwhile (write-batch.ts, write-group.ts).
ConfirmedIsLive ==
  \A k \in Key : row[k].status = "confirmed" => wb[k] = row[k].job

\* The retry loop is bounded: a job is claimed MaxAttempts times, and once
\* more for each failure that made the process forget what it was doing
\* (hasExceededClusterBidJobAttempts against the 90 second reclaim).
AttemptsBounded == \A j \in Job : attempts[j] <= MaxAttempts + faults

InProgress(j) == cmd[j] \in {"desired", "stamped", "opened"}

\* Somebody not in X will still move the row of k: a live item of an active job,
\* or a command that has not committed its job; a command that died between its
\* two transactions is excused.
OwnedOutside(k, X) ==
  \/ \E j \in Job \ X : status[j] \in JobActive /\ item[j][k] \in ItemActive
  \/ \E j \in Job : k \in asks[j] /\ (InProgress(j) \/ cmd[j] = "lost")

\* A row that says "waiting" has an owner in the jobs' tables or a command under
\* way, and is never left to the memory of the pass: whenever the process dies,
\* somebody remains who will move it (write-batch.ts, bid-job-lifecycle.ts).
RowOwned == \A k \in Key : row[k].status \in RowWaiting => OwnedOutside(k, {})

\* Every job is resolved for good: retries, supersession, reclaim after a
\* crash and the background statements leave no job active forever.
JobsSettle == <>[](\A j \in Job : status[j] \notin JobActive)

\* Every displayed bid leaves the waiting statuses, unless a command died
\* between its two transactions.
RowsSettle ==
  <>[](\A k \in Key : row[k].status \in RowWaiting =>
         \E j \in Job : k \in asks[j] /\ cmd[j] = "lost")

\* The durable reading of the same: a bid shown as queued is not forgotten.
QueuedIsDurable == <>[](\A k \in Key : row[k].status \notin RowWaiting)

\* The queue as its users see it: commands are answered, WB moves forward.
Latest == INSTANCE LatestStateQueue WITH answered <- {j \in Job : cmd[j] = "accepted"}
LatestStateSpec == Latest!Spec
=============================================================================
