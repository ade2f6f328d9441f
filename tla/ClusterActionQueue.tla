------------------------- MODULE ClusterActionQueue -------------------------
(***************************************************************************)
(* The include/exclude queue of backend/src/wb-clusters.  WB has no call   *)
(* that excludes one cluster: set-minus replaces the whole set of minus    *)
(* phrases of a campaign.  The write pass therefore builds the next set    *)
(* from a mirror kept in PostgreSQL (wb_campaign_minus_phrases), sends one *)
(* request per campaign, and writes the mirror back.  A refresh of the     *)
(* campaign structure copies the sets WB shows over the same mirror.       *)
(*                                                                         *)
(* One action is one transaction, one autocommitted query, one WB call or  *)
(* one synchronous stretch of JavaScript.  The job tables follow the       *)
(* protocol of ClusterBidQueue; the races of two supersede transactions    *)
(* and the order among due jobs are modelled there: here a command is one  *)
(* transaction, and a claim takes any due jobs.                            *)
(***************************************************************************)
EXTENDS Naturals, FiniteSets

CONSTANTS
  Key,          \* (advertId, nmId, normalized cluster name)
  Group,        \* (advertId, nmId)
  GroupOf,      \* [Key -> Group]
  Job,          \* commands, each with the job it creates
  Excludes,     \* the commands that exclude; the others include
  Requests,     \* the sets of keys each command may name (one group each)
  None,
  GroupLimit,   \* maxActionGroupsPerBatch
  MaxAttempts,  \* maxClusterActionJobAttempts
  WbOutcomes,   \* what a set-minus request may end in
  ReadbackMode, \* WB_CLUSTER_ACTION_READBACK
  ReadbackFails,\* may the readback request itself fail?
  Refreshing,   \* does a structure refresh run beside the queue?
  Faults,       \* kinds of failure considered
  MaxFaults     \* bound on the number of failures

ASSUME ActionQueueAssumption ==
  /\ GroupOf \in [Key -> Group]
  /\ Excludes \subseteq Job
  /\ Requests \in [Job -> SUBSET ((SUBSET Key) \ {{}})]
  /\ \A j \in Job : \A K \in Requests[j] : \A k, l \in K : GroupOf[k] = GroupOf[l]
  /\ None \notin Job
  /\ GroupLimit \in Nat \ {0}
  /\ MaxAttempts \in Nat \ {0}
  /\ WbOutcomes \subseteq {"accepted", "ignored", "throttled", "lost", "rejected"}
  /\ ReadbackMode \in {"off", "observe", "enforce"}
  /\ ReadbackFails \in BOOLEAN
  /\ Refreshing \in BOOLEAN
  /\ Faults \subseteq {"crash", "query", "command"}
  /\ MaxFaults \in Nat

Active    == {"queued", "running", "retry_scheduled"}
JobStatus == Active \union {"absent", "succeeded", "failed"}
ItemStatus == Active \union {"none", "confirmed", "failed"}
RowWaiting == {"queued", "sending"} \* "queued" stands for "throttled" too
RowStatus == RowWaiting \union {"none", "confirmed", "failed"}
CmdStage  == {"idle", "asking", "accepted", "lost"}
PassStep  == {"idle", "claim", "pick", "mark", "read", "send", "verify", "mirror",
              "confirm", "completeJobs", "completeItems", "sync", "catch", "backOff",
              "reschedJobs", "reschedItems", "giveUp", "failJobs", "failItems"}

VARIABLES
  cmd,      \* stage of each HTTP command
  asks,     \* keys each command names
  unasked,  \* rows each command has not written yet
  older,    \* older[j]: jobs with an earlier created_at
  status,   \* wb_cluster_action_jobs.status
  item,     \* wb_cluster_action_job_items.item_status, per job and key
  attempts, \* wb_cluster_action_jobs.attempt_count
  ready,    \* jobs whose claim-time condition on the clock holds
  row,      \* wb_cluster_actions: the command shown and action_sync_status
  cabinet,  \* the minus phrases WB really uses
  mirror,   \* wb_campaign_minus_phrases
  cooldown, \* minus-write lane has nextAllowedRequestAtMs in the future
  pass,     \* the in-flight write pass
  drops,    \* fire-and-forget failClusterActionJobs calls not finished yet
  refresh,  \* the sets a structure refresh has read and not yet written
  faults    \* failures so far

cmdVars == <<cmd, asks, unasked, older>>
jobVars == <<status, item, attempts>>
vars == <<cmdVars, jobVars, ready, row, cabinet, mirror, cooldown, pass, drops,
          refresh, faults>>

IdlePass == [step |-> "idle", claimed |-> {}, plan |-> [k \in Key |-> None], jobs |-> {},
             groups |-> {}, rows |-> {}, todo |-> {}, request |-> {}, error |-> "none"]

Passes == [step : PassStep, claimed : SUBSET Job, plan : [Key -> Job \union {None}],
           jobs : SUBSET Job, groups : SUBSET Group, rows : SUBSET Key,
           todo : SUBSET Group, request : SUBSET Key,
           error : {"none", "recoverable", "fatal"}]

\* The type invariant: tables, WB, volatile state and the pass.
TypeOK ==
  /\ cmd \in [Job -> CmdStage]
  /\ asks \in [Job -> SUBSET Key] /\ unasked \in [Job -> SUBSET Key]
  /\ older \in [Job -> SUBSET Job]
  /\ status \in [Job -> JobStatus]
  /\ item \in [Job -> [Key -> ItemStatus]]
  /\ attempts \in [Job -> Nat]
  /\ ready \subseteq Job
  /\ row \in [Key -> [job : Job \union {None}, status : RowStatus]]
  /\ cabinet \subseteq Key /\ mirror \subseteq Key
  /\ cooldown \in BOOLEAN
  /\ pass \in Passes
  /\ drops \subseteq [jobs : SUBSET Job, step : {"jobs", "items"}]
  /\ refresh \in [groups : SUBSET Group, seen : SUBSET Key]
  /\ faults \in Nat

NoRefresh == [groups |-> {}, seen |-> {}]

\* The mirror starts as the sets WB shows.
Init ==
  /\ cmd = [j \in Job |-> "idle"]
  /\ asks = [j \in Job |-> {}] /\ unasked = [j \in Job |-> {}]
  /\ older = [j \in Job |-> {}]
  /\ status = [j \in Job |-> "absent"]
  /\ item = [j \in Job |-> [k \in Key |-> "none"]]
  /\ attempts = [j \in Job |-> 0]
  /\ ready = {}
  /\ row = [k \in Key |-> [job |-> None, status |-> "none"]]
  /\ cabinet \in SUBSET Key
  /\ mirror = cabinet
  /\ cooldown = FALSE
  /\ pass = IdlePass
  /\ drops = {}
  /\ refresh = NoRefresh
  /\ faults = 0

Slice(gs) == {k \in Key : GroupOf[k] \in gs}

-----------------------------------------------------------------------------
(* Commands: applyProductClusterAction, then createClusterActionJob. *)

Ask(j, K) ==
  /\ cmd[j] = "idle"
  /\ cmd' = [cmd EXCEPT ![j] = "asking"]
  /\ asks' = [asks EXCEPT ![j] = K]
  /\ unasked' = [unasked EXCEPT ![j] = K]
  /\ UNCHANGED <<older, jobVars, ready, row, cabinet, mirror, cooldown, pass, drops,
                 refresh, faults>>

\* The displayed rows are written one by one, outside any transaction.
Desire(j, k) ==
  /\ cmd[j] = "asking" /\ k \in unasked[j]
  /\ unasked' = [unasked EXCEPT ![j] = @ \ {k}]
  /\ row' = [row EXCEPT ![k] = [job |-> j, status |-> "queued"]]
  /\ UNCHANGED <<cmd, asks, older, jobVars, ready, cabinet, mirror, cooldown,
                 pass, drops, refresh, faults>>

SameGroup(i, j) == \E k \in asks[i], l \in asks[j] : GroupOf[k] = GroupOf[l]

\* Active jobs of the same campaign give up the clusters the command names.
Rivals(j) == {i \in Job : status[i] \in Active /\ SameGroup(i, j)}

Superseded(j) ==
  [i \in Job |-> [k \in Key |->
     IF i \in Rivals(j) /\ k \in asks[j] /\ item[i][k] \in Active
       THEN "failed" ELSE item[i][k]]]

Accept(j) ==
  /\ cmd[j] = "asking" /\ unasked[j] = {}
  /\ cmd' = [cmd EXCEPT ![j] = "accepted"]
  /\ older' = [older EXCEPT ![j] = {i \in Job : status[i] # "absent"}]
  /\ LET left == Superseded(j) IN
       /\ item' = [left EXCEPT ![j] = [k \in Key |-> IF k \in asks[j] THEN "queued" ELSE "none"]]
       /\ status' = [i \in Job |->
            IF i = j THEN "queued"
            ELSE IF i \in Rivals(j) /\ \A k \in Key : left[i][k] \notin Active
              THEN "failed" ELSE status[i]]
  /\ ready' = ready \union {j}
  /\ UNCHANGED <<asks, unasked, attempts, row, cabinet, mirror, cooldown, pass,
                 drops, refresh, faults>>

-----------------------------------------------------------------------------
(* Clock. *)

Held == pass.claimed \union pass.jobs \union UNION {d.jobs : d \in drops}

\* A retry is due, or 90 seconds have passed since the last attempt.
Ripen(j) ==
  /\ status[j] \in {"retry_scheduled", "running"} /\ j \notin ready /\ j \notin Held
  /\ ready' = ready \union {j}
  /\ UNCHANGED <<cmdVars, jobVars, row, cabinet, mirror, cooldown, pass, drops, refresh,
                 faults>>

CooldownEnds ==
  /\ cooldown
  /\ cooldown' = FALSE
  /\ UNCHANGED <<cmdVars, jobVars, ready, row, cabinet, mirror, pass, drops, refresh, faults>>

-----------------------------------------------------------------------------
(* The write pass, up to the sets it will send. *)

\* The debounce timer or the cron: a pass in flight or a cooldown swallows it.
StartPass ==
  /\ pass.step = "idle" /\ ~cooldown
  /\ pass' = [pass EXCEPT !.step = "claim"]
  /\ UNCHANGED <<cmdVars, jobVars, ready, row, cabinet, mirror, cooldown, drops, refresh,
                 faults>>

\* Faulty variant: no reclaim of running jobs.
Claimable_NoReclaim == {j \in ready : status[j] \in {"queued", "retry_scheduled"}}

Claimable == {j \in ready : status[j] \in Active}

Live(C, k) == {j \in C : item[j][k] \in Active}

\* The newest created_at among claimed jobs wins each cluster.
Merged(C, plan) ==
  \A k \in Key :
    IF Live(C, k) = {} THEN plan[k] = None
    ELSE plan[k] \in Live(C, k) /\ Live(C, k) \ {plan[k]} \subseteq older[plan[k]]

JobsOf(C, gs) == {j \in C : \E k \in asks[j] : GroupOf[k] \in gs}
KeysOf(plan, gs) == {k \in Slice(gs) : plan[k] # None}
GroupsOf(C) == {g \in Group : JobsOf(C, {g}) # {}}
Sendable(C, plan) == {g \in GroupsOf(C) : KeysOf(plan, {g}) # {}}

\* Due jobs, up to the limit and but for those a command has locked.
Claim(C, plan) ==
  /\ pass.step = "claim" /\ ~cooldown
  /\ C \in SUBSET Claimable /\ C # {}
  /\ Merged(C, plan)
  /\ status' = [j \in Job |-> IF j \in C THEN "running" ELSE status[j]]
  /\ attempts' = [j \in Job |-> IF j \in C THEN attempts[j] + 1 ELSE attempts[j]]
  /\ item' = [j \in Job |-> [k \in Key |->
       IF j \in C /\ item[j][k] \in Active THEN "running" ELSE item[j][k]]]
  /\ ready' = ready \ C
  /\ pass' = [IdlePass EXCEPT !.step = "pick", !.plan = plan,
                !.claimed = JobsOf(C, Sendable(C, plan))]
  /\ drops' = drops \union
       {[jobs |-> JobsOf(C, {g}), step |-> "jobs"] : g \in GroupsOf(C) \ Sendable(C, plan)}
  /\ UNCHANGED <<cmdVars, row, cabinet, mirror, cooldown, refresh, faults>>

Drained ==
  /\ pass.step = "claim"
  /\ cooldown \/ Claimable = {}
  /\ pass' = IdlePass
  /\ UNCHANGED <<cmdVars, jobVars, ready, row, cabinet, mirror, cooldown, drops, refresh,
                 faults>>

Rest == Sendable(pass.claimed, pass.plan)

Pick(gs) ==
  /\ pass.step = "pick" /\ gs \in SUBSET Rest /\ gs # {}
  /\ Cardinality(gs) <= GroupLimit
  /\ gs = Rest \/ Cardinality(gs) = GroupLimit
  /\ LET js == JobsOf(pass.claimed, gs)
     IN pass' = [pass EXCEPT !.step = "mark", !.jobs = js, !.claimed = @ \ js,
                   !.groups = gs, !.rows = KeysOf(pass.plan, gs), !.todo = gs]
  /\ UNCHANGED <<cmdVars, jobVars, ready, row, cabinet, mirror, cooldown, drops, refresh,
                 faults>>

NextRound ==
  /\ pass.step = "pick" /\ pass.claimed = {}
  /\ pass' = [IdlePass EXCEPT !.step = "claim"]
  /\ UNCHANGED <<cmdVars, jobVars, ready, row, cabinet, mirror, cooldown, drops, refresh,
                 faults>>

BatchKeys == KeysOf(pass.plan, pass.groups)

\* upsertClusterActions: row k of the batch, then the next; the last one leads on.
WriteRow(from, k, st, to) ==
  /\ pass.step = from /\ k \in pass.rows
  /\ row' = [row EXCEPT ![k] = [job |-> pass.plan[k], status |-> st]]
  /\ pass' = [pass EXCEPT !.rows = @ \ {k}, !.step = IF pass.rows = {k} THEN to ELSE from]
  /\ UNCHANGED <<cmdVars, jobVars, ready, cabinet, mirror, cooldown, drops, refresh, faults>>

Mark(k) == WriteRow("mark", k, "sending", "read")

\* Faulty variant: the set of the batch's own phrases only.
Wanted_Own(g) == {k \in Slice({g}) : pass.plan[k] \in Excludes}

\* The next set of a campaign: what the mirror holds, but for the batch's clusters.
Wanted(g) ==
  {k \in Slice({g}) : IF pass.plan[k] = None THEN k \in mirror ELSE pass.plan[k] \in Excludes}

Read(g) ==
  /\ pass.step = "read" /\ g \in pass.todo
  /\ pass' = [pass EXCEPT !.request = @ \union Wanted(g),
                !.todo = IF pass.todo = {g} THEN pass.groups ELSE @ \ {g},
                !.step = IF pass.todo = {g} THEN "send" ELSE "read"]
  /\ UNCHANGED <<cmdVars, jobVars, ready, row, cabinet, mirror, cooldown, drops, refresh,
                 faults>>

-----------------------------------------------------------------------------
(* Sending, verifying, confirming; the error handler. *)

ErrorOf(outcome) ==
  CASE outcome = "rejected" -> "fatal"
    [] outcome \in {"throttled", "lost"} -> "recoverable"
    [] OTHER -> "none"

\* Campaigns WB has answered for; they travel on the error (appliedMinusItems).
\* Faulty variant: the error carries nothing.
Applied_Nothing == {}

Applied == pass.groups \ pass.todo

\* One request per campaign, one after the other; an error ends the loop.
Send(g, outcome) ==
  /\ pass.step = "send" /\ g \in pass.todo
  /\ cabinet' = IF outcome \in {"accepted", "lost"}
                  THEN (cabinet \ Slice({g})) \union (pass.request \intersect Slice({g}))
                  ELSE cabinet
  /\ cooldown' = TRUE
  /\ LET e == ErrorOf(outcome) IN
       IF e = "none"
         THEN pass' = [pass EXCEPT !.todo = @ \ {g},
                                   !.step = IF pass.todo = {g} THEN "verify" ELSE "send"]
         ELSE pass' = [pass EXCEPT !.error = e,
                                   !.step = IF Applied = {} THEN "catch" ELSE "sync"]
  /\ UNCHANGED <<cmdVars, jobVars, ready, row, mirror, drops, refresh, faults>>

Mismatch ==
  cabinet \intersect Slice(pass.groups) # pass.request

\* verifyMinusReadback: only "enforce" turns a mismatch into a retry.
Verify ==
  /\ pass.step = "verify"
  /\ \/ /\ ReadbackMode = "enforce" /\ Mismatch
        /\ pass' = [pass EXCEPT !.step = "catch", !.error = "recoverable"]
     \/ /\ ReadbackMode # "enforce" \/ ReadbackFails \/ ~Mismatch
        /\ pass' = [pass EXCEPT !.step = "mirror"]
  /\ UNCHANGED <<cmdVars, jobVars, ready, row, cabinet, mirror, cooldown, drops, refresh,
                 faults>>

\* replaceCampaignMinusPhrases, with the sets sent to the campaigns gs.
ReplaceMirror(gs) ==
  mirror' = (mirror \ Slice(gs)) \union (pass.request \intersect Slice(gs))

Mirror ==
  /\ pass.step = "mirror"
  /\ ReplaceMirror(pass.groups)
  /\ pass' = [pass EXCEPT !.step = "confirm", !.rows = BatchKeys]
  /\ UNCHANGED <<cmdVars, jobVars, ready, row, cabinet, cooldown, drops, refresh, faults>>

Confirm(k) == WriteRow("confirm", k, "confirmed", "completeJobs")

Sync ==
  /\ pass.step = "sync"
  /\ ReplaceMirror(Applied)
  /\ pass' = [pass EXCEPT !.step = "catch"]
  /\ UNCHANGED <<cmdVars, jobVars, ready, row, cabinet, cooldown, drops, refresh, faults>>

Exhausted == \E j \in pass.jobs : attempts[j] >= MaxAttempts

\* Faulty variant: giving up leaves the rows as they are.
Catch_Silent ==
  /\ pass.step = "catch"
  /\ pass' = IF pass.error = "fatal" \/ Exhausted
               THEN [pass EXCEPT !.step = "failJobs"]
               ELSE [pass EXCEPT !.step = "backOff", !.rows = BatchKeys]
  /\ UNCHANGED <<cmdVars, jobVars, ready, row, cabinet, mirror, cooldown, drops, refresh,
                 faults>>

Catch ==
  /\ pass.step = "catch"
  /\ pass' = [pass EXCEPT !.rows = BatchKeys,
                !.step = IF pass.error = "fatal" \/ Exhausted THEN "giveUp" ELSE "backOff"]
  /\ UNCHANGED <<cmdVars, jobVars, ready, row, cabinet, mirror, cooldown, drops, refresh,
                 faults>>

BackOff(k) == WriteRow("backOff", k, "queued", "reschedJobs")
GiveUp(k) == WriteRow("giveUp", k, "failed", "failJobs")

-----------------------------------------------------------------------------
(* Resolution: two autocommitted queries each, on every row of the jobs. *)

JobsBecome(js, st) == status' = [j \in Job |-> IF j \in js THEN st ELSE status[j]]

ItemsBecome(js, st) ==
  item' = [j \in Job |-> [k \in Key |->
             IF j \in js /\ item[j][k] # "none" THEN st ELSE item[j][k]]]

ResolveJobs(from, st, to) ==
  /\ pass.step = from
  /\ JobsBecome(pass.jobs, st)
  /\ pass' = [pass EXCEPT !.step = to]
  /\ UNCHANGED <<cmdVars, item, attempts, ready, row, cabinet, mirror, cooldown, drops,
                 refresh, faults>>

ResolveItems(from, st) ==
  /\ pass.step = from
  /\ ItemsBecome(pass.jobs, st)
  /\ pass' = [IdlePass EXCEPT !.step = "pick", !.claimed = pass.claimed, !.plan = pass.plan]
  /\ UNCHANGED <<cmdVars, status, attempts, ready, row, cabinet, mirror, cooldown, drops,
                 refresh, faults>>

\* Faulty variant: the item status written to the job.
CompleteJobs_ItemStatus == ResolveJobs("completeJobs", "confirmed", "completeItems")

CompleteJobs == ResolveJobs("completeJobs", "succeeded", "completeItems")
CompleteItems == ResolveItems("completeItems", "confirmed")
RescheduleJobs == ResolveJobs("reschedJobs", "retry_scheduled", "reschedItems")
RescheduleItems == ResolveItems("reschedItems", "retry_scheduled")
FailJobs == ResolveJobs("failJobs", "failed", "failItems")
FailItems == ResolveItems("failItems", "failed")

\* The two queries of a background failClusterActionJobs.
Drop(d) ==
  /\ d \in drops
  /\ IF d.step = "jobs"
       THEN /\ JobsBecome(d.jobs, "failed")
            /\ drops' = (drops \ {d}) \union {[d EXCEPT !.step = "items"]}
            /\ UNCHANGED item
       ELSE /\ ItemsBecome(d.jobs, "failed")
            /\ drops' = drops \ {d}
            /\ UNCHANGED status
  /\ UNCHANGED <<cmdVars, attempts, ready, row, cabinet, mirror, cooldown, pass, refresh,
                 faults>>

-----------------------------------------------------------------------------
(* The structure refresh: get-minus, then the mirror is replaced. *)

RefreshReads(gs) ==
  /\ Refreshing /\ refresh.groups = {} /\ gs # {}
  /\ refresh' = [groups |-> gs, seen |-> cabinet \intersect Slice(gs)]
  /\ UNCHANGED <<cmdVars, jobVars, ready, row, cabinet, mirror, cooldown, pass, drops, faults>>

RefreshWrites ==
  /\ refresh.groups # {}
  /\ mirror' = (mirror \ Slice(refresh.groups)) \union refresh.seen
  /\ refresh' = NoRefresh
  /\ UNCHANGED <<cmdVars, jobVars, ready, row, cabinet, cooldown, pass, drops, faults>>

-----------------------------------------------------------------------------
(* Failures. *)

Fault(kind) == kind \in Faults /\ faults < MaxFaults /\ faults' = faults + 1

\* A query of the try block throws, the report after the last one included;
\* nothing travels on that error.
TryFails ==
  /\ Fault("query")
  /\ \/ pass.step \in {"mark", "read", "verify", "mirror", "confirm", "completeJobs",
                       "completeItems"}
     \/ pass.step = "send" /\ pass.todo = pass.groups
  /\ \/ UNCHANGED item
     \/ pass.step = "completeItems" /\ ItemsBecome(pass.jobs, "confirmed")
  /\ pass' = [pass EXCEPT !.step = "catch", !.error = "fatal"]
  /\ UNCHANGED <<cmdVars, status, attempts, ready, row, cabinet, mirror, cooldown, drops,
                 refresh>>

\* A query outside it throws: the pass ends, its jobs stay as they are.
PassFails ==
  /\ Fault("query")
  /\ pass.step \in {"claim", "pick", "sync", "catch", "backOff", "reschedJobs",
                    "reschedItems", "giveUp", "failJobs", "failItems"}
  /\ pass' = IdlePass
  /\ UNCHANGED <<cmdVars, jobVars, ready, row, cabinet, mirror, cooldown, drops, refresh>>

CommandFails(j) ==
  /\ Fault("command")
  /\ cmd[j] = "asking"
  /\ cmd' = [cmd EXCEPT ![j] = "lost"]
  /\ UNCHANGED <<asks, unasked, older, jobVars, ready, row, cabinet, mirror,
                 cooldown, pass, drops, refresh>>

Crash ==
  /\ Fault("crash")
  /\ cmd' = [j \in Job |-> IF cmd[j] = "asking" THEN "lost" ELSE cmd[j]]
  /\ cooldown' = FALSE
  /\ pass' = IdlePass
  /\ drops' = {}
  /\ refresh' = NoRefresh
  /\ UNCHANGED <<asks, unasked, older, jobVars, ready, row, cabinet, mirror>>

-----------------------------------------------------------------------------
Command(j) ==
  \/ \E K \in Requests[j] : Ask(j, K)
  \/ \E k \in Key : Desire(j, k)
  \/ Accept(j)

Clock == CooldownEnds \/ \E j \in Job : Ripen(j)

PassWork ==
  \/ \E C \in SUBSET Job, plan \in [Key -> Job \union {None}] : Claim(C, plan)
  \/ Drained
  \/ \E gs \in SUBSET Group : Pick(gs)
  \/ NextRound
  \/ \E k \in Key : Mark(k) \/ Confirm(k) \/ BackOff(k) \/ GiveUp(k)
  \/ \E g \in Group : Read(g) \/ \E outcome \in WbOutcomes : Send(g, outcome)
  \/ Verify \/ Mirror \/ Sync \/ Catch
  \/ CompleteJobs \/ CompleteItems
  \/ RescheduleJobs \/ RescheduleItems
  \/ FailJobs \/ FailItems

Refresh == RefreshWrites \/ \E gs \in SUBSET Group : RefreshReads(gs)

Failure == TryFails \/ PassFails \/ Crash \/ \E j \in Job : CommandFails(j)

Next ==
  \/ \E j \in Job : Command(j)
  \/ Clock
  \/ StartPass
  \/ PassWork
  \/ \E d \in drops : Drop(d)
  \/ Refresh
  \/ Failure

Spec == Init /\ [][Next]_vars

\* The event loop runs what was started; the cron fires every five seconds.
Fairness ==
  /\ \A j \in Job : /\ \A k \in Key : WF_vars(Desire(j, k))
                    /\ WF_vars(Accept(j)) /\ WF_vars(Ripen(j))
  /\ WF_vars(CooldownEnds)
  /\ WF_vars(StartPass)
  /\ WF_vars(PassWork)
  /\ WF_vars(\E d \in drops : Drop(d))

FairSpec == Spec /\ Fairness

-----------------------------------------------------------------------------
(* Properties. *)

\* A cluster shown as confirmed is excluded in the cabinet if and only if the
\* command shown asked for that, although every later set-minus of the
\* campaign replaces the whole set (write pass of the action queue).
ConfirmedStands ==
  \A k \in Key : row[k].status = "confirmed" => (k \in cabinet <=> row[k].job \in Excludes)

\* A set-minus changes no cluster that its batch does not name: the mirror it
\* is built from is never behind the cabinet ("иначе ретрай пересоберёт их
\* набор из устаревших данных и откатит кабинет", wb-clusters-action-queue.batch.ts).
OnlyNamedChange ==
  [][\A k \in Key : (k \in cabinet) # (k \in cabinet') => k \in BatchKeys]_vars

\* Every job is resolved for good, whatever crashed or was superseded.
JobsSettle == <>[](\A j \in Job : status[j] \notin Active)

\* Every displayed status leaves "queued" and "sending", unless a command died
\* between the rows and the job.
RowsSettle ==
  <>[](\A k \in Key : row[k].status \in RowWaiting =>
         \E j \in Job : k \in asks[j] /\ cmd[j] = "lost")
=============================================================================
