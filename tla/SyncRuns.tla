------------------------------ MODULE SyncRuns ------------------------------
(***************************************************************************)
(* The background runs of the backend and their rows in                    *)
(* wb_cluster_sync_runs: the full sync, one at a time by the flag          *)
(* syncInFlight; the refresh of a product, one at a time by its entry in   *)
(* productRefreshInFlight; runs without a flag (monthly frequency, batches *)
(* of the write queues), the historical backfill of the statistics, which  *)
(* never completes its row; and the JAM syncs, which have a flag and no    *)
(* row. The flags are in memory and set after awaits; the rows outlive the *)
(* process. A sync that starts, and a status request that finds no sync in *)
(* flight, fail every row that is still "running".                         *)
(***************************************************************************)
EXTENDS Naturals

CONSTANTS
  Call,      \* the calls that may be under way at once
  Cron,      \* the one of them that is the tick of the sync's cron
  MaxFaults, \* how many crashes and failing queries a behaviour may have
  None

Kind == {"sync", "refresh", "plain", "backfill", "jam", "jamBackfill"}

ASSUME CallAssumption == Cron \in Call /\ None \notin Call /\ MaxFaults \in Nat

VARIABLES
  kind,    \* what each call asks for
  step,    \* how far it is
  result,  \* what each call's work came to
  runRow,  \* the status of its row
  orphans, \* rows of forgotten calls are still "running"
  flag,    \* syncInFlight, the entry of the product, jamSyncInFlight
  polled,  \* a status request has seen no sync in flight
  runFaults

runVars == <<kind, step, result, runRow, orphans, flag, polled, runFaults>>

Step == {"idle", "checked", "swept", "working", "ended", "done", "deferred", "dead"}
Flag == {"sync", "refresh", "jam"}

\* The type invariant; the JAM syncs have no row.
RunTypeOK ==
  /\ kind \in [Call -> Kind]
  /\ step \in [Call -> Step]
  /\ result \in [Call -> {"none", "succeeded", "failed"}]
  /\ runRow \in [Call -> {"none", "running", "succeeded", "failed"}]
  /\ \A c \in Call : kind[c] \in {"jam", "jamBackfill"} => runRow[c] = "none"
  /\ orphans \in BOOLEAN
  /\ flag \in [Flag -> Call \union {None}]
  /\ polled \in BOOLEAN
  /\ runFaults \in 0..MaxFaults

RunInit ==
  /\ kind = [c \in Call |-> "sync"]
  /\ step = [c \in Call |-> "idle"]
  /\ result = [c \in Call |-> "none"]
  /\ runRow = [c \in Call |-> "none"]
  /\ orphans = FALSE
  /\ flag = [f \in Flag |-> None]
  /\ polled = FALSE
  /\ runFaults = 0

\* Faulty variant: the JAM syncs have a row too.
HasRow_All(k) == k \in Kind

HasRow(k) == k \in {"sync", "refresh", "plain", "backfill"}
HasFlag(k) == k \notin {"plain", "backfill"}
FlagOf(k) == IF k = "jamBackfill" THEN "jam" ELSE k
Alive(c) == step[c] \in {"working", "ended"}

-----------------------------------------------------------------------------
\* A request or a cron tick that finds the flag clear; one that does not is
\* answered "alreadyRunning" and changes nothing. The record of the call's
\* previous run becomes an orphan when nobody closed it.
Check(c, k) ==
  /\ step[c] \in {"idle", "done", "dead"}
  /\ HasFlag(k) => flag[FlagOf(k)] = None
  /\ kind' = [kind EXCEPT ![c] = k]
  /\ orphans' = (orphans \/ runRow[c] = "running")
  /\ runRow' = [runRow EXCEPT ![c] = "none"]
  /\ result' = [result EXCEPT ![c] = "none"]
  \* the scheduled JAM sync takes its flag without an await in between
  /\ IF k = "jam"
       THEN step' = [step EXCEPT ![c] = "working"] /\ flag' = [flag EXCEPT !["jam"] = c]
       ELSE step' = [step EXCEPT ![c] = "checked"] /\ UNCHANGED flag
  /\ UNCHANGED <<polled, runFaults>>

\* Faulty variant: only the rows of runs this process knows of.
FailStale_Known ==
  /\ runRow' = [c \in Call |-> IF runRow[c] = "running" THEN "failed" ELSE runRow[c]]
  /\ UNCHANGED orphans

\* failStaleRunningSyncs: UPDATE ... WHERE status = 'running'.
FailStale ==
  /\ runRow' = [c \in Call |-> IF runRow[c] = "running" THEN "failed" ELSE runRow[c]]
  /\ orphans' = FALSE

Sweep(c) ==
  /\ kind[c] = "sync" /\ step[c] = "checked"
  /\ step' = [step EXCEPT ![c] = "swept"]
  /\ FailStale
  /\ UNCHANGED <<kind, result, flag, polled, runFaults>>

\* INSERT of the row, and the flag in the same turn of the event loop as the
\* start of the work; it overwrites the flag of a call that checked as well.
Start(c) ==
  /\ step[c] = IF kind[c] = "sync" THEN "swept" ELSE "checked"
  /\ step' = [step EXCEPT ![c] = "working"]
  /\ runRow' = IF HasRow(kind[c]) THEN [runRow EXCEPT ![c] = "running"] ELSE runRow
  /\ flag' = IF HasFlag(kind[c]) THEN [flag EXCEPT ![FlagOf(kind[c])] = c] ELSE flag
  /\ UNCHANGED <<kind, result, orphans, polled, runFaults>>

\* Faulty variant: a completion that leaves a row somebody closed alone.
Complete_Running(c, r) ==
  IF runRow[c] = "running" THEN [runRow EXCEPT ![c] = r] ELSE runRow

\* completeSyncRun: UPDATE ... WHERE id, whatever the row says by then.
Complete(c, r) == [runRow EXCEPT ![c] = r]

\* The phases are over, or one of them threw; the row is written either way,
\* except by the historical backfill.
Finish(c, r) ==
  /\ step[c] = "working"
  /\ step' = [step EXCEPT ![c] = "ended"]
  /\ result' = [result EXCEPT ![c] = IF kind[c] \in {"sync", "refresh", "plain"} THEN r ELSE "none"]
  /\ runRow' = IF kind[c] \in {"sync", "refresh", "plain"} THEN Complete(c, r) ELSE runRow
  /\ UNCHANGED <<kind, orphans, flag, polled, runFaults>>

\* A refresh beside pending cluster writes puts itself off: its row says
\* "succeeded" and a timer asks again.
PutOff(c) ==
  /\ kind[c] = "refresh" /\ step[c] = "working"
  /\ step' = [step EXCEPT ![c] = "deferred"]
  /\ result' = [result EXCEPT ![c] = "succeeded"]
  /\ runRow' = Complete(c, "succeeded")
  /\ flag' = [flag EXCEPT !["refresh"] = None]
  /\ UNCHANGED <<kind, orphans, polled, runFaults>>

TimerAsks(c) ==
  /\ step[c] = "deferred"
  /\ step' = [step EXCEPT ![c] = IF flag["refresh"] = None THEN "checked" ELSE "done"]
  /\ IF flag["refresh"] = None
       THEN /\ runRow' = [runRow EXCEPT ![c] = "none"]
            /\ result' = [result EXCEPT ![c] = "none"]
       ELSE UNCHANGED <<runRow, result>>
  /\ UNCHANGED <<kind, orphans, flag, polled, runFaults>>

\* What a stopped process leaves: the rows.
ProcessEnds ==
  /\ step' = [c \in Call |-> IF step[c] \in {"idle", "done"} THEN step[c] ELSE "dead"]
  /\ flag' = [f \in Flag |-> None]
  /\ polled' = FALSE

Released(c) == IF HasFlag(kind[c]) THEN [flag EXCEPT ![FlagOf(kind[c])] = None] ELSE flag

\* Faulty variant: the flag is cleared by then() instead of finally().
Settle_Then(c) ==
  /\ step[c] = "ended"
  /\ step' = [step EXCEPT ![c] = "done"]
  /\ flag' = IF result[c] = "failed" THEN flag ELSE Released(c)
  /\ UNCHANGED <<kind, result, runRow, orphans, polled, runFaults>>

\* The finally block; nobody catches what a failed sync rethrows, so Node ends
\* the process and PM2 starts the next one.
Settle(c) ==
  /\ step[c] = "ended"
  /\ IF kind[c] = "sync" /\ result[c] = "failed"
       THEN ProcessEnds
       ELSE /\ step' = [step EXCEPT ![c] = "done"]
            /\ flag' = Released(c)
            /\ UNCHANGED polled
  /\ UNCHANGED <<kind, result, runRow, orphans, runFaults>>

-----------------------------------------------------------------------------
\* getStatus: the flag is read, and the sweep runs some time later.
Poll ==
  /\ flag["sync"] = None /\ ~polled
  /\ polled' = TRUE
  /\ UNCHANGED <<kind, step, result, runRow, orphans, flag, runFaults>>

PollSweeps ==
  /\ polled
  /\ polled' = FALSE
  /\ FailStale
  /\ UNCHANGED <<kind, step, result, flag, runFaults>>

\* completeSyncRun itself fails: a sync takes the process with it, the others
\* log the error and leave their row "running".
CompletionFails(c) ==
  /\ runFaults < MaxFaults
  /\ kind[c] \in {"sync", "refresh", "plain"} /\ step[c] = "working"
  /\ runFaults' = runFaults + 1
  /\ IF kind[c] = "sync"
       THEN ProcessEnds
       ELSE /\ step' = [step EXCEPT ![c] = "ended"]
            /\ UNCHANGED <<flag, polled>>
  /\ UNCHANGED <<kind, result, runRow, orphans>>

Restart ==
  /\ runFaults < MaxFaults
  /\ runFaults' = runFaults + 1
  /\ ProcessEnds
  /\ UNCHANGED <<kind, result, runRow, orphans>>

-----------------------------------------------------------------------------
CallWork(c) ==
  \/ Sweep(c)
  \/ Start(c)
  \/ \E r \in {"succeeded", "failed"} : Finish(c, r)
  \/ Settle(c)

RunNext ==
  \/ Check(Cron, "sync")
  \/ \E c \in Call \ {Cron}, k \in Kind : Check(c, k)
  \/ \E c \in Call : CallWork(c) \/ PutOff(c) \/ TimerAsks(c) \/ CompletionFails(c)
  \/ Poll \/ PollSweeps
  \/ Restart

RunSpec == RunInit /\ [][RunNext]_runVars

\* Handlers go on, and the cron asks for a sync again and again.
FairRuns ==
  /\ RunSpec
  /\ \A c \in Call : WF_runVars(CallWork(c))
  /\ WF_runVars(Check(Cron, "sync"))

-----------------------------------------------------------------------------
(* Properties. *)

\* A flag never outlives its run: each call clears the flag whatever it holds,
\* so it may be clear while a run goes on, but never held by one that is over,
\* which would answer "alreadyRunning" for ever.
FlagIsLive == \A f \in Flag : flag[f] # None => Alive(flag[f])

\* A run that came to its end and wrote its row is what the row says, although
\* sweeps called the row failed while the run went on (completeSyncRun).
FinalIsTruth == \A c \in Call : step[c] = "done" /\ result[c] # "none" => runRow[c] = result[c]

\* Rows that say "running" with nobody working on them.
Stale == orphans \/ \E c \in Call : runRow[c] = "running" /\ ~Alive(c)

\* They do not stay: of a run that never completes its row, whose completion
\* failed, or that a dead process left behind.
StaleSettles == Stale ~> ~Stale
=============================================================================
