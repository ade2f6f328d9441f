---------------------------- MODULE SnapshotJobs ----------------------------
(***************************************************************************)
(* The job that builds the exact snapshots of products for one export and  *)
(* period. A request notes that the products wait, creates the job or      *)
(* changes the one there is, and starts a direct run when the export is    *)
(* saved here, else a plain warm-up. The queue pass takes jobs too. Both   *)
(* show what they work at in the memory of the process, under the export's *)
(* name; what plain warm-ups and the builds of a run show one product at a *)
(* time goes under the name "no-export", which is not modelled. A rejected *)
(* direct run has no handler and ends the process.                         *)
(***************************************************************************)
EXTENDS FiniteSets, Naturals

CONSTANTS
  Product,
  MaxSnapRequests, MaxSnapCrashes

ASSUME SnapAssumption ==
  /\ IsFiniteSet(Product)
  /\ MaxSnapRequests \in Nat /\ MaxSnapCrashes \in Nat

VARIABLES
  job,       \* wb_product_preset_snapshot_jobs: its row, due and old by the clock
  ready,     \* products with the exact snapshot
  warm,      \* productSnapshotWarmupState for this export and period
  ask,       \* a request between its awaits
  plain,     \* products of plain warm-ups
  direct,    \* the run of directRunsInFlight for this job
  queuePass, \* presetSnapshotJobPassPromise
  overtaken, \* ghost: the pass took the job from a run of ten minutes
  astray,    \* ghost: products a pass gave up, shown as running, that a request or
             \* the end of another run then took from the job
  asks, snapCrashes

snapVars == <<job, ready, warm, ask, plain, direct, queuePass, overtaken,
              astray, asks, snapCrashes>>

JobStatus == {"none", "queued", "running", "retry_scheduled", "succeeded", "failed"}
NoWork == [step |-> "idle", wants |-> {}]
DirectAtWork == direct.step \in {"working", "built"}

SnapTypeOK ==
  /\ job \in [status : JobStatus, wants : SUBSET Product, due : BOOLEAN, old : BOOLEAN]
  /\ job.old => job.status = "running"
  /\ DirectAtWork \/ queuePass # NoWork => overtaken \/ job.status = "running"
  /\ ready \subseteq Product /\ plain \subseteq Product
  /\ warm \in [Product -> {"none", "queued", "running", "failed"}]
  /\ ask \in [step : {"idle", "asked", "covered", "partial"}, wants : SUBSET Product]
  /\ direct \in [step : {"idle", "starting", "working", "built"}, wants : SUBSET Product]
  /\ queuePass \in [step : {"idle", "working"}, wants : SUBSET Product]
  /\ overtaken \in BOOLEAN /\ astray \subseteq Product
  /\ asks \in 0..MaxSnapRequests /\ snapCrashes \in 0..MaxSnapCrashes

SnapInit ==
  /\ job = [status |-> "none", wants |-> {}, due |-> FALSE, old |-> FALSE]
  /\ ready = {} /\ plain = {}
  /\ warm = [p \in Product |-> "none"]
  /\ ask = NoWork /\ direct = NoWork /\ queuePass = NoWork
  /\ overtaken = FALSE /\ astray = {}
  /\ asks = 0 /\ snapCrashes = 0

\* The row's products that nobody works at.
Abandoned == job.wants \ (queuePass.wants \union (IF DirectAtWork THEN direct.wants ELSE {}))

Marked(S, s) == [p \in Product |-> IF p \in S THEN s ELSE warm[p]]

-----------------------------------------------------------------------------
\* markProductSnapshotWarmupQueued: an entry of a better or the same priority
\* keeps its status, "failed" too; "running" always does.
AskSnapshots(S) ==
  /\ ask = NoWork /\ asks < MaxSnapRequests
  /\ asks' = asks + 1
  /\ ask' = [step |-> "asked", wants |-> S]
  /\ \E keep \in {{p \in S : warm[p] = "failed"}, {}} :
       warm' = Marked({p \in S \ keep : warm[p] # "running"}, "queued")
  /\ UNCHANGED <<job, ready, plain, direct, queuePass, overtaken, astray, snapCrashes>>

ReadCoverage ==
  /\ ask.step = "asked"
  /\ ask' = [ask EXCEPT !.step = IF ask.wants \subseteq ready THEN "covered" ELSE "partial"]
  /\ UNCHANGED <<job, ready, warm, plain, direct, queuePass, overtaken, astray, asks, snapCrashes>>

\* The upsert leaves a running job running, a succeeded one when all is ready.
KeepsStatus ==
  job.status = "running" \/ (job.status = "succeeded" /\ ask.step = "covered")

UpsertJob(saved) ==
  /\ ask.step \in {"covered", "partial"}
  /\ job' = IF KeepsStatus THEN [job EXCEPT !.wants = ask.wants]
            ELSE [status |-> "queued", wants |-> ask.wants, due |-> TRUE, old |-> FALSE]
  /\ direct' = IF saved /\ direct = NoWork THEN [step |-> "starting", wants |-> ask.wants]
               ELSE direct
  /\ plain' = IF saved THEN plain ELSE plain \union ask.wants
  /\ ask' = NoWork
  /\ astray' = astray \union (Abandoned \ ask.wants)
  /\ UNCHANGED <<ready, warm, queuePass, overtaken, asks, snapCrashes>>

\* A query of the request throws; what it noted stays.
AskFails ==
  /\ ask # NoWork /\ ask' = NoWork
  /\ UNCHANGED <<job, ready, warm, plain, direct, queuePass, overtaken, astray, asks, snapCrashes>>

PlainBuilds(p) ==
  /\ p \in plain
  /\ plain' = plain \ {p}
  /\ ready' \in {ready, ready \union {p}}
  /\ UNCHANGED <<job, warm, ask, direct, queuePass, overtaken, astray, asks, snapCrashes>>

-----------------------------------------------------------------------------
\* Faulty variant: any job but a succeeded one is started.
Startable_Any == {"queued", "retry_scheduled", "running", "failed"}

Startable == {"queued", "retry_scheduled"}

\* A running job is to do again when it is ten minutes old.
ToDo == {"queued", "retry_scheduled", "running"}

Ran == [job EXCEPT !.status = "running", !.old = FALSE]

\* startProductPresetSnapshotJob, then the products are shown as running.
DirectStarts ==
  /\ direct.step = "starting"
  /\ IF job.status \in Startable
       THEN /\ job' = Ran
            /\ direct' = [direct EXCEPT !.step = "working"]
            /\ warm' = Marked(direct.wants, "running")
       ELSE direct' = NoWork /\ UNCHANGED <<job, warm>>
  /\ UNCHANGED <<ready, ask, plain, queuePass, overtaken, astray, asks, snapCrashes>>

\* materializeSnapshots: what fails for a product is logged.
DirectBuilds ==
  /\ direct.step = "working"
  /\ \E S \in SUBSET direct.wants : ready' = ready \union S
  /\ direct' = [direct EXCEPT !.step = "built"]
  /\ UNCHANGED <<job, warm, ask, plain, queuePass, overtaken, astray, asks, snapCrashes>>

\* Faulty variant: the entries of the job's products now are cleared.
Worked_Row(work) == job.wants

\* The products the work began with, whatever a request wrote since.
Worked(work) == work.wants

DirectEnds(status, shown) ==
  /\ direct.step \in (IF status = "failed" THEN {"working", "built"} ELSE {"built"})
  /\ job' = [job EXCEPT !.status = status, !.old = FALSE]
  /\ warm' = Marked(Worked(direct), shown)
  /\ direct' = NoWork
  /\ overtaken' = (overtaken /\ queuePass # NoWork)
  /\ astray' = astray \union Abandoned
  /\ UNCHANGED <<ready, ask, plain, queuePass, asks, snapCrashes>>

\* claimReadyProductPresetSnapshotJobs.
ClaimSnapshotJob ==
  /\ queuePass = NoWork
  /\ \/ job.status \in {"queued", "retry_scheduled"} /\ job.due
     \/ job.status = "running" /\ job.old
  /\ job' = Ran
  /\ queuePass' = [step |-> "working", wants |-> job.wants]
  /\ warm' = Marked(job.wants, "running")
  /\ overtaken' = (overtaken \/ (DirectAtWork /\ job.old))
  /\ UNCHANGED <<ready, ask, plain, direct, astray, asks, snapCrashes>>

\* The local export is refused with 429, or answers with a job that has no
\* payload: its period cannot be read, and the pass fails the job.
QueuePassEnds(status, shown) ==
  /\ queuePass.step = "working"
  /\ job' = [job EXCEPT !.status = status, !.old = FALSE, !.due = @ /\ status # "retry_scheduled"]
  /\ warm' = [p \in Product |->
                IF p \in Worked(queuePass) /\ (shown = "failed" \/ warm[p] # "running")
                THEN shown ELSE warm[p]]
  /\ astray' = astray \union
       (IF shown = "queued" THEN queuePass.wants \ job.wants ELSE Abandoned)
  /\ queuePass' = NoWork
  /\ overtaken' = (overtaken /\ DirectAtWork)
  /\ UNCHANGED <<ready, ask, plain, direct, asks, snapCrashes>>

\* The query that should reschedule or fail the job throws: the pass is rejected,
\* which is logged; the row and the entries say "running" and nobody works.
QueuePassBreaks ==
  /\ queuePass.step = "working"
  /\ queuePass' = NoWork
  /\ astray' = astray \union
       (IF job.status \in ToDo THEN queuePass.wants \ job.wants ELSE queuePass.wants)
  /\ overtaken' = (overtaken /\ DirectAtWork)
  /\ UNCHANGED <<job, ready, warm, ask, plain, direct, asks, snapCrashes>>

-----------------------------------------------------------------------------
\* The next attempt is due; ten minutes since the last one.
SnapTimePasses ==
  /\ job' \in {[job EXCEPT !.due = TRUE], [job EXCEPT !.old = (job.status = "running")]}
  /\ job' # job
  /\ UNCHANGED <<ready, warm, ask, plain, direct, queuePass, overtaken, astray, asks, snapCrashes>>

SnapCrash ==
  /\ snapCrashes < MaxSnapCrashes /\ snapCrashes' = snapCrashes + 1
  /\ warm' = [p \in Product |-> "none"]
  /\ ask' = NoWork /\ direct' = NoWork /\ queuePass' = NoWork /\ plain' = {}
  /\ overtaken' = FALSE /\ astray' = {}
  /\ UNCHANGED <<job, ready, asks>>

SnapNext ==
  \/ \E S \in SUBSET Product : S # {} /\ AskSnapshots(S)
  \/ ReadCoverage \/ AskFails
  \/ \E saved \in BOOLEAN : UpsertJob(saved)
  \/ \E p \in Product : PlainBuilds(p)
  \/ DirectStarts \/ DirectBuilds
  \/ DirectEnds("succeeded", "none") \/ DirectEnds("failed", "failed")
  \/ ClaimSnapshotJob
  \/ QueuePassEnds("retry_scheduled", "queued") \/ QueuePassEnds("failed", "failed")
  \/ QueuePassBreaks
  \/ SnapTimePasses
  \/ SnapCrash

SnapSpec == SnapInit /\ [][SnapNext]_snapVars

-----------------------------------------------------------------------------
\* The direct run and the queue pass never build the same job side by side,
\* unless the run took more than the ten minutes after which it counts as dead.
OneWorker == DirectAtWork /\ queuePass # NoWork => overtaken

\* A product shown as running is worked at by somebody, or the job's row still has
\* it to do, so that the next pass takes it up: also after a pass that gave up with
\* a retry (markWarmupQueued does not replace "running") or broke down, and whatever
\* requests changed the row's products while somebody worked. Only what a pass gave
\* up and a request, or the end of a run, then took from the job stays shown.
RunningIsWorked ==
  \A p \in Product : warm[p] = "running" =>
    \/ DirectAtWork /\ p \in direct.wants
    \/ p \in queuePass.wants
    \/ job.status \in ToDo /\ p \in job.wants
    \/ p \in astray
=============================================================================
