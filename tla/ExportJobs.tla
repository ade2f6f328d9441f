----------------------------- MODULE ExportJobs -----------------------------
(***************************************************************************)
(* The export jobs. A request checks the cooldown of its method, notes the *)
(* attempt and starts a run in the background; the run saves its result,   *)
(* updates the catalogue and reports in the job's status file. The status  *)
(* request of the client repairs a status whose run this process does not  *)
(* know. Both kinds of state are files: written by truncating them first,  *)
(* and the cooldowns of all methods are one file, read and written whole.  *)
(***************************************************************************)
EXTENDS FiniteSets, Naturals

CONSTANTS
  Export,    \* the jobs
  Method,    \* search_queries, product_search_texts
  MaxCrashes

ASSUME ExportAssumption == MaxCrashes \in Nat

VARIABLES
  method,   \* the method of each job
  status,   \* status.json: "none", "torn" while it is being written
  result,   \* the jobs whose result.json is complete
  run,      \* what the request and its run do next
  open,     \* the jobs whose status the run is writing
  copy,     \* the cooldowns as the run has read them, to write them back
  flying,   \* inFlightExports
  cooling,  \* export-method-state.json: the methods with a cooldown
  poll,     \* a status request: its job and the file it has read
  exportCrashes

exportVars == <<method, status, result, run, open, copy, flying, cooling, poll, exportCrashes>>

ExportStage == {"none", "ready", "attempt", "attempted", "begin", "export", "save",
          "catalogue", "success", "successful", "finish", "failure", "failed", "fail", "over"}
Live == {"begin", "export", "save", "catalogue", "success", "successful", "finish",
         "failure", "failed", "fail"}
Unfinished == {"queued", "running"}
NoPoll == [job |-> "none", saw |-> "none", writes |-> "none"]

ExportTypeOK ==
  /\ method \in [Export -> Method]
  /\ status \in [Export -> Unfinished \union {"none", "torn", "succeeded", "failed"}]
  /\ result \subseteq Export
  /\ run \in [Export -> ExportStage]
  /\ copy \in [Export -> SUBSET Method]
  /\ flying = {j \in Export : run[j] \in Live} \* the map holds exactly the runs
  /\ cooling \subseteq Method
  /\ open \subseteq flying \union {j \in Export : run[j] = "attempted"}
  /\ poll = NoPoll \/ poll \in [job : Export, saw : Unfinished \union {"none", "result"},
                                writes : {"none", "failed", "succeeded"}]
  /\ exportCrashes \in 0..MaxCrashes

ExportInit ==
  /\ method \in [Export -> Method]
  /\ status = [j \in Export |-> "none"]
  /\ result = {}
  /\ run = [j \in Export |-> "none"] /\ open = {}
  /\ copy = [j \in Export |-> {}]
  /\ flying = {} /\ cooling = {}
  /\ poll = NoPoll
  /\ exportCrashes = 0

Goes(j, from, to) == run[j] = from /\ run' = [run EXCEPT ![j] = to]

\* writeFile of a run: the file is empty, then has the new content.
Truncates(j) ==
  /\ j \notin open /\ open' = open \union {j}
  /\ status' = [status EXCEPT ![j] = "torn"]
Fills(j, s) ==
  /\ j \in open /\ open' = open \ {j}
  /\ status' = [status EXCEPT ![j] = s]

-----------------------------------------------------------------------------
\* The file of the cooldowns, as a reader finds it: empty while it is written.
CoolingRead ==
  {cooling} \union {{} : i \in {i \in Export : run[i] \in {"attempt", "successful", "failed"}}}

\* assertMethodReady.
Request(j) ==
  /\ \E seen \in CoolingRead : method[j] \notin seen
  /\ Goes(j, "none", "ready")
  /\ UNCHANGED <<method, status, result, open, copy, flying, cooling, poll, exportCrashes>>

\* updateStoredExportMethodState reads the file for one of its three callers.
ReadState(j) ==
  /\ \/ Goes(j, "ready", "attempt") \/ Goes(j, "success", "successful")
     \/ Goes(j, "failure", "failed")
  /\ \E seen \in CoolingRead : copy' = [copy EXCEPT ![j] = seen]
  /\ UNCHANGED <<method, status, result, open, flying, cooling, poll, exportCrashes>>

\* markMethodAttempt begins the cooldown; the others leave it as it was read.
WriteState(j) ==
  /\ \/ Goes(j, "attempt", "attempted") /\ cooling' = copy[j] \union {method[j]}
     \/ Goes(j, "successful", "finish") /\ cooling' = copy[j]
     \/ Goes(j, "failed", "fail")       /\ cooling' = copy[j]
  /\ copy' = [copy EXCEPT ![j] = {}]
  /\ UNCHANGED <<method, status, result, open, flying, poll, exportCrashes>>

\* The queued status; the request answers with it.
Queue(j) ==
  /\ run[j] = "attempted"
  /\ \/ Truncates(j) /\ UNCHANGED <<run, flying>>
     \/ Fills(j, "queued") /\ Goes(j, "attempted", "begin") /\ flying' = flying \union {j}
  /\ UNCHANGED <<method, result, copy, cooling, poll, exportCrashes>>

Begin(j) ==
  /\ run[j] = "begin"
  /\ \/ Truncates(j) /\ UNCHANGED run
     \/ Fills(j, "running") /\ Goes(j, "begin", "export")
  /\ UNCHANGED <<method, result, copy, flying, cooling, poll, exportCrashes>>

\* WB's answer is complete, then result.json.
Work(j) ==
  /\ \/ Goes(j, "export", "save") /\ UNCHANGED result
     \/ Goes(j, "save", "catalogue") /\ result' = result \union {j}
     \/ Goes(j, "catalogue", "success") /\ UNCHANGED result
  /\ UNCHANGED <<method, status, open, copy, flying, cooling, poll, exportCrashes>>

\* Each of these steps may throw into the catch block.
WorkFails(j) ==
  /\ run[j] \in {"export", "save", "catalogue", "success", "successful", "finish"}
  /\ run' = [run EXCEPT ![j] = "failure"]
  /\ UNCHANGED <<method, status, result, open, copy, flying, cooling, poll, exportCrashes>>

\* Faulty variant: success is reported though the catch block was run.
Outcome_Hopeful(stage) == "succeeded"

Outcome(stage) == IF stage = "finish" THEN "succeeded" ELSE "failed"

\* Faulty variant: a run that failed is not taken off the map.
Landed_Well(j) == IF run[j] = "finish" THEN flying \ {j} ELSE flying

Landed(j) == flying \ {j}

\* The final status, then finally.
Finish(j) ==
  /\ run[j] \in {"finish", "fail"}
  /\ \/ Truncates(j) /\ UNCHANGED <<run, flying>>
     \/ /\ Fills(j, Outcome(run[j]))
        /\ run' = [run EXCEPT ![j] = "over"]
        /\ flying' = Landed(j)
  /\ UNCHANGED <<method, result, copy, cooling, poll, exportCrashes>>

\* The cooldown of a method is over.
Cooled(m) ==
  /\ m \in cooling /\ cooling' = cooling \ {m}
  /\ UNCHANGED <<method, status, result, run, open, copy, flying, poll, exportCrashes>>

-----------------------------------------------------------------------------
\* The status request of a client that has the job's answer. A final status is
\* returned; for a file that cannot be read it reads the result.
PollReads(j) ==
  /\ poll = NoPoll /\ run[j] \in Live \union {"over"}
  /\ status[j] \in Unfinished \union {"torn", "none"}
  /\ poll' = [job |-> j, saw |-> IF status[j] \in Unfinished THEN status[j] ELSE "none",
              writes |-> "none"]
  /\ UNCHANGED <<method, status, result, run, open, copy, flying, cooling, exportCrashes>>

\* Without one the job was not found.
PollReadsResult ==
  /\ poll # NoPoll /\ poll.saw = "none"
  /\ poll' = IF poll.job \in result THEN [poll EXCEPT !.saw = "result"] ELSE NoPoll
  /\ UNCHANGED <<method, status, result, run, open, copy, flying, cooling, exportCrashes>>

\* Faulty variant: the job is failed while its run goes on.
Interrupted_Any(j) == TRUE

\* A run this process does not know.
Interrupted(j) == j \notin flying

PollMends ==
  /\ poll # NoPoll /\ poll.saw # "none" /\ poll.writes = "none"
  /\ IF poll.saw = "result" \/ Interrupted(poll.job)
       THEN /\ poll' = [poll EXCEPT !.writes = IF poll.saw = "result" THEN "succeeded" ELSE "failed"]
            /\ status' = [status EXCEPT ![poll.job] = "torn"]
       ELSE poll' = NoPoll /\ UNCHANGED status
  /\ UNCHANGED <<method, result, run, open, copy, flying, cooling, exportCrashes>>

PollMended ==
  /\ poll # NoPoll /\ poll.writes # "none"
  /\ status' = [status EXCEPT ![poll.job] = poll.writes]
  /\ poll' = NoPoll
  /\ UNCHANGED <<method, result, run, open, copy, flying, cooling, exportCrashes>>

\* The process ends, perhaps with the file of the cooldowns open; the next one
\* calls every unfinished job failed.
CrashAndRestart ==
  /\ exportCrashes < MaxCrashes /\ exportCrashes' = exportCrashes + 1
  /\ status' = [j \in Export |-> IF status[j] \in Unfinished THEN "failed" ELSE status[j]]
  /\ run' = [j \in Export |-> IF run[j] \in {"none", "over"} THEN run[j] ELSE "over"]
  /\ copy' = [j \in Export |-> {}]
  /\ open' = {} /\ flying' = {} /\ poll' = NoPoll
  /\ \E left \in CoolingRead : cooling' = left
  /\ UNCHANGED <<method, result>>

ExportNext ==
  \/ \E j \in Export :
       \/ Request(j) \/ ReadState(j) \/ WriteState(j) \/ Queue(j) \/ Begin(j)
       \/ Work(j) \/ WorkFails(j) \/ Finish(j) \/ PollReads(j)
  \/ \E m \in Method : Cooled(m)
  \/ PollReadsResult \/ PollMends \/ PollMended \/ CrashAndRestart

ExportSpec == ExportInit /\ [][ExportNext]_exportVars

-----------------------------------------------------------------------------
\* No client is told that its export failed while the export still runs, and
\* would go on to run it again.
FailedIsOver ==
  \A j \in Export : status[j] = "failed" => run[j] = "over"

\* A job that succeeded has its result on disk, whoever wrote the status.
SucceededHasResult == \A j \in Export : status[j] = "succeeded" => j \in result
=============================================================================
