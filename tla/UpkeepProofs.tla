---------------------------- MODULE UpkeepProofs ----------------------------
(***************************************************************************)
(* Theorems about what keeps the stored data up to date: the exports with  *)
(* the files of their status and result, the job that builds product       *)
(* snapshots, the caches of the sheet, the order of the campaigns of a     *)
(* sync and the lists of clusters; for any number of jobs, products,       *)
(* readers, campaigns, clusters and failures.                              *)
(***************************************************************************)
EXTENDS MCUpkeep, FiniteSetTheorems, WellFoundedInduction, TLAPS

-----------------------------------------------------------------------------
(* The exports. *)

Polls == [job : Export, saw : Unfinished \union {"none", "result"},
          writes : {"none", "failed", "succeeded"}]

\* The files and the runs; the map of exports in flight is exactly the runs.
ExportTyped ==
  /\ method \in [Export -> Method]
  /\ status \in [Export -> Unfinished \union {"none", "torn", "succeeded", "failed"}]
  /\ result \subseteq Export
  /\ run \in [Export -> ExportStage]
  /\ copy \in [Export -> SUBSET Method]
  /\ flying = {j \in Export : run[j] \in Live}
  /\ cooling \subseteq Method
  /\ open \subseteq {j \in Export : run[j] \in Live \union {"attempted"}}
  /\ poll = NoPoll \/ poll \in Polls
  /\ exportCrashes \in 0..MaxCrashes

\* What a run at one of its steps has done.
RunHistory ==
  \A j \in Export :
    /\ run[j] = "none" => status[j] = "none"
    /\ status[j] = "failed" => run[j] = "over"
    /\ status[j] = "succeeded" => j \in result
    /\ run[j] \in {"catalogue", "success", "successful", "finish"} => j \in result

\* What the status request in progress knows, and may write.
PollKnows ==
  poll # NoPoll =>
    /\ run[poll.job] \in Live \union {"over"}
    /\ poll.saw = "result" => poll.job \in result
    /\ poll.writes = "succeeded" => poll.saw = "result"
    /\ poll.writes = "failed" => run[poll.job] = "over"

ExportIInv == ExportTyped /\ RunHistory /\ PollKnows

\* No status request in progress looks like the absence of one.
LEMMA PollTyped ==
  \A q \in Polls : q.saw \in Unfinished \union {"none", "result"} /\ q.job \in Export
BY DEF Polls

\* Where a run stands, seen through the map of exports in flight.
LEMMA Stages ==
  /\ Live \subseteq ExportStage
  /\ "none" \in ExportStage /\ "over" \in ExportStage /\ "attempted" \in ExportStage
  /\ "none" \notin Live /\ "over" \notin Live /\ "attempted" \notin Live
BY DEF Live, ExportStage

\* A status request stays right about a run that moves on, and never knows of a
\* job that has not been queued.
LEMMA RunMovesOn ==
  ASSUME ExportTyped, PollKnows, NEW j \in Export, NEW s, poll' = poll, result \subseteq result',
         run' = [run EXCEPT ![j] = s],
         run[j] # "over",
         run[j] \in Live => s \in Live \union {"over"}
  PROVE  PollKnows'
<1>1. SUFFICES ASSUME poll # NoPoll
               PROVE  /\ run'[poll.job] \in Live \union {"over"}
                      /\ poll.saw = "result" => poll.job \in result'
                      /\ poll.writes = "succeeded" => poll.saw = "result"
                      /\ poll.writes = "failed" => run'[poll.job] = "over"
  BY DEF PollKnows
<1>2. poll \in Polls /\ poll.job \in Export
  BY <1>1, PollTyped DEF ExportTyped
<1>3. CASE poll.job = j
  <2>1. run[j] \in Live /\ run'[j] = s
    BY <1>1, <1>2, <1>3 DEF PollKnows, ExportTyped
  <2> QED
    BY <1>1, <1>3, <2>1 DEF PollKnows
<1>4. CASE poll.job # j
  <2>1. run'[poll.job] = run[poll.job]
    BY <1>2, <1>4 DEF ExportTyped
  <2> QED
    BY <1>1, <1>2, <2>1 DEF PollKnows
<1> QED
  BY <1>3, <1>4

\* Whether the run has to be on the map, when it moves on within it or outside.
LEMMA SameFlying ==
  ASSUME ExportTyped, NEW j \in Export, NEW s \in ExportStage,
         run' = [run EXCEPT ![j] = s],
         run[j] \in Live <=> s \in Live
  PROVE  /\ run' \in [Export -> ExportStage]
         /\ flying = {i \in Export : run'[i] \in Live}
BY DEF ExportTyped

\* A step that moves the run j on and leaves its files alone.
LEMMA MovesOnly ==
  ASSUME ExportIInv, NEW j \in Export, NEW s \in ExportStage,
         run' = [run EXCEPT ![j] = s],
         run[j] \in Live <=> s \in Live,
         run[j] # "over", s \notin {"none", "over"},
         s \in {"catalogue", "success", "successful", "finish"} => j \in result',
         j \in open => s \in Live \union {"attempted"},
         result \subseteq result', result' \subseteq Export,
         UNCHANGED <<method, status, open, flying, poll, exportCrashes>>,
         copy' \in [Export -> SUBSET Method], cooling' \subseteq Method
  PROVE  ExportIInv'
<1> USE DEF ExportIInv
<1>1. run' \in [Export -> ExportStage] /\ flying = {i \in Export : run'[i] \in Live}
  BY SameFlying
<1>2. open \subseteq {i \in Export : run'[i] \in Live \union {"attempted"}}
  BY <1>1 DEF ExportTyped
<1>3. ExportTyped'
  BY <1>1, <1>2 DEF ExportTyped
<1>4. RunHistory'
  <2> SUFFICES ASSUME NEW i \in Export
               PROVE  /\ run'[i] = "none" => status[i] = "none"
                      /\ status[i] = "failed" => run'[i] = "over"
                      /\ status[i] = "succeeded" => i \in result'
                      /\ run'[i] \in {"catalogue", "success", "successful", "finish"} => i \in result'
    BY DEF RunHistory
  <2>1. CASE i = j
    <3>1. run'[j] = s
      BY DEF ExportTyped
    <3> QED
      BY <2>1, <3>1 DEF RunHistory
  <2>2. CASE i # j
    <3>1. run'[i] = run[i]
      BY <2>2 DEF ExportTyped
    <3> QED
      BY <3>1 DEF RunHistory
  <2> QED
    BY <2>1, <2>2
<1>5. PollKnows'
  BY RunMovesOn
<1> QED
  BY <1>3, <1>4, <1>5

\* The writing of a status begins, by the run or by a status request.
LEMMA TornKeeps ==
  ASSUME ExportIInv, NEW j \in Export, run[j] # "none",
         status' = [status EXCEPT ![j] = "torn"],
         UNCHANGED <<method, result, run, copy, flying, cooling, exportCrashes>>
  PROVE  /\ status' \in [Export -> Unfinished \union {"none", "torn", "succeeded", "failed"}]
         /\ RunHistory'
<1>1. status' \in [Export -> Unfinished \union {"none", "torn", "succeeded", "failed"}]
  BY DEF ExportIInv, ExportTyped
<1>2. \A i \in Export : status'[i] = IF i = j THEN "torn" ELSE status[i]
  BY DEF ExportIInv, ExportTyped
<1> QED
  BY <1>1, <1>2 DEF ExportIInv, RunHistory

LEMMA TruncatesKeeps ==
  ASSUME ExportIInv, NEW j \in Export, run[j] \in Live \union {"attempted"}, Truncates(j),
         UNCHANGED <<method, result, run, copy, flying, cooling, poll, exportCrashes>>
  PROVE  ExportIInv'
<1>1. run[j] # "none"
  BY Stages
<1>2. /\ status' \in [Export -> Unfinished \union {"none", "torn", "succeeded", "failed"}]
      /\ RunHistory'
  BY <1>1, TornKeeps DEF Truncates
<1>3. ExportTyped'
  BY <1>2 DEF ExportIInv, ExportTyped, Truncates
<1>4. PollKnows'
  BY DEF ExportIInv, PollKnows
<1> QED
  BY <1>2, <1>3, <1>4 DEF ExportIInv

\* The writing of a status ends, and the run moves on.
LEMMA FillsKeeps ==
  ASSUME ExportIInv, NEW j \in Export, NEW s \in ExportStage, NEW told,
         Fills(j, told), told \in Unfinished \union {"succeeded", "failed"},
         run' = [run EXCEPT ![j] = s], run[j] # "over", s # "none",
         run[j] \in Live => s \in Live \union {"over"},
         flying' = {i \in Export : run'[i] \in Live},
         told = "failed" => s = "over",
         told = "succeeded" => j \in result,
         s \notin {"catalogue", "success", "successful", "finish"},
         UNCHANGED <<method, result, copy, cooling, poll, exportCrashes>>
  PROVE  ExportIInv'
<1> USE DEF ExportIInv
<1>1. /\ run' \in [Export -> ExportStage]
      /\ status' \in [Export -> Unfinished \union {"none", "torn", "succeeded", "failed"}]
  BY DEF ExportTyped, Fills
<1>2. \A i \in Export : /\ run'[i] = IF i = j THEN s ELSE run[i]
                        /\ status'[i] = IF i = j THEN told ELSE status[i]
  BY DEF ExportTyped, Fills
<1>3. open' \subseteq {i \in Export : run'[i] \in Live \union {"attempted"}}
  BY <1>2 DEF ExportTyped, Fills
<1>4. ExportTyped'
  BY <1>1, <1>3 DEF ExportTyped
<1>5. RunHistory'
  BY <1>2 DEF RunHistory, Unfinished
<1>6. PollKnows'
  BY RunMovesOn
<1> QED
  BY <1>4, <1>5, <1>6

LEMMA RequestKeeps == ASSUME ExportIInv, NEW j \in Export, Request(j) PROVE ExportIInv'
<1> USE DEF ExportIInv
<1>1. run[j] = "none" /\ run' = [run EXCEPT ![j] = "ready"]
  BY DEF Request, Goes
<1>2. "ready" \in ExportStage /\ "none" \notin Live /\ "ready" \notin Live
  BY DEF ExportStage, Live
<1>3. j \notin open
  BY <1>1, <1>2 DEF ExportTyped
<1>4. /\ UNCHANGED <<method, status, result, open, flying, poll, exportCrashes, copy, cooling>>
      /\ copy \in [Export -> SUBSET Method] /\ cooling \subseteq Method /\ result \subseteq Export
  BY DEF Request, ExportTyped
<1> QED
  BY <1>1, <1>2, <1>3, <1>4, MovesOnly

LEMMA ReadStateKeeps == ASSUME ExportIInv, NEW j \in Export, ReadState(j) PROVE ExportIInv'
<1>1. /\ UNCHANGED <<method, status, result, open, flying, poll, exportCrashes, cooling>>
      /\ copy' \in [Export -> SUBSET Method] /\ cooling \subseteq Method /\ result \subseteq Export
  BY DEF ReadState, CoolingRead, ExportIInv, ExportTyped
<1>2. CASE Goes(j, "ready", "attempt")
  <2>1. /\ "attempt" \in ExportStage /\ "ready" \notin Live \union {"attempted"}
        /\ "attempt" \notin Live
    BY DEF ExportStage, Live
  <2>2. j \notin open
    BY <1>2, <2>1 DEF ExportIInv, ExportTyped, Goes
  <2> QED
    BY <1>1, <1>2, <2>1, <2>2, MovesOnly DEF Goes
<1>3. CASE Goes(j, "success", "successful")
  <2>1. {"success", "successful"} \subseteq Live
    BY DEF Live
  <2>2. j \in result
    BY <1>3 DEF ExportIInv, RunHistory, Goes
  <2> QED
    BY <1>1, <1>3, <2>1, <2>2, Stages, MovesOnly DEF Goes
<1>4. CASE Goes(j, "failure", "failed")
  <2>1. {"failure", "failed"} \subseteq Live
    BY DEF Live
  <2> QED
    BY <1>1, <1>4, <2>1, Stages, MovesOnly DEF Goes
<1> QED
  BY <1>2, <1>3, <1>4 DEF ReadState

LEMMA WriteStateKeeps == ASSUME ExportIInv, NEW j \in Export, WriteState(j) PROVE ExportIInv'
<1>1. /\ UNCHANGED <<method, status, result, open, flying, poll, exportCrashes>>
      /\ copy' \in [Export -> SUBSET Method] /\ cooling' \subseteq Method /\ result \subseteq Export
  BY DEF WriteState, ExportIInv, ExportTyped
<1>2. CASE Goes(j, "attempt", "attempted")
  <2>1. /\ "attempted" \in ExportStage /\ "attempt" \notin Live
        /\ "attempted" \notin Live
    BY DEF ExportStage, Live
  <2> QED
    BY <1>1, <1>2, <2>1, MovesOnly DEF Goes
<1>3. CASE Goes(j, "successful", "finish")
  <2>1. {"successful", "finish"} \subseteq Live
    BY DEF Live
  <2>2. j \in result
    BY <1>3 DEF ExportIInv, RunHistory, Goes
  <2> QED
    BY <1>1, <1>3, <2>1, <2>2, Stages, MovesOnly DEF Goes
<1>4. CASE Goes(j, "failed", "fail")
  <2>1. {"failed", "fail"} \subseteq Live
    BY DEF Live
  <2> QED
    BY <1>1, <1>4, <2>1, Stages, MovesOnly DEF Goes
<1> QED
  BY <1>2, <1>3, <1>4 DEF WriteState

LEMMA QueueKeeps == ASSUME ExportIInv, NEW j \in Export, Queue(j) PROVE ExportIInv'
<1>1. /\ run[j] = "attempted" /\ "begin" \in Live /\ "begin" \in ExportStage
      /\ UNCHANGED <<method, result, copy, cooling, poll, exportCrashes>>
  BY DEF Queue, Live, ExportStage
<1>2. CASE Truncates(j) /\ UNCHANGED <<run, flying>>
  BY <1>1, <1>2, TruncatesKeeps
<1>3. CASE Fills(j, "queued") /\ Goes(j, "attempted", "begin") /\ flying' = flying \union {j}
  <2>1. run' = [run EXCEPT ![j] = "begin"]
    BY <1>3 DEF Goes
  <2>2. flying' = {i \in Export : run'[i] \in Live}
    BY <1>1, <1>3, <2>1 DEF ExportIInv, ExportTyped
  <2>3. run[j] \notin Live
    BY <1>1, Stages
  <2> QED
    BY <1>1, <1>3, <2>1, <2>2, <2>3, FillsKeeps DEF Unfinished
<1> QED
  BY <1>2, <1>3 DEF Queue

LEMMA BeginKeeps == ASSUME ExportIInv, NEW j \in Export, Begin(j) PROVE ExportIInv'
<1>1. /\ run[j] = "begin" /\ {"begin", "export"} \subseteq Live
      /\ UNCHANGED <<method, result, copy, flying, cooling, poll, exportCrashes>>
  BY DEF Begin, Live
<1>2. CASE Truncates(j) /\ UNCHANGED run
  BY <1>1, <1>2, TruncatesKeeps
<1>3. CASE Fills(j, "running") /\ Goes(j, "begin", "export")
  <2>1. run' = [run EXCEPT ![j] = "export"]
    BY <1>3 DEF Goes
  <2>2. flying' = {i \in Export : run'[i] \in Live}
    BY <1>1, <2>1 DEF ExportIInv, ExportTyped
  <2> QED
    BY <1>1, <1>3, <2>1, <2>2, Stages, FillsKeeps DEF Unfinished
<1> QED
  BY <1>2, <1>3 DEF Begin

LEMMA WorkKeeps == ASSUME ExportIInv, NEW j \in Export, Work(j) PROVE ExportIInv'
<1>1. /\ UNCHANGED <<method, status, open, copy, flying, cooling, poll, exportCrashes>>
      /\ copy \in [Export -> SUBSET Method] /\ cooling \subseteq Method
      /\ result \subseteq result' /\ result' \subseteq Export
  BY DEF Work, ExportIInv, ExportTyped
<1>2. {"export", "save", "catalogue", "success"} \subseteq Live
  BY DEF Live
<1>3. CASE Goes(j, "export", "save")
  BY <1>1, <1>2, <1>3, Stages, MovesOnly DEF Goes
<1>4. CASE Goes(j, "save", "catalogue") /\ result' = result \union {j}
  BY <1>1, <1>2, <1>4, Stages, MovesOnly DEF Goes
<1>5. CASE Goes(j, "catalogue", "success") /\ UNCHANGED result
  <2>1. j \in result'
    BY <1>5 DEF ExportIInv, RunHistory, Goes
  <2> QED
    BY <1>1, <1>2, <1>5, <2>1, Stages, MovesOnly DEF Goes
<1> QED
  BY <1>3, <1>4, <1>5 DEF Work

LEMMA WorkFailsKeeps == ASSUME ExportIInv, NEW j \in Export, WorkFails(j) PROVE ExportIInv'
<1>1. /\ UNCHANGED <<method, status, result, open, copy, flying, cooling, poll, exportCrashes>>
      /\ copy \in [Export -> SUBSET Method] /\ cooling \subseteq Method /\ result \subseteq Export
      /\ run[j] \in {"export", "save", "catalogue", "success", "successful", "finish"}
      /\ run' = [run EXCEPT ![j] = "failure"]
  BY DEF WorkFails, ExportIInv, ExportTyped
<1>2. {"export", "save", "catalogue", "success", "successful", "finish", "failure"} \subseteq Live
  BY DEF Live
<1> QED
  BY <1>1, <1>2, Stages, MovesOnly

LEMMA FinishKeeps == ASSUME ExportIInv, NEW j \in Export, Finish(j) PROVE ExportIInv'
<1>1. /\ run[j] \in {"finish", "fail"} /\ {"finish", "fail"} \subseteq Live
      /\ UNCHANGED <<method, result, copy, cooling, poll, exportCrashes>>
  BY DEF Finish, Live
<1>2. CASE Truncates(j) /\ UNCHANGED <<run, flying>>
  BY <1>1, <1>2, TruncatesKeeps
<1>3. CASE Fills(j, Outcome(run[j])) /\ run' = [run EXCEPT ![j] = "over"] /\ flying' = Landed(j)
  <2>1. flying' = {i \in Export : run'[i] \in Live}
    BY <1>3, Stages DEF ExportIInv, ExportTyped, Landed
  <2>2. CASE run[j] = "finish"
    <3>1. j \in result /\ Outcome(run[j]) = "succeeded"
      BY <2>2 DEF ExportIInv, RunHistory, Outcome
    <3> QED
      BY <1>1, <1>3, <2>1, <3>1, Stages, FillsKeeps
  <2>3. CASE run[j] = "fail"
    <3>1. Outcome(run[j]) = "failed"
      BY <2>3 DEF Outcome
    <3> QED
      BY <1>1, <1>3, <2>1, <3>1, Stages, FillsKeeps
  <2> QED
    BY <1>1, <2>2, <2>3
<1> QED
  BY <1>2, <1>3 DEF Finish

\* The steps of a status request.
LEMMA PollReadsKeeps == ASSUME ExportIInv, NEW j \in Export, PollReads(j) PROVE ExportIInv'
<1>1. /\ UNCHANGED <<method, status, result, run, open, copy, flying, cooling, exportCrashes>>
      /\ run[j] \in Live \union {"over"}
  BY DEF PollReads
<1>2. PICK saw \in Unfinished \union {"none"} :
        poll' = [job |-> j, saw |-> saw, writes |-> "none"]
  BY DEF PollReads, Unfinished
<1>3. poll' \in Polls /\ saw # "result"
  BY <1>2 DEF Polls, Unfinished
<1> QED
  BY <1>1, <1>2, <1>3 DEF ExportIInv, ExportTyped, RunHistory, PollKnows

LEMMA PollReadsResultKeeps == ASSUME ExportIInv, PollReadsResult PROVE ExportIInv'
<1>1. /\ UNCHANGED <<method, status, result, run, open, copy, flying, cooling, exportCrashes>>
      /\ poll \in Polls /\ poll.saw = "none" /\ poll # NoPoll
  BY DEF PollReadsResult, ExportIInv, ExportTyped
<1>2. CASE poll' = NoPoll
  BY <1>1, <1>2 DEF ExportIInv, ExportTyped, RunHistory, PollKnows
<1>3. CASE poll.job \in result /\ poll' = [poll EXCEPT !.saw = "result"]
  <2>1. /\ poll' \in Polls /\ poll'.job = poll.job /\ poll'.saw = "result"
        /\ poll'.writes = poll.writes
    BY <1>1, <1>3 DEF Polls
  <2> QED
    BY <1>1, <1>3, <2>1 DEF ExportIInv, ExportTyped, RunHistory, PollKnows
<1> QED
  BY <1>2, <1>3 DEF PollReadsResult

LEMMA PollMendsKeeps == ASSUME ExportIInv, PollMends PROVE ExportIInv'
<1> USE DEF ExportIInv
<1>1. /\ poll \in Polls /\ poll.job \in Export /\ poll # NoPoll
      /\ run[poll.job] \in Live \union {"over"}
      /\ UNCHANGED <<method, result, run, open, copy, flying, cooling, exportCrashes>>
  BY PollTyped DEF ExportTyped, PollMends, PollKnows
<1>2. CASE poll' = NoPoll /\ UNCHANGED status
  BY <1>1, <1>2 DEF ExportTyped, RunHistory, PollKnows
<1>3. CASE /\ poll.saw = "result" \/ Interrupted(poll.job)
           /\ poll' = [poll EXCEPT !.writes = IF poll.saw = "result" THEN "succeeded" ELSE "failed"]
           /\ status' = [status EXCEPT ![poll.job] = "torn"]
  <2>1. /\ status' \in [Export -> Unfinished \union {"none", "torn", "succeeded", "failed"}]
        /\ RunHistory'
    <3>1. run[poll.job] # "none"
      BY <1>1, Stages
    <3> QED
      BY <1>1, <1>3, <3>1, TornKeeps
  <2>2. /\ poll' \in Polls /\ poll'.job = poll.job /\ poll'.saw = poll.saw
        /\ poll'.writes = IF poll.saw = "result" THEN "succeeded" ELSE "failed"
    BY <1>1, <1>3 DEF Polls
  <2>3. poll.saw # "result" => run[poll.job] = "over"
    BY <1>1, <1>3 DEF ExportTyped, Interrupted
  <2>4. ExportTyped'
    BY <1>1, <2>1, <2>2 DEF ExportTyped
  <2>5. PollKnows'
    BY <1>1, <2>2, <2>3 DEF PollKnows
  <2> QED
    BY <2>1, <2>4, <2>5
<1> QED
  BY <1>2, <1>3 DEF PollMends

LEMMA PollMendedKeeps == ASSUME ExportIInv, PollMended PROVE ExportIInv'
<1> USE DEF ExportIInv
<1>1. /\ poll \in Polls /\ poll.job \in Export /\ poll # NoPoll
      /\ poll.writes \in {"failed", "succeeded"}
      /\ status' = [status EXCEPT ![poll.job] = poll.writes] /\ poll' = NoPoll
      /\ UNCHANGED <<method, result, run, open, copy, flying, cooling, exportCrashes>>
  BY DEF ExportTyped, PollMended, Polls
<1>2. /\ poll.writes = "failed" => run[poll.job] = "over"
      /\ poll.writes = "succeeded" => poll.job \in result
      /\ run[poll.job] # "none"
  BY <1>1, Stages DEF PollKnows
<1>3. ExportTyped'
  BY <1>1 DEF ExportTyped
<1>4. \A i \in Export : status'[i] = IF i = poll.job THEN poll.writes ELSE status[i]
  BY <1>1 DEF ExportTyped
<1>5. RunHistory'
  BY <1>1, <1>2, <1>4 DEF RunHistory
<1>6. PollKnows'
  BY <1>1 DEF PollKnows
<1> QED
  BY <1>3, <1>5, <1>6

LEMMA RestartKeeps == ASSUME ExportIInv, CrashAndRestart PROVE ExportIInv'
<1> USE DEF ExportIInv
<1>1. \A i \in Export :
        /\ status'[i] = IF status[i] \in Unfinished THEN "failed" ELSE status[i]
        /\ run'[i] = IF run[i] \in {"none", "over"} THEN run[i] ELSE "over"
  BY DEF CrashAndRestart
<1>2. /\ status' \in [Export -> Unfinished \union {"none", "torn", "succeeded", "failed"}]
      /\ run' \in [Export -> ExportStage] /\ copy' \in [Export -> SUBSET Method]
      /\ exportCrashes' \in 0..MaxCrashes /\ cooling' \subseteq Method
  BY Stages, ExportAssumption DEF CrashAndRestart, CoolingRead, ExportTyped
<1>3. {i \in Export : run'[i] \in Live} = {}
  BY <1>1, Stages
<1>4. ExportTyped'
  BY <1>2, <1>3 DEF ExportTyped, CrashAndRestart
<1>5. RunHistory'
  BY <1>1 DEF RunHistory, Unfinished, CrashAndRestart
<1>6. PollKnows'
  BY DEF PollKnows, CrashAndRestart
<1> QED
  BY <1>4, <1>5, <1>6

THEOREM ExportInductive == ExportIInv /\ [ExportNext]_exportVars => ExportIInv'
<1> SUFFICES ASSUME ExportIInv, [ExportNext]_exportVars PROVE ExportIInv'
  OBVIOUS
<1>1. ASSUME NEW j \in Export,
             \/ Request(j) \/ ReadState(j) \/ WriteState(j) \/ Queue(j) \/ Begin(j)
             \/ Work(j) \/ WorkFails(j) \/ Finish(j) \/ PollReads(j)
      PROVE  ExportIInv'
  BY <1>1, RequestKeeps, ReadStateKeeps, WriteStateKeeps, QueueKeeps, BeginKeeps,
     WorkKeeps, WorkFailsKeeps, FinishKeeps, PollReadsKeeps
<1>2. ASSUME NEW m \in Method, Cooled(m) PROVE ExportIInv'
  BY <1>2 DEF Cooled, ExportIInv, ExportTyped, RunHistory, PollKnows
<1>3. CASE UNCHANGED exportVars
  BY <1>3 DEF exportVars, ExportIInv, ExportTyped, RunHistory, PollKnows
<1> QED
  BY <1>1, <1>2, <1>3, PollReadsResultKeeps, PollMendsKeeps, PollMendedKeeps, RestartKeeps
  DEF ExportNext

THEOREM ExportAlways == ExportSpec => []ExportIInv
<1>1. ExportInit => ExportIInv
  BY Stages, ExportAssumption
  DEF ExportInit, ExportIInv, ExportTyped, RunHistory, PollKnows
<1> QED
  BY <1>1, ExportInductive, PTL DEF ExportSpec

\* No status says "failed" of an export whose run still goes on: the status
\* request calls it interrupted by the map, and the map holds exactly the runs.
THEOREM FailedCorrect == ExportSpec => []FailedIsOver
<1>1. ExportIInv => FailedIsOver
  BY DEF ExportIInv, RunHistory, FailedIsOver
<1> QED
  BY <1>1, ExportAlways, PTL

\* A job reported as succeeded has its result, also when the status request wrote
\* so beside a run that failed later.
THEOREM SucceededCorrect == ExportSpec => []SucceededHasResult
<1>1. ExportIInv => SucceededHasResult
  BY DEF ExportIInv, RunHistory, SucceededHasResult
<1> QED
  BY <1>1, ExportAlways, PTL

\* The types of the exports (ExportTypeOK): the map of exports in flight is
\* exactly the runs of this process.
THEOREM ExportTypeCorrect == ExportSpec => []ExportTypeOK
<1>1. ExportIInv => ExportTypeOK
  BY DEF ExportIInv, ExportTyped, ExportTypeOK, Polls
<1> QED
  BY <1>1, ExportAlways, PTL

-----------------------------------------------------------------------------
(* The job that builds snapshots. *)

SnapTyped ==
  /\ job \in [status : JobStatus, wants : SUBSET Product, due : BOOLEAN, old : BOOLEAN]
  /\ warm \in [Product -> {"none", "queued", "running", "failed"}]
  /\ ask \in [step : {"idle", "asked", "covered", "partial"}, wants : SUBSET Product]
  /\ direct \in [step : {"idle", "starting", "working", "built"}, wants : SUBSET Product]
  /\ queuePass \in [step : {"idle", "working"}, wants : SUBSET Product]
  /\ direct.step = "idle" => direct = NoWork
  /\ queuePass.step = "idle" => queuePass = NoWork
  /\ overtaken \in BOOLEAN /\ astray \subseteq Product

\* Whoever works at the job keeps its row running, unless it was taken over.
WorkIsRunning ==
  DirectAtWork \/ queuePass # NoWork => overtaken \/ job.status = "running"

SnapIInv == SnapTyped /\ WorkIsRunning /\ OneWorker /\ RunningIsWorked

\* What a request does to the products shown: none begins to run.
LEMMA AskKeeps ==
  ASSUME SnapIInv, NEW S \in SUBSET Product, AskSnapshots(S) PROVE SnapIInv'
<1> USE DEF SnapIInv
<1>1. UNCHANGED <<job, direct, queuePass, overtaken, astray>>
  BY DEF AskSnapshots
<1>2. PICK W \in SUBSET Product :
        warm' = Marked(W, "queued") /\ \A p \in W : warm[p] # "running"
  <2>1. PICK keep \in SUBSET Product :
          warm' = Marked({p \in S \ keep : warm[p] # "running"}, "queued")
    BY DEF AskSnapshots
  <2> QED
    BY <2>1
<1>3. /\ warm' \in [Product -> {"none", "queued", "running", "failed"}]
      /\ \A p \in Product : warm'[p] = "running" => warm[p] = "running"
  BY <1>2 DEF Marked, SnapTyped
<1>4. ask' \in [step : {"idle", "asked", "covered", "partial"}, wants : SUBSET Product]
  BY DEF AskSnapshots
<1>5. SnapTyped'
  BY <1>1, <1>3, <1>4 DEF SnapTyped
<1> QED
  BY <1>1, <1>3, <1>5 DEF WorkIsRunning, OneWorker, RunningIsWorked, DirectAtWork

LEMMA UpsertKeeps ==
  ASSUME SnapIInv, NEW saved \in BOOLEAN, UpsertJob(saved) PROVE SnapIInv'
<1> USE DEF SnapIInv
<1>1. /\ UNCHANGED <<warm, queuePass, overtaken>> /\ ask' = NoWork
      /\ astray' = astray \union (Abandoned \ ask.wants)
  BY DEF UpsertJob
<1>2. /\ job' \in [status : JobStatus, wants : SUBSET Product, due : BOOLEAN, old : BOOLEAN]
      /\ job.status = "running" => job'.status = "running"
      /\ job.status \in ToDo => job'.status \in ToDo
      /\ job'.wants = ask.wants
  <2>1. CASE KeepsStatus /\ job' = [job EXCEPT !.wants = ask.wants]
    BY <2>1 DEF SnapTyped
  <2>2. CASE ~KeepsStatus /\ job' = [status |-> "queued", wants |-> ask.wants,
                                     due |-> TRUE, old |-> FALSE]
    BY <2>2 DEF SnapTyped, JobStatus, KeepsStatus, ToDo
  <2> QED
    BY <2>1, <2>2 DEF UpsertJob
<1>3. direct' = direct \/ (direct = NoWork /\ direct' = [step |-> "starting", wants |-> ask.wants])
  BY DEF UpsertJob
<1>4. SnapTyped'
  BY <1>1, <1>2, <1>3 DEF SnapTyped, NoWork, Abandoned
<1>5. DirectAtWork' <=> DirectAtWork
  BY <1>3 DEF DirectAtWork, NoWork
<1>6. DirectAtWork => direct' = direct
  BY <1>3 DEF DirectAtWork, NoWork
<1>7. RunningIsWorked'
  BY <1>1, <1>2, <1>5, <1>6 DEF RunningIsWorked, Abandoned
<1> QED
  BY <1>1, <1>2, <1>4, <1>5, <1>6, <1>7 DEF WorkIsRunning, OneWorker

LEMMA DirectStartsKeeps == ASSUME SnapIInv, DirectStarts PROVE SnapIInv'
<1> USE DEF SnapIInv
<1>1. /\ UNCHANGED <<ask, queuePass, overtaken, astray>> /\ direct.step = "starting"
      /\ ~DirectAtWork
  BY DEF DirectStarts, DirectAtWork
<1>2. CASE /\ job.status \in Startable /\ job' = Ran
           /\ direct' = [direct EXCEPT !.step = "working"]
           /\ warm' = Marked(direct.wants, "running")
  <2>1. /\ job' \in [status : JobStatus, wants : SUBSET Product, due : BOOLEAN, old : BOOLEAN]
        /\ job'.status = "running" /\ job'.status \in ToDo /\ job'.wants = job.wants
    BY <1>2 DEF SnapTyped, Ran, JobStatus, ToDo
  <2>2. /\ direct' \in [step : {"idle", "starting", "working", "built"}, wants : SUBSET Product]
        /\ direct'.step = "working" /\ direct'.wants = direct.wants /\ DirectAtWork'
    BY <1>2 DEF SnapTyped, DirectAtWork
  <2>3. /\ warm' \in [Product -> {"none", "queued", "running", "failed"}]
        /\ \A p \in Product : p \in direct.wants \/ warm'[p] = warm[p]
    BY <1>2 DEF SnapTyped, Marked
  <2>4. SnapTyped'
    BY <1>1, <2>1, <2>2, <2>3 DEF SnapTyped
  <2>5. OneWorker'
    BY <1>1, <1>2 DEF WorkIsRunning, OneWorker, Startable
  <2> QED
    BY <1>1, <2>1, <2>2, <2>3, <2>4, <2>5 DEF WorkIsRunning, RunningIsWorked
<1>3. CASE direct' = NoWork /\ UNCHANGED <<job, warm>>
  <2>1. ~DirectAtWork'
    BY <1>3 DEF DirectAtWork, NoWork
  <2>2. SnapTyped'
    BY <1>1, <1>3 DEF SnapTyped, NoWork
  <2> QED
    BY <1>1, <1>3, <2>1, <2>2 DEF WorkIsRunning, OneWorker, RunningIsWorked
<1> QED
  BY <1>2, <1>3 DEF DirectStarts

LEMMA DirectBuildsKeeps == ASSUME SnapIInv, DirectBuilds PROVE SnapIInv'
<1> USE DEF SnapIInv
<1>1. /\ UNCHANGED <<job, warm, ask, queuePass, overtaken, astray>>
      /\ direct.step = "working" /\ direct' = [direct EXCEPT !.step = "built"]
  BY DEF DirectBuilds
<1>2. /\ direct' \in [step : {"idle", "starting", "working", "built"}, wants : SUBSET Product]
      /\ direct'.step = "built" /\ direct'.wants = direct.wants /\ DirectAtWork /\ DirectAtWork'
  BY <1>1 DEF SnapTyped, DirectAtWork
<1>3. SnapTyped'
  BY <1>1, <1>2 DEF SnapTyped
<1> QED
  BY <1>1, <1>2, <1>3 DEF WorkIsRunning, OneWorker, RunningIsWorked

LEMMA DirectEndsKeeps ==
  ASSUME SnapIInv, NEW s \in JobStatus, NEW shown \in {"none", "failed"}, DirectEnds(s, shown)
  PROVE  SnapIInv'
<1> USE DEF SnapIInv
<1>1. /\ UNCHANGED <<ask, queuePass>> /\ DirectAtWork /\ astray' = astray \union Abandoned
      /\ job' = [job EXCEPT !.status = s, !.old = FALSE]
      /\ warm' = Marked(direct.wants, shown) /\ direct' = NoWork
      /\ overtaken' = (overtaken /\ queuePass # NoWork)
  BY DEF DirectEnds, DirectAtWork, Worked
<1>2. job' \in [status : JobStatus, wants : SUBSET Product, due : BOOLEAN, old : BOOLEAN]
  BY <1>1 DEF SnapTyped
<1>3. /\ warm' \in [Product -> {"none", "queued", "running", "failed"}]
      /\ \A p \in Product : warm'[p] = "running" => warm[p] = "running" /\ p \notin direct.wants
  BY <1>1 DEF SnapTyped, Marked
<1>4. ~DirectAtWork' /\ direct' \in [step : {"idle", "starting", "working", "built"},
                                     wants : SUBSET Product]
  BY <1>1 DEF DirectAtWork, NoWork
<1>5. overtaken' \in BOOLEAN /\ (queuePass # NoWork => overtaken')
  BY <1>1 DEF OneWorker, SnapTyped
<1>6. SnapTyped'
  BY <1>1, <1>2, <1>3, <1>4, <1>5 DEF SnapTyped, Abandoned
<1>7. RunningIsWorked'
  BY <1>1, <1>3 DEF RunningIsWorked, Abandoned
<1> QED
  BY <1>1, <1>4, <1>5, <1>6, <1>7 DEF WorkIsRunning, OneWorker

LEMMA ClaimKeeps == ASSUME SnapIInv, ClaimSnapshotJob PROVE SnapIInv'
<1> USE DEF SnapIInv
<1>1. /\ UNCHANGED <<ask, direct, astray>> /\ queuePass = NoWork /\ job' = Ran
      /\ queuePass' = [step |-> "working", wants |-> job.wants]
      /\ warm' = Marked(job.wants, "running")
      /\ overtaken' = (overtaken \/ (DirectAtWork /\ job.old))
      /\ job.status = "running" => job.old
  BY DEF ClaimSnapshotJob
<1>2. /\ job' \in [status : JobStatus, wants : SUBSET Product, due : BOOLEAN, old : BOOLEAN]
      /\ job'.status = "running" /\ job.wants \subseteq Product
      /\ job'.status \in ToDo /\ job'.wants = job.wants
  BY <1>1 DEF SnapTyped, Ran, JobStatus, ToDo
<1>3. /\ warm' \in [Product -> {"none", "queued", "running", "failed"}]
      /\ \A p \in Product : p \in job.wants \/ warm'[p] = warm[p]
  BY <1>1 DEF SnapTyped, Marked
<1>4. /\ queuePass' \in [step : {"idle", "working"}, wants : SUBSET Product]
      /\ queuePass'.step = "working" /\ queuePass'.wants = job.wants /\ queuePass.wants = {}
  BY <1>1, <1>2 DEF NoWork
<1>5. overtaken' \in BOOLEAN /\ (DirectAtWork => overtaken')
  BY <1>1 DEF WorkIsRunning, SnapTyped
<1>6. SnapTyped'
  BY <1>1, <1>2, <1>3, <1>4, <1>5 DEF SnapTyped
<1>7. DirectAtWork' <=> DirectAtWork
  BY <1>1 DEF DirectAtWork
<1> QED
  BY <1>1, <1>2, <1>3, <1>4, <1>5, <1>6, <1>7 DEF WorkIsRunning, OneWorker, RunningIsWorked

LEMMA QueuePassEndsKeeps ==
  ASSUME SnapIInv, NEW s \in JobStatus, NEW shown \in {"queued", "failed"},
         shown = "queued" => s = "retry_scheduled", QueuePassEnds(s, shown)
  PROVE  SnapIInv'
<1> USE DEF SnapIInv
<1>1. /\ UNCHANGED <<ask, direct>> /\ queuePass.step = "working" /\ queuePass' = NoWork
      /\ queuePass # NoWork
      /\ job' = [job EXCEPT !.status = s, !.old = FALSE, !.due = @ /\ s # "retry_scheduled"]
      /\ overtaken' = (overtaken /\ DirectAtWork)
      /\ astray' = astray \union
           (IF shown = "queued" THEN queuePass.wants \ job.wants ELSE Abandoned)
  BY DEF QueuePassEnds, NoWork
<1>2. /\ job' \in [status : JobStatus, wants : SUBSET Product, due : BOOLEAN, old : BOOLEAN]
      /\ job'.wants = job.wants /\ (shown = "queued" => job'.status \in ToDo)
  BY <1>1 DEF SnapTyped, ToDo
<1>3. warm' = [p \in Product |->
                 IF p \in queuePass.wants /\ (shown = "failed" \/ warm[p] # "running")
                 THEN shown ELSE warm[p]]
  BY DEF QueuePassEnds, Worked
<1>4. /\ warm' \in [Product -> {"none", "queued", "running", "failed"}]
      /\ \A p \in Product : warm'[p] = "running" =>
           warm[p] = "running" /\ (p \notin queuePass.wants \/ shown = "queued")
  BY <1>3 DEF SnapTyped
<1>5. astray \subseteq astray' /\ astray' \subseteq Product
  BY <1>1 DEF SnapTyped, Abandoned
<1>6. queuePass' \in [step : {"idle", "working"}, wants : SUBSET Product]
  BY <1>1 DEF NoWork
<1>7. overtaken' \in BOOLEAN /\ (DirectAtWork => overtaken')
  BY <1>1 DEF OneWorker, SnapTyped
<1>8. SnapTyped'
  BY <1>1, <1>2, <1>4, <1>5, <1>6, <1>7 DEF SnapTyped
<1>9. DirectAtWork' <=> DirectAtWork
  BY <1>1 DEF DirectAtWork
<1>10. RunningIsWorked'
  <2>1. CASE shown = "queued"
    BY <1>1, <1>2, <1>4, <1>9, <2>1 DEF RunningIsWorked, NoWork
  <2>2. CASE shown = "failed"
    BY <1>1, <1>4, <1>9, <2>2 DEF RunningIsWorked, NoWork, Abandoned
  <2> QED
    BY <2>1, <2>2
<1> QED
  BY <1>1, <1>7, <1>8, <1>9, <1>10 DEF WorkIsRunning, OneWorker

\* A pass that breaks down leaves what it shows to the row.
LEMMA QueuePassBreaksKeeps == ASSUME SnapIInv, QueuePassBreaks PROVE SnapIInv'
<1> USE DEF SnapIInv
<1>1. /\ UNCHANGED <<job, warm, ask, direct>> /\ queuePass' = NoWork /\ queuePass # NoWork
      /\ overtaken' = (overtaken /\ DirectAtWork)
      /\ astray' = astray \union
           (IF job.status \in ToDo THEN queuePass.wants \ job.wants ELSE queuePass.wants)
  BY DEF QueuePassBreaks, NoWork
<1>2. overtaken' \in BOOLEAN /\ (DirectAtWork => overtaken')
  BY <1>1 DEF OneWorker, SnapTyped
<1>3. SnapTyped' /\ (DirectAtWork' <=> DirectAtWork)
  BY <1>1, <1>2 DEF SnapTyped, NoWork, DirectAtWork
<1>4. RunningIsWorked'
  BY <1>1, <1>3 DEF RunningIsWorked
<1> QED
  BY <1>1, <1>2, <1>3, <1>4 DEF WorkIsRunning, OneWorker

LEMMA SnapTimeKeeps == ASSUME SnapIInv, SnapTimePasses PROVE SnapIInv'
<1> USE DEF SnapIInv
<1>1. /\ UNCHANGED <<warm, ask, direct, queuePass, overtaken, astray>>
      /\ job' \in {[job EXCEPT !.due = TRUE], [job EXCEPT !.old = (job.status = "running")]}
  BY DEF SnapTimePasses
<1>2. /\ job' \in [status : JobStatus, wants : SUBSET Product, due : BOOLEAN, old : BOOLEAN]
      /\ job'.status = job.status /\ job'.wants = job.wants
  BY <1>1 DEF SnapTyped
<1>3. SnapTyped' /\ (DirectAtWork' <=> DirectAtWork)
  BY <1>1, <1>2 DEF SnapTyped, DirectAtWork
<1> QED
  BY <1>1, <1>2, <1>3 DEF WorkIsRunning, OneWorker, RunningIsWorked

LEMMA SnapCrashKeeps == ASSUME SnapIInv, SnapCrash PROVE SnapIInv'
<1> USE DEF SnapIInv
<1>1. SnapTyped'
  BY DEF SnapCrash, SnapTyped, NoWork
<1>2. ~DirectAtWork' /\ queuePass' = NoWork
  BY DEF SnapCrash, DirectAtWork, NoWork
<1> QED
  BY <1>1, <1>2 DEF SnapCrash, WorkIsRunning, OneWorker, RunningIsWorked

THEOREM SnapInductive == SnapIInv /\ [SnapNext]_snapVars => SnapIInv'
<1> SUFFICES ASSUME SnapIInv, [SnapNext]_snapVars PROVE SnapIInv'
  OBVIOUS
<1> USE DEF SnapIInv
<1>1. CASE UNCHANGED snapVars
  BY <1>1 DEF snapVars, SnapTyped, WorkIsRunning, OneWorker, RunningIsWorked, DirectAtWork
<1>2. CASE ReadCoverage \/ AskFails
  BY <1>2 DEF ReadCoverage, AskFails, NoWork, SnapTyped, WorkIsRunning, OneWorker, RunningIsWorked, DirectAtWork
<1>3. ASSUME NEW p \in Product, PlainBuilds(p) PROVE SnapIInv'
  BY <1>3 DEF PlainBuilds, SnapTyped, WorkIsRunning, OneWorker, RunningIsWorked, DirectAtWork
<1>4. {"succeeded", "failed", "retry_scheduled"} \subseteq JobStatus
  BY DEF JobStatus
<1>5. CASE \E S \in SUBSET Product : S # {} /\ AskSnapshots(S)
  BY <1>5, AskKeeps
<1>6. CASE \E saved \in BOOLEAN : UpsertJob(saved)
  BY <1>6, UpsertKeeps
<1>7. CASE DirectEnds("succeeded", "none") \/ DirectEnds("failed", "failed")
  BY <1>4, <1>7, DirectEndsKeeps
<1>8. CASE QueuePassEnds("retry_scheduled", "queued") \/ QueuePassEnds("failed", "failed")
  BY <1>4, <1>8, QueuePassEndsKeeps
<1> QED
  BY <1>1, <1>2, <1>3, <1>5, <1>6, <1>7, <1>8, DirectStartsKeeps, DirectBuildsKeeps,
     ClaimKeeps, QueuePassBreaksKeeps, SnapTimeKeeps, SnapCrashKeeps DEF SnapNext

THEOREM SnapAlways == SnapSpec => []SnapIInv
<1>1. ASSUME SnapInit PROVE SnapIInv
  <2>1. direct = NoWork /\ queuePass = NoWork /\ ~DirectAtWork
    BY <1>1 DEF SnapInit, DirectAtWork, NoWork
  <2>2. \A p \in Product : warm[p] # "running"
    BY <1>1 DEF SnapInit
  <2>3. SnapTyped
    BY <1>1 DEF SnapInit, SnapTyped, JobStatus, NoWork
  <2> QED
    BY <2>1, <2>2, <2>3 DEF SnapIInv, WorkIsRunning, OneWorker, RunningIsWorked
<1> QED
  BY <1>1, SnapInductive, PTL DEF SnapSpec

\* The direct run and the queue pass work at the job together only when the pass
\* took it from a run of more than ten minutes.
THEOREM OneWorkerCorrect == SnapSpec => []OneWorker
<1>1. SnapIInv => OneWorker
  BY DEF SnapIInv
<1> QED
  BY <1>1, SnapAlways, PTL

\* A product shown as running is worked at, or the job's row still has it to do,
\* also after a pass that was rescheduled or broke down and whatever requests wrote
\* into the job meanwhile; except for what a request, or the end of another run,
\* took from the job after a pass had given it up.
THEOREM RunningCorrect == SnapSpec => []RunningIsWorked
<1>1. SnapIInv => RunningIsWorked
  BY DEF SnapIInv
<1> QED
  BY <1>1, SnapAlways, PTL

\* The rest of the types: a row is old only while it is running.
SnapRest ==
  /\ job.old => job.status = "running"
  /\ ready \subseteq Product /\ plain \subseteq Product
  /\ asks \in 0..MaxSnapRequests /\ snapCrashes \in 0..MaxSnapCrashes

LEMMA SnapRestKept == SnapIInv /\ SnapRest /\ [SnapNext]_snapVars => SnapRest'
<1> SUFFICES ASSUME SnapIInv, SnapRest, [SnapNext]_snapVars PROVE SnapRest'
  OBVIOUS
<1> USE DEF SnapIInv
<1>1. job \in [status : JobStatus, wants : SUBSET Product, due : BOOLEAN, old : BOOLEAN]
      /\ ask.wants \subseteq Product /\ direct.wants \subseteq Product
  BY DEF SnapTyped
<1>2. job'.old => job'.status = "running"
  <2>1. CASE UNCHANGED job
    BY <2>1 DEF SnapRest
  <2>2. ASSUME NEW saved \in BOOLEAN, UpsertJob(saved) PROVE job'.old => job'.status = "running"
    <3>1. job' = [job EXCEPT !.wants = ask.wants] \/ job'.old = FALSE
      BY <2>2 DEF UpsertJob
    <3>2. [job EXCEPT !.wants = ask.wants].old = job.old
          /\ [job EXCEPT !.wants = ask.wants].status = job.status
      BY <1>1
    <3> QED
      BY <3>1, <3>2 DEF SnapRest
  <2>3. ASSUME NEW how, NEW shown, DirectEnds(how, shown) \/ QueuePassEnds(how, shown)
        PROVE  job'.old = FALSE
    BY <1>1, <2>3 DEF DirectEnds, QueuePassEnds
  <2>4. CASE job' = Ran
    BY <1>1, <2>4 DEF Ran
  <2>5. CASE SnapTimePasses
    BY <1>1, <2>5 DEF SnapTimePasses, SnapRest
  <2> QED
    BY <2>1, <2>2, <2>3, <2>4, <2>5
       DEF SnapNext, snapVars, AskSnapshots, ReadCoverage, AskFails, PlainBuilds, DirectStarts,
           DirectBuilds, ClaimSnapshotJob, QueuePassBreaks, SnapCrash
<1>3. ready' \subseteq Product /\ plain' \subseteq Product
  BY <1>1 DEF SnapRest, SnapNext, snapVars, AskSnapshots, ReadCoverage, AskFails, UpsertJob,
     PlainBuilds, DirectStarts, DirectBuilds, DirectEnds, ClaimSnapshotJob, QueuePassEnds,
     QueuePassBreaks, SnapTimePasses, SnapCrash
<1>4. asks' \in 0..MaxSnapRequests /\ snapCrashes' \in 0..MaxSnapCrashes
  <2>1. CASE UNCHANGED <<asks, snapCrashes>>
    BY <2>1 DEF SnapRest
  <2>2. ASSUME NEW S, AskSnapshots(S)
        PROVE  asks' \in 0..MaxSnapRequests /\ UNCHANGED snapCrashes
    BY <2>2, SnapAssumption DEF AskSnapshots, SnapRest
  <2>3. CASE SnapCrash
    BY <2>3, SnapAssumption DEF SnapCrash, SnapRest
  <2> QED
    BY <2>1, <2>2, <2>3
       DEF SnapRest, SnapNext, snapVars, ReadCoverage, AskFails, UpsertJob, PlainBuilds,
           DirectStarts, DirectBuilds, DirectEnds, ClaimSnapshotJob, QueuePassEnds,
           QueuePassBreaks, SnapTimePasses
<1> QED
  BY <1>2, <1>3, <1>4 DEF SnapRest

\* The types of a snapshot job (SnapTypeOK): whoever works at the job keeps its
\* row running unless it was taken over, and a row is old only while it runs.
THEOREM SnapTypeCorrect == SnapSpec => []SnapTypeOK
<1>1. SnapInit => SnapRest
  BY SnapAssumption DEF SnapInit, SnapRest
<1>2. SnapIInv /\ SnapRest => SnapTypeOK
  BY DEF SnapIInv, SnapTyped, WorkIsRunning, SnapRest, SnapTypeOK
<1> QED
  BY <1>1, <1>2, SnapRestKept, SnapAlways, PTL DEF SnapSpec

-----------------------------------------------------------------------------
(* The caches of the sheet: what a load has read is at least what everyone *)
(* who asks under its key was promised, and what the next request under    *)
(* the current key will be, unless it had read before a drop of all caches *)
(* that left it its key.                                                   *)

LoadStep == {"query", "queried", "texts", "read", "overlaid", "joinedOverlay"}
Loads(r) == request[r].step \in LoadStep
Asks(r) == request[r].step \in LoadStep \union {"joinedSheet"}

RequestSet ==
  [step : LoadStep \union {"joinedSheet", "idle", "answered"}, key : Nat, jamKey : Nat,
   via : Reader \union {"nobody"}, sheet : Nat, overlay : Nat, late : BOOLEAN,
   promised : Nat, jamPromised : Nat]

\* The shape of the state, as far as the argument needs it.
Shaped ==
  /\ data \in [Source -> Nat] /\ version \in Nat /\ promised \in Nat /\ jamPromised \in Nat
  /\ request \in [Reader -> RequestSet]
  /\ \A k \in DOMAIN sheets : /\ sheets[k].sheet \in Nat /\ sheets[k].overlay \in Nat
                             /\ sheets[k].late \in BOOLEAN
  /\ \A k \in DOMAIN overlays : overlays[k] \in Nat
  /\ \A k \in DOMAIN overlaying : overlaying[k] \in Reader
  /\ \A k \in DOMAIN loading : loading[k] \in Reader

\* Whoever loads is the one load of its key, and whoever joined waits for it.
OneLoad ==
  /\ \A r \in Reader : Loads(r) => request[r].key \in DOMAIN loading /\ loading[request[r].key] = r
  /\ \A k \in DOMAIN loading : Loads(loading[k]) /\ request[loading[k]].key = k
  /\ \A r \in Reader : request[r].step = "joinedSheet" =>
       request[r].key \in DOMAIN loading /\ loading[request[r].key] = request[r].via

\* Nothing is promised that was not written, and no key is ahead of the version.
Promises ==
  /\ promised <= data["sheet"]
  /\ \A r \in Reader : Asks(r) => request[r].key <= version /\ request[r].promised <= promised

\* What was read is fresh enough for whoever waits for it or will join it, and
\* what is cached under the current key for whoever asks.
FreshEnough ==
  /\ \A r \in Reader : HasRead(r) =>
       \/ request[r].late
       \/ /\ request[r].key = version => request[r].sheet >= promised
          /\ \A s \in Reader : Asks(s) /\ request[s].key = request[r].key =>
               request[r].sheet >= request[s].promised
  /\ \A k \in DOMAIN sheets :
       k <= version /\ (k = version => sheets[k].late \/ sheets[k].sheet >= promised)

CacheInv == Shaped /\ OneLoad /\ Promises /\ FreshEnough /\ DropsAreSeen

\* A request keeps its shape when one field is set.
LEMMA SetStep ==
  ASSUME NEW R \in RequestSet, NEW v \in LoadStep \union {"joinedSheet", "idle", "answered"}
  PROVE  [R EXCEPT !.step = v] \in RequestSet
  BY DEF RequestSet
LEMMA SetSheet ==
  ASSUME NEW R \in RequestSet, NEW v \in Nat PROVE [R EXCEPT !.sheet = v] \in RequestSet
  BY DEF RequestSet
LEMMA SetOverlay ==
  ASSUME NEW R \in RequestSet, NEW v \in Nat PROVE [R EXCEPT !.overlay = v] \in RequestSet
  BY DEF RequestSet
LEMMA SetJamKey ==
  ASSUME NEW R \in RequestSet, NEW v \in Nat PROVE [R EXCEPT !.jamKey = v] \in RequestSet
  BY DEF RequestSet
LEMMA SetVia ==
  ASSUME NEW R \in RequestSet, NEW v \in Reader PROVE [R EXCEPT !.via = v] \in RequestSet
  BY DEF RequestSet

LEMMA SetLate ==
  ASSUME NEW R \in RequestSet, NEW r
  PROVE  [R EXCEPT !.late = @ \/ HasRead(r)] \in RequestSet
<1>1. (R.late \/ HasRead(r)) \in BOOLEAN BY Zenon
<1>2. \A v \in BOOLEAN : [R EXCEPT !.late = v] \in RequestSet BY DEF RequestSet
<1> QED BY <1>1, <1>2

LEMMA CacheInitial == CacheInit => CacheInv
  BY DEF CacheInit, CacheInv, Shaped, OneLoad, Promises, FreshEnough, DropsAreSeen,
         NoData, Quiet, RequestSet, Loads, HasRead, Asks, LoadStep, Source

\* Steps that touch no request: commits, drops and expiries.
LEMMA CommitKeeps ==
  ASSUME CacheInv, NEW s \in Source, Commit(s) PROVE CacheInv'
  BY DEF CacheInv, Commit, Shaped, OneLoad, Promises, FreshEnough, DropsAreSeen,
         Loads, HasRead, Asks, LoadStep, Source

LEMMA InvalidateKeeps ==
  ASSUME CacheInv, Invalidate PROVE CacheInv'
<1> USE DEF CacheInv, Invalidate, Bumped
<1>1. Shaped' BY DEF Shaped, Source
<1>2. OneLoad' BY DEF OneLoad, Loads
<1>3. Promises' BY DEF Promises, Asks, LoadStep, Shaped, RequestSet, Source
<1>4. FreshEnough'
  BY DEF FreshEnough, Promises, HasRead, Asks, LoadStep, Shaped, RequestSet, Source
<1>5. DropsAreSeen' BY DEF DropsAreSeen
<1> QED BY <1>1, <1>2, <1>3, <1>4, <1>5

\* A load that has read and keeps its key is late; the others read afterwards.
LEMMA ClearAllKeeps ==
  ASSUME CacheInv, ClearAll PROVE CacheInv'
<1> USE DEF CacheInv
<1>0. /\ UNCHANGED <<data, loading, overlaying, jamPromised>> /\ promised' = data["sheet"]
      /\ DOMAIN sheets' = {} /\ DOMAIN overlays' = {} /\ data["sheet"] \in Nat
  BY DEF ClearAll, Shaped, Source
<1>a. CASE version > 0 /\ version' = Bumped /\ UNCHANGED request
  <2>1. Shaped' BY <1>0, <1>a DEF Shaped, Source, Bumped
  <2>2. OneLoad' BY <1>0, <1>a DEF OneLoad, Loads
  <2>3. Promises' BY <1>0, <1>a DEF Promises, Asks, LoadStep, Shaped, RequestSet, Source, Bumped
  <2>4. FreshEnough'
    BY <1>0, <1>a DEF FreshEnough, Promises, HasRead, Asks, LoadStep, Shaped, RequestSet, Bumped
  <2>5. DropsAreSeen' BY <1>a DEF DropsAreSeen
  <2> QED BY <2>1, <2>2, <2>3, <2>4, <2>5
<1>b. CASE /\ version = 0 /\ UNCHANGED version
           /\ request' = [r \in Reader |-> [request[r] EXCEPT !.late = @ \/ HasRead(r)]]
  <2>0. \A r \in Reader :
          /\ request'[r].step = request[r].step /\ request'[r].key = request[r].key
          /\ request'[r].via = request[r].via /\ request'[r].sheet = request[r].sheet
          /\ request'[r].promised = request[r].promised
          /\ request'[r].late = (request[r].late \/ HasRead(r))
    BY <1>b DEF Shaped, RequestSet
  <2>1. Shaped'
    <3>1. \A r \in Reader : [request[r] EXCEPT !.late = @ \/ HasRead(r)] \in RequestSet
      BY SetLate DEF Shaped
    <3> QED BY <1>0, <1>b, <3>1 DEF Shaped
  <2>2. OneLoad' BY <1>0, <2>0 DEF OneLoad, Loads, Shaped
  <2>6. \A r \in Reader : (Asks(r)' => Asks(r)) /\ request[r].promised \in Nat
    BY <2>0 DEF Asks, Shaped, RequestSet
  <2>7. promised \in Nat /\ promised <= data["sheet"] BY DEF Shaped, Promises
  <2>8. \A r \in Reader : Asks(r)' => request'[r].key <= version' /\ request'[r].promised <= promised'
    <3> SUFFICES ASSUME NEW r \in Reader, Asks(r)'
                 PROVE  request'[r].key <= version' /\ request'[r].promised <= promised'
      OBVIOUS
    <3>1. request[r].key <= version /\ request[r].promised <= promised BY <2>6 DEF Promises
    <3>2. version' = version BY <1>b
    <3>3. promised' = data["sheet"] /\ data["sheet"] \in Nat BY <1>0
    <3> QED BY <2>0, <2>6, <2>7, <3>1, <3>2, <3>3
  <2>3. Promises' BY <1>0, <2>8 DEF Promises, Shaped
  <2>4. FreshEnough' BY <1>0, <2>0 DEF FreshEnough, HasRead
  <2>5. DropsAreSeen' BY <2>0 DEF DropsAreSeen
  <2> QED BY <2>1, <2>2, <2>3, <2>4, <2>5
<1> QED BY <1>a, <1>b DEF ClearAll

LEMMA ClearJamKeeps ==
  ASSUME CacheInv, ClearJam PROVE CacheInv'
  BY DEF CacheInv, ClearJam, Shaped, OneLoad, Promises, FreshEnough, DropsAreSeen,
         Loads, HasRead, Asks, Source

LEMMA ExpireKeeps ==
  ASSUME CacheInv, Expire PROVE CacheInv'
<1> USE DEF CacheInv
<1>1. /\ UNCHANGED <<data, version, loading, overlaying, request, promised, jamPromised>>
      /\ \A k \in DOMAIN sheets' : k \in DOMAIN sheets /\ sheets'[k] = sheets[k]
      /\ \A k \in DOMAIN overlays' : k \in DOMAIN overlays /\ overlays'[k] = overlays[k]
  BY DEF Expire, Drop, Restrict
<1>2. Shaped' BY <1>1 DEF Shaped, Source
<1>3. OneLoad' BY <1>1 DEF OneLoad, Loads
<1>4. Promises' BY <1>1 DEF Promises, Asks
<1>5. FreshEnough' BY <1>1 DEF FreshEnough, HasRead, Asks
<1>6. DropsAreSeen' BY <1>1 DEF DropsAreSeen
<1> QED BY <1>2, <1>3, <1>4, <1>5, <1>6

\* A request that begins: it is answered, joins, or loads.
LEMMA AskSheetKeeps ==
  ASSUME CacheInv, NEW r \in Reader, AskSheet(r) PROVE CacheInv'
<1> DEFINE newcomer == [Quiet EXCEPT !.key = version, !.promised = promised,
                                     !.jamPromised = jamPromised]
<1> USE DEF CacheInv
<1>0. /\ request[r].step \in {"idle", "answered"}
      /\ UNCHANGED <<data, version, sheets, overlays, overlaying, promised, jamPromised>>
  BY DEF AskSheet
<1>1. CASE /\ version \in DOMAIN sheets
           /\ request' = [request EXCEPT ![r] = WithSheet(newcomer, sheets[version])]
           /\ UNCHANGED loading
  <2> USE DEF WithSheet
  <2>1. Shaped' BY <1>0, <1>1 DEF Shaped, RequestSet, Quiet
  <2>2. OneLoad' BY <1>0, <1>1 DEF OneLoad, Loads, LoadStep, Shaped, RequestSet, Quiet
  <2>3. Promises' BY <1>0, <1>1 DEF Promises, Asks, LoadStep, Shaped, RequestSet, Quiet
  <2>6. /\ \A x \in Reader \ {r} : request'[x] = request[x]
        /\ request'[r].step = "answered"
    BY <1>0, <1>1 DEF Shaped, RequestSet, Quiet
  <2>4. FreshEnough' BY <1>0, <2>6 DEF FreshEnough, HasRead, Asks, LoadStep
  <2>5. DropsAreSeen' BY <1>0, <1>1 DEF DropsAreSeen, FreshEnough, Shaped, RequestSet, Quiet
  <2> QED BY <2>1, <2>2, <2>3, <2>4, <2>5
<1>2. CASE /\ version \in DOMAIN loading \ DOMAIN sheets
           /\ request' = [request EXCEPT ![r] = [newcomer EXCEPT
                 !.step = "joinedSheet", !.via = loading[version]]]
           /\ UNCHANGED loading
  <2>1. Shaped' BY <1>0, <1>2 DEF Shaped, RequestSet, Quiet
  <2>2. OneLoad' BY <1>0, <1>2 DEF OneLoad, Loads, LoadStep, Shaped, RequestSet, Quiet
  <2>3. Promises' BY <1>0, <1>2 DEF Promises, Asks, LoadStep, Shaped, RequestSet, Quiet
  <2>6. /\ \A x \in Reader \ {r} : request'[x] = request[x]
        /\ request'[r].step = "joinedSheet" /\ request'[r].key = version
        /\ request'[r].promised = promised
    BY <1>0, <1>2 DEF Shaped, RequestSet, Quiet
  <2>4. FreshEnough' BY <1>0, <2>6 DEF FreshEnough, HasRead, Asks, LoadStep
  <2>5. DropsAreSeen' BY <1>0, <1>2 DEF DropsAreSeen, Shaped, RequestSet, Quiet
  <2> QED BY <2>1, <2>2, <2>3, <2>4, <2>5
<1>3. CASE /\ version \notin DOMAIN loading \union DOMAIN sheets
           /\ request' = [request EXCEPT ![r] = [newcomer EXCEPT !.step = "query"]]
           /\ loading' = Put(loading, version, r)
  <2>0. /\ DOMAIN loading' = DOMAIN loading \union {version}
        /\ loading'[version] = r
        /\ \A k \in DOMAIN loading : loading'[k] = loading[k] /\ k # version
    BY <1>3 DEF Put
  <2>a. request' \in [Reader -> RequestSet]
    BY <1>0, <1>3 DEF Shaped, RequestSet, Quiet, LoadStep
  <2>1. Shaped' BY <1>0, <2>0, <2>a DEF Shaped
  <2>2. OneLoad' BY <1>0, <1>3, <2>0 DEF OneLoad, Loads, LoadStep, Shaped, RequestSet, Quiet
  <2>3. Promises' BY <1>0, <1>3 DEF Promises, Asks, LoadStep, Shaped, RequestSet, Quiet
  <2>6. /\ \A x \in Reader \ {r} : request'[x] = request[x]
        /\ request'[r].step = "query" /\ request'[r].key = version
        /\ request'[r].promised = promised
    BY <1>0, <1>3 DEF Shaped, RequestSet, Quiet
  <2>4. FreshEnough' BY <1>0, <2>6 DEF FreshEnough, HasRead, Asks, LoadStep
  <2>5. DropsAreSeen' BY <1>0, <1>3 DEF DropsAreSeen, Shaped, RequestSet, Quiet
  <2> QED BY <2>1, <2>2, <2>3, <2>4, <2>5
<1> QED BY <1>1, <1>2, <1>3 DEF AskSheet

LEMMA QuerySheetKeeps ==
  ASSUME CacheInv, NEW r \in Reader, QuerySheet(r) PROVE CacheInv'
<1> USE DEF CacheInv, QuerySheet
<1>1. Shaped'
  <2>1. request'[r] = [request[r] EXCEPT !.step = "queried", !.sheet = data["sheet"]]
    BY DEF Shaped
  <2>2. [request[r] EXCEPT !.step = "queried"] \in RequestSet
    BY SetStep DEF Shaped, LoadStep
  <2>3. data["sheet"] \in Nat BY DEF Shaped, Source
  <2>4. request'[r] \in RequestSet BY <2>1, <2>2, <2>3, SetSheet
  <2> QED BY <2>4 DEF Shaped
<1>2. OneLoad' BY DEF OneLoad, Loads, LoadStep, Shaped, RequestSet
<1>3. Promises' BY DEF Promises, Asks, LoadStep, Shaped, RequestSet
<1>4. FreshEnough'
  BY DEF FreshEnough, Promises, HasRead, Asks, LoadStep, Shaped, RequestSet, Source
<1>5. DropsAreSeen' BY DEF DropsAreSeen, Shaped, RequestSet
<1> QED BY <1>1, <1>2, <1>3, <1>4, <1>5

\* Steps of a load after its query: it stays one, with what it read.
LEMMA LoadGoesOn ==
  ASSUME CacheInv, Shaped', UNCHANGED <<data, version, sheets, loading, promised, jamPromised>>,
         \A x \in Reader :
           \/ request'[x] = request[x]
           \/ /\ HasRead(x) /\ HasRead(x)'
              /\ request'[x].key = request[x].key /\ request'[x].sheet = request[x].sheet
              /\ request'[x].promised = request[x].promised /\ request'[x].late = request[x].late
  PROVE  CacheInv'
<1> USE DEF CacheInv
<1>0. \A x \in Reader :
        /\ request'[x].key = request[x].key /\ request'[x].sheet = request[x].sheet
        /\ request'[x].promised = request[x].promised /\ request'[x].late = request[x].late
        /\ Loads(x)' = Loads(x) /\ HasRead(x)' = HasRead(x) /\ Asks(x)' = Asks(x)
        /\ (request'[x].step = "joinedSheet") = (request[x].step = "joinedSheet")
        /\ (request'[x].step = "answered") = (request[x].step = "answered")
        /\ request[x].step = "joinedSheet" => request'[x] = request[x]
  BY DEF HasRead, Loads, Asks, LoadStep
<1>2. OneLoad' BY <1>0 DEF OneLoad, Shaped
<1>3. Promises' BY <1>0 DEF Promises
<1>4. FreshEnough' BY <1>0 DEF FreshEnough
<1>5. DropsAreSeen' BY <1>0 DEF DropsAreSeen
<1> QED BY <1>2, <1>3, <1>4, <1>5

LEMMA AskOverlayKeeps ==
  ASSUME CacheInv, NEW r \in Reader, AskOverlay(r) PROVE CacheInv'
<1>1. Shaped'
  <2> USE DEF CacheInv
  <2>0. /\ \A s \in {"overlaid", "joinedOverlay", "texts"} :
             [request[r] EXCEPT !.step = s] \in RequestSet
        /\ UNCHANGED <<data, version, sheets, loading, overlays, promised, jamPromised>>
    BY SetStep DEF Shaped, LoadStep, AskOverlay
  <2>1. CASE /\ version \in DOMAIN overlays
             /\ request' = [request EXCEPT ![r].step = "overlaid", ![r].overlay = overlays[version]]
             /\ UNCHANGED overlaying
    <3>1. request'[r] = [request[r] EXCEPT !.step = "overlaid", !.overlay = overlays[version]]
      BY <2>1 DEF Shaped
    <3>2. request'[r] \in RequestSet BY <2>0, <2>1, <3>1, SetOverlay DEF Shaped
    <3> QED BY <2>0, <2>1, <3>2 DEF Shaped
  <2>2. CASE /\ version \in DOMAIN overlaying \ DOMAIN overlays
             /\ request' = [request EXCEPT ![r].step = "joinedOverlay", ![r].via = overlaying[version]]
             /\ UNCHANGED overlaying
    <3>1. request'[r] = [request[r] EXCEPT !.step = "joinedOverlay", !.via = overlaying[version]]
      BY <2>2 DEF Shaped
    <3>2. request'[r] \in RequestSet BY <2>0, <2>2, <3>1, SetVia DEF Shaped
    <3> QED BY <2>0, <2>2, <3>2 DEF Shaped
  <2>3. CASE /\ version \notin DOMAIN overlaying \union DOMAIN overlays
             /\ request' = [request EXCEPT ![r].step = "texts", ![r].jamKey = version]
             /\ overlaying' = Put(overlaying, version, r)
    <3>1. request'[r] = [request[r] EXCEPT !.step = "texts", !.jamKey = version]
      BY <2>3 DEF Shaped
    <3>2. [request[r] EXCEPT !.step = "texts"] \in RequestSet /\ version \in Nat BY <2>0 DEF Shaped
    <3>4. request'[r] \in RequestSet BY <3>1, <3>2, SetJamKey
    <3>3. \A k \in DOMAIN overlaying' : overlaying'[k] \in Reader BY <2>3 DEF Put, Shaped
    <3> QED BY <2>0, <2>3, <3>4, <3>3 DEF Shaped
  <2> QED BY <2>1, <2>2, <2>3 DEF AskOverlay
<1> QED BY <1>1, LoadGoesOn DEF AskOverlay, CacheInv, Shaped, RequestSet, HasRead, LoadStep

LEMMA QueryTextsKeeps ==
  ASSUME CacheInv, NEW r \in Reader, QueryTexts(r) PROVE CacheInv'
<1>1. Shaped'
  <2> USE DEF CacheInv, QueryTexts
  <2>1. request'[r] = [request[r] EXCEPT !.step = "read", !.overlay = data["jam"]]
    BY DEF Shaped
  <2>2. [request[r] EXCEPT !.step = "read"] \in RequestSet
    BY SetStep DEF Shaped, LoadStep
  <2>3. data["jam"] \in Nat BY DEF Shaped, Source
  <2>4. request'[r] \in RequestSet BY <2>1, <2>2, <2>3, SetOverlay
  <2> QED BY <2>4 DEF Shaped
<1> QED BY <1>1, LoadGoesOn DEF QueryTexts, CacheInv, Shaped, RequestSet, HasRead, LoadStep

LEMMA StoreOverlayKeeps ==
  ASSUME CacheInv, NEW r \in Reader, StoreOverlay(r) PROVE CacheInv'
<1> DEFINE overlay == request[r].overlay
           joins(x) == x = r \/ (request[x].step = "joinedOverlay" /\ request[x].via = r)
<1> USE DEF CacheInv
<1>1. /\ request[r].step = "read" /\ request[r] \in RequestSet /\ overlay \in Nat
      /\ UNCHANGED <<data, version, sheets, loading, promised, jamPromised>>
  BY DEF StoreOverlay, Shaped, RequestSet
<1>2. \A x \in Reader :
        request'[x] = IF joins(x) THEN [request[x] EXCEPT !.step = "overlaid", !.overlay = overlay]
                                  ELSE request[x]
  BY DEF StoreOverlay
<1>3. \A x \in Reader : [request[x] EXCEPT !.step = "overlaid", !.overlay = overlay] \in RequestSet
  <2> SUFFICES ASSUME NEW x \in Reader
               PROVE  [request[x] EXCEPT !.step = "overlaid", !.overlay = overlay] \in RequestSet
    OBVIOUS
  <2>1. [request[x] EXCEPT !.step = "overlaid"] \in RequestSet BY SetStep DEF Shaped, LoadStep
  <2> QED BY <1>1, <2>1, SetOverlay
<1>4. Shaped'
  <2>1. request' \in [Reader -> RequestSet]
    BY <1>2, <1>3 DEF StoreOverlay, Shaped
  <2>2. /\ \A k \in DOMAIN overlays' : overlays'[k] \in Nat
        /\ \A k \in DOMAIN overlaying' : overlaying'[k] \in Reader
    BY <1>1 DEF StoreOverlay, Drop, Put, Restrict, Shaped
  <2> QED BY <1>1, <2>1, <2>2 DEF Shaped
<1>5. \A x \in Reader :
        \/ request'[x] = request[x]
        \/ /\ HasRead(x) /\ HasRead(x)'
           /\ request'[x].key = request[x].key /\ request'[x].sheet = request[x].sheet
           /\ request'[x].promised = request[x].promised /\ request'[x].late = request[x].late
  <2> SUFFICES ASSUME NEW x \in Reader, joins(x)
               PROVE  /\ HasRead(x) /\ HasRead(x)'
                      /\ request'[x].key = request[x].key /\ request'[x].sheet = request[x].sheet
                      /\ request'[x].promised = request[x].promised
                      /\ request'[x].late = request[x].late
    BY <1>2
  <2>1. request[x] \in RequestSet BY DEF Shaped
  <2>2. request'[x] = [request[x] EXCEPT !.step = "overlaid", !.overlay = overlay] BY <1>2
  <2>3. HasRead(x) BY <1>1 DEF HasRead, LoadStep
  <2> QED BY <2>1, <2>2, <2>3 DEF RequestSet, HasRead, LoadStep
<1> QED BY <1>1, <1>4, <1>5, LoadGoesOn

\* The end of a load: its key is its own, and everyone who joined has its key.
LEMMA StoreSheetKeeps ==
  ASSUME CacheInv, NEW r \in Reader, StoreSheet(r) PROVE CacheInv'
<1> DEFINE k == request[r].key
           sheet == Built(r)
           served == {x \in Reader : x = r \/ (request[x].step = "joinedSheet" /\ request[x].via = r)}
<1> USE DEF CacheInv, StoreKey
<1>1. /\ request[r] \in RequestSet /\ HasRead(r) /\ Loads(r) /\ Asks(r)
      /\ k \in DOMAIN loading /\ loading[k] = r
  BY DEF StoreSheet, Shaped, OneLoad, HasRead, Loads, Asks, LoadStep
<1>2. /\ DOMAIN sheets' = DOMAIN sheets \union {k} /\ sheets'[k] = sheet
      /\ \A j \in DOMAIN sheets \ {k} : sheets'[j] = sheets[j]
      /\ DOMAIN loading' = DOMAIN loading \ {k}
      /\ \A j \in DOMAIN loading' : loading'[j] = loading[j]
  BY DEF StoreSheet, Drop, Put, Restrict
<1>3. \A x \in Reader : x \notin served => request'[x] = request[x]
  BY DEF StoreSheet, Answered
<1>4. \A x \in Reader : x \in served =>
        request'[x] = [step |-> "answered", key |-> 0, jamKey |-> 0, via |-> "nobody",
                       sheet |-> request[r].sheet, overlay |-> request[r].overlay,
                       late |-> request[r].late, promised |-> request[x].promised, jamPromised |-> request[x].jamPromised]
  BY DEF StoreSheet, Answered, WithSheet, Built, Quiet
<1>5. \A x \in Reader : x \in served => Asks(x) /\ request[x].key = k
  BY <1>1 DEF OneLoad, Asks, LoadStep
<1>12. \A x \in Reader : request[x].step = "joinedSheet" /\ request[x].via = r => x \in served
  OBVIOUS
<1>13. r \in served OBVIOUS
<1> HIDE DEF served
<1>11. /\ \A x \in Reader : x \in served => request'[x].step = "answered"
       /\ \A x \in Reader : x \in served => request'[x].sheet = request[r].sheet
       /\ \A x \in Reader : x \in served => request'[x].promised = request[x].promised
       /\ \A x \in Reader : x \in served => request'[x].late = request[r].late
  <2> SUFFICES ASSUME NEW x \in Reader, x \in served
               PROVE  /\ request'[x].step = "answered"
                      /\ request'[x].sheet = request[r].sheet
                      /\ request'[x].promised = request[x].promised
                      /\ request'[x].late = request[r].late
    OBVIOUS
  <2>1. request'[x] = [step |-> "answered", key |-> 0, jamKey |-> 0, via |-> "nobody",
                       sheet |-> request[r].sheet, overlay |-> request[r].overlay,
                       late |-> request[r].late, promised |-> request[x].promised, jamPromised |-> request[x].jamPromised]
    BY <1>4
  <2> QED BY <2>1
<1>6. Shaped'
  <2>1. request' \in [Reader -> RequestSet]
    <3>1. \A x \in Reader : x \in served => request'[x] \in RequestSet
      <4> SUFFICES ASSUME NEW x \in Reader, x \in served PROVE request'[x] \in RequestSet OBVIOUS
      <4>1. request'[x] = [step |-> "answered", key |-> 0, jamKey |-> 0, via |-> "nobody",
                           sheet |-> request[r].sheet, overlay |-> request[r].overlay,
                           late |-> request[r].late, promised |-> request[x].promised, jamPromised |-> request[x].jamPromised]
        BY <1>4
      <4>2. request[x] \in RequestSet BY DEF Shaped
      <4> QED BY <1>1, <4>1, <4>2 DEF RequestSet
    <3>2. \A x \in Reader : x \notin served => request'[x] \in RequestSet
      BY <1>3 DEF Shaped
    <3> QED BY <3>1, <3>2 DEF StoreSheet, Answered
  <2>2. \A j \in DOMAIN sheets' : /\ sheets'[j].sheet \in Nat /\ sheets'[j].overlay \in Nat
                                 /\ sheets'[j].late \in BOOLEAN
    BY <1>1, <1>2 DEF Shaped, RequestSet, Built
  <2>3. \A j \in DOMAIN loading' : loading'[j] \in Reader BY <1>2 DEF Shaped
  <2> QED BY <2>1, <2>2, <2>3 DEF StoreSheet, Shaped
<1>7. OneLoad'
  <2>1. \A x \in Reader : Loads(x)' =>
          request'[x].key \in DOMAIN loading' /\ loading'[request'[x].key] = x
    <3> SUFFICES ASSUME NEW x \in Reader, Loads(x)'
                 PROVE  request'[x].key \in DOMAIN loading' /\ loading'[request'[x].key] = x
      OBVIOUS
    <3>1. x \notin served /\ request'[x] = request[x] BY <1>3, <1>11 DEF Loads, LoadStep
    <3>2. request[x].key \in DOMAIN loading /\ loading[request[x].key] = x BY <3>1 DEF OneLoad, Loads
    <3>3. x # r BY <1>13, <3>1
    <3> QED BY <1>1, <1>2, <3>1, <3>2, <3>3
  <2>2. \A j \in DOMAIN loading' : request'[loading'[j]].step \in LoadStep /\ request'[loading'[j]].key = j
    <3> SUFFICES ASSUME NEW j \in DOMAIN loading'
                 PROVE  request'[loading'[j]].step \in LoadStep /\ request'[loading'[j]].key = j
      OBVIOUS
    <3>1. j \in DOMAIN loading /\ j # k /\ loading'[j] = loading[j] /\ loading[j] \in Reader
      BY <1>2 DEF Shaped
    <3>2. Loads(loading[j]) /\ request[loading[j]].key = j BY <3>1 DEF OneLoad
    <3>3. loading[j] \notin served BY <3>1, <3>2, <1>5
    <3>4. request'[loading[j]] = request[loading[j]] BY <1>3, <3>1, <3>3
    <3> QED BY <3>1, <3>2, <3>4 DEF Loads
  <2>3. \A x \in Reader : request'[x].step = "joinedSheet" =>
          request'[x].key \in DOMAIN loading' /\ loading'[request'[x].key] = request'[x].via
    <3> SUFFICES ASSUME NEW x \in Reader, request'[x].step = "joinedSheet"
                 PROVE  request'[x].key \in DOMAIN loading' /\ loading'[request'[x].key] = request'[x].via
      OBVIOUS
    <3>1. x \notin served /\ request'[x] = request[x] BY <1>3, <1>11
    <3>2. request[x].key \in DOMAIN loading /\ loading[request[x].key] = request[x].via
      BY <3>1 DEF OneLoad
    <3>3. request[x].key # k BY <1>1, <1>12, <3>1, <3>2
    <3> QED BY <1>2, <3>1, <3>2, <3>3
  <2> QED BY <2>1, <2>2, <2>3 DEF OneLoad, Loads
<1>8. Promises'
  <2>1. \A x \in Reader : Asks(x)' => Asks(x) /\ request'[x] = request[x]
    BY <1>3, <1>11 DEF Asks, LoadStep
  <2> QED BY <2>1 DEF Promises, StoreSheet
<1>9. FreshEnough'
  <2>1. \A x \in Reader : HasRead(x)' => HasRead(x) /\ request'[x] = request[x]
    BY <1>3, <1>11 DEF HasRead, LoadStep
  <2>2. k <= version /\ (k = version => request[r].late \/ request[r].sheet >= promised)
    BY <1>1 DEF Promises, FreshEnough, Shaped
  <2>3. sheet.sheet = request[r].sheet /\ sheet.late = request[r].late BY DEF Built
  <2>4. \A x \in Reader : Asks(x)' => Asks(x) /\ request'[x] = request[x]
    BY <1>3, <1>11 DEF Asks, LoadStep
  <2>5. UNCHANGED <<version, promised>> BY DEF StoreSheet
  <2>6. \A x \in Reader : HasRead(x)' =>
          \/ request'[x].late
          \/ /\ request'[x].key = version' => request'[x].sheet >= promised'
             /\ \A y \in Reader : Asks(y)' /\ request'[y].key = request'[x].key =>
                  request'[x].sheet >= request'[y].promised
    BY <2>1, <2>4, <2>5 DEF FreshEnough
  <2>7. \A j \in DOMAIN sheets' :
          j <= version' /\ (j = version' => sheets'[j].late \/ sheets'[j].sheet >= promised')
    BY <1>2, <2>2, <2>3, <2>5 DEF FreshEnough
  <2> QED BY <2>6, <2>7 DEF FreshEnough
<1>10. DropsAreSeen'
  <2>1. \A x \in Reader : x \in served =>
          request[r].late \/ request[r].sheet >= request[x].promised
    BY <1>1, <1>5 DEF FreshEnough
  <2> QED BY <1>3, <1>11, <2>1 DEF DropsAreSeen
<1> QED BY <1>6, <1>7, <1>8, <1>9, <1>10

\* A load that fails takes with it everyone who waits for it.
LEMMA LoadFailsKeeps ==
  ASSUME CacheInv, NEW r \in Reader, LoadFails(r) PROVE CacheInv'
<1> DEFINE broken == {r} \union {x \in Reader : request[x].step \in {"joinedSheet", "joinedOverlay"}
                                                /\ request[x].via = r}
           fails == broken \union {x \in Reader : \E b \in broken :
                                     request[x].step = "joinedSheet" /\ request[x].via = b}
<1> USE DEF CacheInv
<1>1. /\ request' = [x \in Reader |-> IF x \in fails THEN Quiet ELSE request[x]]
      /\ loading' = Landing(fails)
      /\ overlaying' = Drop(overlaying, {k \in DOMAIN overlaying : overlaying[k] \in fails})
      /\ UNCHANGED <<data, version, sheets, overlays, promised, jamPromised>>
  BY DEF LoadFails
<1> HIDE DEF fails
<1>2. /\ DOMAIN loading' = {k \in DOMAIN loading : loading[k] \notin fails}
      /\ \A k \in DOMAIN loading' : loading'[k] = loading[k]
      /\ \A k \in DOMAIN overlaying' : k \in DOMAIN overlaying /\ overlaying'[k] = overlaying[k]
  BY <1>1 DEF Landing, Drop, Restrict
<1>3. \A x \in Reader : request'[x] = IF x \in fails THEN Quiet ELSE request[x]
  BY <1>1
<1>4. \A x \in Reader : request[x].step = "joinedSheet" /\ request[x].via \in fails => x \in fails
  <2>1. \A x \in Reader : Loads(x) /\ x \in fails => x \in broken
    BY DEF fails, Loads, LoadStep
  <2>2. \A x \in Reader : request[x].step = "joinedSheet" => request[x].via \in Reader /\ Loads(request[x].via)
    BY DEF OneLoad, Shaped
  <2> QED BY <2>1, <2>2 DEF fails
<1>5. Shaped' BY <1>1, <1>2, <1>3 DEF Shaped, RequestSet, Quiet
<1>6. OneLoad'
  <2>1. \A x \in Reader : Loads(x)' => x \notin fails /\ Loads(x) /\ request'[x] = request[x]
    BY <1>3 DEF Loads, LoadStep, Quiet
  <2>2. \A k \in DOMAIN loading' : request'[loading'[k]].step \in LoadStep /\ request'[loading'[k]].key = k
    <3> SUFFICES ASSUME NEW k \in DOMAIN loading'
                 PROVE  request'[loading'[k]].step \in LoadStep /\ request'[loading'[k]].key = k
      OBVIOUS
    <3>1. /\ k \in DOMAIN loading /\ loading[k] \notin fails
          /\ loading'[k] = loading[k] /\ loading[k] \in Reader
      BY <1>2 DEF Shaped
    <3>2. request'[loading[k]] = request[loading[k]] BY <1>3, <3>1
    <3> QED BY <3>1, <3>2 DEF OneLoad, Loads
  <2>3. \A x \in Reader : request'[x].step = "joinedSheet" =>
          request'[x].key \in DOMAIN loading' /\ loading'[request'[x].key] = request'[x].via
    BY <1>2, <1>3, <1>4 DEF OneLoad, Quiet
  <2>4. \A x \in Reader : Loads(x)' =>
          request'[x].key \in DOMAIN loading' /\ loading'[request'[x].key] = x
    BY <1>2, <2>1 DEF OneLoad
  <2> QED BY <2>2, <2>3, <2>4 DEF OneLoad, Loads
<1>7. Promises'
  <2>1. \A x \in Reader : Asks(x)' => Asks(x) /\ request'[x] = request[x]
    BY <1>3 DEF Asks, LoadStep, Quiet
  <2> QED BY <1>1, <2>1 DEF Promises
<1>8. FreshEnough'
  <2>1. \A x \in Reader : HasRead(x)' => HasRead(x) /\ request'[x] = request[x]
    BY <1>3 DEF HasRead, Quiet
  <2>2. \A x \in Reader : Asks(x)' => Asks(x) /\ request'[x] = request[x]
    BY <1>3 DEF Asks, LoadStep, Quiet
  <2> QED BY <1>1, <2>1, <2>2 DEF FreshEnough
<1>9. DropsAreSeen' BY <1>3 DEF DropsAreSeen, Quiet
<1> QED BY <1>5, <1>6, <1>7, <1>8, <1>9

\* Every step keeps the invariant.
THEOREM CacheInductive == CacheInv /\ [CacheNext]_cacheVars => CacheInv'
<1> SUFFICES ASSUME CacheInv, [CacheNext]_cacheVars PROVE CacheInv' OBVIOUS
<1>1. CASE UNCHANGED cacheVars
  BY <1>1 DEF cacheVars, CacheInv, Shaped, OneLoad, Promises, FreshEnough, DropsAreSeen,
              Loads, HasRead, Asks
<1>2. CASE \E s \in Source : Commit(s) BY <1>2, CommitKeeps
<1>3. CASE Invalidate BY <1>3, InvalidateKeeps
<1>4. CASE ClearAll BY <1>4, ClearAllKeeps
<1>5. CASE ClearJam BY <1>5, ClearJamKeeps
<1>6. CASE Expire BY <1>6, ExpireKeeps
<1>7. ASSUME NEW r \in Reader,
             \/ AskSheet(r) \/ QuerySheet(r) \/ AskOverlay(r) \/ QueryTexts(r)
             \/ StoreOverlay(r) \/ StoreSheet(r) \/ LoadFails(r)
      PROVE  CacheInv'
  BY <1>7, AskSheetKeeps, QuerySheetKeeps, AskOverlayKeeps, QueryTextsKeeps,
     StoreOverlayKeeps, StoreSheetKeeps, LoadFailsKeeps
<1> QED BY <1>1, <1>2, <1>3, <1>4, <1>5, <1>6, <1>7 DEF CacheNext

\* No request is answered with a sheet older than the last drop before it began,
\* by a command, a warm-up or an import, whatever loads are in flight when caches
\* are dropped; only a load that had read when an import dropped the caches of a
\* product without a version may store and serve what it read.
THEOREM DropsCorrect == CacheSpec => []DropsAreSeen
<1>1. CacheInv => DropsAreSeen BY DEF CacheInv
<1> QED BY CacheInitial, CacheInductive, <1>1, PTL DEF CacheSpec

\* A part of a function space, as the prover reads it.
LEMMA Partial ==
  ASSUME NEW K, NEW V, NEW f
  PROVE  f \in PartialOf(K, V) <=>
           f = [k \in DOMAIN f |-> f[k]] /\ DOMAIN f \subseteq K /\ \A k \in DOMAIN f : f[k] \in V
<1>1. ASSUME f \in PartialOf(K, V)
      PROVE  f = [k \in DOMAIN f |-> f[k]] /\ DOMAIN f \subseteq K /\ \A k \in DOMAIN f : f[k] \in V
  <2>1. PICK D \in SUBSET K : f \in [D -> V]
    BY <1>1 DEF PartialOf
  <2> QED
    BY <2>1
<1>2. ASSUME f = [k \in DOMAIN f |-> f[k]], DOMAIN f \subseteq K, \A k \in DOMAIN f : f[k] \in V
      PROVE  f \in PartialOf(K, V)
  <2>1. f \in [DOMAIN f -> V] /\ DOMAIN f \in SUBSET K
    BY <1>2
  <2> QED
    BY <2>1 DEF PartialOf
<1> QED
  BY <1>1, <1>2

\* Dropped keys, one more key, and no key at all leave it one.
LEMMA DropPartial ==
  ASSUME NEW K, NEW V, NEW f \in PartialOf(K, V), NEW D
  PROVE  Drop(f, D) \in PartialOf(K, V)
<1>1. f = [k \in DOMAIN f |-> f[k]] /\ DOMAIN f \subseteq K /\ \A k \in DOMAIN f : f[k] \in V
  BY Partial
<1>2. Drop(f, D) = [k \in DOMAIN f \ D |-> f[k]]
  BY DEF Drop, Restrict
<1> QED
  BY <1>1, <1>2, Partial

LEMMA PutPartial ==
  ASSUME NEW K, NEW V, NEW f \in PartialOf(K, V), NEW k \in K, NEW v \in V
  PROVE  Put(f, k, v) \in PartialOf(K, V)
<1>1. f = [j \in DOMAIN f |-> f[j]] /\ DOMAIN f \subseteq K /\ \A j \in DOMAIN f : f[j] \in V
  BY Partial
<1>2. Put(f, k, v) = [j \in DOMAIN f \union {k} |-> IF j = k THEN v ELSE f[j]]
  BY DEF Put
<1>3. DOMAIN Put(f, k, v) = DOMAIN f \union {k}
      /\ \A j \in DOMAIN f \union {k} : Put(f, k, v)[j] = IF j = k THEN v ELSE f[j]
  BY <1>2
<1>4. Put(f, k, v) = [j \in DOMAIN Put(f, k, v) |-> Put(f, k, v)[j]]
  BY <1>2
<1> QED
  BY <1>1, <1>3, <1>4, Partial

LEMMA EmptyPartial == ASSUME NEW K, NEW V PROVE <<>> \in PartialOf(K, V)
<1>1. <<>> \in [{} -> V]
  BY SMT
<1>2. {} \in SUBSET K
  OBVIOUS
<1> QED
  BY <1>1, <1>2, Zenon DEF PartialOf

\* Nothing counts more writes or drops than there were.
BoundRequest ==
  [step : LoadStep \union {"joinedSheet", "idle", "answered"}, key : Version, jamKey : Version,
   via : Reader \union {"nobody"}, sheet : Seen, overlay : Seen, late : BOOLEAN,
   promised : Seen, jamPromised : Seen]

CacheBound ==
  /\ data \in [Source -> Seen] /\ version \in Version
  /\ promised \in Seen /\ jamPromised \in Seen
  /\ sheets \in PartialOf(Version, Sheet) /\ overlays \in PartialOf(Version, Seen)
  /\ loading \in PartialOf(Version, Reader) /\ overlaying \in PartialOf(Version, Reader)
  /\ request \in [Reader -> BoundRequest]

\* The one load of an overlay, by the key it began with.
OneOverlay ==
  /\ \A r \in Reader : request[r].step \in {"texts", "read"} =>
       request[r].jamKey \in DOMAIN overlaying /\ overlaying[request[r].jamKey] = r
  /\ \A k \in DOMAIN overlaying :
       request[overlaying[k]].jamKey = k /\ request[overlaying[k]].step \in {"texts", "read"}

CacheRest == CacheBound /\ OneOverlay

LEMMA Zeros == 0 \in Seen /\ 0 \in Version /\ Seen \subseteq Nat /\ Version \subseteq Nat
BY CacheAssumption DEF Seen, Version

LEMMA QuietBound == Quiet \in BoundRequest
BY Zeros DEF Quiet, BoundRequest

\* A bound request stays one when a field is set to a bound value.
LEMMA SetBound ==
  ASSUME NEW R \in BoundRequest
  PROVE  /\ \A v \in LoadStep \union {"joinedSheet", "idle", "answered"} :
              [R EXCEPT !.step = v] \in BoundRequest
         /\ \A v \in Seen : /\ [R EXCEPT !.sheet = v] \in BoundRequest
                            /\ [R EXCEPT !.overlay = v] \in BoundRequest
         /\ \A v \in Version : [R EXCEPT !.jamKey = v] \in BoundRequest
         /\ \A v \in Reader : [R EXCEPT !.via = v] \in BoundRequest
BY DEF BoundRequest

\* The caches' values are in range where they are read.
LEMMA CachedBound ==
  ASSUME CacheBound
  PROVE  /\ \A k \in DOMAIN sheets : /\ sheets[k].sheet \in Seen /\ sheets[k].overlay \in Seen
                                    /\ sheets[k].late \in BOOLEAN
         /\ \A k \in DOMAIN overlays : overlays[k] \in Seen
         /\ \A k \in DOMAIN loading : loading[k] \in Reader
         /\ \A k \in DOMAIN overlaying : overlaying[k] \in Reader
         /\ data["sheet"] \in Seen /\ data["jam"] \in Seen
<1>1. /\ \A k \in DOMAIN sheets : sheets[k] \in Sheet
      /\ \A k \in DOMAIN overlays : overlays[k] \in Seen
      /\ \A k \in DOMAIN loading : loading[k] \in Reader
      /\ \A k \in DOMAIN overlaying : overlaying[k] \in Reader
  BY Partial DEF CacheBound
<1> QED
  BY <1>1 DEF CacheBound, Sheet, Source

LEMMA CacheRestInitial == CacheInit => CacheRest
<1> SUFFICES ASSUME CacheInit PROVE CacheRest
  OBVIOUS
<1>1. CacheBound
  <2>1. data \in [Source -> Seen] /\ version \in Version /\ promised \in Seen /\ jamPromised \in Seen
    BY Zeros DEF CacheInit, NoData
  <2>2. request \in [Reader -> BoundRequest]
    BY QuietBound, Zenon DEF CacheInit
  <2> QED
    BY <2>1, <2>2, EmptyPartial DEF CacheInit, CacheBound
<1>2. OneOverlay
  <2>1. overlaying = <<>> /\ \A r \in Reader : request[r].step = "idle"
    BY DEF CacheInit, Quiet
  <2> QED
    BY <2>1 DEF OneOverlay
<1> QED
  BY <1>1, <1>2 DEF CacheRest

\* Writes, drops and expiries touch no load, and no request but for its mark.
LEMMA DataStepsBound ==
  ASSUME CacheRest, (\E s \in Source : Commit(s)) \/ Invalidate \/ ClearAll \/ ClearJam \/ Expire
  PROVE  CacheRest'
<1>0. UNCHANGED <<loading, overlaying>>
  BY DEF Commit, Invalidate, ClearAll, ClearJam, Expire
<1>7. \/ UNCHANGED request
      \/ request' = [r \in Reader |-> [request[r] EXCEPT !.late = @ \/ HasRead(r)]]
  BY DEF Commit, Invalidate, ClearAll, ClearJam, Expire
<1>8. /\ request' \in [Reader -> BoundRequest]
      /\ \A r \in Reader : /\ request'[r].step = request[r].step
                          /\ request'[r].jamKey = request[r].jamKey
  <2>1. request \in [Reader -> BoundRequest]
    BY DEF CacheRest, CacheBound
  <2>2. \A r \in Reader :
          LET marked == [request[r] EXCEPT !.late = @ \/ HasRead(r)] IN
          /\ marked \in BoundRequest
          /\ marked.step = request[r].step /\ marked.jamKey = request[r].jamKey
    BY <2>1 DEF BoundRequest, HasRead
  <2> QED
    BY <1>7, <2>1, <2>2
<1>1. OneOverlay'
  BY <1>0, <1>8, CachedBound DEF OneOverlay, CacheRest
<1>2. loading' \in PartialOf(Version, Reader) /\ overlaying' \in PartialOf(Version, Reader)
  BY <1>0 DEF CacheRest, CacheBound
<1>3. data' \in [Source -> Seen]
  <2>1. CASE UNCHANGED data
    BY <2>1 DEF CacheRest, CacheBound
  <2>2. ASSUME NEW s \in Source, Commit(s)
        PROVE  data' \in [Source -> Seen]
    <3>1. data \in [Source -> Seen] /\ data[s] \in Seen
      BY DEF CacheRest, CacheBound
    <3>2. data[s] + 1 \in Seen
      BY <2>2, <3>1, CacheAssumption DEF Commit, Seen
    <3> QED
      BY <2>2, <3>1, <3>2 DEF Commit
  <2> QED
    BY <2>1, <2>2 DEF Invalidate, ClearAll, ClearJam, Expire
<1>4. version' \in Version
  BY CacheAssumption DEF CacheRest, CacheBound, Version, Commit, Invalidate, Bumped, ClearAll,
                         ClearJam, Expire
<1>5. promised' \in Seen /\ jamPromised' \in Seen
  BY CachedBound DEF CacheRest, CacheBound, Commit, Invalidate, ClearAll, ClearJam, Expire
<1>6. sheets' \in PartialOf(Version, Sheet) /\ overlays' \in PartialOf(Version, Seen)
  <2>1. sheets \in PartialOf(Version, Sheet) /\ overlays \in PartialOf(Version, Seen)
    BY DEF CacheRest, CacheBound
  <2>2. /\ sheets' = sheets \/ sheets' = <<>> \/ \E D : sheets' = Drop(sheets, D)
        /\ overlays' = overlays \/ overlays' = <<>> \/ \E D : overlays' = Drop(overlays, D)
    BY DEF Commit, Invalidate, ClearAll, ClearJam, Expire
  <2>3. /\ \A D : Drop(sheets, D) \in PartialOf(Version, Sheet)
        /\ \A D : Drop(overlays, D) \in PartialOf(Version, Seen)
    BY <2>1, DropPartial
  <2> QED
    BY <2>1, <2>2, <2>3, EmptyPartial
<1> QED
  BY <1>1, <1>2, <1>3, <1>4, <1>5, <1>6, <1>8 DEF CacheRest, CacheBound

\* A step of one request, or of several, that touches no data and no cached value.
LEMMA RequestStep ==
  ASSUME CacheRest, UNCHANGED <<data, version, promised, jamPromised>>,
         request' = [x \in Reader |-> request'[x]],
         \A x \in Reader : request'[x] = request[x] \/ request'[x] \in BoundRequest,
         sheets' \in PartialOf(Version, Sheet), overlays' \in PartialOf(Version, Seen),
         loading' \in PartialOf(Version, Reader), overlaying' \in PartialOf(Version, Reader)
  PROVE  CacheBound'
<1>1. \A x \in Reader : request[x] \in BoundRequest
  BY DEF CacheRest, CacheBound
<1>2. request' \in [Reader -> BoundRequest]
  <2>1. \A x \in Reader : request'[x] \in BoundRequest
    BY <1>1
  <2> QED
    BY <2>1
<1> QED
  BY <1>2 DEF CacheRest, CacheBound

\* The overlays that load are the same, and so are their requests.
LEMMA SameOverlay ==
  ASSUME CacheRest, UNCHANGED overlaying,
         \A x \in Reader :
           \/ request'[x].step \notin {"texts", "read"} /\ request[x].step \notin {"texts", "read"}
           \/ /\ request'[x].step \in {"texts", "read"} /\ request[x].step \in {"texts", "read"}
              /\ request'[x].jamKey = request[x].jamKey
  PROVE  OneOverlay'
<1>1. \A k \in DOMAIN overlaying : overlaying[k] \in Reader
  BY CachedBound DEF CacheRest
<1> QED
  BY <1>1 DEF CacheRest, OneOverlay

LEMMA AskSheetRest == ASSUME CacheRest, NEW r \in Reader, AskSheet(r) PROVE CacheRest'
<1> DEFINE newcomer == [Quiet EXCEPT !.key = version, !.promised = promised,
                                     !.jamPromised = jamPromised]
<1>0. /\ request[r].step \in {"idle", "answered"}
      /\ UNCHANGED <<data, version, sheets, overlays, overlaying, promised, jamPromised>>
      /\ request \in [Reader -> BoundRequest]
  BY DEF AskSheet, CacheRest, CacheBound
<1>1. newcomer \in BoundRequest /\ version \in Version
  BY QuietBound DEF CacheRest, CacheBound, BoundRequest
<1>2. CASE /\ version \in DOMAIN sheets
           /\ request' = [request EXCEPT ![r] = WithSheet(newcomer, sheets[version])]
           /\ UNCHANGED loading
  <2>1. /\ sheets[version].sheet \in Seen /\ sheets[version].overlay \in Seen
        /\ sheets[version].late \in BOOLEAN
    BY <1>2, CachedBound DEF CacheRest
  <2>2. request'[r] = WithSheet(newcomer, sheets[version])
    BY <1>0, <1>2
  <2>3. request'[r] \in BoundRequest /\ request'[r].step = "answered"
    BY <2>1, <2>2, <1>1, QuietBound DEF WithSheet, BoundRequest
  <2>4. CacheBound'
    BY <1>0, <1>2, <2>3, RequestStep DEF CacheRest, CacheBound
  <2>5. OneOverlay'
    BY <1>0, <1>2, <2>3, SameOverlay
  <2> QED
    BY <2>4, <2>5 DEF CacheRest
<1>3. CASE /\ version \in DOMAIN loading \ DOMAIN sheets
           /\ request' = [request EXCEPT ![r] = [newcomer EXCEPT
                 !.step = "joinedSheet", !.via = loading[version]]]
           /\ UNCHANGED loading
  <2>1. loading[version] \in Reader
    BY <1>3, CachedBound DEF CacheRest
  <2>2. request'[r] = [newcomer EXCEPT !.step = "joinedSheet", !.via = loading[version]]
    BY <1>0, <1>3
  <2>3. request'[r] \in BoundRequest /\ request'[r].step = "joinedSheet"
    BY <2>1, <2>2, <1>1 DEF BoundRequest
  <2>4. CacheBound'
    BY <1>0, <1>3, <2>3, RequestStep DEF CacheRest, CacheBound
  <2>5. OneOverlay'
    BY <1>0, <1>3, <2>3, SameOverlay
  <2> QED
    BY <2>4, <2>5 DEF CacheRest
<1>4. CASE /\ version \notin DOMAIN loading \union DOMAIN sheets
           /\ request' = [request EXCEPT ![r] = [newcomer EXCEPT !.step = "query"]]
           /\ loading' = Put(loading, version, r)
  <2>2. request'[r] = [newcomer EXCEPT !.step = "query"]
    BY <1>0, <1>4
  <2>3. request'[r] \in BoundRequest /\ request'[r].step = "query"
    BY <2>2, <1>1 DEF BoundRequest, LoadStep
  <2>6. loading' \in PartialOf(Version, Reader)
    BY <1>1, <1>4, PutPartial DEF CacheRest, CacheBound
  <2>4. CacheBound'
    BY <1>0, <1>4, <2>3, <2>6, RequestStep DEF CacheRest, CacheBound
  <2>5. OneOverlay'
    BY <1>0, <1>4, <2>3, SameOverlay
  <2> QED
    BY <2>4, <2>5 DEF CacheRest
<1> QED
  BY <1>2, <1>3, <1>4 DEF AskSheet

LEMMA QueriesRest ==
  ASSUME CacheRest, NEW r \in Reader, QuerySheet(r) \/ QueryTexts(r)
  PROVE  CacheRest'
<1>0. /\ request \in [Reader -> BoundRequest]
      /\ UNCHANGED <<data, version, sheets, loading, overlays, overlaying, promised, jamPromised>>
      /\ data["sheet"] \in Seen /\ data["jam"] \in Seen
  BY CachedBound DEF CacheRest, CacheBound, QuerySheet, QueryTexts
<1>1. CASE QuerySheet(r)
  <2>1. request'[r] = [request[r] EXCEPT !.step = "queried", !.sheet = data["sheet"]]
    BY <1>0, <1>1 DEF QuerySheet
  <2>2. request'[r] \in BoundRequest
    <3>1. [request[r] EXCEPT !.step = "queried"] \in BoundRequest
      BY <1>0, SetBound DEF LoadStep
    <3> QED
      BY <1>0, <2>1, <3>1, SetBound
  <2>3. request'[r].step = "queried" /\ request[r].step = "query"
    BY <1>0, <1>1, <2>1 DEF QuerySheet, BoundRequest
  <2>4. CacheBound'
    BY <1>0, <1>1, <2>2, RequestStep DEF QuerySheet, CacheRest, CacheBound
  <2>5. OneOverlay'
    BY <1>0, <1>1, <2>3, SameOverlay DEF QuerySheet
  <2> QED
    BY <2>4, <2>5 DEF CacheRest
<1>2. CASE QueryTexts(r)
  <2>1. request'[r] = [request[r] EXCEPT !.step = "read", !.overlay = data["jam"]]
    BY <1>0, <1>2 DEF QueryTexts
  <2>2. request'[r] \in BoundRequest
    <3>1. [request[r] EXCEPT !.step = "read"] \in BoundRequest
      BY <1>0, SetBound DEF LoadStep
    <3> QED
      BY <1>0, <2>1, <3>1, SetBound
  <2>3. request'[r].step = "read" /\ request[r].step = "texts" /\ request'[r].jamKey = request[r].jamKey
    BY <1>0, <1>2, <2>1 DEF QueryTexts, BoundRequest
  <2>4. CacheBound'
    BY <1>0, <1>2, <2>2, RequestStep DEF QueryTexts, CacheRest, CacheBound
  <2>5. OneOverlay'
    <3>1. \A x \in Reader : x # r => request'[x] = request[x]
      BY <1>0, <1>2 DEF QueryTexts
    <3> QED
      BY <1>0, <2>3, <3>1, SameOverlay
  <2> QED
    BY <2>4, <2>5 DEF CacheRest
<1> QED
  BY <1>1, <1>2

LEMMA AskOverlayRest == ASSUME CacheRest, NEW r \in Reader, AskOverlay(r) PROVE CacheRest'
<1>0. /\ request \in [Reader -> BoundRequest] /\ version \in Version
      /\ request[r].step = "queried"
      /\ UNCHANGED <<data, version, sheets, loading, overlays, promised, jamPromised>>
      /\ \A s \in {"overlaid", "joinedOverlay", "texts"} : [request[r] EXCEPT !.step = s] \in BoundRequest
  BY SetBound DEF CacheRest, CacheBound, AskOverlay, LoadStep
<1>1. CASE /\ version \in DOMAIN overlays
           /\ request' = [request EXCEPT ![r].step = "overlaid", ![r].overlay = overlays[version]]
           /\ UNCHANGED overlaying
  <2>1. overlays[version] \in Seen
    BY <1>1, CachedBound DEF CacheRest
  <2>2. request'[r] = [request[r] EXCEPT !.step = "overlaid", !.overlay = overlays[version]]
    BY <1>0, <1>1
  <2>3. request'[r] \in BoundRequest
    <3>1. [request[r] EXCEPT !.step = "overlaid"] \in BoundRequest
      BY <1>0
    <3> QED
      BY <2>1, <2>2, <3>1, SetBound
  <2>4. request'[r].step = "overlaid"
    BY <1>0, <2>2 DEF BoundRequest
  <2>5. CacheBound'
    BY <1>0, <1>1, <2>3, RequestStep DEF CacheRest, CacheBound
  <2>6. OneOverlay'
    BY <1>0, <1>1, <2>4, SameOverlay
  <2> QED
    BY <2>5, <2>6 DEF CacheRest
<1>2. CASE /\ version \in DOMAIN overlaying \ DOMAIN overlays
           /\ request' = [request EXCEPT ![r].step = "joinedOverlay", ![r].via = overlaying[version]]
           /\ UNCHANGED overlaying
  <2>1. overlaying[version] \in Reader
    BY <1>2, CachedBound DEF CacheRest
  <2>2. request'[r] = [request[r] EXCEPT !.step = "joinedOverlay", !.via = overlaying[version]]
    BY <1>0, <1>2
  <2>3. request'[r] \in BoundRequest
    <3>1. [request[r] EXCEPT !.step = "joinedOverlay"] \in BoundRequest
      BY <1>0
    <3> QED
      BY <2>1, <2>2, <3>1, SetBound
  <2>4. request'[r].step = "joinedOverlay"
    BY <1>0, <2>2 DEF BoundRequest
  <2>5. CacheBound'
    BY <1>0, <1>2, <2>3, RequestStep DEF CacheRest, CacheBound
  <2>6. OneOverlay'
    BY <1>0, <1>2, <2>4, SameOverlay
  <2> QED
    BY <2>5, <2>6 DEF CacheRest
<1>3. CASE /\ version \notin DOMAIN overlaying \union DOMAIN overlays
           /\ request' = [request EXCEPT ![r].step = "texts", ![r].jamKey = version]
           /\ overlaying' = Put(overlaying, version, r)
  <2>2. request'[r] = [request[r] EXCEPT !.step = "texts", !.jamKey = version]
    BY <1>0, <1>3
  <2>3. request'[r] \in BoundRequest
    <3>1. [request[r] EXCEPT !.step = "texts"] \in BoundRequest
      BY <1>0
    <3> QED
      BY <1>0, <2>2, <3>1, SetBound
  <2>4. request'[r].step = "texts" /\ request'[r].jamKey = version
    BY <1>0, <2>2 DEF BoundRequest
  <2>5. overlaying' \in PartialOf(Version, Reader)
    BY <1>0, <1>3, PutPartial DEF CacheRest, CacheBound
  <2>6. CacheBound'
    BY <1>0, <1>3, <2>3, <2>5, RequestStep DEF CacheRest, CacheBound
  <2>7. OneOverlay'
    <3>1. \A x \in Reader : x # r => request'[x] = request[x]
      BY <1>0, <1>3
    <3>2. /\ DOMAIN overlaying' = DOMAIN overlaying \union {version}
          /\ overlaying'[version] = r
          /\ \A k \in DOMAIN overlaying : overlaying'[k] = overlaying[k] /\ k # version
      BY <1>3 DEF Put
    <3>3. \A k \in DOMAIN overlaying : overlaying[k] \in Reader /\ overlaying[k] # r
      BY <1>0, CachedBound DEF CacheRest, OneOverlay
    <3>4. \A x \in Reader : request'[x].step \in {"texts", "read"} =>
            request'[x].jamKey \in DOMAIN overlaying' /\ overlaying'[request'[x].jamKey] = x
      BY <2>4, <3>1, <3>2 DEF CacheRest, OneOverlay
    <3>5. \A k \in DOMAIN overlaying' :
            request'[overlaying'[k]].jamKey = k /\ request'[overlaying'[k]].step \in {"texts", "read"}
      BY <2>4, <3>1, <3>2, <3>3 DEF CacheRest, OneOverlay
    <3> QED
      BY <3>4, <3>5 DEF OneOverlay
  <2> QED
    BY <2>6, <2>7 DEF CacheRest
<1> QED
  BY <1>1, <1>2, <1>3 DEF AskOverlay

LEMMA StoreOverlayRest == ASSUME CacheRest, NEW r \in Reader, StoreOverlay(r) PROVE CacheRest'
<1> DEFINE overlay == request[r].overlay
           joins(x) == x = r \/ (request[x].step = "joinedOverlay" /\ request[x].via = r)
<1>0. /\ request \in [Reader -> BoundRequest]
      /\ request[r].step = "read" /\ overlay \in Seen /\ request[r].jamKey \in Version
      /\ UNCHANGED <<data, version, sheets, loading, promised, jamPromised>>
  BY DEF CacheRest, CacheBound, StoreOverlay, BoundRequest
<1>1. request' = [x \in Reader |->
        IF joins(x) THEN [request[x] EXCEPT !.step = "overlaid", !.overlay = overlay] ELSE request[x]]
  BY DEF StoreOverlay
<1>2. \A x \in Reader : [request[x] EXCEPT !.step = "overlaid", !.overlay = overlay] \in BoundRequest
  <2> SUFFICES ASSUME NEW x \in Reader
               PROVE  [request[x] EXCEPT !.step = "overlaid", !.overlay = overlay] \in BoundRequest
    OBVIOUS
  <2>1. [request[x] EXCEPT !.step = "overlaid"] \in BoundRequest
    BY <1>0, SetBound DEF LoadStep
  <2> QED
    BY <1>0, <2>1, SetBound
<1>3. \A x \in Reader : IF joins(x) THEN request'[x].step = "overlaid" /\ request'[x] \in BoundRequest
                                    ELSE request'[x] = request[x]
  BY <1>0, <1>1, <1>2 DEF BoundRequest
<1>4. CacheBound'
  <2>1. overlays' \in PartialOf(Version, Seen) /\ overlaying' \in PartialOf(Version, Reader)
    BY <1>0, PutPartial, DropPartial DEF StoreOverlay, CacheRest, CacheBound
  <2>2. request' = [x \in Reader |-> request'[x]]
    BY <1>1
  <2>3. \A x \in Reader : request'[x] = request[x] \/ request'[x] \in BoundRequest
    BY <1>3
  <2>4. sheets' \in PartialOf(Version, Sheet) /\ loading' \in PartialOf(Version, Reader)
    BY <1>0 DEF CacheRest, CacheBound
  <2> QED
    BY <1>0, <2>1, <2>2, <2>3, <2>4, RequestStep
<1>5. OneOverlay'
  <2>1. /\ DOMAIN overlaying' = DOMAIN overlaying \ {request[r].jamKey}
        /\ \A k \in DOMAIN overlaying' : overlaying'[k] = overlaying[k]
    BY DEF StoreOverlay, Drop, Restrict
  <2>2. \A x \in Reader : request'[x].step \in {"texts", "read"} => x # r /\ request'[x] = request[x]
    BY <1>3
  <2>3. \A x \in Reader : request'[x].step \in {"texts", "read"} =>
          request'[x].jamKey \in DOMAIN overlaying' /\ overlaying'[request'[x].jamKey] = x
    BY <1>0, <2>1, <2>2 DEF CacheRest, OneOverlay
  <2>4. \A k \in DOMAIN overlaying' : overlaying[k] \in Reader /\ overlaying[k] # r
                                      /\ request[overlaying[k]].step # "joinedOverlay"
    BY <1>0, <2>1, CachedBound DEF CacheRest, OneOverlay
  <2>5. \A k \in DOMAIN overlaying' :
          request'[overlaying'[k]].jamKey = k /\ request'[overlaying'[k]].step \in {"texts", "read"}
    BY <1>3, <2>1, <2>4 DEF CacheRest, OneOverlay
  <2> QED
    BY <2>3, <2>5 DEF OneOverlay
<1> QED
  BY <1>4, <1>5 DEF CacheRest

LEMMA StoreSheetRest == ASSUME CacheRest, NEW r \in Reader, StoreSheet(r) PROVE CacheRest'
<1> DEFINE joins(x) == x = r \/ (request[x].step = "joinedSheet" /\ request[x].via = r)
           answer(x) == WithSheet(request[x], Built(r))
<1>0. /\ request \in [Reader -> BoundRequest]
      /\ request[r].step = "overlaid" /\ request[r].key \in Version
      /\ request[r].sheet \in Seen /\ request[r].overlay \in Seen /\ request[r].late \in BOOLEAN
      /\ UNCHANGED <<data, version, overlays, overlaying, promised, jamPromised>>
  BY DEF CacheRest, CacheBound, StoreSheet, BoundRequest
<1>1. request' = [x \in Reader |-> IF joins(x) THEN answer(x) ELSE request[x]]
  BY DEF StoreSheet, Answered
<1>2. \A x \in Reader : answer(x) \in BoundRequest /\ answer(x).step = "answered"
  BY <1>0, QuietBound DEF BoundRequest, WithSheet, Built
<1>3. \A x \in Reader : IF joins(x) THEN request'[x].step = "answered" /\ request'[x] \in BoundRequest
                                    ELSE request'[x] = request[x]
  BY <1>1, <1>2
<1>4. CacheBound'
  <2>1. Built(r) \in Sheet
    BY <1>0 DEF Sheet, Built
  <2>2. sheets' \in PartialOf(Version, Sheet) /\ loading' \in PartialOf(Version, Reader)
    BY <1>0, <2>1, PutPartial, DropPartial DEF StoreSheet, StoreKey, CacheRest, CacheBound
  <2>3. request' = [x \in Reader |-> request'[x]]
    BY <1>1
  <2>4. \A x \in Reader : request'[x] = request[x] \/ request'[x] \in BoundRequest
    BY <1>3
  <2>5. overlays' \in PartialOf(Version, Seen) /\ overlaying' \in PartialOf(Version, Reader)
    BY <1>0 DEF CacheRest, CacheBound
  <2> QED
    BY <1>0, <2>2, <2>3, <2>4, <2>5, RequestStep
<1>5. OneOverlay'
  BY <1>0, <1>3, SameOverlay
<1> QED
  BY <1>4, <1>5 DEF CacheRest

LEMMA LoadFailsRest == ASSUME CacheRest, NEW r \in Reader, LoadFails(r) PROVE CacheRest'
<1>0. PICK fails :
        /\ request' = [x \in Reader |-> IF x \in fails THEN Quiet ELSE request[x]]
        /\ loading' = Landing(fails)
        /\ overlaying' = Drop(overlaying, {k \in DOMAIN overlaying : overlaying[k] \in fails})
        /\ UNCHANGED <<data, version, sheets, overlays, promised, jamPromised>>
  BY DEF LoadFails
<1>1. \A x \in Reader : request'[x] = IF x \in fails THEN Quiet ELSE request[x]
  BY <1>0
<1>2. CacheBound'
  <2>1. loading' \in PartialOf(Version, Reader) /\ overlaying' \in PartialOf(Version, Reader)
    BY <1>0, DropPartial DEF Landing, CacheRest, CacheBound
  <2>2. request' = [x \in Reader |-> request'[x]]
    BY <1>0
  <2>3. \A x \in Reader : request'[x] = request[x] \/ request'[x] \in BoundRequest
    BY <1>1, QuietBound
  <2>4. sheets' \in PartialOf(Version, Sheet) /\ overlays' \in PartialOf(Version, Seen)
    BY <1>0 DEF CacheRest, CacheBound
  <2> QED
    BY <1>0, <2>1, <2>2, <2>3, <2>4, RequestStep
<1>3. OneOverlay'
  <2>1. /\ DOMAIN overlaying' = {k \in DOMAIN overlaying : overlaying[k] \notin fails}
        /\ \A k \in DOMAIN overlaying' : overlaying'[k] = overlaying[k]
    BY <1>0 DEF Drop, Restrict
  <2>2. \A x \in Reader : request'[x].step \in {"texts", "read"} => x \notin fails /\ request'[x] = request[x]
    BY <1>1 DEF Quiet
  <2>3. \A k \in DOMAIN overlaying' : overlaying[k] \in Reader /\ overlaying[k] \notin fails
    BY <2>1, CachedBound DEF CacheRest
  <2>4. \A x \in Reader : request'[x].step \in {"texts", "read"} =>
          request'[x].jamKey \in DOMAIN overlaying' /\ overlaying'[request'[x].jamKey] = x
    BY <2>1, <2>2 DEF CacheRest, OneOverlay
  <2>5. \A k \in DOMAIN overlaying' :
          request'[overlaying'[k]].jamKey = k /\ request'[overlaying'[k]].step \in {"texts", "read"}
    BY <1>1, <2>1, <2>3 DEF CacheRest, OneOverlay
  <2> QED
    BY <2>4, <2>5 DEF OneOverlay
<1> QED
  BY <1>2, <1>3 DEF CacheRest

LEMMA CacheRestInductive == CacheRest /\ [CacheNext]_cacheVars => CacheRest'
<1> SUFFICES ASSUME CacheRest, [CacheNext]_cacheVars PROVE CacheRest'
  OBVIOUS
<1>1. CASE UNCHANGED cacheVars
  BY <1>1 DEF cacheVars, CacheRest, CacheBound, OneOverlay
<1>2. CASE (\E s \in Source : Commit(s)) \/ Invalidate \/ ClearAll \/ ClearJam \/ Expire
  BY <1>2, DataStepsBound
<1>3. ASSUME NEW r \in Reader,
             \/ AskSheet(r) \/ QuerySheet(r) \/ AskOverlay(r) \/ QueryTexts(r)
             \/ StoreOverlay(r) \/ StoreSheet(r) \/ LoadFails(r)
      PROVE  CacheRest'
  BY <1>3, AskSheetRest, QueriesRest, AskOverlayRest, StoreOverlayRest, StoreSheetRest,
     LoadFailsRest
<1> QED
  BY <1>1, <1>2, <1>3 DEF CacheNext

\* The caches hold what they are for: every value cached or in flight is of a
\* version and of a state of the data that existed, whoever joined a load waits
\* for one that is in flight, and an overlay in flight is the one its request
\* asked for, under the key it began with.
THEOREM CacheTypeCorrect == CacheSpec => []CacheTypeOK
<1>1. CacheInv /\ CacheRest => CacheTypeOK
  <2> SUFFICES ASSUME CacheInv, CacheRest PROVE CacheTypeOK
    OBVIOUS
  <2>1. \A r \in Reader : request[r].step \in LoadStep \union {"joinedSheet", "idle", "answered"}
    BY DEF CacheRest, CacheBound, BoundRequest
  <2>2. \A r \in Reader :
          /\ request[r].step \in {"idle", "query", "queried", "texts", "read", "overlaid",
                                  "joinedSheet", "joinedOverlay", "answered"}
          /\ request[r].step = "joinedSheet" =>
               request[r].key \in DOMAIN loading /\ loading[request[r].key] = request[r].via
    BY <2>1 DEF LoadStep, CacheInv, OneLoad
  <2>3. \A k \in DOMAIN loading : request[loading[k]].key = k
    BY DEF CacheInv, OneLoad
  <2> QED
    BY <2>2, <2>3 DEF CacheTypeOK, CacheRest, CacheBound, OneOverlay
<1> QED
  BY CacheInitial, CacheInductive, CacheRestInitial, CacheRestInductive, <1>1, PTL DEF CacheSpec

-----------------------------------------------------------------------------
(* The order of the campaigns: what a campaign still waits for comes before *)
(* it in the rotation after the cursor, and the round in progress has       *)
(* visited a first part of the rotation it began with.                      *)

Reached == cursor["inventory"]

InTurn == \A c \in Campaign : \A d \in owed[c] : Before(Reached, d, c)

VisitedFirst ==
  phase = "inventory" =>
    /\ \A c \in Campaign : owed[c] \subseteq pool
    /\ \A d \in pool \ left, c \in left : Before(from, d, c)
    /\ \/ left = pool /\ Reached = from
       \/ /\ Reached \in pool \ left
          /\ \A d \in pool \ left : d = Reached \/ Before(from, d, Reached)

\* The cursors of the other phases play no part.
CampaignTyped ==
  /\ listed \subseteq Campaign /\ known \subseteq Campaign
  /\ archived \subseteq SUBSET Campaign
  /\ left \subseteq pool /\ pool \subseteq Campaign
  /\ cursor = [p \in Phase |-> cursor[p]]
  /\ Reached \in Campaign \union {NoCursor}
  /\ phase \in Phase \union {"none"}
  /\ phase = "inventory" => from \in Campaign \union {NoCursor}
  /\ owed \in [Campaign -> SUBSET Campaign]

CampaignIInv == CampaignTyped /\ InTurn /\ VisitedFirst

\* The rotation is a strict order on the ids.
LEMMA Rotation ==
  ASSUME NEW k \in Nat, NEW c \in Nat, NEW d \in Nat, NEW e \in Nat
  PROVE  /\ ~Before(k, c, c)
         /\ Before(k, c, d) => ~Before(k, d, c)
         /\ c # d => Before(k, c, d) \/ Before(k, d, c)
         /\ Before(k, c, d) /\ Before(k, d, e) => Before(k, c, e)
BY DEF Before

\* After the cursor has moved to m, what came behind m comes first, in the order
\* it had, and what came up to m comes last; m itself is the last of all.
LEMMA Moved ==
  ASSUME NEW k \in Nat, NEW m \in Nat, NEW c \in Nat, NEW d \in Nat
  PROVE  /\ c # m => Before(m, c, m)
         /\ Before(k, m, c) /\ Before(k, c, d) => Before(m, c, d)
         /\ Before(k, m, c) /\ Before(k, d, m) => Before(m, c, d)
BY DEF Before

\* A set of ids that is not empty has a least one.
LEMMA Least == ASSUME NEW S, S \subseteq Nat, S # {} PROVE \E c \in S : \A d \in S : c <= d
<1>1. PICK c \in S : \A d \in S : ~(<<d, c>> \in OpToRel(<, Nat))
  BY WFMin, NatLessThanWellFounded, Zenon
<1>2. \A d \in S : ~(d < c)
  BY <1>1 DEF OpToRel
<1> QED BY <1>2

\* The queue has a head.
LEMMA HeadOfQueue ==
  ASSUME NEW S, S \subseteq Nat, S # {}, NEW k \in Nat
  PROVE  /\ First(S, k) \in S
         /\ \A d \in S \ {First(S, k)} : Before(k, First(S, k), d)
<1> DEFINE Behind == {c \in S : c > k}
<1>1. CASE Behind # {}
  <2>1. PICK c \in Behind : \A d \in Behind : c <= d
    BY <1>1, Least
  <2>2. c \in S /\ \A d \in S \ {c} : Before(k, c, d)
    BY <2>1 DEF Before
  <2> QED BY <2>2 DEF First
<1>2. CASE Behind = {}
  <2>1. PICK c \in S : \A d \in S : c <= d
    BY Least
  <2>2. \A d \in S \ {c} : Before(k, c, d)
    BY <1>2, <2>1 DEF Before
  <2> QED BY <2>1, <2>2 DEF First
<1> QED BY <1>1, <1>2

LEMMA Ids ==
  ASSUME CampaignTyped
  PROVE  /\ Campaign \subseteq Nat /\ NoCursor \in Nat
         /\ pool \subseteq Nat /\ left \subseteq Nat
         /\ Reached \in Nat
         /\ phase = "inventory" => from \in Nat
         /\ \A c \in Campaign : owed[c] \subseteq Campaign
BY CampaignAssumption DEF CampaignAssumption, CampaignTyped, NoCursor

\* The campaign whose turn it is comes before all others of the list in the
\* rotation after the cursor.
LEMMA TurnComesFirst ==
  ASSUME CampaignIInv, phase = "inventory", left # {}
  PROVE  LET c == First(left, from) IN
           /\ c \in left /\ c \in Campaign
           /\ \A d \in left \ {c} : Before(from, c, d)
           /\ \A d \in pool \ {c} : Before(Reached, c, d)
<1> DEFINE c == First(left, from)
<1> USE Ids DEF CampaignIInv
<1>1. c \in left /\ \A d \in left \ {c} : Before(from, c, d)
  BY HeadOfQueue
<1>2. c \in Campaign /\ c \in Nat
  BY <1>1 DEF CampaignTyped
<1>3. ASSUME NEW d \in pool \ {c} PROVE Before(Reached, c, d)
  <2> DEFINE m == Reached
  <2>1. d \in Nat /\ m \in Nat /\ from \in Nat
    OBVIOUS
  <2>2. CASE left = pool /\ m = from
    BY <1>1, <2>2
  <2>3. CASE m \in pool \ left /\ \A e \in pool \ left : e = m \/ Before(from, e, m)
    <3>1. Before(from, m, c)
      BY <1>1, <2>3 DEF VisitedFirst
    <3>2. m # c
      BY <1>1, <2>3
    <3>3. CASE d \in left
      BY <1>1, <1>2, <2>1, <3>1, <3>3, Moved
    <3>4. CASE d = m
      BY <1>2, <2>1, <3>2, <3>4, Moved
    <3>5. CASE Before(from, d, m)
      BY <1>2, <2>1, <3>1, <3>5, Moved
    <3> QED BY <2>3, <3>3, <3>4, <3>5
  <2> QED BY <2>2, <2>3 DEF VisitedFirst
<1> HIDE DEF c
<1> QED BY <1>1, <1>2, <1>3 DEF c

\* Steps that leave cursor and debts alone, outside an inventory.
LEMMA ElsewhereKeeps ==
  ASSUME CampaignIInv, CampaignTyped', phase' # "inventory",
         owed' = owed, Reached' = Reached
  PROVE  CampaignIInv'
BY DEF CampaignIInv, InTurn, VisitedFirst, Before

LEMMA BeginInventoryKeeps ==
  ASSUME CampaignIInv, BeginInventory PROVE CampaignIInv'
<1> USE DEF CampaignIInv
<1>1. PICK answered \in BOOLEAN :
        /\ Enter("inventory", Refs(answered))
        /\ owed' = [c \in Campaign |-> owed[c] \intersect Refs(answered)]
  BY DEF BeginInventory
<1>2. Refs(answered) \subseteq Campaign
  BY DEF Refs, CampaignTyped
<1>3. /\ phase' = "inventory" /\ pool' = Refs(answered) /\ left' = pool'
      /\ from' = Reached /\ Reached' = Reached
      /\ UNCHANGED <<listed, archived, known, cursor>>
  BY <1>1 DEF Enter, BeginInventory, Reached, worldVars
<1>4. \A c \in Campaign : owed'[c] = owed[c] \intersect pool'
  BY <1>1, <1>3
<1>5. CampaignTyped'
  <2>1. owed' \in [Campaign -> SUBSET Campaign]
    BY <1>1 DEF CampaignTyped
  <2> QED BY <1>2, <1>3, <2>1 DEF CampaignTyped, Phase
<1>6. InTurn'
  BY <1>3, <1>4 DEF InTurn, Before
<1>7. VisitedFirst'
  BY <1>3, <1>4 DEF VisitedFirst
<1> QED BY <1>5, <1>6, <1>7

LEMMA CompleteCampaignKeeps ==
  ASSUME CampaignIInv, CompleteCampaign PROVE CampaignIInv'
<1> DEFINE c == First(left, from)
<1>1. /\ phase = "inventory" /\ left # {}
      /\ cursor' = [cursor EXCEPT !["inventory"] = c]
      /\ left' = left \ {c}
      /\ owed' = [d \in Campaign |-> IF d = c THEN pool \ {c} ELSE owed[d] \ {c}]
      /\ UNCHANGED <<listed, archived, known, phase, pool, from>>
  BY DEF CompleteCampaign, worldVars
<1>2. /\ c \in left /\ c \in Campaign
      /\ \A d \in left \ {c} : Before(from, c, d)
      /\ \A d \in pool \ {c} : Before(Reached, c, d)
  BY <1>1, TurnComesFirst
<1> HIDE DEF c
<1> USE Ids DEF CampaignIInv
<1>3. Reached' = c
  BY <1>1 DEF CampaignTyped, Reached, Phase
<1>4. \A d \in Campaign : owed'[d] = IF d = c THEN pool \ {c} ELSE owed[d] \ {c}
  BY <1>1
<1>5. CampaignTyped'
  <2>1. owed' \in [Campaign -> SUBSET Campaign]
    BY <1>1 DEF CampaignTyped
  <2>2. cursor' = [p \in Phase |-> cursor'[p]]
    BY <1>1 DEF CampaignTyped
  <2> QED BY <1>1, <1>2, <1>3, <2>1, <2>2 DEF CampaignTyped
<1>6. \A d \in Campaign : owed[d] \subseteq pool
  BY <1>1 DEF VisitedFirst
<1>7. InTurn'
  <2>1. ASSUME NEW e \in Campaign, NEW d \in owed'[e] PROVE Before(c, d, e)
    <3>1. d \in pool \ {c} /\ d \in Nat /\ e \in Nat /\ c \in Nat
      BY <1>2, <1>4, <1>6, <2>1
    <3>2. CASE e = c
      BY <3>1, <3>2, Moved
    <3>3. CASE e # c
      <4>1. Before(Reached, d, e) /\ Before(Reached, c, d)
        BY <1>2, <1>4, <2>1, <3>1, <3>3 DEF InTurn
      <4> QED BY <3>1, <4>1, Moved
    <3> QED BY <3>2, <3>3
  <2> QED BY <1>3, <2>1 DEF InTurn, Before
<1>8. VisitedFirst'
  <2>1. pool' \ left' = (pool \ left) \union {c}
    BY <1>1, <1>2 DEF CampaignTyped
  <2>2. \A d \in Campaign : owed'[d] \subseteq pool'
    BY <1>1, <1>4, <1>6
  <2>3. \A d \in pool' \ left', e \in left' : Before(from, d, e)
    BY <1>1, <1>2, <2>1 DEF VisitedFirst
  <2>4. \A d \in pool' \ left' : d = c \/ Before(from, d, c)
    BY <1>1, <1>2, <2>1 DEF VisitedFirst
  <2> QED BY <1>1, <1>3, <2>1, <2>2, <2>3, <2>4 DEF VisitedFirst, Before
<1> QED BY <1>5, <1>7, <1>8

THEOREM CampaignInductive == CampaignIInv /\ [CampaignNext]_campaignVars => CampaignIInv'
<1> SUFFICES ASSUME CampaignIInv, [CampaignNext]_campaignVars PROVE CampaignIInv'
  OBVIOUS
<1> USE DEF CampaignIInv
<1>1. CASE UNCHANGED campaignVars \/ Relist
  <2>1. UNCHANGED <<archived, known, cursor, phase, pool, left, from, owed>>
    BY <1>1 DEF campaignVars, Relist
  <2>2. listed' \subseteq Campaign
    BY <1>1 DEF campaignVars, Relist, CampaignTyped
  <2> QED BY <2>1, <2>2 DEF CampaignTyped, InTurn, VisitedFirst, Before, Reached
<1>2. CASE UpsertCampaign
  <2>1. First(left, from) \in Campaign
    BY <1>2, TurnComesFirst DEF UpsertCampaign
  <2>2. UNCHANGED <<listed, archived, cursor, phase, pool, left, from, owed>>
    BY <1>2 DEF UpsertCampaign, worldVars
  <2>3. known' \subseteq Campaign
    BY <1>2, <2>1 DEF UpsertCampaign, CampaignTyped
  <2> QED BY <2>2, <2>3 DEF CampaignTyped, InTurn, VisitedFirst, Before, Reached
<1>3. CASE EndInventory
  BY <1>3, ElsewhereKeeps DEF EndInventory, Enter, Rest, worldVars, CampaignTyped, Reached, Phase
<1>4. ASSUME NEW p \in Phase, BeginAlone(p) PROVE CampaignIInv'
  BY <1>4, ElsewhereKeeps DEF BeginAlone, Enter, worldVars, CampaignTyped, Reached, Phase
<1>5. CASE ReadChunk \/ NextRound
  BY <1>5, ElsewhereKeeps DEF ReadChunk, NextRound, Stage, worldVars, CampaignTyped, Reached, Phase
<1>6. CASE CompletePhase
  <2>1. /\ phase \in {"structure", "stats"}
        /\ cursor' = [p \in Phase |-> cursor'[p]] /\ Reached' = Reached
    BY <1>6 DEF CompletePhase, CampaignTyped, Reached, Phase
  <2> QED
    BY <1>6, <2>1, ElsewhereKeeps DEF CompletePhase, Leave, Enter, Rest, worldVars,
       CampaignTyped, Phase
<1>7. CASE ChunkRefused
  BY <1>7, ElsewhereKeeps DEF ChunkRefused, Leave, Enter, Rest, worldVars, CampaignTyped,
     Reached, Phase
<1>8. CASE Stop
  BY <1>8, ElsewhereKeeps DEF Stop, Rest, CampaignTyped, Reached
<1> QED
  BY <1>1, <1>2, <1>3, <1>4, <1>5, <1>6, <1>7, <1>8, BeginInventoryKeeps,
     CompleteCampaignKeeps DEF CampaignNext

\* The campaign whose turn it is owes no other one a turn: whatever was cut short,
\* wherever the lists came from, for any campaigns.
THEOREM RoundRobinCorrect == CampaignSpec => []RoundRobin
<1>1. CampaignInit => CampaignIInv
  BY DEF CampaignInit, CampaignIInv, CampaignTyped, InTurn, VisitedFirst, Reached, Phase
<1>2. ASSUME CampaignIInv PROVE RoundRobin
  <2> SUFFICES ASSUME phase = "inventory", left # {},
                      NEW d \in owed[First(left, from)]
               PROVE  FALSE
    BY DEF RoundRobin
  <2> DEFINE c == First(left, from)
  <2>1. c \in Campaign /\ \A e \in pool \ {c} : Before(Reached, c, e)
    BY <1>2, TurnComesFirst
  <2> HIDE DEF c
  <2>2. Before(Reached, d, c) /\ d \in pool
    BY <1>2, <2>1 DEF c, CampaignIInv, InTurn, VisitedFirst
  <2>3. c \in Nat /\ d \in Nat /\ Reached \in Nat
    BY <1>2, <2>1, <2>2, Ids DEF CampaignIInv
  <2> QED BY <2>1, <2>2, <2>3, Rotation
<1> QED BY <1>1, <1>2, CampaignInductive, PTL DEF CampaignSpec

\* A set of ids has a last one in the rotation.
LEMMA EndOfQueue ==
  ASSUME NEW S, S \subseteq Nat, IsFiniteSet(S), S # {}, NEW k \in Nat
  PROVE  Last(S, k) \in S
<1> DEFINE Ends(D) == \E c \in D : \A d \in D \ {c} : Before(k, d, c)
           Endless == {D \in SUBSET S : D # {} /\ ~Ends(D)}
<1>1. ASSUME Endless # {} PROVE FALSE
  <2>1. IsWellFoundedOn(StrictSubsetOrdering(S), SUBSET S)
    BY FS_StrictSubsetOrderingWellFounded, FS_FiniteSubsetsOfFinite
  <2>2. Endless \subseteq SUBSET S
    OBVIOUS
  <2> HIDE DEF Endless
  <2>3. PICK D \in Endless : \A E \in Endless : ~(<<E, D>> \in StrictSubsetOrdering(S))
    BY <1>1, <2>1, <2>2, WFMin, Zenon
  <2> USE DEF Endless
  <2>4. PICK c \in D : TRUE
    OBVIOUS
  <2> DEFINE Rest1 == D \ {c}
  <2>5. Rest1 \notin Endless
    BY <2>3, <2>4 DEF StrictSubsetOrdering
  <2>6. CASE Rest1 = {}
    BY <2>3, <2>4, <2>6
  <2>7. CASE Ends(Rest1)
    <3>1. PICK e \in Rest1 : \A d \in Rest1 \ {e} : Before(k, d, e)
      BY <2>7
    <3>2. D \subseteq Nat /\ c \in Nat /\ e \in Nat /\ c # e
      BY <2>3, <2>4, <3>1
    <3>3. CASE Before(k, c, e)
      <4>1. \A d \in D \ {e} : Before(k, d, e)
        BY <3>1, <3>3
      <4> QED
        BY <2>3, <3>1, <4>1
    <3>4. CASE Before(k, e, c)
      <4>1. \A d \in D \ {c} : Before(k, d, c)
        BY <3>1, <3>2, <3>4, Rotation
      <4> QED
        BY <2>3, <2>4, <4>1
    <3> QED
      BY <3>2, <3>3, <3>4, Rotation
  <2> QED
    BY <2>3, <2>5, <2>6, <2>7
<1>2. Ends(S)
  BY <1>1
<1> QED
  BY <1>2 DEF Last

\* The rest of the types; every phase's cursor names a campaign.
CampaignRest ==
  /\ cursor \in [Phase -> Campaign \union {NoCursor}]
  /\ full \in BOOLEAN /\ fresh \in BOOLEAN /\ upserted \in BOOLEAN
  /\ from \in Campaign \union {NoCursor}
  /\ round \in 1..2
  /\ relists \in 0..MaxRelists /\ stops \in 0..MaxStops

LEMMA CampaignRestKept == CampaignIInv /\ CampaignRest /\ [CampaignNext]_campaignVars => CampaignRest'
<1> SUFFICES ASSUME CampaignIInv, CampaignRest, [CampaignNext]_campaignVars PROVE CampaignRest'
  OBVIOUS
<1> DEFINE Id == Campaign \union {NoCursor}
<1>1. pool \subseteq Campaign /\ IsFiniteSet(pool) /\ pool \subseteq Nat /\ from \in Nat
  <2>1. pool \subseteq Campaign /\ from \in Campaign \union {NoCursor}
    BY DEF CampaignIInv, CampaignTyped, CampaignRest
  <2>2. IsFiniteSet(Campaign) /\ Campaign \subseteq Nat /\ NoCursor \in Nat
    BY CampaignAssumption DEF CampaignAssumption, NoCursor
  <2>3. IsFiniteSet(pool)
    BY <2>1, <2>2, FS_Subset
  <2> QED
    BY <2>1, <2>2, <2>3
<1>0. 1 \in 1..2 /\ 2 \in 1..2
  OBVIOUS
<1>2. relists' \in 0..MaxRelists /\ stops' \in 0..MaxStops
  <2>1. CASE Relist
    BY <2>1, CampaignAssumption DEF CampaignAssumption, Relist, CampaignRest
  <2>2. CASE Stop
    BY <2>2, CampaignAssumption DEF CampaignAssumption, Stop, CampaignRest
  <2>3. CASE UNCHANGED <<relists, stops>>
    BY <2>3 DEF CampaignRest
  <2> QED
    BY <2>1, <2>2, <2>3
       DEF CampaignNext, campaignVars, worldVars, BeginInventory, UpsertCampaign, CompleteCampaign,
           EndInventory, BeginAlone, ReadChunk, NextRound, CompletePhase, ChunkRefused
<1>3. cursor' \in [Phase -> Id]
  <2>1. CASE CompleteCampaign
    <3>1. First(left, from) \in Campaign
      BY <2>1, TurnComesFirst DEF CompleteCampaign
    <3> QED
      BY <2>1, <3>1 DEF CompleteCampaign, CampaignRest
  <2>2. CASE CompletePhase
    <3>1. pool # {} => Last(pool, from) \in Campaign
      BY <1>1, EndOfQueue
    <3> QED
      BY <2>2, <3>1 DEF CompletePhase, CampaignRest
  <2>3. CASE UNCHANGED cursor
    BY <2>3 DEF CampaignRest
  <2> QED
    BY <2>1, <2>2, <2>3
       DEF CampaignNext, campaignVars, worldVars, BeginInventory, UpsertCampaign, Relist, Stop,
           EndInventory, BeginAlone, ReadChunk, NextRound, ChunkRefused
<1>4. /\ full' \in BOOLEAN /\ fresh' \in BOOLEAN /\ upserted' \in BOOLEAN
      /\ from' \in Id /\ round' \in 1..2
  <2>1. \A p \in Phase : cursor[p] \in Id
    BY DEF CampaignRest
  <2>2. ASSUME NEW p \in Phase, NEW S, Enter(p, S) PROVE from' \in Id /\ round' \in 1..2
    BY <2>1, <2>2 DEF Enter
  <2>3. CASE Rest
    BY <1>0, <2>3, Zenon DEF Rest
  <2>4. CASE Leave
    BY <2>2, <2>3, <2>4 DEF Leave, CampaignRest, Phase
  <2>5. CASE BeginInventory
    BY <2>2, <2>5 DEF BeginInventory, CampaignRest, Phase
  <2>6. CASE EndInventory
    BY <2>2, <2>3, <2>6 DEF EndInventory, CampaignRest, Phase
  <2>7. ASSUME NEW p \in Phase, BeginAlone(p)
        PROVE  /\ full' \in BOOLEAN /\ fresh' \in BOOLEAN /\ upserted' \in BOOLEAN
               /\ from' \in Id /\ round' \in 1..2
    BY <2>2, <2>7 DEF BeginAlone, CampaignRest
  <2>8. CASE UpsertCampaign \/ CompleteCampaign \/ ReadChunk \/ NextRound \/ Relist
             \/ UNCHANGED campaignVars
    BY <1>0, <2>8, Zenon DEF UpsertCampaign, CompleteCampaign, ReadChunk, NextRound, Relist, campaignVars,
                CampaignRest
  <2> QED
    BY <2>3, <2>4, <2>5, <2>6, <2>7, <2>8 DEF CampaignNext, CompletePhase, ChunkRefused, Stop
<1> QED
  BY <1>2, <1>3, <1>4 DEF CampaignRest

\* The types of the sync (CampaignTypeOK): what is left to visit belongs to the
\* list the phase began with, and every cursor names a campaign.
THEOREM CampaignTypeCorrect == CampaignSpec => []CampaignTypeOK
<1>1. CampaignInit => CampaignIInv
  BY DEF CampaignInit, CampaignIInv, CampaignTyped, InTurn, VisitedFirst, Reached, Phase
<1>2. CampaignInit => CampaignRest
  <2>1. 1 \in 1..2 /\ 0 \in 0..MaxRelists /\ 0 \in 0..MaxStops
    BY CampaignAssumption DEF CampaignAssumption
  <2> QED
    BY <2>1, Zenon DEF CampaignInit, CampaignRest
<1>3. CampaignIInv /\ CampaignRest => CampaignTypeOK
  BY DEF CampaignIInv, CampaignTyped, CampaignRest, CampaignTypeOK
<1> QED
  BY <1>1, <1>2, <1>3, CampaignInductive, CampaignRestKept, PTL DEF CampaignSpec

-----------------------------------------------------------------------------
(* The lists of clusters: a cluster that stays where it is has rows of its  *)
(* own list, or an active one for its bid, and an answer that has its list  *)
(* at all names it there.                                                   *)

RowsOfList ==
  \A x \in Cluster \ mover :
    /\ acted[x] = Nobody
    /\ listRows[x] \subseteq {wbList[x]} \union (IF x \in bidden THEN {"active"} ELSE {})

AnswersOfList ==
  \A x \in Cluster \ mover, l \in List :
    /\ x \in slice.answer[l] => l = wbList[x]
    /\ x \in reader.answer[l] => l = wbList[x]
    /\ l = wbList[x] /\ reader.answer[l] # {} => x \in reader.answer[l]

ListIInv == ListTypeOK /\ RowsOfList /\ AnswersOfList

\* The steps of readers and commands keep the shape of the state.
LEMMA ListTyped ==
  ASSUME ListTypeOK, [ListNext]_listVars PROVE ListTypeOK'
<1>1. CASE UNCHANGED listVars
  BY <1>1 DEF listVars, ListTypeOK
<1>2. Asleep \in [step : {"idle"}, answer : Answer] /\ Asleep.answer = NoAnswer
  BY DEF Asleep, Answer, NoAnswer
<1>3. Named(wbList) \in Answer
  BY DEF Named, Answer
<1>4. Bidden \in [Cluster -> SUBSET List]
  BY DEF Bidden, ListTypeOK, List
<1>5. ASSUME NEW x \in Cluster, Move(x) \/ BidRow(x) PROVE ListTypeOK'
  BY <1>5, ListAssumption DEF Move, BidRow, ListTypeOK, ListAssumption, Lists, List
<1>6. ASSUME NEW x \in Cluster, NEW l \in List, Act(x, l) PROVE ListTypeOK'
  BY <1>6, ListAssumption DEF Act, ListTypeOK, ListAssumption
<1>7. CASE BeginLists
  BY <1>2, <1>7 DEF BeginLists, WithoutTwins, ListTypeOK, Asleep
<1>8. CASE ReadLists
  <2>1. \A gone \in SUBSET List :
          [l \in List |-> IF l \in gone THEN {} ELSE Named(wbList)[l]] \in Answer
    BY <1>3 DEF Answer
  <2>2. /\ reader' \in [step : {"read"}, answer : Answer]
        /\ tornReads' \in 0..MaxTorn
    BY <1>3, <1>8, <2>1, ListAssumption DEF ReadLists, ListTypeOK, ListAssumption
  <2> QED BY <1>8, <2>2 DEF ReadLists, ListTypeOK
<1>9. CASE UpsertLists
  BY <1>9 DEF UpsertLists, Upserted, ListTypeOK
<1>10. CASE Prune("active", "written", "passed") \/ Prune("excluded", "passed", "listed")
  BY <1>10 DEF Prune, Pruned, ListTypeOK
<1>11. CASE MirrorBids
  BY <1>2, <1>4, <1>11 DEF MirrorBids, ListTypeOK
<1>12. CASE ReaderStops
  BY <1>2, <1>12, ListAssumption DEF ReaderStops, ListTypeOK, ListAssumption
<1>13. CASE SliceReads
  BY <1>3, <1>13 DEF SliceReads, ListTypeOK
<1>14. CASE SliceWrites
  <2>1. PICK l \in List, x \in Cluster :
          /\ listRows' = [listRows EXCEPT ![x] = @ \union {l}]
          /\ slice' = [slice EXCEPT !.answer[l] = @ \ {x}]
    BY <1>14 DEF SliceWrites, ListTypeOK, Answer
  <2>2. slice' \in [step : {"read"}, answer : Answer]
    BY <1>14, <2>1 DEF SliceWrites, ListTypeOK, Answer
  <2> QED BY <1>14, <2>1, <2>2 DEF SliceWrites, ListTypeOK
<1>15. CASE SliceWritten
  BY <1>15 DEF SliceWritten, ListTypeOK
<1>16. CASE SliceMirrorsBids
  BY <1>2, <1>4, <1>16 DEF SliceMirrorsBids, ListTypeOK
<1> QED
  BY <1>1, <1>5, <1>6, <1>7, <1>8, <1>9, <1>10, <1>11, <1>12, <1>13, <1>14, <1>15, <1>16
     DEF ListNext, ReaderStep, SliceStep

\* What a step may do to a cluster that stays where it is: its rows are those of
\* its list and of its bid, and it keeps the row it has.
StayKept(x) ==
  /\ acted'[x] = Nobody
  /\ listRows'[x] \subseteq {wbList'[x]} \union (IF x \in bidden' THEN {"active"} ELSE {})
  /\ \A l \in List :
       /\ x \in slice'.answer[l] => l = wbList'[x]
       /\ x \in reader'.answer[l] => l = wbList'[x]
       /\ l = wbList'[x] /\ reader'.answer[l] # {} => x \in reader'.answer[l]
  /\ wbList'[x] = wbList[x]
  /\ listRows[x] = {wbList[x]} /\ x \notin bidden' => listRows'[x] = {wbList[x]}

LEMMA ListSteps ==
  ASSUME ListIInv, [ListNext]_listVars, NEW x \in Cluster \ mover'
  PROVE  x \notin mover /\ StayKept(x)
<1> USE DEF ListIInv
<1>0. x \notin mover => /\ acted[x] = Nobody /\ wbList[x] \in List
                        /\ listRows[x] \subseteq {wbList[x]} \union
                                                 (IF x \in bidden THEN {"active"} ELSE {})
                        /\ \A l \in List :
                             /\ x \in slice.answer[l] => l = wbList[x]
                             /\ x \in reader.answer[l] => l = wbList[x]
                             /\ l = wbList[x] /\ reader.answer[l] # {} => x \in reader.answer[l]
  BY DEF RowsOfList, AnswersOfList, ListTypeOK, Lists
<1>a. \A l \in List : Asleep.answer[l] = {}
  BY DEF Asleep, NoAnswer
<1>b. \A l \in List : x \in Named(wbList)[l] <=> l = wbList[x]
  BY DEF Named
<1>c. Bidden[x] = IF x \in bidden THEN listRows[x] \union {"active"} ELSE listRows[x]
  BY DEF Bidden
<1>1. CASE UNCHANGED listVars
  BY <1>0, <1>1 DEF listVars, StayKept
<1>5. ASSUME NEW y \in Cluster, Move(y) \/ BidRow(y) PROVE x \notin mover /\ StayKept(x)
  BY <1>0, <1>5 DEF Move, BidRow, StayKept, ListTypeOK, Lists
<1>6. ASSUME NEW y \in Cluster, NEW l \in List, Act(y, l) PROVE x \notin mover /\ StayKept(x)
  BY <1>0, <1>6 DEF Act, StayKept, ListTypeOK
<1>7. CASE BeginLists
  <2>1. listRows'[x] = WithoutTwins(listRows[x])
    BY <1>7 DEF BeginLists
  <2>2. \A l \in List : reader'.answer[l] = {}
    BY <1>7, <1>a DEF BeginLists, Asleep
  <2> QED BY <1>0, <1>7, <2>1, <2>2 DEF BeginLists, WithoutTwins, StayKept
<1>8. CASE ReadLists
  <2>1. \A l \in List : \/ reader'.answer[l] = {}
                        \/ reader'.answer[l] = Named(wbList)[l]
    BY <1>8 DEF ReadLists
  <2> QED BY <1>0, <1>8, <1>b, <2>1 DEF ReadLists, StayKept
<1>9. CASE UpsertLists
  <2>1. listRows'[x] = listRows[x] \union {l \in List : x \in reader.answer[l]}
    BY <1>9 DEF UpsertLists, Upserted
  <2>2. reader'.answer = reader.answer
    BY <1>9 DEF UpsertLists, ListTypeOK
  <2> QED BY <1>0, <1>9, <2>1, <2>2 DEF UpsertLists, StayKept
<1>10. ASSUME NEW l \in List, NEW b, NEW a, Prune(l, b, a) PROVE x \notin mover /\ StayKept(x)
  <2>1. listRows'[x] = IF reader.answer[l] # {} /\ x \notin reader.answer[l]
                         THEN listRows[x] \ {l} ELSE listRows[x]
    BY <1>10 DEF Prune, Pruned
  <2>2. reader'.answer = reader.answer
    BY <1>10 DEF Prune, ListTypeOK
  <2> QED BY <1>0, <1>10, <2>1, <2>2 DEF Prune, StayKept
<1>11. CASE MirrorBids
  BY <1>0, <1>11, <1>a, <1>c DEF MirrorBids, StayKept
<1>12. CASE ReaderStops
  BY <1>0, <1>12, <1>a DEF ReaderStops, StayKept
<1>13. CASE SliceReads
  BY <1>0, <1>13, <1>b DEF SliceReads, StayKept
<1>14. CASE SliceWrites
  <2>1. PICK l \in List : \E y \in slice.answer[l] :
          /\ listRows' = [listRows EXCEPT ![y] = @ \union {l}]
          /\ slice' = [slice EXCEPT !.answer[l] = @ \ {y}]
    BY <1>14 DEF SliceWrites
  <2>2. PICK y \in slice.answer[l] :
          /\ listRows' = [listRows EXCEPT ![y] = @ \union {l}]
          /\ slice' = [slice EXCEPT !.answer[l] = @ \ {y}]
    BY <2>1
  <2>3. \A k \in List : slice'.answer[k] \subseteq slice.answer[k]
    BY <2>2 DEF ListTypeOK, Answer
  <2>4. listRows'[x] = IF x = y THEN listRows[x] \union {l} ELSE listRows[x]
    BY <2>2 DEF ListTypeOK
  <2> QED BY <1>0, <1>14, <2>3, <2>4 DEF SliceWrites, StayKept
<1>15. CASE SliceWritten
  <2>1. slice'.answer = slice.answer
    BY <1>15 DEF SliceWritten, ListTypeOK
  <2> QED BY <1>0, <1>15, <2>1 DEF SliceWritten, StayKept
<1>16. CASE SliceMirrorsBids
  <2>1. listRows'[x] \in {listRows[x], Bidden[x]}
    BY <1>16 DEF SliceMirrorsBids
  <2> QED BY <1>0, <1>16, <1>a, <1>c, <2>1 DEF SliceMirrorsBids, StayKept
<1>17. "active" \in List /\ "excluded" \in List
  BY DEF List
<1> QED
  BY <1>1, <1>5, <1>6, <1>7, <1>8, <1>9, <1>10, <1>11, <1>12, <1>13, <1>14, <1>15, <1>16, <1>17
     DEF ListNext, ReaderStep, SliceStep

LEMMA ListInductive == ASSUME ListIInv, [ListNext]_listVars PROVE ListIInv'
<1>1. ListTypeOK'
  BY ListTyped DEF ListIInv
<1>2. RowsOfList' /\ AnswersOfList'
  BY ListSteps DEF RowsOfList, AnswersOfList, StayKept
<1> QED BY <1>1, <1>2 DEF ListIInv

LEMMA ListAlways == ListSpec => []ListIInv
<1>1. ASSUME ListInit PROVE ListIInv
  <2>1. ListTypeOK
    BY <1>1, ListAssumption DEF ListInit, ListTypeOK, ListAssumption, Asleep, NoAnswer, Answer
  <2> QED
    BY <1>1, <2>1 DEF ListInit, ListIInv, RowsOfList, AnswersOfList, Asleep, NoAnswer
<1> QED BY <1>1, ListInductive, PTL DEF ListSpec

\* A cluster that stayed in its list, and that nobody acted upon, is never shown in
\* the other one, unless it is excluded and has a bid.
THEOREM ShownCorrect == ListSpec => []SteadyShown
<1>1. ListIInv => SteadyShown
  BY DEF ListIInv, ListTypeOK, Lists, List, RowsOfList, SteadyShown, Shown
<1> QED BY <1>1, ListAlways, PTL

\* Nor does it vanish once it is shown: every list a phase prunes by names it.
THEOREM StaysCorrect == ListSpec => SteadyStays
<1> DEFINE Stays == \A x \in Cluster :
                      x \notin mover' /\ Shown(x) = wbList[x] /\ x \notin bidden' =>
                        Shown(x)' = wbList[x]
<1>1. ASSUME ListIInv, [ListNext]_listVars PROVE Stays
  <2> SUFFICES ASSUME NEW x \in Cluster, x \notin mover', Shown(x) = wbList[x], x \notin bidden'
               PROVE  Shown(x)' = wbList[x]
    OBVIOUS
  <2>1. x \notin mover /\ StayKept(x)
    BY <1>1, ListSteps
  <2>2. bidden \subseteq bidden'
    BY <1>1 DEF ListNext, listVars, ReaderStep, SliceStep, Move, Act, BidRow, BeginLists,
       ReadLists, UpsertLists, Prune, MirrorBids, ReaderStops, SliceReads, SliceWrites,
       SliceWritten, SliceMirrorsBids
  <2>3. wbList[x] \in List /\ acted[x] = Nobody /\ listRows[x] \subseteq {wbList[x]}
    BY <1>1, <2>1, <2>2 DEF ListIInv, ListTypeOK, Lists, RowsOfList
  <2>4. listRows[x] = {wbList[x]}
    BY <2>3 DEF Shown, List
  <2>5. listRows'[x] = {wbList[x]} /\ acted'[x] = Nobody
    BY <2>1, <2>4 DEF StayKept
  <2> QED BY <2>3, <2>5 DEF Shown, List
<1>2. ListIInv /\ [ListNext]_listVars => [Stays]_listVars
  BY <1>1
<1> QED BY <1>2, ListAlways, PTL DEF ListSpec, SteadyStays
\* The types of the lists (ListTypeOK): outside a read the readers hold no answer.
THEOREM ListTypeCorrect == ListSpec => []ListTypeOK
<1>1. ListIInv => ListTypeOK
  BY DEF ListIInv
<1> QED
  BY <1>1, ListAlways, PTL

-----------------------------------------------------------------------------
(* The five together: what each of them does, with the others at rest, is  *)
(* what its own specification allows.                                      *)

\* A step of whoever has the turn, seen from each of the five.
LEMMA UpkeepSteps ==
  [UpkeepNext]_UpkeepVars =>
    /\ [CampaignNext]_campaignVars /\ [ListNext]_listVars /\ [ExportNext]_exportVars
    /\ [SnapNext]_snapVars /\ [CacheNext]_cacheVars
<1> SUFFICES ASSUME [UpkeepNext]_UpkeepVars
             PROVE  /\ [CampaignNext]_campaignVars /\ [ListNext]_listVars /\ [ExportNext]_exportVars
                    /\ [SnapNext]_snapVars /\ [CacheNext]_cacheVars
  OBVIOUS
<1>1. \/ UNCHANGED <<campaignVars, listVars, exportVars, snapVars, cacheVars>>
      \/ CampaignNext /\ UNCHANGED <<listVars, exportVars, snapVars, cacheVars>>
      \/ ListNext /\ UNCHANGED <<campaignVars, exportVars, snapVars, cacheVars>>
      \/ ExportNext /\ UNCHANGED <<campaignVars, listVars, snapVars, cacheVars>>
      \/ SnapNext /\ UNCHANGED <<campaignVars, listVars, exportVars, cacheVars>>
      \/ CacheNext /\ UNCHANGED <<campaignVars, listVars, exportVars, snapVars>>
  BY DEF UpkeepNext, UpkeepVars
<1> QED
  BY <1>1

\* What keeps the stored data up to date, side by side over tables of their own,
\* implements each of the five specifications: what is proved of one of them
\* alone holds of it there.
THEOREM UpkeepCompose ==
  UpkeepSpec => CampaignSpec /\ ListSpec /\ ExportSpec /\ SnapSpec /\ CacheSpec
<1>1. UpkeepInit => CampaignInit /\ ListInit /\ ExportInit /\ SnapInit /\ CacheInit
  BY DEF UpkeepInit
<1> QED
  BY <1>1, UpkeepSteps, PTL DEF UpkeepSpec, CampaignSpec, ListSpec, ExportSpec, SnapSpec, CacheSpec

\* Side by side, each keeps its types: the map of exports in flight is exactly
\* the runs of this process, whoever builds snapshots holds the job (unless it was
\* overtaken), who waits for a sheet waits for a load in flight, and what a phase
\* has left is of its pool.
THEOREM UpkeepTypeCorrect == UpkeepSpec => []UpkeepTypeOK
<1>1. CampaignTypeOK /\ ListTypeOK /\ ExportTypeOK /\ SnapTypeOK /\ CacheTypeOK => UpkeepTypeOK
  BY DEF UpkeepTypeOK
<1> QED
  BY <1>1, UpkeepCompose, CampaignTypeCorrect, ListTypeCorrect, ExportTypeCorrect, SnapTypeCorrect,
     CacheTypeCorrect, PTL

=============================================================================
