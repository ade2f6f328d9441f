--------------------------- MODULE SyncRunsProofs ---------------------------
(***************************************************************************)
(* Proofs about the background runs, for any number of calls and faults:   *)
(* types, that a flag belongs to a run that is alive and of its kind, and  *)
(* that a row tells what a finished run came to.                           *)
(***************************************************************************)
EXTENDS SyncRuns, TLAPS

\* Each flag is held by a run that is alive and that the flag is for.
FlagsOwned ==
  \A f \in Flag :
    flag[f] # None => /\ Alive(flag[f])
                      /\ HasFlag(kind[flag[f]])
                      /\ FlagOf(kind[flag[f]]) = f

\* What a run came to: nothing before it ended, and afterwards what its row says.
RowsTold ==
  \A c \in Call :
    /\ step[c] \in {"idle", "checked", "swept", "working"} => result[c] = "none"
    /\ step[c] \in {"ended", "done", "deferred"} /\ result[c] # "none" => runRow[c] = result[c]

RunIInv == RunTypeOK /\ FlagsOwned /\ RowsTold

-----------------------------------------------------------------------------
\* The first state is well typed.
LEMMA InitType == RunInit => RunTypeOK
<1> SUFFICES ASSUME RunInit PROVE RunTypeOK
  OBVIOUS
<1>1. runFaults \in 0..MaxFaults
  BY CallAssumption DEF RunInit
<1>2. kind \in [Call -> Kind] /\ step \in [Call -> Step]
  BY DEF RunInit, Kind, Step
<1>3. flag \in [Flag -> Call \union {None}]
  BY DEF RunInit
<1> QED
  BY <1>1, <1>2, <1>3 DEF RunInit, RunTypeOK

\* The end of the process keeps the types, and counts no fault of its own.
LEMMA EndsTyped ==
  ASSUME RunTypeOK, ProcessEnds
  PROVE  /\ step' \in [Call -> Step]
         /\ flag' \in [Flag -> Call \union {None}]
         /\ polled' \in BOOLEAN
BY DEF RunTypeOK, ProcessEnds, Step

\* A fault is counted up to the bound.
LEMMA FaultCounted ==
  ASSUME runFaults \in 0..MaxFaults, runFaults < MaxFaults
  PROVE  runFaults + 1 \in 0..MaxFaults
BY CallAssumption

\* The step a handler takes keeps the types (all of SyncRuns' actions).
LEMMA NextType == RunTypeOK /\ [RunNext]_runVars => RunTypeOK'
<1> SUFFICES ASSUME RunTypeOK, [RunNext]_runVars PROVE RunTypeOK'
  OBVIOUS
<1> USE CallAssumption DEF RunTypeOK, Kind, Step, Flag
<1>1. ASSUME NEW c \in Call, NEW k \in Kind, Check(c, k) PROVE RunTypeOK'
  BY <1>1 DEF Check, HasFlag, FlagOf
<1>2. ASSUME NEW c \in Call, Sweep(c) PROVE RunTypeOK'
  BY <1>2 DEF Sweep, FailStale
<1>3. ASSUME NEW c \in Call, Start(c) PROVE RunTypeOK'
  BY <1>3 DEF Start, HasRow, HasFlag, FlagOf
<1>4. ASSUME NEW c \in Call, NEW r \in {"succeeded", "failed"}, Finish(c, r) PROVE RunTypeOK'
  BY <1>4 DEF Finish, Complete
<1>5. ASSUME NEW c \in Call, PutOff(c) PROVE RunTypeOK'
  BY <1>5 DEF PutOff, Complete
<1>6. ASSUME NEW c \in Call, TimerAsks(c) PROVE RunTypeOK'
  BY <1>6 DEF TimerAsks
<1>7. ASSUME NEW c \in Call, Settle(c) PROVE RunTypeOK'
  <2>1. CASE kind[c] = "sync" /\ result[c] = "failed"
    BY <1>7, <2>1, EndsTyped DEF Settle
  <2>2. CASE ~(kind[c] = "sync" /\ result[c] = "failed")
    BY <1>7, <2>2 DEF Settle, Released, HasFlag, FlagOf
  <2> QED
    BY <2>1, <2>2
<1>8. ASSUME NEW c \in Call, CompletionFails(c) PROVE RunTypeOK'
  <2>1. runFaults' \in 0..MaxFaults
    BY <1>8, FaultCounted DEF CompletionFails
  <2>2. /\ step' \in [Call -> Step]
        /\ flag' \in [Flag -> Call \union {None}]
        /\ polled' \in BOOLEAN
    BY <1>8, EndsTyped DEF CompletionFails
  <2> QED
    BY <1>8, <2>1, <2>2 DEF CompletionFails
<1>9. CASE Poll
  BY <1>9 DEF Poll
<1>10. CASE PollSweeps
  BY <1>10 DEF PollSweeps, FailStale
<1>11. CASE Restart
  <2>1. runFaults' \in 0..MaxFaults
    BY <1>11, FaultCounted DEF Restart
  <2> QED
    BY <1>11, <2>1, EndsTyped DEF Restart
<1>12. CASE UNCHANGED runVars
  BY <1>12 DEF runVars
<1> QED
  BY <1>1, <1>2, <1>3, <1>4, <1>5, <1>6, <1>7, <1>8, <1>9, <1>10, <1>11, <1>12
  DEF RunNext, CallWork

\* Every reachable state of the runs is well typed, whatever calls there are.
THEOREM RunTypeCorrect == RunSpec => []RunTypeOK
<1> QED
  BY InitType, NextType, PTL DEF RunSpec

-----------------------------------------------------------------------------
\* A call takes and clears only the flag of its own kind (runSync,
\* refreshProductAdvertising, the JAM syncs).
LEMMA NextOwned == RunTypeOK /\ FlagsOwned /\ [RunNext]_runVars => FlagsOwned'
<1> SUFFICES ASSUME RunTypeOK, FlagsOwned, [RunNext]_runVars,
                    NEW f \in Flag, flag'[f] # None
             PROVE  /\ Alive(flag[f])'
                    /\ HasFlag(kind[flag[f]])'
                    /\ FlagOf(kind[flag[f]])' = f
  BY DEF FlagsOwned
<1> USE CallAssumption DEF RunTypeOK, Flag, FlagsOwned, Alive
<1>1. ASSUME NEW c \in Call, NEW k \in Kind, Check(c, k)
      PROVE  /\ Alive(flag[f])' /\ HasFlag(kind[flag[f]])' /\ FlagOf(kind[flag[f]])' = f
  BY <1>1 DEF Check, HasFlag, FlagOf
<1>2. ASSUME NEW c \in Call, Sweep(c)
      PROVE  /\ Alive(flag[f])' /\ HasFlag(kind[flag[f]])' /\ FlagOf(kind[flag[f]])' = f
  BY <1>2 DEF Sweep, HasFlag, FlagOf
<1>3. ASSUME NEW c \in Call, Start(c)
      PROVE  /\ Alive(flag[f])' /\ HasFlag(kind[flag[f]])' /\ FlagOf(kind[flag[f]])' = f
  BY <1>3 DEF Start, HasFlag, FlagOf, Kind
<1>4. ASSUME NEW c \in Call, NEW r \in {"succeeded", "failed"}, Finish(c, r)
      PROVE  /\ Alive(flag[f])' /\ HasFlag(kind[flag[f]])' /\ FlagOf(kind[flag[f]])' = f
  BY <1>4 DEF Finish, HasFlag, FlagOf
<1>5. ASSUME NEW c \in Call, PutOff(c)
      PROVE  /\ Alive(flag[f])' /\ HasFlag(kind[flag[f]])' /\ FlagOf(kind[flag[f]])' = f
  BY <1>5 DEF PutOff, HasFlag, FlagOf
<1>6. ASSUME NEW c \in Call, TimerAsks(c)
      PROVE  /\ Alive(flag[f])' /\ HasFlag(kind[flag[f]])' /\ FlagOf(kind[flag[f]])' = f
  BY <1>6 DEF TimerAsks, HasFlag, FlagOf
<1>7. ASSUME NEW c \in Call, Settle(c)
      PROVE  /\ Alive(flag[f])' /\ HasFlag(kind[flag[f]])' /\ FlagOf(kind[flag[f]])' = f
  BY <1>7 DEF Settle, ProcessEnds, Released, HasFlag, FlagOf, Kind
<1>8. ASSUME NEW c \in Call, CompletionFails(c)
      PROVE  /\ Alive(flag[f])' /\ HasFlag(kind[flag[f]])' /\ FlagOf(kind[flag[f]])' = f
  BY <1>8 DEF CompletionFails, ProcessEnds, HasFlag, FlagOf
<1>9. CASE Poll \/ PollSweeps
  BY <1>9 DEF Poll, PollSweeps, HasFlag, FlagOf
<1>10. CASE Restart
  BY <1>10 DEF Restart, ProcessEnds
<1>11. CASE UNCHANGED runVars
  BY <1>11 DEF runVars, HasFlag, FlagOf
<1> QED
  BY <1>1, <1>2, <1>3, <1>4, <1>5, <1>6, <1>7, <1>8, <1>9, <1>10, <1>11
  DEF RunNext, CallWork, Kind

\* Sweeps only touch rows that say "running", which no finished run's does.
LEMMA NextTold == RunTypeOK /\ RowsTold /\ [RunNext]_runVars => RowsTold'
<1> SUFFICES ASSUME RunTypeOK, RowsTold, [RunNext]_runVars PROVE RowsTold'
  OBVIOUS
<1> USE DEF RunTypeOK, RowsTold
<1>1. ASSUME NEW c \in Call, NEW k \in Kind, Check(c, k) PROVE RowsTold'
  BY <1>1 DEF Check
<1>2. ASSUME NEW c \in Call, Sweep(c) PROVE RowsTold'
  BY <1>2 DEF Sweep, FailStale
<1>3. ASSUME NEW c \in Call, Start(c) PROVE RowsTold'
  BY <1>3 DEF Start
<1>4. ASSUME NEW c \in Call, NEW r \in {"succeeded", "failed"}, Finish(c, r) PROVE RowsTold'
  BY <1>4 DEF Finish, Complete
<1>5. ASSUME NEW c \in Call, PutOff(c) PROVE RowsTold'
  BY <1>5 DEF PutOff, Complete
<1>6. ASSUME NEW c \in Call, TimerAsks(c) PROVE RowsTold'
  BY <1>6 DEF TimerAsks
<1>7. ASSUME NEW c \in Call, Settle(c) PROVE RowsTold'
  BY <1>7 DEF Settle, ProcessEnds
<1>8. ASSUME NEW c \in Call, CompletionFails(c) PROVE RowsTold'
  BY <1>8 DEF CompletionFails, ProcessEnds
<1>9. CASE Poll \/ PollSweeps
  BY <1>9 DEF Poll, PollSweeps, FailStale
<1>10. CASE Restart
  BY <1>10 DEF Restart, ProcessEnds
<1>11. CASE UNCHANGED runVars
  BY <1>11 DEF runVars
<1> QED
  BY <1>1, <1>2, <1>3, <1>4, <1>5, <1>6, <1>7, <1>8, <1>9, <1>10, <1>11, CallAssumption
  DEF RunNext, CallWork, Kind

\* The strengthening both properties follow from.
LEMMA RunInvariant == RunSpec => []RunIInv
<1>1. RunInit => RunIInv
  BY InitType DEF RunIInv, RunInit, FlagsOwned, RowsTold
<1>2. RunIInv /\ [RunNext]_runVars => RunIInv'
  BY NextType, NextOwned, NextTold DEF RunIInv
<1> QED
  BY <1>1, <1>2, PTL DEF RunSpec

-----------------------------------------------------------------------------
\* No flag outlives its run, through failures, restarts and calls that
\* overwrite each other's flag: "alreadyRunning" is never answered for ever.
THEOREM FlagCorrect == RunSpec => []FlagIsLive
<1>1. RunIInv => FlagIsLive
  BY DEF RunIInv, FlagsOwned, FlagIsLive
<1> QED
  BY <1>1, RunInvariant, PTL

\* The row of a run that wrote it says what the run came to, whoever swept it.
THEOREM FinalCorrect == RunSpec => []FinalIsTruth
<1>1. RunIInv => FinalIsTruth
  BY DEF RunIInv, RowsTold, FinalIsTruth
<1> QED
  BY <1>1, RunInvariant, PTL
=============================================================================
