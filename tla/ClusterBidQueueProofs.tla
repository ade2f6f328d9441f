------------------------ MODULE ClusterBidQueueProofs ------------------------
(* Theorems about ClusterBidQueue, for every value of its constants. *)
EXTENDS ClusterBidQueue, TLAPS

\* The initial state is well typed.
LEMMA InitTypeOK == Init => TypeOK
<1> SUFFICES ASSUME Init PROVE TypeOK
  OBVIOUS
<1>1. IdlePass \in Passes
  BY DEF IdlePass, Passes, NoPlan, PassStep, PassError
<1>2. status \in [Job -> JobStatus] /\ attempts \in [Job -> Nat]
  BY DEF Init, JobStatus
<1>3. item \in [Job -> [Key -> ItemStatus]]
  BY DEF Init, ItemStatus
<1>4. row \in [Key -> [job : Job \union {None}, status : RowStatus]]
  BY DEF Init, RowStatus
<1>5. QED
  BY <1>1, <1>2, <1>3, <1>4 DEF Init, TypeOK, CmdStage, Drops

\* A pass stays a pass when it moves on to another step.
LEMMA PassMoves ==
  ASSUME NEW p \in Passes, NEW s \in PassStep, NEW e \in PassError
  PROVE  /\ [p EXCEPT !.step = s] \in Passes
         /\ [p EXCEPT !.step = s, !.error = e] \in Passes
<1>1. [p EXCEPT !.step = s] \in Passes
  BY DEF Passes
<1>2. [p EXCEPT !.step = s, !.error = e] \in Passes
  BY DEF Passes
<1>3. QED
  BY <1>1, <1>2

\* Every step of the queue keeps the types.
LEMMA StepTypeOK == TypeOK /\ [Next]_vars => TypeOK'
<1> SUFFICES ASSUME TypeOK, [Next]_vars PROVE TypeOK'
  OBVIOUS
<1> USE BidQueueAssumption DEF TypeOK, cmdVars, jobVars
<1>1. ASSUME NEW j \in Job, NEW K \in Requests, Desire(j, K) PROVE TypeOK'
  BY <1>1 DEF Desire, CmdStage, RowStatus, RowWaiting
<1>2. ASSUME NEW j \in Job, Stamp(j) PROVE TypeOK'
  BY <1>2 DEF Stamp, MoveLast, Stamped, CmdStage
<1>3. ASSUME NEW j \in Job, Open(j) PROVE TypeOK'
  BY <1>3 DEF Open, CmdStage
<1>4. ASSUME NEW j \in Job, Accept(j) PROVE TypeOK'
  <2>1. Superseded(j) \in [Job -> [Key -> ItemStatus]]
    BY DEF Superseded, ItemStatus
  <2>2. item' \in [Job -> [Key -> ItemStatus]]
    BY <1>4, <2>1 DEF Accept, ItemStatus, ItemActive
  <2>3. status' \in [Job -> JobStatus]
    BY <1>4 DEF Accept, JobStatus, JobActive
  <2>4. QED
    BY <1>4, <2>2, <2>3 DEF Accept, CmdStage
<1>5. ASSUME NEW j \in Job, Due(j) PROVE TypeOK'
  BY <1>5 DEF Due, MoveLast, Stamped
<1>6. ASSUME NEW j \in Job, Age(j) PROVE TypeOK'
  BY <1>6 DEF Age
<1>7. CASE CooldownEnds
  BY <1>7 DEF CooldownEnds
<1>8. CASE TimerFires
  BY <1>8 DEF TimerFires, Passes, PassStep
<1>9. CASE CronTick
  BY <1>9 DEF CronTick, Passes, PassStep
<1>10. ASSUME NEW C \in SUBSET Job, NEW plan \in [Key -> Job \union {None}], Claim(C, plan)
       PROVE TypeOK'
  <2>1. pass' \in Passes
    BY <1>10 DEF Claim, Passes, PassStep, PassError, IdlePass, JobsOf
  <2>2. drops' \subseteq Drops
    BY <1>10 DEF Claim, Drops, JobsOf
  <2>3. item' \in [Job -> [Key -> ItemStatus]]
    BY <1>10 DEF Claim, ItemStatus, ItemActive
  <2>4. status' \in [Job -> JobStatus] /\ attempts' \in [Job -> Nat]
    BY <1>10 DEF Claim, JobStatus, JobActive
  <2>5. QED
    BY <1>10, <2>1, <2>2, <2>3, <2>4 DEF Claim
<1>11. CASE Drained
  BY <1>11 DEF Drained, Passes, PassStep, PassError, IdlePass, NoPlan
<1>12. ASSUME NEW gs \in SUBSET Group, Pick(gs) PROVE TypeOK'
  BY <1>12 DEF Pick, Passes, PassStep, PassError, JobsOf, KeysOf
<1>13. CASE NextRound
  BY <1>13 DEF NextRound, Passes, PassStep, PassError, IdlePass, NoPlan
<1>14. ASSUME NEW st \in RowStatus, WriteRows(st)
       PROVE row' \in [Key -> [job : Job \union {None}, status : RowStatus]]
  BY <1>14 DEF WriteRows, Passes
<1>15. CASE Mark
  BY <1>15, <1>14 DEF Mark, Passes, PassStep, RowStatus, RowWaiting
<1>16. ASSUME NEW chunk \in SUBSET Key, NEW outcome \in WbOutcomes, Send(chunk, outcome)
       PROVE TypeOK'
  <2>1. ErrorOf(outcome) \in PassError
    BY DEF ErrorOf, PassError
  <2>2. pass' \in Passes
    BY <1>16, <2>1 DEF Send, Passes, PassStep, PassError
  <2>3. QED
    BY <1>16, <2>2 DEF Send, Passes
<1>17. CASE Verify
  <2>1. pass' = [pass EXCEPT !.step = "catch", !.error = "recoverable"]
        \/ pass' = [pass EXCEPT !.step = "confirm"]
    BY <1>17 DEF Verify
  <2>2. pass' \in Passes
    BY <2>1, PassMoves DEF PassStep, PassError
  <2>3. QED
    BY <1>17, <2>2 DEF Verify
<1>18. CASE Confirm
  BY <1>18, <1>14 DEF Confirm, Passes, PassStep, RowStatus, RowWaiting
<1>19. CASE Catch
  <2>1. PICK st \in {"failed", "throttled", "pending"} : WriteRows(st)
    BY <1>19 DEF Catch
  <2>2. row' \in [Key -> [job : Job \union {None}, status : RowStatus]]
    BY <2>1, <1>14 DEF RowStatus, RowWaiting
  <2>3. pass' \in Passes
    <3>1. pass' = [pass EXCEPT !.step = "failJobs"]
          \/ pass' = [pass EXCEPT !.step = "reschedJobs"]
      BY <1>19 DEF Catch
    <3>2. QED
      BY <3>1, PassMoves DEF PassStep, PassError
  <2>4. QED
    BY <1>19, <2>2, <2>3 DEF Catch
<1>20. ASSUME NEW js, NEW st \in JobStatus, JobsBecome(js, st)
       PROVE status' \in [Job -> JobStatus]
  BY <1>20 DEF JobsBecome
<1>21. ASSUME NEW js, NEW st \in ItemStatus, ItemsBecome(js, st)
       PROVE item' \in [Job -> [Key -> ItemStatus]]
  BY <1>21 DEF ItemsBecome
<1>22. ASSUME NEW from \in PassStep, NEW st \in JobStatus, NEW to \in PassStep,
              ResolveJobs(from, st, to)
       PROVE TypeOK'
  BY <1>22, <1>20 DEF ResolveJobs, Passes
<1>23. ASSUME NEW from \in PassStep, NEW st \in ItemStatus, ResolveItems(from, st)
       PROVE TypeOK'
  BY <1>23, <1>21 DEF ResolveItems, Passes, PassStep, PassError
<1>24. CASE CompleteJobs \/ RescheduleJobs \/ FailJobs
  BY <1>24, <1>22 DEF CompleteJobs, RescheduleJobs, FailJobs, PassStep, JobStatus, JobActive
<1>25. CASE CompleteItems \/ RescheduleItems \/ FailItems
  BY <1>25, <1>23 DEF CompleteItems, RescheduleItems, FailItems, PassStep, ItemStatus, ItemActive
<1>26. ASSUME NEW d \in drops, Drop(d) PROVE TypeOK'
  <2>1. status' \in [Job -> JobStatus]
    BY <1>26, <1>20 DEF Drop, JobStatus
  <2>2. item' \in [Job -> [Key -> ItemStatus]]
    BY <1>26, <1>21 DEF Drop, ItemStatus
  <2>3. drops' \subseteq Drops
    BY <1>26 DEF Drop, Drops
  <2>4. QED
    BY <1>26, <2>1, <2>2, <2>3 DEF Drop
<1>27. CASE TryFails
  <2>1. pass' \in Passes
    BY <1>27 DEF TryFails, Passes, PassStep, PassError
  <2>2. item' \in [Job -> [Key -> ItemStatus]]
    BY <1>27, <1>21 DEF TryFails, ItemStatus
  <2>3. QED
    BY <1>27, <2>1, <2>2 DEF TryFails, Fault
<1>28. CASE PassFails
  BY <1>28 DEF PassFails, Fault, Passes, PassStep, PassError, IdlePass, NoPlan
<1>29. CASE Crash
  <2>1. IdlePass \in Passes
    BY DEF IdlePass, Passes, NoPlan, PassStep, PassError
  <2>2. cmd' \in [Job -> CmdStage]
    BY <1>29 DEF Crash, CmdStage
  <2>3. pass' \in Passes /\ drops' \subseteq Drops
    BY <1>29, <2>1 DEF Crash
  <2>4. cooldown' \in BOOLEAN /\ timer' \in BOOLEAN
    BY <1>29 DEF Crash
  <2>5. faults' \in Nat
    BY <1>29 DEF Crash, Fault
  <2>6. UNCHANGED <<asks, follows, sees, older, status, item, attempts, ahead, ready, row, wb>>
    BY <1>29 DEF Crash
  <2>7. QED
    BY <2>2, <2>3, <2>4, <2>5, <2>6
<1>30. ASSUME NEW j \in Job, CommandFails(j) PROVE TypeOK'
  BY <1>30 DEF CommandFails, Fault, CmdStage
<1>31. CASE UNCHANGED vars
  BY <1>31 DEF vars
<1>32. CASE PassWork
  BY <1>32, <1>10, <1>11, <1>12, <1>13, <1>15, <1>16, <1>17, <1>18, <1>19, <1>24, <1>25
     DEF PassWork
<1>33. QED
  BY <1>1, <1>2, <1>3, <1>4, <1>5, <1>6, <1>7, <1>8, <1>9, <1>26, <1>27, <1>28, <1>29,
     <1>30, <1>31, <1>32 DEF Next, Command, Clock, Failure

\* Type correctness of the queue.
THEOREM TypeCorrect == Spec => []TypeOK
  BY InitTypeOK, StepTypeOK, PTL DEF Spec

-----------------------------------------------------------------------------
(* A confirmed row is live. *)

\* WB is trusted to use the bids it accepts, or the readback always tells.
WbTrusted == "ignored" \notin WbOutcomes
WbChecked == ReadbackMode = "enforce" /\ ~ReadbackFails

\* WB uses the planned bids of ks.
Applied(ks) == \A k \in ks : wb[k] = pass.plan[k]

\* ConfirmedIsLive, but for the rows of T; T is empty unless somebody else
\* writes rows, see BidRefreshProofs.
ConfirmedBut(T) == \A k \in Key \ T : row[k].status = "confirmed" => wb[k] = row[k].job

\* Only rows that were written leave T, and become those of U.
OnlyWritten(T, U) == \A k \in T \ U : row'[k] # row[k]

\* What the pass knows of WB at each step, and that the rows it is about to
\* send are not shown as confirmed meanwhile.
ConfirmedInv(T) ==
  /\ ConfirmedBut(T)
  /\ pass.unsent \subseteq pass.keys
  /\ pass.step = "mark" => pass.unsent = pass.keys
  /\ pass.step = "send" => \A k \in pass.keys \ T : row[k].status # "confirmed"
  /\ pass.step = "send" /\ WbTrusted => Applied(pass.keys \ pass.unsent)
  /\ pass.step = "verify" /\ WbTrusted => Applied(pass.keys)
  /\ pass.step = "confirm" => Applied(pass.keys)


LEMMA InitConfirmed == Init => ConfirmedInv({})
  BY DEF Init, ConfirmedInv, ConfirmedBut, IdlePass

\* Steps of others that leave WB alone and write rows as waiting.
LEMMA OthersConfirmed ==
  ASSUME NEW T, NEW U, OnlyWritten(T, U), TypeOK, ConfirmedInv(T), wb' = wb, pass' = pass,
         \A k \in Key : row'[k] = row[k] \/ row'[k].status # "confirmed"
  PROVE  ConfirmedInv(U)'
  BY DEF TypeOK, ConfirmedInv, ConfirmedBut, OnlyWritten, Applied, Passes

\* What writing the rows of a batch leaves.
LEMMA RowsWritten ==
  ASSUME NEW st, WriteRows(st), NEW k \in Key
  PROVE  /\ k \in pass.keys => row'[k].job = pass.plan[k] /\ row'[k].status = st
         /\ k \notin pass.keys => row'[k] = row[k]
<1>1. row' = [l \in Key |-> IF l \in pass.keys THEN [job |-> pass.plan[l], status |-> st]
                                             ELSE row[l]]
  BY DEF WriteRows
<1>2. CASE k \in pass.keys
  <2>1. row'[k] = [job |-> pass.plan[k], status |-> st]
    BY <1>1, <1>2
  <2>2. QED
    BY <1>2, <2>1
<1>3. CASE k \notin pass.keys
  BY <1>1, <1>3
<1>4. QED
  BY <1>2, <1>3

\* Every step keeps what the pass knows of WB.
LEMMA StepConfirmed ==
  ASSUME NEW T, NEW U, OnlyWritten(T, U), WbTrusted \/ WbChecked, TypeOK, ConfirmedInv(T), [Next]_vars
  PROVE  ConfirmedInv(U)'
<1> USE DEF TypeOK
<1>1. ASSUME UNCHANGED <<row, wb>>,
             pass'.step \in {"idle", "claim", "pick", "mark", "completeItems", "catch",
                             "reschedJobs", "reschedItems", "failJobs", "failItems"},
             pass'.unsent \subseteq pass'.keys,
             pass'.step = "mark" => pass'.unsent = pass'.keys
      PROVE  ConfirmedInv(U)'
  BY <1>1 DEF ConfirmedInv, ConfirmedBut, OnlyWritten
<1>2. ASSUME NEW j \in Job, Command(j) PROVE ConfirmedInv(U)'
  <2>1. CASE \E K \in Requests : Desire(j, K)
    <3>1. /\ wb' = wb /\ pass' = pass
          /\ \A k \in Key : row'[k] = row[k] \/ row'[k].status # "confirmed"
      BY <2>1 DEF Desire
    <3>2. QED
      BY <3>1, OthersConfirmed
  <2>2. CASE Stamp(j) \/ Open(j) \/ Accept(j)
    BY <2>2, OthersConfirmed DEF Stamp, Open, Accept
  <2>3. QED
    BY <1>2, <2>1, <2>2 DEF Command
<1>3. CASE Clock
  BY <1>3, OthersConfirmed DEF Clock, Due, Age, CooldownEnds
<1>4. CASE TimerFires \/ CronTick
  <2>1. pass' \in {pass, [pass EXCEPT !.step = "claim"]} /\ UNCHANGED <<row, wb>>
    BY <1>4 DEF TimerFires, CronTick
  <2>2. CASE pass' = [pass EXCEPT !.step = "claim"]
    <3>1. pass'.step = "claim" /\ pass'.unsent = pass.unsent /\ pass'.keys = pass.keys
      BY <2>2 DEF Passes
    <3>2. QED
      BY <1>1, <2>1, <3>1 DEF ConfirmedInv
  <2>3. QED
    BY <2>1, <2>2, OthersConfirmed
<1>5. ASSUME NEW C \in SUBSET Job, NEW plan \in [Key -> Job \union {None}], Claim(C, plan)
      PROVE ConfirmedInv(U)'
  BY <1>1, <1>5 DEF Claim, IdlePass
<1>6. CASE Drained \/ NextRound
  <2>1. pass' = IdlePass \/ pass' = [IdlePass EXCEPT !.step = "claim"]
    BY <1>6 DEF Drained, NextRound
  <2>2. pass'.step \in {"idle", "claim"} /\ pass'.unsent = {} /\ pass'.keys = {}
    <3>1. CASE pass' = IdlePass
      BY <3>1 DEF IdlePass
    <3>2. CASE pass' = [IdlePass EXCEPT !.step = "claim"]
      BY <3>2 DEF IdlePass
    <3>3. QED
      BY <2>1, <3>1, <3>2
  <2>3. QED
    BY <1>1, <1>6, <2>2 DEF Drained, NextRound
<1>7. ASSUME NEW gs \in SUBSET Group, Pick(gs) PROVE ConfirmedInv(U)'
  <2>1. pass'.step = "mark" /\ pass'.unsent = pass'.keys
    BY <1>7 DEF Pick, Passes
  <2>2. QED
    BY <1>1, <1>7, <2>1 DEF Pick
<1>8. CASE Mark
  <2>1. pass' = [pass EXCEPT !.step = "send"] /\ pass.unsent = pass.keys /\ wb' = wb
    BY <1>8 DEF Mark, ConfirmedInv
  <2>2. \A k \in Key : IF k \in pass.keys THEN row'[k].status = "sending" ELSE row'[k] = row[k]
    BY <1>8, RowsWritten DEF Mark
  <2>3. pass'.step = "send" /\ pass'.keys = pass.keys /\ pass'.unsent = pass.unsent
        /\ pass.keys \subseteq Key
    BY <2>1 DEF Passes
  <2>4. ConfirmedBut(U)' /\ \A k \in pass.keys : row'[k].status # "confirmed"
    BY <2>1, <2>2, <2>3 DEF ConfirmedInv, ConfirmedBut, OnlyWritten
  <2>5. QED
    BY <2>1, <2>3, <2>4 DEF ConfirmedInv, Applied
<1>9. ASSUME NEW chunk \in SUBSET Key, NEW outcome \in WbOutcomes, Send(chunk, outcome)
      PROVE ConfirmedInv(U)'
  <2> DEFINE left == pass.unsent \ chunk
  <2>1. /\ pass.step = "send" /\ chunk \subseteq pass.unsent /\ pass.unsent \subseteq pass.keys
        /\ pass.keys \subseteq Key /\ row' = row
    BY <1>9 DEF Send, ConfirmedInv, Passes
  <2>2. \A k \in Key : wb'[k] = IF k \in chunk /\ outcome \in {"accepted", "lost"}
                                  THEN pass.plan[k] ELSE wb[k]
    BY <1>9 DEF Send
  <2>3. ConfirmedBut(U)'
    BY <2>1, <2>2 DEF ConfirmedInv, ConfirmedBut, OnlyWritten
  <2>4. CASE ErrorOf(outcome) # "none"
    <3>1. pass'.step = "catch" /\ pass'.unsent = pass.unsent /\ pass'.keys = pass.keys
      BY <1>9, <2>4 DEF Send, Passes
    <3>2. QED
      BY <2>1, <2>3, <3>1 DEF ConfirmedInv
  <2>5. CASE ErrorOf(outcome) = "none"
    <3>1. /\ pass'.step = IF left = {} THEN "verify" ELSE "send"
          /\ pass'.unsent = left /\ pass'.keys = pass.keys /\ pass'.plan = pass.plan
      BY <1>9, <2>5 DEF Send, Passes
    <3>2. WbTrusted => outcome = "accepted"
      BY <2>5, BidQueueAssumption DEF ErrorOf, WbTrusted
    <3>3. WbTrusted => \A k \in pass.keys \ left : wb'[k] = pass.plan[k]
      BY <2>1, <2>2, <3>2 DEF ConfirmedInv, Applied
    <3>4. \A k \in pass.keys \ U : row'[k].status # "confirmed"
      BY <2>1 DEF ConfirmedInv, OnlyWritten
    <3>5. QED
      BY <2>1, <2>3, <3>1, <3>3, <3>4 DEF ConfirmedInv, Applied
  <2>6. QED
    BY <2>4, <2>5
<1>10. CASE Verify
  <2>1. CASE pass' = [pass EXCEPT !.step = "catch", !.error = "recoverable"]
    <3>1. pass'.step = "catch" /\ pass'.unsent = pass.unsent /\ pass'.keys = pass.keys
      BY <2>1 DEF Passes
    <3>2. QED
      BY <1>1, <1>10, <3>1 DEF Verify, ConfirmedInv
  <2>2. CASE /\ ReadbackMode # "enforce" \/ ReadbackFails \/ ~Mismatch
             /\ pass' = [pass EXCEPT !.step = "confirm"]
    <3>1. /\ pass'.step = "confirm" /\ pass'.unsent = pass.unsent /\ pass'.keys = pass.keys
          /\ pass'.plan = pass.plan
      BY <2>2 DEF Passes
    <3>2. pass.step = "verify" /\ UNCHANGED <<row, wb>>
      BY <1>10 DEF Verify
    <3>3. Applied(pass.keys)
      BY <2>2, <3>2 DEF ConfirmedInv, WbChecked, Mismatch, Applied
    <3>4. QED
      BY <3>1, <3>2, <3>3 DEF ConfirmedInv, ConfirmedBut, OnlyWritten, Applied
  <2>3. QED
    BY <1>10, <2>1, <2>2 DEF Verify
<1>11. CASE Confirm
  <2>1. pass.step = "confirm" /\ wb' = wb /\ pass' = [pass EXCEPT !.step = "completeJobs"]
    BY <1>11 DEF Confirm
  <2>2. \A k \in Key : IF k \in pass.keys THEN row'[k].job = pass.plan[k] ELSE row'[k] = row[k]
    BY <1>11, RowsWritten DEF Confirm
  <2>3. ConfirmedBut(U)'
    BY <2>1, <2>2 DEF ConfirmedInv, ConfirmedBut, OnlyWritten, Applied
  <2>4. pass'.step = "completeJobs" /\ pass'.unsent = pass.unsent /\ pass'.keys = pass.keys
    BY <2>1 DEF Passes
  <2>5. QED
    BY <2>3, <2>4 DEF ConfirmedInv
<1>12. CASE Catch
  <2>1. PICK st \in {"failed", "throttled", "pending"} : WriteRows(st)
    BY <1>12 DEF Catch
  <2>2. \A k \in Key : row'[k] = row[k] \/ row'[k].status # "confirmed"
    BY <2>1 DEF WriteRows
  <2>3. wb' = wb /\ pass'.step \in {"failJobs", "reschedJobs"} /\ pass'.unsent = pass.unsent
        /\ pass'.keys = pass.keys
    <3>1. pass' = [pass EXCEPT !.step = "failJobs"] \/ pass' = [pass EXCEPT !.step = "reschedJobs"]
      BY <1>12 DEF Catch
    <3>2. QED
      BY <1>12, <3>1 DEF Catch, Passes
  <2>4. QED
    BY <2>2, <2>3 DEF ConfirmedInv, ConfirmedBut, OnlyWritten
<1>13. ASSUME NEW from, NEW st, NEW to \in {"completeItems", "reschedItems", "failItems"},
              ResolveJobs(from, st, to)
       PROVE ConfirmedInv(U)'
  <2>1. pass'.step = to /\ pass'.unsent = pass.unsent /\ pass'.keys = pass.keys
    BY <1>13 DEF ResolveJobs, Passes
  <2>2. QED
    BY <1>1, <1>13, <2>1 DEF ResolveJobs, ConfirmedInv
<1>14. ASSUME NEW from, NEW st, ResolveItems(from, st) PROVE ConfirmedInv(U)'
  <2>1. pass'.step = "pick" /\ pass'.unsent = {}
    BY <1>14 DEF ResolveItems, Passes
  <2>2. QED
    BY <1>1, <1>14, <2>1 DEF ResolveItems
<1>15. CASE PassWork
  <2>1. CASE CompleteJobs \/ RescheduleJobs \/ FailJobs
    BY <2>1, <1>13 DEF CompleteJobs, RescheduleJobs, FailJobs
  <2>2. CASE CompleteItems \/ RescheduleItems \/ FailItems
    BY <2>2, <1>14 DEF CompleteItems, RescheduleItems, FailItems
  <2>3. QED
    BY <1>15, <1>5, <1>6, <1>7, <1>8, <1>9, <1>10, <1>11, <1>12, <2>1, <2>2 DEF PassWork
<1>16. ASSUME NEW d \in drops, Drop(d) PROVE ConfirmedInv(U)'
  BY <1>16, OthersConfirmed DEF Drop
<1>17. CASE Failure
  <2>1. CASE TryFails
    <3>1. pass'.step = "catch" /\ pass'.unsent = pass.unsent /\ pass'.keys = pass.keys
      BY <2>1 DEF TryFails, Passes
    <3>2. QED
      BY <1>1, <2>1, <3>1 DEF TryFails, ConfirmedInv
  <2>2. CASE PassFails \/ Crash
    BY <1>1, <2>2 DEF PassFails, Crash, IdlePass
  <2>3. CASE \E j \in Job : CommandFails(j)
    BY <2>3, OthersConfirmed DEF CommandFails
  <2>4. QED
    BY <1>17, <2>1, <2>2, <2>3 DEF Failure
<1>18. CASE UNCHANGED vars
  BY <1>18, OthersConfirmed DEF vars
<1>19. QED
  BY <1>2, <1>3, <1>4, <1>15, <1>16, <1>17, <1>18 DEF Next

\* A row shown as confirmed is the bid WB uses, for any number of clusters,
\* campaigns and commands, if WB uses what it accepts or an enforced readback
\* is always answered.
THEOREM ConfirmedCorrect ==
  ASSUME WbTrusted \/ WbChecked PROVE Spec => []ConfirmedIsLive
<1>1. Init => ConfirmedInv({})
  BY InitConfirmed
<1>2. TypeOK /\ ConfirmedInv({}) /\ [Next]_vars => ConfirmedInv({})'
  BY StepConfirmed DEF OnlyWritten
<1>3. ConfirmedInv({}) => ConfirmedIsLive
  BY DEF ConfirmedInv, ConfirmedBut, ConfirmedIsLive
<1>4. QED
  BY <1>1, <1>2, <1>3, TypeCorrect, PTL DEF Spec

-----------------------------------------------------------------------------
(* The attempts of a job are bounded. *)

\* j may be let go: it is resolved, or it may be claimed once more.
Settled(j) == status[j] \notin JobActive \/ attempts[j] < MaxAttempts + faults

\* A claimed job is held until it is settled, and only a settled job that
\* nobody holds becomes ready again.
AttemptsInv ==
  /\ AttemptsBounded
  /\ \A j \in Job : status[j] = "absent" => attempts[j] = 0
  /\ \A j \in Job : cmd[j] \in {"desired", "stamped", "opened"} => asks[j] # {}
  /\ \A j \in Job : status[j] # "absent" => cmd[j] = "accepted" /\ asks[j] # {}
  /\ \A j \in Held : status[j] # "absent" /\ j \notin ready
  /\ pass.step \in {"idle", "claim"} => pass.claimed = {}
  /\ pass.step \in {"idle", "claim", "pick"} => pass.jobs = {}
  /\ \A j \in Job \ Held : Settled(j)
  /\ pass.step \in {"completeItems", "failItems"} => \A j \in pass.jobs : Settled(j)
  /\ pass.step \in {"reschedJobs", "reschedItems"} => \A j \in pass.jobs : attempts[j] < MaxAttempts
  /\ \A d \in drops : d.step = "items" => \A j \in d.jobs : Settled(j)

LEMMA InitAttempts == Init => AttemptsInv
<1> SUFFICES ASSUME Init PROVE AttemptsInv
  OBVIOUS
<1>1. pass.step = "idle" /\ pass.claimed = {} /\ pass.jobs = {} /\ drops = {} /\ ready = {}
  BY DEF Init, IdlePass
<1>2. \A j \in Job : status[j] = "absent" /\ attempts[j] = 0 /\ cmd[j] = "idle"
  BY DEF Init
<1>3. MaxAttempts \in Nat /\ faults = 0
  BY BidQueueAssumption DEF Init
<1>4. QED
  BY <1>1, <1>2, <1>3 DEF AttemptsInv, AttemptsBounded, Settled, JobActive, Held

\* Only jobs are held.
LEMMA HeldJobs == TypeOK => Held \subseteq Job
  BY DEF TypeOK, Held, Passes, Drops

\* A held job has asked for something, so the claim of its group keeps it.
LEMMA ClaimHolds ==
  ASSUME TypeOK, AttemptsInv, NEW C \in SUBSET Job,
         NEW plan \in [Key -> Job \union {None}], Claim(C, plan)
  PROVE  Held' \ Held \subseteq C /\ C \subseteq Held' /\ Held \subseteq Held'
<1>1. pass'.jobs = {} /\ pass'.claimed = JobsOf(C, Sendable(C, plan))
  BY DEF Claim, IdlePass
<1>2. drops' = drops \union
        {[jobs |-> JobsOf(C, {g}), step |-> "jobs"] : g \in GroupsOf(C) \ Sendable(C, plan)}
  BY DEF Claim
<1>3. pass.claimed = {} /\ pass.jobs = {}
  BY DEF Claim, AttemptsInv
<1>4. Held \subseteq Held'
  BY <1>2, <1>3 DEF Held
<1>5. ASSUME NEW j \in C PROVE j \in Held'
  <2>1. status[j] # "absent" /\ j \in Job
    BY DEF Claim, Claimable, JobActive
  <2>2. PICK k \in asks[j] : k \in Key
    BY <2>1 DEF AttemptsInv, TypeOK
  <2>3. GroupOf[k] \in Group /\ j \in JobsOf(C, {GroupOf[k]})
    BY <2>1, <2>2, BidQueueAssumption DEF JobsOf
  <2>4. CASE GroupOf[k] \in Sendable(C, plan)
    BY <1>1, <2>2, <2>4 DEF JobsOf, Held
  <2>5. CASE GroupOf[k] \notin Sendable(C, plan)
    <3>1. GroupOf[k] \in GroupsOf(C) \ Sendable(C, plan)
      BY <2>3, <2>5 DEF GroupsOf
    <3>2. [jobs |-> JobsOf(C, {GroupOf[k]}), step |-> "jobs"] \in drops'
      BY <1>2, <3>1
    <3>3. QED
      BY <2>3, <3>2 DEF Held
  <2>6. QED
    BY <2>4, <2>5
<1>6. ASSUME NEW j \in Held', j \notin Held PROVE j \in C
  <2>1. CASE j \in pass'.claimed
    BY <1>1, <2>1 DEF JobsOf
  <2>2. CASE \E d \in drops' : j \in d.jobs
    <3>1. PICK d \in drops' : j \in d.jobs
      BY <2>2
    <3>2. d \notin drops
      BY <1>6, <3>1 DEF Held
    <3>3. PICK g \in GroupsOf(C) : d = [jobs |-> JobsOf(C, {g}), step |-> "jobs"]
      BY <1>2, <3>2
    <3>4. d.jobs = JobsOf(C, {g})
      BY <3>3
    <3>5. QED
      BY <3>1, <3>4 DEF JobsOf
  <2>3. QED
    BY <1>1, <1>6, <2>1, <2>2 DEF Held
<1>7. QED
  BY <1>4, <1>5, <1>6

\* Steps that leave the jobs table alone: what they may do to the commands,
\* the pass, the ready jobs and the jobs they let go.
LEMMA KeepsAttempts ==
  ASSUME TypeOK, TypeOK', AttemptsInv, UNCHANGED <<status, attempts>>, faults' >= faults,
         drops' \subseteq drops,
         \A j \in Job : cmd[j] = "accepted" => cmd'[j] = "accepted" /\ asks'[j] = asks[j],
         \A j \in Job : cmd'[j] \in {"desired", "stamped", "opened"} => asks'[j] # {},
         Held' \subseteq Held,
         \A j \in Held \ Held' : Settled(j)',
         \A j \in ready' \ ready : j \notin Held,
         pass'.step \in {"idle", "claim"} => pass'.claimed = {},
         pass'.step \in {"idle", "claim", "pick"} => pass'.jobs = {},
         pass'.step \in {"completeItems", "failItems"} => \A j \in pass'.jobs : Settled(j)',
         pass'.step \in {"reschedJobs", "reschedItems"} =>
           \A j \in pass'.jobs : attempts[j] < MaxAttempts
  PROVE  AttemptsInv'
<1>1. MaxAttempts \in Nat /\ faults \in Nat /\ faults' \in Nat
  BY BidQueueAssumption DEF TypeOK
<1>2. \A j \in Job : attempts[j] \in Nat /\ (Settled(j) => Settled(j)')
  BY <1>1 DEF TypeOK, Settled
<1>3. AttemptsBounded'
  BY <1>1, <1>2 DEF AttemptsInv, AttemptsBounded
<1>4. \A j \in Job \ Held' : Settled(j)'
  BY <1>2 DEF AttemptsInv
<1>5. \A d \in drops' : d.step = "items" => \A j \in d.jobs : Settled(j)'
  BY <1>2 DEF AttemptsInv, TypeOK, Drops
<1>6. QED
  BY <1>3, <1>4, <1>5 DEF AttemptsInv

\* The same for the steps of the pass that only move it on, without a fault.
LEMMA MovesAttempts ==
  ASSUME TypeOK, TypeOK', AttemptsInv, NEW s \in PassStep, pass' = [pass EXCEPT !.step = s],
         UNCHANGED <<cmd, asks, status, attempts, ready, drops, faults>>,
         s = "pick" => pass.jobs = {},
         s \in {"idle", "claim"} => pass.jobs = {} /\ pass.claimed = {},
         s \notin {"completeItems", "failItems", "reschedItems"},
         s = "reschedJobs" => \A j \in pass.jobs : attempts[j] < MaxAttempts
  PROVE  AttemptsInv'
<1>1. pass'.step = s /\ pass'.jobs = pass.jobs /\ pass'.claimed = pass.claimed
  BY DEF TypeOK, Passes
<1>2. Held' = Held
  BY <1>1 DEF Held
<1>3. faults' >= faults
  BY DEF TypeOK
<1>4. \A j \in Job : cmd[j] \in {"desired", "stamped", "opened"} => asks[j] # {}
  BY DEF AttemptsInv
<1>5. QED
  BY <1>1, <1>2, <1>3, <1>4, KeepsAttempts

\* A command that commits its job.
LEMMA AcceptAttempts ==
  ASSUME TypeOK, TypeOK', AttemptsInv, NEW j \in Job, Accept(j) PROVE AttemptsInv'
<1>1. /\ cmd[j] = "opened" /\ cmd' = [cmd EXCEPT ![j] = "accepted"] /\ asks' = asks
      /\ attempts' = attempts /\ faults' = faults /\ pass' = pass /\ drops' = drops
      /\ ready' = ready \union {j}
  BY DEF Accept
<1>2. status[j] = "absent" /\ attempts[j] = 0 /\ asks[j] # {} /\ j \notin Held
  BY <1>1 DEF AttemptsInv
<1>3. Held' = Held
  BY <1>1 DEF Held
<1>4. ASSUME NEW i \in Job
      PROVE  /\ status'[i] = IF i = j THEN "queued"
                             ELSE IF i \in Rivals(j) /\ \A k \in Key : Superseded(j)[i][k] \notin ItemActive
                               THEN "failed" ELSE status[i]
             /\ Settled(i) \/ i = j => Settled(i)'
  <2>1. status'[i] = IF i = j THEN "queued"
                     ELSE IF i \in Rivals(j) /\ \A k \in Key : Superseded(j)[i][k] \notin ItemActive
                       THEN "failed" ELSE status[i]
    BY DEF Accept
  <2>2. CASE i = j
    <3>1. 0 < MaxAttempts + faults
      BY BidQueueAssumption DEF TypeOK
    <3>2. attempts'[i] < MaxAttempts + faults'
      BY <1>1, <1>2, <2>2, <3>1
    <3>3. QED
      BY <2>1, <3>2 DEF Settled
  <2>3. CASE i # j
    BY <1>1, <2>1, <2>3 DEF Settled, JobActive
  <2>4. QED
    BY <2>1, <2>2, <2>3
<1>5. ASSUME NEW i \in Job, i # j PROVE status'[i] = status[i] \/ (status[i] # "absent" /\ status'[i] = "failed")
  <2>1. i \in Rivals(j) => status[i] \in JobActive
    BY DEF Rivals
  <2>2. status'[i] = status[i] \/ (i \in Rivals(j) /\ status'[i] = "failed")
    <3>1. status'[i] = IF i \in Rivals(j) /\ \A k \in Key : Superseded(j)[i][k] \notin ItemActive
                         THEN "failed" ELSE status[i]
      BY <1>5 DEF Accept
    <3>2. QED
      BY <3>1
  <2>3. QED
    BY <2>1, <2>2 DEF JobActive
<1>6. \A i \in Job : status'[i] = "absent" => attempts'[i] = 0
  BY <1>1, <1>4, <1>5 DEF AttemptsInv
<1>7. \A i \in Job : status'[i] # "absent" => cmd'[i] = "accepted" /\ asks'[i] # {}
  BY <1>1, <1>2, <1>5 DEF AttemptsInv, TypeOK
<1>8. \A i \in Job : cmd'[i] \in {"desired", "stamped", "opened"} => asks'[i] # {}
  BY <1>1 DEF AttemptsInv, TypeOK
<1>9. \A i \in Held' : status'[i] # "absent" /\ i \notin ready'
  BY <1>1, <1>2, <1>3, <1>5, HeldJobs DEF AttemptsInv
<1>10. \A i \in Job \ Held' : Settled(i)'
  BY <1>3, <1>4 DEF AttemptsInv
<1>11. \A i \in Job : Settled(i) => Settled(i)'
  BY <1>4
<1>12. pass.jobs \subseteq Job /\ \A d \in drops : d.jobs \subseteq Job
  BY DEF TypeOK, Passes, Drops
<1>13. QED
  BY <1>1, <1>6, <1>7, <1>8, <1>9, <1>10, <1>11, <1>12 DEF AttemptsInv, AttemptsBounded

\* A round of claims.
LEMMA ClaimAttempts ==
  ASSUME TypeOK, TypeOK', AttemptsInv, NEW C \in SUBSET Job,
         NEW plan \in [Key -> Job \union {None}], Claim(C, plan)
  PROVE  AttemptsInv'
<1>1. /\ cmd' = cmd /\ asks' = asks /\ faults' = faults /\ ready' = ready \ C
      /\ C \subseteq ready /\ pass.step = "claim"
      /\ \A j \in C : status[j] \in JobActive
      /\ \A j \in Job : status'[j] = IF j \in C THEN "running" ELSE status[j]
      /\ \A j \in Job : attempts'[j] = IF j \in C THEN attempts[j] + 1 ELSE attempts[j]
  BY DEF Claim, Claimable, cmdVars
<1>2. pass'.step = "pick" /\ pass'.jobs = {}
  BY DEF Claim, IdlePass
<1>3. Held' \ Held \subseteq C /\ C \subseteq Held' /\ Held \subseteq Held'
  BY ClaimHolds
<1>4. \A j \in C : j \notin Held /\ Settled(j) /\ status[j] \in JobActive
  BY <1>1 DEF AttemptsInv
<1>5. AttemptsBounded'
  <2>1. ASSUME NEW j \in Job PROVE attempts'[j] <= MaxAttempts + faults'
    <3>1. attempts[j] \in Nat /\ MaxAttempts \in Nat /\ faults \in Nat
      BY BidQueueAssumption DEF TypeOK
    <3>2. attempts[j] <= MaxAttempts + faults /\ (j \in C => attempts[j] < MaxAttempts + faults)
      BY <1>4 DEF AttemptsInv, AttemptsBounded, Settled
    <3>3. (attempts'[j] = attempts[j] + 1 /\ j \in C) \/ attempts'[j] = attempts[j]
      BY <1>1
    <3>4. QED
      BY <1>1, <3>1, <3>2, <3>3
  <2>2. QED
    BY <2>1 DEF AttemptsBounded
<1>6. \A j \in Job : j \notin C => (Settled(j) => Settled(j)')
  BY <1>1 DEF Settled
<1>7. \A j \in Job \ Held' : Settled(j)'
  BY <1>3, <1>6 DEF AttemptsInv
<1>8. \A j \in Job : status'[j] = "absent" => attempts'[j] = 0
  BY <1>1 DEF AttemptsInv
<1>9. \A j \in Job : status'[j] # "absent" => cmd'[j] = "accepted" /\ asks'[j] # {}
  BY <1>1 DEF AttemptsInv, JobActive
<1>10. \A j \in Held' : status'[j] # "absent" /\ j \notin ready'
  BY <1>1, <1>3, HeldJobs DEF AttemptsInv
<1>11. ASSUME NEW d \in drops', d.step = "items", NEW j \in d.jobs PROVE Settled(j)'
  <2>1. d \in drops
    <3>1. d \in drops \/ \E g \in GroupsOf(C) \ Sendable(C, plan) :
                           d = [jobs |-> JobsOf(C, {g}), step |-> "jobs"]
      <4>1. drops' = drops \union
              {[jobs |-> JobsOf(C, {g}), step |-> "jobs"] : g \in GroupsOf(C) \ Sendable(C, plan)}
        BY DEF Claim
      <4>2. QED
        BY <1>11, <4>1
    <3>2. ASSUME NEW g, d = [jobs |-> JobsOf(C, {g}), step |-> "jobs"] PROVE d.step = "jobs"
      BY <3>2
    <3>3. QED
      BY <1>11, <3>1, <3>2
  <2>2. j \in Held /\ j \in Job /\ Settled(j)
    BY <1>11, <2>1 DEF AttemptsInv, Held, TypeOK, Drops
  <2>3. QED
    BY <1>4, <1>6, <2>2
<1>12. QED
  BY <1>1, <1>2, <1>5, <1>7, <1>8, <1>9, <1>10, <1>11 DEF AttemptsInv

\* The first query of a resolution, by the pass or in the background: js are
\* held and stay held, and st either resolves them or leaves them attempts.
LEMMA ResolveAttempts ==
  ASSUME TypeOK, TypeOK', AttemptsInv, NEW js \in SUBSET Held, NEW st \in JobStatus \ {"absent"},
         JobsBecome(js, st), UNCHANGED <<cmd, asks, attempts, ready, faults>>,
         st \in JobActive => \A j \in js : attempts[j] < MaxAttempts,
         Held' = Held,
         pass'.step \in {"idle", "claim"} => pass'.claimed = {},
         pass'.step \in {"idle", "claim", "pick"} => pass'.jobs = {},
         pass'.step \in {"completeItems", "failItems"} => \A j \in pass'.jobs : Settled(j)',
         pass'.step \in {"reschedJobs", "reschedItems"} =>
           \A j \in pass'.jobs : attempts[j] < MaxAttempts,
         \A d \in drops' : d.step = "items" => d \in drops \/ d.jobs \subseteq js
  PROVE  AttemptsInv'
<1>1. MaxAttempts \in Nat /\ faults \in Nat /\ \A j \in Job : attempts[j] \in Nat
  BY BidQueueAssumption DEF TypeOK
<1>2. \A j \in Job : status'[j] = IF j \in js THEN st ELSE status[j]
  BY DEF JobsBecome
<1>3. js \subseteq Job
  BY HeldJobs
<1>4. \A j \in js : Settled(j)'
  BY <1>1, <1>2, <1>3 DEF Settled
<1>5. \A j \in Job : Settled(j) => Settled(j)'
  BY <1>2, <1>4 DEF Settled
<1>6. \A j \in Job : status'[j] = "absent" => attempts'[j] = 0
  BY <1>2 DEF AttemptsInv
<1>7. \A j \in Job : status'[j] # "absent" => cmd'[j] = "accepted" /\ asks'[j] # {}
  BY <1>2 DEF AttemptsInv
<1>8. \A j \in Held' : status'[j] # "absent" /\ j \notin ready'
  BY <1>2, HeldJobs DEF AttemptsInv
<1>9. \A j \in Job \ Held' : Settled(j)'
  BY <1>5 DEF AttemptsInv
<1>10. \A d \in drops' : d.step = "items" => \A j \in d.jobs : Settled(j)'
  BY <1>4, <1>5 DEF AttemptsInv, TypeOK, Drops
<1>11. QED
  BY <1>6, <1>7, <1>8, <1>9, <1>10 DEF AttemptsInv, AttemptsBounded

\* The second query of a resolution lets the batch go.
LEMMA ReleaseAttempts ==
  ASSUME TypeOK, TypeOK', AttemptsInv, NEW from \in {"completeItems", "failItems", "reschedItems"},
         NEW st, ResolveItems(from, st)
  PROVE  AttemptsInv'
<1>1. /\ pass.step = from /\ drops' = drops /\ faults' = faults /\ ready' = ready
      /\ UNCHANGED <<cmd, asks, status, attempts>>
  BY DEF ResolveItems, cmdVars
<1>2. pass'.step = "pick" /\ pass'.jobs = {} /\ pass'.claimed = pass.claimed
  BY DEF ResolveItems, TypeOK, Passes
<1>3. Held' \subseteq Held /\ Held \ Held' \subseteq pass.jobs
  BY <1>1, <1>2 DEF Held
<1>4. MaxAttempts \in Nat /\ faults \in Nat /\ \A j \in Job : attempts[j] \in Nat
  BY BidQueueAssumption DEF TypeOK
<1>5. \A j \in pass.jobs : j \in Job /\ Settled(j)
  BY <1>1, <1>4 DEF AttemptsInv, Settled, TypeOK, Passes
<1>6. \A j \in pass.jobs : Settled(j)'
  BY <1>1, <1>5 DEF Settled
<1>7. faults' >= faults
  BY <1>1, <1>4
<1>8. \A j \in Job : cmd'[j] \in {"desired", "stamped", "opened"} => asks'[j] # {}
  BY <1>1 DEF AttemptsInv
<1>9. QED
  BY <1>1, <1>2, <1>3, <1>6, <1>7, <1>8, KeepsAttempts

\* A failure that ends the pass and the background statements lets every job
\* go, each with one attempt to spare.
LEMMA ForgetAttempts ==
  ASSUME TypeOK, TypeOK', AttemptsInv, pass' = IdlePass, drops' \subseteq drops,
         faults' = faults + 1, UNCHANGED <<asks, status, attempts, ready>>,
         \A j \in Job : cmd'[j] = cmd[j] \/ (cmd[j] # "accepted" /\ cmd'[j] = "lost")
  PROVE  AttemptsInv'
<1>1. pass'.step = "idle" /\ pass'.jobs = {} /\ pass'.claimed = {}
  BY DEF IdlePass
<1>2. Held' \subseteq Held
  BY <1>1 DEF Held
<1>3. ASSUME NEW j \in Job PROVE Settled(j)'
  <2>1. attempts[j] \in Nat /\ MaxAttempts \in Nat /\ faults \in Nat
    BY BidQueueAssumption DEF TypeOK
  <2>2. attempts[j] <= MaxAttempts + faults
    BY DEF AttemptsInv, AttemptsBounded
  <2>3. QED
    BY <2>1, <2>2 DEF Settled
<1>4. faults' >= faults
  BY DEF TypeOK
<1>5. \A j \in Job : cmd'[j] \in {"desired", "stamped", "opened"} => asks'[j] # {}
  BY DEF AttemptsInv
<1>6. Held \subseteq Job
  BY HeldJobs
<1>7. QED
  BY <1>1, <1>2, <1>3, <1>4, <1>5, <1>6, KeepsAttempts

\* Every step keeps the attempts in bounds.
LEMMA StepAttempts ==
  ASSUME TypeOK, TypeOK', AttemptsInv, [Next]_vars PROVE AttemptsInv'
<1>1. faults \in Nat /\ faults >= faults
  BY DEF TypeOK
<1>2. \A j \in Job : cmd[j] \in {"desired", "stamped", "opened"} => asks[j] # {}
  BY DEF AttemptsInv
<1>3. ASSUME UNCHANGED <<status, attempts, pass, drops, faults>>,
             \A j \in ready' \ ready : j \notin Held,
             \A j \in Job : cmd[j] = "accepted" => cmd'[j] = "accepted" /\ asks'[j] = asks[j],
             \A j \in Job : cmd'[j] \in {"desired", "stamped", "opened"} => asks'[j] # {}
      PROVE  AttemptsInv'
  <2>1. Held' = Held
    BY <1>3 DEF Held
  <2>2. AttemptsInv /\ UNCHANGED pass
    BY <1>3
  <2>3. \A j \in Job : Settled(j)' <=> Settled(j)
    BY <1>3 DEF Settled
  <2>4. pass.jobs \subseteq Job
    BY DEF TypeOK, Passes
  <2>5. QED
    BY <1>1, <1>3, <2>1, <2>2, <2>3, <2>4, KeepsAttempts DEF AttemptsInv
<1>4. ASSUME NEW j \in Job, Command(j) PROVE AttemptsInv'
  <2>1. ASSUME NEW K \in Requests, Desire(j, K) PROVE AttemptsInv'
    <3>1. K # {} /\ cmd[j] = "idle"
      BY <2>1, BidQueueAssumption DEF Desire
    <3>2. /\ cmd' = [cmd EXCEPT ![j] = "desired"] /\ asks' = [asks EXCEPT ![j] = K]
          /\ UNCHANGED <<status, attempts, pass, drops, faults, ready>>
      BY <2>1 DEF Desire, jobVars
    <3>3. \A i \in Job : cmd[i] = "accepted" => cmd'[i] = "accepted" /\ asks'[i] = asks[i]
      BY <3>1, <3>2 DEF TypeOK
    <3>4. \A i \in Job : cmd'[i] \in {"desired", "stamped", "opened"} => asks'[i] # {}
      BY <1>2, <3>1, <3>2 DEF TypeOK
    <3>5. QED
      BY <1>3, <3>2, <3>3, <3>4
  <2>2. CASE Stamp(j) \/ Open(j)
    <3>1. /\ cmd[j] \in {"desired", "stamped"} /\ UNCHANGED <<asks, status, attempts, pass, drops, faults, ready>>
          /\ \E c \in {"stamped", "opened"} : cmd' = [cmd EXCEPT ![j] = c]
      BY <2>2 DEF Stamp, Open, jobVars
    <3>2. \A i \in Job : cmd[i] = "accepted" => cmd'[i] = "accepted"
      BY <3>1 DEF TypeOK
    <3>3. \A i \in Job : cmd'[i] \in {"desired", "stamped", "opened"} => asks'[i] # {}
      BY <1>2, <3>1 DEF TypeOK
    <3>4. QED
      BY <1>3, <3>1, <3>2, <3>3
  <2>3. QED
    BY <1>4, <2>1, <2>2, AcceptAttempts DEF Command
<1>5. CASE Clock
  <2>1. ASSUME NEW j \in Job, Due(j) \/ Age(j) PROVE AttemptsInv'
    <3>1. /\ UNCHANGED <<cmd, asks, status, attempts, pass, drops, faults>>
          /\ ready' = ready \union {j} /\ j \notin Held
      BY <2>1 DEF Due, Age, cmdVars, jobVars
    <3>2. QED
      BY <1>2, <1>3, <3>1
  <2>2. CASE CooldownEnds
    BY <1>2, <1>3, <2>2 DEF CooldownEnds, cmdVars, jobVars
  <2>3. QED
    BY <1>5, <2>1, <2>2 DEF Clock
<1>6. CASE TimerFires \/ CronTick
  <2>1. UNCHANGED <<cmd, asks, status, attempts, ready, drops, faults>>
    BY <1>6 DEF TimerFires, CronTick, cmdVars, jobVars
  <2>2. pass' = pass \/ (pass.step = "idle" /\ pass' = [pass EXCEPT !.step = "claim"])
    BY <1>6 DEF TimerFires, CronTick
  <2>3. pass.step = "idle" => pass.jobs = {} /\ pass.claimed = {}
    BY DEF AttemptsInv
  <2>4. CASE pass' = pass
    BY <1>2, <1>3, <2>1, <2>4
  <2>5. CASE pass.step = "idle" /\ pass' = [pass EXCEPT !.step = "claim"]
    BY <2>1, <2>3, <2>5, MovesAttempts DEF PassStep
  <2>6. QED
    BY <2>2, <2>4, <2>5
<1>7. CASE Drained \/ NextRound
  <2>1. UNCHANGED <<cmd, asks, status, attempts, ready, drops, faults>>
    BY <1>7 DEF Drained, NextRound, cmdVars, jobVars
  <2>2. pass.jobs = {} /\ pass.claimed = {}
    BY <1>7 DEF Drained, NextRound, AttemptsInv
  <2>3. pass'.step \in {"idle", "claim"} /\ pass'.jobs = {} /\ pass'.claimed = {}
    <3>1. CASE pass' = IdlePass
      BY <3>1 DEF IdlePass
    <3>2. CASE pass' = [IdlePass EXCEPT !.step = "claim"]
      BY <3>2 DEF IdlePass
    <3>3. QED
      BY <1>7, <3>1, <3>2 DEF Drained, NextRound
  <2>4. Held' = Held
    BY <2>1, <2>2, <2>3 DEF Held
  <2>5. QED
    BY <1>1, <1>2, <2>1, <2>3, <2>4, KeepsAttempts
<1>8. ASSUME NEW gs \in SUBSET Group, Pick(gs) PROVE AttemptsInv'
  <2>1. UNCHANGED <<cmd, asks, status, attempts, ready, drops, faults>> /\ pass.step = "pick"
    BY <1>8 DEF Pick, cmdVars, jobVars
  <2>2. pass'.step = "mark" /\ pass'.jobs = JobsOf(pass.claimed, gs)
        /\ pass'.claimed = pass.claimed \ JobsOf(pass.claimed, gs)
    BY <1>8 DEF Pick, TypeOK, Passes
  <2>3. pass.jobs = {} /\ JobsOf(pass.claimed, gs) \subseteq pass.claimed
    BY <2>1 DEF AttemptsInv, JobsOf
  <2>4. Held' = Held
    BY <2>1, <2>2, <2>3 DEF Held
  <2>5. QED
    BY <1>1, <1>2, <2>1, <2>2, <2>4, KeepsAttempts
<1>9. CASE Mark \/ Verify \/ Confirm
  <2>1. UNCHANGED <<cmd, asks, status, attempts, ready, drops, faults>>
    BY <1>9 DEF Mark, Verify, Confirm, cmdVars, jobVars
  <2>2. pass'.step \in {"send", "catch", "confirm", "completeJobs"}
        /\ pass'.jobs = pass.jobs /\ pass'.claimed = pass.claimed
    <3>1. CASE Mark \/ Confirm
      BY <3>1 DEF Mark, Confirm, TypeOK, Passes
    <3>2. CASE Verify
      BY <3>2 DEF Verify, TypeOK, Passes
    <3>3. QED
      BY <1>9, <3>1, <3>2
  <2>3. Held' = Held
    BY <2>1, <2>2 DEF Held
  <2>4. QED
    BY <1>1, <1>2, <2>1, <2>2, <2>3, KeepsAttempts
<1>10. ASSUME NEW chunk \in SUBSET Key, NEW outcome \in WbOutcomes, Send(chunk, outcome)
       PROVE AttemptsInv'
  <2>1. UNCHANGED <<cmd, asks, status, attempts, ready, drops, faults>>
    BY <1>10 DEF Send, cmdVars, jobVars
  <2>2. pass'.step \in {"catch", "verify", "send"} /\ pass'.jobs = pass.jobs /\ pass'.claimed = pass.claimed
    BY <1>10 DEF Send, TypeOK, Passes
  <2>3. Held' = Held
    BY <2>1, <2>2 DEF Held
  <2>4. QED
    BY <1>1, <1>2, <2>1, <2>2, <2>3, KeepsAttempts
<1>11. CASE Catch
  <2>1. UNCHANGED <<cmd, asks, status, attempts, ready, drops, faults>>
    BY <1>11 DEF Catch, cmdVars, jobVars
  <2>2. CASE pass' = [pass EXCEPT !.step = "failJobs"]
    BY <2>1, <2>2, MovesAttempts DEF PassStep
  <2>3. CASE ~Exhausted /\ pass' = [pass EXCEPT !.step = "reschedJobs"]
    <3>1. \A j \in pass.jobs : attempts[j] \in Nat /\ MaxAttempts \in Nat
      BY BidQueueAssumption DEF TypeOK, Passes
    <3>2. \A j \in pass.jobs : attempts[j] < MaxAttempts
      BY <2>3, <3>1 DEF Exhausted
    <3>3. QED
      BY <2>1, <2>3, <3>2, MovesAttempts DEF PassStep
  <2>4. QED
    BY <1>11, <2>2, <2>3 DEF Catch
<1>12. ASSUME NEW from, NEW st \in JobStatus \ {"absent"}, NEW to \in {"completeItems", "reschedItems", "failItems"},
              ResolveJobs(from, st, to),
              st \in JobActive => from = "reschedJobs",
              to = "reschedItems" => from = "reschedJobs"
       PROVE AttemptsInv'
  <2>1. /\ pass.step = from /\ JobsBecome(pass.jobs, st)
        /\ UNCHANGED <<cmd, asks, attempts, ready, faults, drops>>
    BY <1>12 DEF ResolveJobs, cmdVars
  <2>2. pass'.step = to /\ pass'.jobs = pass.jobs /\ pass'.claimed = pass.claimed
    BY <1>12 DEF ResolveJobs, TypeOK, Passes
  <2>3. Held' = Held /\ pass.jobs \subseteq Held
    BY <2>1, <2>2 DEF Held
  <2>4. from = "reschedJobs" => \A j \in pass.jobs : attempts[j] < MaxAttempts
    BY <2>1 DEF AttemptsInv
  <2>5. \A j \in pass.jobs : j \in Job /\ status'[j] = st
    BY <2>1 DEF JobsBecome, TypeOK, Passes
  <2>6. to \in {"completeItems", "failItems"} /\ st \notin JobActive => \A j \in pass.jobs : Settled(j)'
    BY <2>5 DEF Settled
  <2>7. \A j \in pass.jobs : attempts[j] < MaxAttempts => Settled(j)'
    BY <2>1, <2>5, BidQueueAssumption DEF Settled, TypeOK
  <2>8. QED
    BY <1>12, <2>1, <2>2, <2>3, <2>4, <2>6, <2>7, ResolveAttempts
<1>13. CASE PassWork
  <2>1. CASE CompleteJobs
    BY <2>1, <1>12 DEF CompleteJobs, JobStatus, JobActive
  <2>2. CASE RescheduleJobs
    BY <2>2, <1>12 DEF RescheduleJobs, JobStatus, JobActive
  <2>3. CASE FailJobs
    BY <2>3, <1>12 DEF FailJobs, JobStatus, JobActive
  <2>4. CASE CompleteItems \/ RescheduleItems \/ FailItems
    BY <2>4, ReleaseAttempts DEF CompleteItems, RescheduleItems, FailItems
  <2>5. QED
    BY <1>13, <1>7, <1>8, <1>9, <1>10, <1>11, <2>1, <2>2, <2>3, <2>4, ClaimAttempts DEF PassWork
<1>14. ASSUME NEW d \in drops, Drop(d) PROVE AttemptsInv'
  <2>1. UNCHANGED <<cmd, asks, attempts, ready, faults, pass>>
    BY <1>14 DEF Drop, cmdVars
  <2>2. d.jobs \subseteq Held /\ d.jobs \subseteq Job /\ d.step \in {"jobs", "items"}
    BY DEF Held, TypeOK, Drops
  <2>3. CASE d.step = "jobs"
    <3>1. JobsBecome(d.jobs, "failed") /\ drops' = (drops \ {d}) \union {[d EXCEPT !.step = "items"]}
      BY <1>14, <2>3 DEF Drop
    <3>2. [d EXCEPT !.step = "items"].jobs = d.jobs
      BY DEF TypeOK, Drops
    <3>3. Held' = Held
      BY <2>1, <3>1, <3>2 DEF Held
    <3>4. \A j \in Job : Settled(j) => Settled(j)'
      BY <2>1, <3>1 DEF Settled, JobsBecome, JobActive
    <3>5. pass.jobs \subseteq Job
      BY DEF TypeOK, Passes
    <3>6. \A e \in drops' : e.step = "items" => e \in drops \/ e.jobs \subseteq d.jobs
      BY <3>1, <3>2
    <3>7. "failed" \in JobStatus \ {"absent"} /\ "failed" \notin JobActive
      BY DEF JobStatus, JobActive
    <3>8. pass.step \in {"completeItems", "failItems"} => \A j \in pass.jobs : Settled(j)'
      BY <3>4, <3>5 DEF AttemptsInv
    <3>9. /\ pass.step \in {"idle", "claim"} => pass.claimed = {}
          /\ pass.step \in {"idle", "claim", "pick"} => pass.jobs = {}
          /\ pass.step \in {"reschedJobs", "reschedItems"} => \A j \in pass.jobs : attempts[j] < MaxAttempts
      BY DEF AttemptsInv
    <3>10. QED
      BY <2>1, <2>2, <3>1, <3>3, <3>6, <3>7, <3>8, <3>9, ResolveAttempts
  <2>4. CASE d.step = "items"
    <3>1. status' = status /\ drops' = drops \ {d}
      BY <1>14, <2>4 DEF Drop
    <3>2. Held' \subseteq Held /\ Held \ Held' \subseteq d.jobs
      BY <2>1, <3>1 DEF Held
    <3>3. \A j \in Job : Settled(j)' <=> Settled(j)
      BY <2>1, <3>1 DEF Settled
    <3>4. pass.jobs \subseteq Job /\ \A j \in d.jobs : Settled(j)'
      BY <2>2, <2>4, <3>3 DEF AttemptsInv, TypeOK, Passes
    <3>5. /\ pass.step \in {"idle", "claim"} => pass.claimed = {}
          /\ pass.step \in {"idle", "claim", "pick"} => pass.jobs = {}
          /\ pass.step \in {"completeItems", "failItems"} => \A j \in pass.jobs : Settled(j)'
          /\ pass.step \in {"reschedJobs", "reschedItems"} => \A j \in pass.jobs : attempts[j] < MaxAttempts
      BY <3>3, <3>4 DEF AttemptsInv
    <3>6. QED
      BY <1>1, <1>2, <2>1, <3>1, <3>2, <3>4, <3>5, KeepsAttempts
  <2>5. QED
    BY <2>2, <2>3, <2>4
<1>15. CASE Failure
  <2>1. CASE TryFails
    <3>1. UNCHANGED <<cmd, asks, status, attempts, ready, drops>> /\ faults' = faults + 1
      BY <2>1 DEF TryFails, Fault, cmdVars, jobVars
    <3>2. pass'.step = "catch" /\ pass'.jobs = pass.jobs /\ pass'.claimed = pass.claimed
      BY <2>1 DEF TryFails, TypeOK, Passes
    <3>3. Held' = Held
      BY <3>1, <3>2 DEF Held
    <3>4. faults' >= faults
      BY <1>1, <3>1
    <3>5. QED
      BY <1>2, <3>1, <3>2, <3>3, <3>4, KeepsAttempts
  <2>2. CASE PassFails
    BY <2>2, ForgetAttempts DEF PassFails, Fault, cmdVars, jobVars
  <2>3. CASE Crash
    <3>1. \A j \in Job : cmd'[j] = cmd[j] \/ (cmd[j] # "accepted" /\ cmd'[j] = "lost")
      BY <2>3 DEF Crash
    <3>2. /\ pass' = IdlePass /\ drops' = {} /\ faults' = faults + 1
          /\ UNCHANGED <<asks, status, attempts, ready>>
      BY <2>3 DEF Crash, Fault, jobVars
    <3>3. QED
      BY <3>1, <3>2, ForgetAttempts
  <2>4. ASSUME NEW j \in Job, CommandFails(j) PROVE AttemptsInv'
    <3>1. /\ UNCHANGED <<asks, status, attempts, ready, drops, pass>> /\ faults' = faults + 1
          /\ cmd[j] # "accepted" /\ cmd' = [cmd EXCEPT ![j] = "lost"]
      BY <2>4 DEF CommandFails, Fault, jobVars
    <3>2. Held' = Held /\ faults' >= faults
      BY <1>1, <3>1 DEF Held
    <3>3. /\ \A i \in Job : cmd[i] = "accepted" => cmd'[i] = "accepted"
          /\ \A i \in Job : cmd'[i] \in {"desired", "stamped", "opened"} => asks'[i] # {}
      BY <1>2, <3>1 DEF TypeOK
    <3>4. \A i \in Job : Settled(i) => Settled(i)'
      BY <1>1, <3>1, BidQueueAssumption DEF Settled, TypeOK
    <3>5. pass.jobs \subseteq Job
      BY DEF TypeOK, Passes
    <3>6. /\ pass.step \in {"idle", "claim"} => pass.claimed = {}
          /\ pass.step \in {"idle", "claim", "pick"} => pass.jobs = {}
          /\ pass.step \in {"completeItems", "failItems"} => \A i \in pass.jobs : Settled(i)'
          /\ pass.step \in {"reschedJobs", "reschedItems"} => \A i \in pass.jobs : attempts[i] < MaxAttempts
      BY <3>4, <3>5 DEF AttemptsInv
    <3>7. QED
      BY <3>1, <3>2, <3>3, <3>6, KeepsAttempts
  <2>5. QED
    BY <1>15, <2>1, <2>2, <2>3, <2>4 DEF Failure
<1>16. CASE UNCHANGED vars
  BY <1>2, <1>3, <1>16 DEF vars, cmdVars, jobVars
<1>17. QED
  BY <1>4, <1>5, <1>6, <1>13, <1>14, <1>15, <1>16 DEF Next

\* No job is claimed more than MaxAttempts times, and once more for each
\* failure, for any number of jobs and any limits.
THEOREM AttemptsCorrect == Spec => []AttemptsBounded
<1>1. Init => AttemptsInv
  BY InitAttempts
<1>2. TypeOK /\ TypeOK' /\ AttemptsInv /\ [Next]_vars => AttemptsInv'
  BY StepAttempts
<1>3. AttemptsInv => AttemptsBounded
  BY DEF AttemptsInv
<1>4. QED
  BY <1>1, <1>2, <1>3, TypeCorrect, PTL DEF Spec

-----------------------------------------------------------------------------
(* A waiting row has an owner. *)

\* Jobs of fire-and-forget failClusterBidJobs calls.
Dropped == UNION {d.jobs : d \in drops}

\* Some claimed job still waits for its batch in the group of k.
Waits(k) == JobsOf(pass.claimed, {GroupOf[k]}) # {}

\* The pass may still write "throttled" or "pending" on the rows of its batch.
Unsettled ==
  \/ pass.step \in {"mark", "send", "verify", "confirm"}
  \/ pass.step = "catch" /\ pass.error # "fatal"

\* A command asks in one group, and its job has items for what it asks.
AskedOnce ==
  /\ \A j \in Job : cmd[j] = "idle" => asks[j] = {}
  /\ \A j \in Job : \A k, l \in asks[j] : GroupOf[k] = GroupOf[l]
  /\ \A j \in Job : \A k \in Key : item[j][k] # "none" => k \in asks[j]

\* The jobs in memory are apart, and what is live of them is in the plan.
HeldItems ==
  /\ pass.claimed \intersect pass.jobs = {}
  /\ Dropped \intersect (pass.claimed \union pass.jobs) = {}
  /\ \A j \in pass.jobs, k \in Key : item[j][k] \in ItemActive => k \in pass.keys
  /\ \A j \in pass.claimed, k \in Key : item[j][k] \in ItemActive => pass.plan[k] # None
  /\ \A j \in Dropped, k \in Key : item[j][k] \notin ItemActive

\* What is planned for later batches is owned.
PlanOwned ==
  /\ pass.step \in {"idle", "claim", "pick"} => pass.keys = {}
  /\ \A k \in pass.keys : ~Waits(k)
  /\ \A k \in Key : pass.plan[k] # None /\ Waits(k) => OwnedOutside(k, {})

\* While its rows may be written as waiting the batch is owned; once its jobs
\* are being resolved, others own the rows that were queued meanwhile.
BatchOwned(T) ==
  /\ Unsettled => \A k \in pass.keys : OwnedOutside(k, {})
  /\ pass.step \in {"completeJobs", "completeItems", "failJobs", "failItems"} =>
       \A k \in pass.keys \ T : row[k].status \in RowWaiting => OwnedOutside(k, pass.jobs)

\* RowOwned, but for the rows of T.
OwnedBut(T) == \A k \in Key \ T : row[k].status \in RowWaiting => OwnedOutside(k, {})

OwnInv(T) == OwnedBut(T) /\ AskedOnce /\ HeldItems /\ PlanOwned /\ BatchOwned(T)

LEMMA InitOwned == Init => OwnInv({})
<1> SUFFICES ASSUME Init PROVE OwnInv({})
  OBVIOUS
<1>1. pass.step = "idle" /\ pass.claimed = {} /\ pass.jobs = {} /\ pass.keys = {}
  BY DEF Init, IdlePass
<1>2. Dropped = {} /\ \A j \in Job : asks[j] = {} /\ \A k \in Key : item[j][k] = "none"
  BY DEF Init, Dropped
<1>3. \A k \in Key : row[k].status \notin RowWaiting
  BY DEF Init, RowWaiting
<1>4. OwnedBut({})
  BY <1>3 DEF OwnedBut, OnlyWritten
<1>5. AskedOnce /\ HeldItems
  BY <1>1, <1>2 DEF AskedOnce, HeldItems
<1>6. PlanOwned /\ BatchOwned({})
  BY <1>1 DEF PlanOwned, BatchOwned, OnlyWritten, Waits, JobsOf, Unsettled
<1>7. QED
  BY <1>4, <1>5, <1>6 DEF OwnInv

\* An owner is lost only by losing its status, its item or its command.
LEMMA OwnerKept ==
  ASSUME NEW k \in Key, NEW X, OwnedOutside(k, X),
         \A j \in Job \ X : status[j] \in JobActive /\ item[j][k] \in ItemActive
                            => status'[j] \in JobActive /\ item'[j][k] \in ItemActive,
         \A j \in Job : k \in asks[j] /\ (InProgress(j) \/ cmd[j] = "lost")
                        => k \in asks'[j] /\ (InProgress(j)' \/ cmd'[j] = "lost")
  PROVE  \/ \E j \in Job \ X : status'[j] \in JobActive /\ item'[j][k] \in ItemActive
         \/ \E j \in Job : k \in asks'[j] /\ (InProgress(j)' \/ cmd'[j] = "lost")
  BY DEF OwnedOutside

\* Who owns a row outside of the batch is no job of the batch.
LEMMA OutsideBatch ==
  ASSUME HeldItems, NEW k \in Key, k \notin pass.keys, OwnedOutside(k, {})
  PROVE  OwnedOutside(k, pass.jobs)
  BY DEF HeldItems, OwnedOutside

\* What jobs ask for changes with a new command only.
LEMMA AsksKept ==
  ASSUME AskedOnce,
         \A j \in Job : cmd'[j] = "idle" => cmd[j] = "idle" /\ asks'[j] = asks[j],
         \A j \in Job : \/ asks'[j] = asks[j]
                        \/ asks'[j] \in Requests /\ \A k \in Key : item'[j][k] = "none",
         \A j \in Job, k \in Key : item'[j][k] # "none" => item[j][k] # "none" \/ k \in asks'[j]
  PROVE  AskedOnce'
<1>1. ASSUME NEW j \in Job, NEW k \in asks'[j], NEW l \in asks'[j] PROVE GroupOf[k] = GroupOf[l]
  BY <1>1, BidQueueAssumption DEF AskedOnce
<1>2. ASSUME NEW j \in Job, NEW k \in Key, item'[j][k] # "none" PROVE k \in asks'[j]
  BY <1>2 DEF AskedOnce
<1>3. \A j \in Job : cmd'[j] = "idle" => asks'[j] = {}
  BY DEF AskedOnce
<1>4. QED
  BY <1>1, <1>2, <1>3 DEF AskedOnce

\* The jobs in memory when none is added and none of their items comes to life.
LEMMA HeldKept ==
  ASSUME HeldItems, pass'.claimed \subseteq pass.claimed, pass'.jobs \subseteq pass.jobs,
         Dropped' \subseteq Dropped,
         pass'.plan = pass.plan \/ pass'.claimed = {},
         pass'.keys = pass.keys \/ pass'.jobs = {},
         \A j \in pass'.claimed \union pass'.jobs \union Dropped', k \in Key :
           item'[j][k] \in ItemActive => item[j][k] \in ItemActive
  PROVE  HeldItems'
  BY DEF HeldItems

\* The plan when no claimed job is added and the owners stay.
LEMMA PlanKept ==
  ASSUME PlanOwned, pass'.claimed \subseteq pass.claimed,
         \A j \in pass'.claimed : asks'[j] = asks[j],
         pass'.plan = pass.plan \/ pass'.claimed = {},
         pass'.keys = pass.keys \/ pass'.keys = {},
         pass'.step \in {"idle", "claim", "pick"} => pass'.keys = {},
         \A k \in Key : Waits(k) /\ OwnedOutside(k, {}) => OwnedOutside(k, {})'
  PROVE  PlanOwned'
<1>1. \A k \in Key : Waits(k)' => Waits(k) /\ pass'.plan = pass.plan
  BY DEF Waits, JobsOf
<1>2. \A k \in pass'.keys : ~Waits(k)'
  BY DEF PlanOwned, Waits, JobsOf
<1>3. QED
  BY <1>1, <1>2 DEF PlanOwned

\* Steps of others: the pass stays where it is or begins, owners stay, and rows
\* are written by commands.
LEMMA OthersOwned ==
  ASSUME NEW T, NEW U, OnlyWritten(T, U), TypeOK, AttemptsInv, OwnInv(T), AskedOnce',
         pass'.claimed = pass.claimed, pass'.jobs = pass.jobs, pass'.keys = pass.keys,
         pass'.plan = pass.plan, pass'.error = pass.error,
         pass'.step = pass.step \/ (pass.step = "idle" /\ pass'.step = "claim"),
         Dropped' \subseteq Dropped,
         \A j \in Job : cmd[j] = "accepted" => asks'[j] = asks[j],
         \A j \in Held, k \in Key : item'[j][k] \in ItemActive => item[j][k] \in ItemActive,
         \A k \in Key : OwnedOutside(k, {}) => OwnedOutside(k, {})',
         \A k \in Key : OwnedOutside(k, pass.jobs) =>
           \/ \E j \in Job \ pass.jobs : status'[j] \in JobActive /\ item'[j][k] \in ItemActive
           \/ \E j \in Job : k \in asks'[j] /\ (InProgress(j)' \/ cmd'[j] = "lost"),
         \A k \in Key : row'[k] = row[k] \/ \E j \in Job : k \in asks'[j] /\ InProgress(j)'
  PROVE  OwnInv(U)'
<1>1. Dropped \subseteq Held /\ pass.claimed \subseteq Held /\ pass.jobs \subseteq Held
  BY DEF Dropped, Held
<1>2. Held \subseteq Job /\ \A j \in Held : asks'[j] = asks[j]
  BY HeldJobs DEF AttemptsInv
<1>3. OwnedBut(U)'
  BY DEF OwnInv, OwnedBut, OnlyWritten, OwnedOutside
<1>4. HeldItems'
  <2>1. \A j \in pass'.claimed \union pass'.jobs \union Dropped', k \in Key :
          item'[j][k] \in ItemActive => item[j][k] \in ItemActive
    BY <1>1
  <2>2. QED
    BY <2>1, HeldKept DEF OwnInv
<1>5. PlanOwned'
  <2>1. \A j \in pass'.claimed : asks'[j] = asks[j]
    BY <1>1, <1>2
  <2>2. pass'.step \in {"idle", "claim", "pick"} => pass'.keys = {}
    BY DEF OwnInv, PlanOwned
  <2>3. QED
    BY <2>1, <2>2, PlanKept DEF OwnInv
<1>6. BatchOwned(U)'
  <2>1. Unsettled' => Unsettled
    BY DEF Unsettled
  <2>2. ASSUME pass'.step \in {"completeJobs", "completeItems", "failJobs", "failItems"},
               NEW k \in pass.keys \ U, row'[k].status \in RowWaiting
        PROVE  OwnedOutside(k, pass.jobs)'
    <3>1. k \in Key /\ pass.step = pass'.step
      BY <2>2 DEF TypeOK, Passes
    <3>2. CASE row'[k] = row[k]
      BY <2>2, <3>1, <3>2 DEF OwnInv, BatchOwned, OnlyWritten, OwnedOutside
    <3>3. CASE row'[k] # row[k]
      BY <3>1, <3>3 DEF OwnedOutside
    <3>4. QED
      BY <3>2, <3>3
  <2>3. \A k \in pass.keys : k \in Key
    BY DEF TypeOK, Passes
  <2>4. QED
    BY <2>1, <2>2, <2>3 DEF OwnInv, BatchOwned, OnlyWritten
<1>7. QED
  BY <1>3, <1>4, <1>5, <1>6 DEF OwnInv

\* Others that leave the jobs' tables alone.
LEMMA QuietOwned ==
  ASSUME NEW T, NEW U, OnlyWritten(T, U), TypeOK, AttemptsInv, OwnInv(T), UNCHANGED <<status, item>>,
         pass' = pass \/ (pass.step = "idle" /\ pass' = [pass EXCEPT !.step = "claim"]),
         drops' = drops,
         \A j \in Job : \/ asks'[j] = asks[j]
                        \/ cmd[j] = "idle" /\ asks'[j] \in Requests,
         \A j \in Job : cmd'[j] = "idle" => cmd[j] = "idle" /\ asks'[j] = asks[j],
         \A j \in Job : InProgress(j) \/ cmd[j] = "lost" => InProgress(j)' \/ cmd'[j] = "lost",
         \A k \in Key : row'[k] = row[k] \/ \E j \in Job : k \in asks'[j] /\ InProgress(j)'
  PROVE  OwnInv(U)'
<1>1. /\ pass'.claimed = pass.claimed /\ pass'.jobs = pass.jobs /\ pass'.keys = pass.keys
      /\ pass'.plan = pass.plan /\ pass'.error = pass.error
      /\ pass'.step = pass.step \/ (pass.step = "idle" /\ pass'.step = "claim")
  BY DEF TypeOK, Passes
<1>2. Dropped' \subseteq Dropped
  BY DEF Dropped
<1>3. \A j \in Job : cmd[j] # "idle" => asks'[j] = asks[j]
  OBVIOUS
<1>4. AskedOnce'
  <2>1. \A j \in Job : cmd[j] = "idle" => \A k \in Key : item[j][k] = "none"
    BY DEF OwnInv, AskedOnce
  <2>2. QED
    BY <1>3, <2>1, AsksKept DEF OwnInv
<1>5. ASSUME NEW k \in Key, NEW X, OwnedOutside(k, X)
      PROVE  \/ \E j \in Job \ X : status'[j] \in JobActive /\ item'[j][k] \in ItemActive
             \/ \E j \in Job : k \in asks'[j] /\ (InProgress(j)' \/ cmd'[j] = "lost")
  BY <1>3, <1>5, OwnerKept DEF InProgress
<1>6. \A k \in Key : OwnedOutside(k, {}) => OwnedOutside(k, {})'
  BY <1>5 DEF OwnedOutside
<1>7. QED
  BY <1>1, <1>2, <1>3, <1>4, <1>5, <1>6, OthersOwned

\* The commands, but for their commit, and the clock.
LEMMA CommandOwned ==
  ASSUME NEW T, NEW U, OnlyWritten(T, U), TypeOK, AttemptsInv, OwnInv(T), NEW j \in Job,
         (\E K \in Requests : Desire(j, K)) \/ Stamp(j) \/ Open(j) \/ CommandFails(j)
  PROVE  OwnInv(U)'
<1> DEFINE stage == {"desired", "stamped", "opened", "lost"}
<1>1. UNCHANGED <<status, item, pass, drops>>
  BY DEF Desire, Stamp, Open, CommandFails, jobVars
<1>2. \E s \in stage : cmd' = [cmd EXCEPT ![j] = s] /\ cmd[j] \notin {"accepted", "lost"}
  BY DEF Desire, Stamp, Open, CommandFails
<1>3. cmd'[j] \in stage /\ \A i \in Job \ {j} : cmd'[i] = cmd[i]
  BY <1>2 DEF TypeOK
<1>4. \A i \in Job : /\ cmd'[i] = "idle" => cmd[i] = "idle" /\ i # j
                     /\ InProgress(i) \/ cmd[i] = "lost" => InProgress(i)' \/ cmd'[i] = "lost"
  BY <1>3 DEF InProgress
<1>5. CASE \E K \in Requests : Desire(j, K)
  <2>1. PICK K \in Requests : Desire(j, K)
    BY <1>5
  <2>2. cmd[j] = "idle" /\ asks'[j] = K /\ cmd'[j] = "desired"
    BY <2>1 DEF Desire, TypeOK
  <2>3. \A i \in Job \ {j} : asks'[i] = asks[i]
    BY <2>1 DEF Desire, TypeOK
  <2>4. \A k \in Key : row'[k] = row[k] \/ (k \in asks'[j] /\ InProgress(j)')
    BY <2>1, <2>2 DEF Desire, InProgress
  <2>5. QED
    BY <1>1, <1>4, <2>2, <2>3, <2>4, QuietOwned
<1>6. CASE Stamp(j) \/ Open(j) \/ CommandFails(j)
  <2>1. asks' = asks /\ row' = row
    BY <1>6 DEF Stamp, Open, CommandFails
  <2>2. QED
    BY <1>1, <1>4, <2>1, QuietOwned
<1>7. QED
  BY <1>5, <1>6

LEMMA ClockOwned ==
  ASSUME NEW T, NEW U, OnlyWritten(T, U), TypeOK, AttemptsInv, OwnInv(T),
         Clock \/ TimerFires \/ CronTick \/ UNCHANGED vars
  PROVE  OwnInv(U)'
<1>1. UNCHANGED <<cmd, asks, status, item, row, drops>>
  BY DEF Clock, Due, Age, CooldownEnds, TimerFires, CronTick, vars, cmdVars, jobVars
<1>2. pass' = pass \/ (pass.step = "idle" /\ pass' = [pass EXCEPT !.step = "claim"])
  BY DEF Clock, Due, Age, CooldownEnds, TimerFires, CronTick, vars
<1>3. \A j \in Job : InProgress(j) \/ cmd[j] = "lost" => InProgress(j)' \/ cmd'[j] = "lost"
  BY <1>1 DEF InProgress
<1>4. QED
  BY <1>1, <1>2, <1>3, QuietOwned

\* A commit takes over the rows of the jobs it supersedes.
LEMMA AcceptOwned ==
  ASSUME NEW T, NEW U, OnlyWritten(T, U), TypeOK, AttemptsInv, OwnInv(T), NEW j \in Job, Accept(j) PROVE OwnInv(U)'
<1>1. /\ cmd[j] = "opened" /\ cmd' = [cmd EXCEPT ![j] = "accepted"]
      /\ UNCHANGED <<asks, row, pass, drops>>
  BY DEF Accept
<1>2. status[j] = "absent" /\ j \notin Held
  BY <1>1 DEF AttemptsInv
<1>3. /\ status'[j] = "queued"
      /\ \A k \in Key : item'[j][k] = IF k \in asks[j] THEN "queued" ELSE "none"
  BY DEF Accept, TypeOK, Superseded
<1>4. ASSUME NEW i \in Job, i # j, NEW k \in Key
      PROVE  /\ item'[i][k] = item[i][k] \/ (k \in asks[j] /\ item[i][k] \in ItemActive /\ item'[i][k] = "failed")
             /\ item'[i][k] = item[i][k] /\ item[i][k] \in ItemActive => status'[i] = status[i]
  <2>1. item'[i] = Superseded(j)[i]
    BY <1>4 DEF Accept, Superseded
  <2>2. Superseded(j)[i][k] = IF i \in Rivals(j) /\ k \in asks[j] /\ item[i][k] \in ItemActive
                                THEN "failed" ELSE item[i][k]
    BY <1>4 DEF Superseded
  <2>3. status'[i] = IF i \in Rivals(j) /\ \A l \in Key : Superseded(j)[i][l] \notin ItemActive
                       THEN "failed" ELSE status[i]
    BY <1>4 DEF Accept
  <2>4. QED
    BY <1>4, <2>1, <2>2, <2>3
<1>5. ASSUME NEW k \in Key, NEW X, j \notin X, OwnedOutside(k, X)
      PROVE  \/ \E i \in Job \ X : status'[i] \in JobActive /\ item'[i][k] \in ItemActive
             \/ \E i \in Job : k \in asks'[i] /\ (InProgress(i)' \/ cmd'[i] = "lost")
  <2>1. CASE k \in asks[j]
    BY <1>3, <1>5, <2>1 DEF JobActive, ItemActive
  <2>2. CASE k \notin asks[j]
    <3>1. ASSUME NEW i \in Job \ X, status[i] \in JobActive, item[i][k] \in ItemActive
          PROVE  status'[i] \in JobActive /\ item'[i][k] \in ItemActive
      BY <1>2, <1>4, <2>2, <3>1 DEF JobActive
    <3>2. ASSUME NEW i \in Job, k \in asks[i], InProgress(i) \/ cmd[i] = "lost"
          PROVE  k \in asks'[i] /\ (InProgress(i)' \/ cmd'[i] = "lost")
      BY <1>1, <2>2, <3>2 DEF InProgress, TypeOK
    <3>3. QED
      BY <1>5, <3>1, <3>2, OwnerKept
  <2>3. QED
    BY <2>1, <2>2
<1>6. AskedOnce'
  <2>1. \A i \in Job : cmd'[i] = "idle" => cmd[i] = "idle"
    BY <1>1 DEF TypeOK
  <2>2. ASSUME NEW i \in Job, NEW k \in Key, item'[i][k] # "none"
        PROVE  item[i][k] # "none" \/ k \in asks'[i]
    BY <1>1, <1>3, <1>4, <2>2 DEF ItemActive
  <2>3. QED
    BY <1>1, <2>1, <2>2, AsksKept DEF OwnInv
<1>7. \A i \in Held, k \in Key : item'[i][k] \in ItemActive => item[i][k] \in ItemActive
  <2>1. \A i \in Held : i \in Job /\ i # j
    BY <1>2, HeldJobs
  <2>2. QED
    BY <1>4, <2>1
<1>8. ASSUME NEW k \in Key, OwnedOutside(k, {}) PROVE OwnedOutside(k, {})'
  <2>1. j \notin {}
    OBVIOUS
  <2>2. \/ \E i \in Job \ {} : status'[i] \in JobActive /\ item'[i][k] \in ItemActive
        \/ \E i \in Job : k \in asks'[i] /\ (InProgress(i)' \/ cmd'[i] = "lost")
    BY <1>5, <1>8, <2>1
  <2>3. QED
    BY <2>2 DEF OwnedOutside
<1>9. j \notin pass.jobs /\ Dropped' = Dropped
  BY <1>1, <1>2 DEF Held, Dropped
<1>10. QED
  BY <1>1, <1>5, <1>6, <1>7, <1>8, <1>9, OthersOwned

\* A background statement ends jobs without live items.
LEMMA DropOwned ==
  ASSUME NEW T, NEW U, OnlyWritten(T, U), TypeOK, AttemptsInv, OwnInv(T), NEW d \in drops, Drop(d) PROVE OwnInv(U)'
<1>1. UNCHANGED <<cmd, asks, row, pass>>
  BY DEF Drop, cmdVars
<1>2. d.jobs \subseteq Dropped /\ Dropped \subseteq Held /\ Held \subseteq Job
  BY HeldJobs DEF Dropped, Held
<1>3. Dropped' \subseteq Dropped
  BY DEF Drop, Dropped, TypeOK, Drops
<1>4. \A i \in Job \ d.jobs : status'[i] = status[i] /\ item'[i] = item[i]
  BY DEF Drop, JobsBecome, ItemsBecome, TypeOK
<1>5. ASSUME NEW i \in d.jobs, NEW k \in Key
      PROVE  item[i][k] \notin ItemActive /\ item'[i][k] \in {item[i][k], "failed"}
             /\ (item'[i][k] # "none" => item[i][k] # "none")
  <2>1. item'[i][k] = item[i][k] \/ (item[i][k] # "none" /\ item'[i][k] = "failed")
    BY <1>2 DEF Drop, ItemsBecome, TypeOK
  <2>2. QED
    BY <1>2, <2>1 DEF OwnInv, HeldItems
<1>6. ASSUME NEW k \in Key, NEW X, OwnedOutside(k, X)
      PROVE  \/ \E i \in Job \ X : status'[i] \in JobActive /\ item'[i][k] \in ItemActive
             \/ \E i \in Job : k \in asks'[i] /\ (InProgress(i)' \/ cmd'[i] = "lost")
  <2>1. \A i \in Job : item[i][k] \in ItemActive => status'[i] = status[i] /\ item'[i] = item[i]
    BY <1>4, <1>5
  <2>2. QED
    BY <1>1, <1>6, <2>1, OwnerKept DEF InProgress
<1>7. \A i \in Job, k \in Key : item'[i][k] # "none" => item[i][k] # "none"
  BY <1>4, <1>5
<1>8. AskedOnce'
  BY <1>1, <1>7, AsksKept DEF OwnInv
<1>9. \A i \in Held, k \in Key : item'[i][k] \in ItemActive => item[i][k] \in ItemActive
  BY <1>2, <1>4, <1>5 DEF ItemActive
<1>10. \A k \in Key : OwnedOutside(k, {}) => OwnedOutside(k, {})'
  BY <1>6 DEF OwnedOutside
<1>11. QED
  BY <1>1, <1>3, <1>6, <1>8, <1>9, <1>10, OthersOwned

\* The pass ends or begins another round: whatever was in memory is forgotten.
LEMMA ForgetOwned ==
  ASSUME NEW T, NEW U, OnlyWritten(T, U), TypeOK, OwnInv(T), UNCHANGED <<asks, status, item, row>>,
         pass'.claimed = {}, pass'.jobs = {}, pass'.keys = {}, pass'.step \in {"idle", "claim"},
         drops' \subseteq drops,
         \A j \in Job : cmd'[j] = "idle" => cmd[j] = "idle",
         \A j \in Job : InProgress(j) \/ cmd[j] = "lost" => InProgress(j)' \/ cmd'[j] = "lost"
  PROVE  OwnInv(U)'
<1>1. \A k \in Key : OwnedOutside(k, {}) => OwnedOutside(k, {})'
  BY OwnerKept DEF OwnedOutside
<1>2. OwnedBut(U)'
  BY <1>1 DEF OwnInv, OwnedBut, OnlyWritten
<1>3. AskedOnce'
  BY AsksKept DEF OwnInv
<1>4. Dropped' \subseteq Dropped
  BY DEF Dropped
<1>5. HeldItems'
  BY <1>4, HeldKept DEF OwnInv
<1>6. PlanOwned'
  BY DEF PlanOwned, Waits, JobsOf
<1>7. BatchOwned(U)'
  BY DEF BatchOwned, OnlyWritten, Unsettled
<1>8. QED
  BY <1>2, <1>3, <1>5, <1>6, <1>7 DEF OwnInv

\* A claim: the plan names an owner for every live key, and what has none is
\* dropped.
LEMMA ClaimOwned ==
  ASSUME NEW T, NEW U, OnlyWritten(T, U), TypeOK, AttemptsInv, OwnInv(T), NEW C \in SUBSET Job,
         NEW plan \in [Key -> Job \union {None}], Claim(C, plan)
  PROVE  OwnInv(U)'
<1>1. /\ UNCHANGED <<cmd, asks, row>> /\ Merged(C, plan)
      /\ C \subseteq ready /\ \A j \in C : status[j] \in JobActive
  BY DEF Claim, Claimable, cmdVars
<1>2. /\ pass'.step = "pick" /\ pass'.plan = plan /\ pass'.jobs = {} /\ pass'.keys = {}
      /\ pass'.claimed = JobsOf(C, Sendable(C, plan))
  BY DEF Claim, IdlePass
<1>3. \A j \in Job : status[j] \in JobActive => status'[j] \in JobActive
  BY DEF Claim, JobActive
<1>4. ASSUME NEW j \in Job, NEW k \in Key
      PROVE  /\ item'[j][k] \in ItemActive <=> item[j][k] \in ItemActive
             /\ item'[j][k] # "none" => item[j][k] # "none"
  <2>1. item'[j][k] = IF j \in C /\ item[j][k] \in ItemActive THEN "running" ELSE item[j][k]
    BY DEF Claim
  <2>2. QED
    BY <2>1 DEF ItemActive
<1>5. ASSUME NEW k \in Key, OwnedOutside(k, {}) PROVE OwnedOutside(k, {})'
  BY <1>1, <1>3, <1>4, <1>5, OwnerKept DEF OwnedOutside, InProgress
<1>6. OwnedBut(U)'
  BY <1>1, <1>5 DEF OwnInv, OwnedBut, OnlyWritten
<1>7. AskedOnce'
  BY <1>1, <1>4, AsksKept DEF OwnInv
<1>8. ASSUME NEW j \in C, NEW k \in Key, item[j][k] \in ItemActive PROVE plan[k] \in Live(C, k)
  <2>1. Live(C, k) # {}
    BY <1>8 DEF Live
  <2>2. QED
    BY <1>1, <2>1 DEF Merged
<1>9. ASSUME NEW k \in Key, plan[k] # None PROVE OwnedOutside(k, {})'
  <2>1. plan[k] \in Live(C, k)
    BY <1>1, <1>9 DEF Merged
  <2>2. plan[k] \in Job /\ status[plan[k]] \in JobActive /\ item[plan[k]][k] \in ItemActive
    BY <1>1, <2>1 DEF Live
  <2>3. OwnedOutside(k, {})
    BY <2>2 DEF OwnedOutside
  <2>4. QED
    BY <1>5, <2>3
<1>10. ASSUME NEW j \in C, NEW k \in asks[j], NEW l \in asks[j] PROVE GroupOf[k] = GroupOf[l]
  BY <1>10 DEF OwnInv, AskedOnce
<1>11. ASSUME NEW j \in Dropped', j \notin Dropped
       PROVE  j \in C /\ \A k \in asks[j] : GroupOf[k] \notin Sendable(C, plan)
  <2>1. PICK d \in drops' : j \in d.jobs
    BY <1>11 DEF Dropped
  <2>2. d \notin drops
    BY <1>11, <2>1 DEF Dropped
  <2>3. PICK g \in GroupsOf(C) \ Sendable(C, plan) : d = [jobs |-> JobsOf(C, {g}), step |-> "jobs"]
    BY <2>2 DEF Claim
  <2>4. j \in JobsOf(C, {g})
    BY <2>1, <2>3
  <2>5. j \in C /\ \E k \in asks[j] : GroupOf[k] = g
    BY <2>4 DEF JobsOf
  <2>6. QED
    BY <1>10, <2>3, <2>5
<1>12. \A j \in C : j \notin Dropped
  BY <1>1 DEF AttemptsInv, Dropped, Held
<1>13. HeldItems'
  <2>1. Dropped' \intersect pass'.claimed = {}
    <3> SUFFICES ASSUME NEW j \in Dropped', j \in pass'.claimed PROVE FALSE
      OBVIOUS
    <3>1. j \in C /\ \E k \in asks[j] : GroupOf[k] \in Sendable(C, plan)
      BY <1>2 DEF JobsOf
    <3>2. QED
      BY <1>11, <1>12, <3>1
  <2>2. ASSUME NEW j \in pass'.claimed, NEW k \in Key, item'[j][k] \in ItemActive
        PROVE  plan[k] # None
    <3>1. j \in C
      BY <1>2 DEF JobsOf
    <3>2. plan[k] \in Live(C, k)
      BY <1>4, <1>8, <2>2, <3>1
    <3>3. QED
      BY <3>2, BidQueueAssumption DEF Live
  <2>3. ASSUME NEW j \in Dropped', NEW k \in Key, item'[j][k] \in ItemActive PROVE FALSE
    <3>1. CASE j \in Dropped
      <4>1. j \in Job
        BY <3>1, HeldJobs DEF Dropped, Held
      <4>2. QED
        BY <1>4, <2>3, <3>1, <4>1 DEF OwnInv, HeldItems
    <3>2. CASE j \notin Dropped
      <4>1. j \in C /\ item[j][k] \in ItemActive /\ GroupOf[k] \in Group
        BY <1>4, <1>11, <2>3, <3>2, BidQueueAssumption
      <4>2. k \in asks[j]
        BY <4>1 DEF OwnInv, AskedOnce, ItemActive
      <4>3. plan[k] # None
        BY <1>8, <4>1, BidQueueAssumption DEF Live
      <4>4. GroupOf[k] \in Sendable(C, plan)
        BY <4>1, <4>2, <4>3 DEF Sendable, GroupsOf, JobsOf, KeysOf
      <4>5. QED
        BY <1>11, <3>2, <4>2, <4>4
    <3>3. QED
      BY <3>1, <3>2
  <2>4. QED
    BY <1>2, <2>1, <2>2, <2>3 DEF HeldItems
<1>14. PlanOwned'
  BY <1>2, <1>9 DEF PlanOwned
<1>15. BatchOwned(U)'
  BY <1>2 DEF BatchOwned, OnlyWritten, Unsettled
<1>16. QED
  BY <1>6, <1>7, <1>13, <1>14, <1>15 DEF OwnInv

\* A batch takes all jobs of its groups and everything that is live of them.
LEMMA PickOwned ==
  ASSUME NEW T, NEW U, OnlyWritten(T, U), TypeOK, AttemptsInv, OwnInv(T), NEW gs \in SUBSET Group, Pick(gs) PROVE OwnInv(U)'
<1> DEFINE js == JobsOf(pass.claimed, gs)
           ks == KeysOf(pass.plan, gs)
<1>1. /\ UNCHANGED <<cmd, asks, status, item, row, drops>>
      /\ pass.step = "pick" /\ gs \subseteq Rest
  BY DEF Pick, cmdVars, jobVars
<1>2. /\ pass'.step = "mark" /\ pass'.jobs = js /\ pass'.keys = ks
      /\ pass'.claimed = pass.claimed \ js /\ pass'.plan = pass.plan
  BY DEF Pick, TypeOK, Passes
<1>3. pass.claimed \subseteq Job /\ js \subseteq pass.claimed /\ ks \subseteq Key
  BY DEF TypeOK, Passes, JobsOf, KeysOf
<1>4. \A k \in Key : OwnedOutside(k, {}) => OwnedOutside(k, {})'
  BY <1>1 DEF OwnedOutside, InProgress
<1>5. OwnedBut(U)' /\ AskedOnce' /\ Dropped' = Dropped
  BY <1>1, <1>4 DEF OwnInv, OwnedBut, OnlyWritten, AskedOnce, Dropped
<1>6. \A k \in ks : OwnedOutside(k, {})
  <2>1. ASSUME NEW k \in ks PROVE Waits(k) /\ pass.plan[k] # None
    <3>1. GroupOf[k] \in Rest
      BY <1>1 DEF KeysOf
    <3>2. QED
      BY <3>1 DEF Rest, Sendable, GroupsOf, Waits, KeysOf
  <2>2. QED
    BY <1>3, <2>1 DEF OwnInv, PlanOwned
<1>7. ASSUME NEW j \in js, NEW k \in Key, item[j][k] \in ItemActive PROVE k \in ks
  <2>1. j \in pass.claimed /\ \E l \in asks[j] : GroupOf[l] \in gs
    BY DEF JobsOf
  <2>2. k \in asks[j]
    BY <1>3, <1>7 DEF OwnInv, AskedOnce, ItemActive
  <2>3. GroupOf[k] \in gs
    BY <1>3, <2>1, <2>2 DEF OwnInv, AskedOnce
  <2>4. pass.plan[k] # None
    BY <1>7, <2>1 DEF OwnInv, HeldItems
  <2>5. QED
    BY <2>3, <2>4 DEF KeysOf
<1>8. HeldItems'
  BY <1>1, <1>2, <1>3, <1>5, <1>7 DEF OwnInv, HeldItems
<1>9. PlanOwned'
  <2>1. ASSUME NEW k \in ks PROVE ~Waits(k)'
    BY <1>1, <1>2 DEF Waits, JobsOf, KeysOf
  <2>2. \A k \in Key : Waits(k)' => Waits(k)
    BY <1>1, <1>2 DEF Waits, JobsOf
  <2>3. QED
    BY <1>2, <1>4, <2>1, <2>2 DEF OwnInv, PlanOwned
<1>10. BatchOwned(U)'
  BY <1>2, <1>3, <1>4, <1>6 DEF BatchOwned, OnlyWritten
<1>11. QED
  BY <1>5, <1>8, <1>9, <1>10 DEF OwnInv

\* The pass works on its batch: other jobs are left alone and none of the jobs
\* in memory comes to life. What is left to show is about rows and the batch.
LEMMA BatchKept ==
  ASSUME NEW T, TypeOK, AttemptsInv, OwnInv(T), UNCHANGED <<cmd, asks, drops>>,
         pass'.claimed = pass.claimed, pass'.plan = pass.plan,
         \/ pass'.jobs = pass.jobs /\ pass'.keys = pass.keys
         \/ pass'.jobs = {} /\ pass'.keys = {},
         pass'.step \in {"idle", "claim", "pick"} => pass'.keys = {},
         \A j \in Job \ pass.jobs : status'[j] = status[j] /\ item'[j] = item[j],
         \A j \in pass.jobs, k \in Key :
           /\ item'[j][k] # "none" => item[j][k] # "none"
           /\ item'[j][k] \in ItemActive => item[j][k] \in ItemActive \/ pass'.jobs = {}
  PROVE  /\ AskedOnce' /\ HeldItems' /\ PlanOwned'
         /\ \A k \in Key : OwnedOutside(k, pass.jobs) =>
              /\ OwnedOutside(k, {})'
              /\ \/ \E j \in Job \ pass.jobs : status'[j] \in JobActive /\ item'[j][k] \in ItemActive
                 \/ \E j \in Job : k \in asks'[j] /\ (InProgress(j)' \/ cmd'[j] = "lost")
         /\ \A k \in Key \ pass.keys : OwnedOutside(k, {}) => OwnedOutside(k, {})'
<1>1. Dropped' = Dropped /\ pass.claimed \subseteq Job /\ pass.jobs \subseteq Job
  BY DEF Dropped, TypeOK, Passes
<1>2. AskedOnce'
  <2>1. \A j \in Job, k \in Key : item'[j][k] # "none" => item[j][k] # "none"
    OBVIOUS
  <2>2. QED
    BY <2>1, AsksKept DEF OwnInv
<1>3. \A k \in Key : OwnedOutside(k, pass.jobs) =>
        /\ OwnedOutside(k, {})'
        /\ \/ \E j \in Job \ pass.jobs : status'[j] \in JobActive /\ item'[j][k] \in ItemActive
           \/ \E j \in Job : k \in asks'[j] /\ (InProgress(j)' \/ cmd'[j] = "lost")
  BY DEF OwnedOutside, InProgress
<1>4. \A k \in Key \ pass.keys : OwnedOutside(k, {}) => OwnedOutside(k, {})'
  BY <1>3, OutsideBatch DEF OwnInv
<1>5. HeldItems'
  <2>1. Dropped \subseteq Job
    BY HeldJobs DEF Dropped, Held
  <2>2. \A j \in pass.claimed \union Dropped : j \in Job \ pass.jobs
    BY <1>1, <2>1 DEF OwnInv, HeldItems
  <2>3. \A j \in pass'.claimed \union pass'.jobs \union Dropped', k \in Key :
          item'[j][k] \in ItemActive => item[j][k] \in ItemActive
    BY <1>1, <2>2
  <2>4. QED
    BY <1>1, <2>3, HeldKept DEF OwnInv
<1>6. PlanOwned'
  <2>1. ASSUME NEW k \in Key, Waits(k), OwnedOutside(k, {}) PROVE OwnedOutside(k, {})'
    <3>1. k \notin pass.keys
      BY <2>1 DEF OwnInv, PlanOwned
    <3>2. QED
      BY <1>4, <2>1, <3>1
  <2>2. QED
    BY <2>1, PlanKept DEF OwnInv
<1>7. QED
  BY <1>2, <1>3, <1>4, <1>5, <1>6

\* The steps between marking and resolving a batch write its rows at most.
LEMMA RowsOwned ==
  ASSUME NEW T, NEW U, OnlyWritten(T, U), TypeOK, AttemptsInv, OwnInv(T), Mark \/ Verify \/ Confirm \/ Catch
                \/ (\E chunk \in SUBSET Key, outcome \in WbOutcomes : Send(chunk, outcome))
  PROVE  OwnInv(U)'
<1>1. UNCHANGED <<cmd, asks, status, item, drops>>
  BY DEF Mark, Verify, Confirm, Catch, Send, cmdVars, jobVars
<1>2. /\ pass'.claimed = pass.claimed /\ pass'.plan = pass.plan
      /\ pass'.jobs = pass.jobs /\ pass'.keys = pass.keys
  BY DEF Mark, Verify, Confirm, Catch, Send, TypeOK, Passes
<1>3. pass'.step \in {"send", "verify", "confirm", "catch", "completeJobs", "failJobs", "reschedJobs"}
  BY DEF Mark, Verify, Confirm, Catch, Send, TypeOK, Passes
<1>4. AskedOnce' /\ HeldItems' /\ PlanOwned'
  BY <1>1, <1>2, <1>3, BatchKept
<1>5. \A k \in Key : OwnedOutside(k, {}) => OwnedOutside(k, {})'
  BY <1>1 DEF OwnedOutside, InProgress
<1>6. pass.keys \subseteq Key
  BY DEF TypeOK, Passes
<1>7. CASE Mark \/ Confirm \/ Catch
  <2>1. PICK st \in RowStatus :
          /\ WriteRows(st)
          /\ st \in RowWaiting => Unsettled
          /\ pass'.step \in {"completeJobs", "failJobs"} => st \notin RowWaiting
    <3>1. CASE Mark
      BY <3>1 DEF Mark, TypeOK, Passes, RowStatus, RowWaiting, Unsettled
    <3>2. CASE Confirm
      BY <3>2 DEF Confirm, RowStatus, RowWaiting
    <3>3. CASE Catch
      <4>1. CASE pass.error = "fatal" \/ Exhausted
        BY <3>3, <4>1 DEF Catch, RowStatus, RowWaiting
      <4>2. CASE ~(pass.error = "fatal" \/ Exhausted)
        <5>1. PICK st \in {"throttled", "pending"} : WriteRows(st)
          BY <3>3, <4>2 DEF Catch
        <5>2. pass.step = "catch" /\ pass' = [pass EXCEPT !.step = "reschedJobs"]
          BY <3>3, <4>2 DEF Catch
        <5>3. pass'.step = "reschedJobs" /\ Unsettled
          BY <4>2, <5>2 DEF TypeOK, Passes, Unsettled
        <5>4. QED
          BY <5>1, <5>3 DEF RowStatus, RowWaiting
      <4>3. QED
        BY <4>1, <4>2
    <3>4. QED
      BY <1>7, <3>1, <3>2, <3>3
  <2>2. ASSUME NEW k \in Key
        PROVE  /\ k \in pass.keys => row'[k].status = st
               /\ k \notin pass.keys => row'[k] = row[k]
    BY <2>1, RowsWritten
  <2>3. OwnedBut(U)'
    <3>1. ASSUME NEW k \in Key \ U, row'[k].status \in RowWaiting PROVE OwnedOutside(k, {})
      BY <2>1, <2>2, <3>1 DEF OwnInv, OwnedBut, OnlyWritten, BatchOwned
    <3>2. QED
      BY <1>5, <3>1 DEF OwnedBut, OnlyWritten
  <2>4. BatchOwned(U)'
    <3>1. Unsettled' => Unsettled
      <4>1. CASE Mark
        BY <4>1 DEF Mark, Unsettled
      <4>2. CASE Confirm \/ Catch
        <5>1. pass'.step \in {"completeJobs", "failJobs", "reschedJobs"}
          BY <4>2 DEF Confirm, Catch, TypeOK, Passes
        <5>2. QED
          BY <5>1 DEF Unsettled
      <4>3. QED
        BY <1>7, <4>1, <4>2
    <3>2. pass'.step \in {"completeJobs", "completeItems", "failJobs", "failItems"} =>
            \A k \in pass.keys : row'[k].status \notin RowWaiting
      BY <1>3, <1>6, <2>1, <2>2
    <3>3. QED
      BY <1>2, <1>5, <1>6, <3>1, <3>2 DEF OwnInv, BatchOwned, OnlyWritten
  <2>5. QED
    BY <1>4, <2>3, <2>4 DEF OwnInv
<1>8. CASE Verify \/ \E chunk \in SUBSET Key, outcome \in WbOutcomes : Send(chunk, outcome)
  <2>1. row' = row /\ pass.step \in {"send", "verify"}
    BY <1>8 DEF Verify, Send
  <2>2. pass'.step \in {"send", "verify", "confirm", "catch"}
    BY <1>8 DEF Verify, Send, TypeOK, Passes
  <2>3. OwnedBut(U)'
    BY <1>5, <2>1 DEF OwnInv, OwnedBut, OnlyWritten
  <2>4. BatchOwned(U)'
    BY <1>2, <1>5, <1>6, <2>1, <2>2 DEF OwnInv, BatchOwned, OnlyWritten, Unsettled
  <2>5. QED
    BY <1>4, <2>3, <2>4 DEF OwnInv
<1>9. QED
  BY <1>7, <1>8

\* The batch when its rows stay and its jobs are resolved, or come to life again.
LEMMA ResolvedOwned ==
  ASSUME NEW T, NEW U, OnlyWritten(T, U), TypeOK, AttemptsInv, OwnInv(T), row' = row,
         AskedOnce', HeldItems', PlanOwned',
         \A k \in Key : OwnedOutside(k, pass.jobs) => OwnedOutside(k, {})',
         \A k \in Key \ pass.keys : OwnedOutside(k, {}) => OwnedOutside(k, {})',
         \/ pass.step \in {"completeJobs", "completeItems", "failJobs", "failItems"}
         \/ \A k \in Key : OwnedOutside(k, {}) => OwnedOutside(k, {})',
         BatchOwned(U)'
  PROVE  OwnInv(U)'
<1>1. ASSUME NEW k \in Key \ U, row[k].status \in RowWaiting PROVE OwnedOutside(k, {})'
  <2>1. OwnedOutside(k, {})
    BY <1>1 DEF OwnInv, OwnedBut, OnlyWritten
  <2>2. CASE k \in pass.keys /\ pass.step \in {"completeJobs", "completeItems", "failJobs", "failItems"}
    BY <1>1, <2>2 DEF OwnInv, BatchOwned, OnlyWritten
  <2>3. QED
    BY <2>1, <2>2
<1>2. OwnedBut(U)'
  BY <1>1 DEF OwnedBut, OnlyWritten
<1>3. QED
  BY <1>2 DEF OwnInv

LEMMA ResolveJobsOwned ==
  ASSUME NEW T, NEW U, OnlyWritten(T, U), TypeOK, AttemptsInv, OwnInv(T), NEW from, NEW st, NEW to, ResolveJobs(from, st, to),
         \/ from \in {"completeJobs", "failJobs"} /\ to \in {"completeItems", "failItems"}
         \/ st \in JobActive /\ to = "reschedItems"
  PROVE  OwnInv(U)'
<1>1. UNCHANGED <<cmd, asks, item, row, drops>> /\ pass.step = from
  BY DEF ResolveJobs, cmdVars
<1>2. /\ pass'.claimed = pass.claimed /\ pass'.plan = pass.plan /\ pass'.step = to
      /\ pass'.jobs = pass.jobs /\ pass'.keys = pass.keys /\ pass.keys \subseteq Key
  BY DEF ResolveJobs, TypeOK, Passes
<1>3. \A j \in Job : status'[j] = IF j \in pass.jobs THEN st ELSE status[j]
  BY DEF ResolveJobs, JobsBecome
<1>4. /\ AskedOnce' /\ HeldItems' /\ PlanOwned'
      /\ \A k \in Key : OwnedOutside(k, pass.jobs) =>
           /\ OwnedOutside(k, {})'
           /\ \/ \E j \in Job \ pass.jobs : status'[j] \in JobActive /\ item'[j][k] \in ItemActive
              \/ \E j \in Job : k \in asks'[j] /\ (InProgress(j)' \/ cmd'[j] = "lost")
      /\ \A k \in Key \ pass.keys : OwnedOutside(k, {}) => OwnedOutside(k, {})'
  <2>1. \A j \in Job \ pass.jobs : status'[j] = status[j] /\ item'[j] = item[j]
    BY <1>1, <1>3
  <2>2. \A j \in pass.jobs, k \in Key : item'[j][k] = item[j][k]
    BY <1>1
  <2>3. pass'.step \notin {"idle", "claim", "pick"}
    BY <1>2
  <2>4. QED
    BY <1>1, <1>2, <2>1, <2>2, <2>3, BatchKept
<1>5. CASE from \in {"completeJobs", "failJobs"} /\ to \in {"completeItems", "failItems"}
  <2>1. ASSUME NEW k \in pass.keys \ U, row[k].status \in RowWaiting
        PROVE  OwnedOutside(k, pass.jobs)'
    <3>1. k \in Key /\ OwnedOutside(k, pass.jobs)
      BY <1>1, <1>2, <1>5, <2>1 DEF OwnInv, BatchOwned, OnlyWritten
    <3>2. QED
      BY <1>2, <1>4, <3>1 DEF OwnedOutside
  <2>2. BatchOwned(U)'
    BY <1>1, <1>2, <1>5, <2>1 DEF BatchOwned, OnlyWritten, Unsettled
  <2>3. QED
    BY <1>1, <1>4, <1>5, <2>2, ResolvedOwned
<1>6. CASE st \in JobActive /\ to = "reschedItems"
  <2>1. \A j \in Job : status[j] \in JobActive => status'[j] \in JobActive
    BY <1>3, <1>6
  <2>2. \A k \in Key : OwnedOutside(k, {}) => OwnedOutside(k, {})'
    BY <1>1, <2>1 DEF OwnedOutside, InProgress
  <2>3. BatchOwned(U)'
    BY <1>2, <1>6 DEF BatchOwned, OnlyWritten, Unsettled
  <2>4. QED
    BY <1>1, <1>4, <2>2, <2>3, ResolvedOwned
<1>7. QED
  BY <1>5, <1>6

LEMMA ResolveItemsOwned ==
  ASSUME NEW T, NEW U, OnlyWritten(T, U), TypeOK, AttemptsInv, OwnInv(T), NEW from, NEW st, ResolveItems(from, st),
         from \in {"completeItems", "failItems"} \/ st \in ItemActive
  PROVE  OwnInv(U)'
<1>1. UNCHANGED <<cmd, asks, status, row, drops>> /\ pass.step = from
  BY DEF ResolveItems, cmdVars
<1>2. /\ pass'.claimed = pass.claimed /\ pass'.plan = pass.plan /\ pass'.step = "pick"
      /\ pass'.jobs = {} /\ pass'.keys = {}
  BY DEF ResolveItems, TypeOK, Passes
<1>3. \A j \in Job, k \in Key :
        item'[j][k] = IF j \in pass.jobs /\ item[j][k] # "none" THEN st ELSE item[j][k]
  BY DEF ResolveItems, ItemsBecome
<1>4. /\ AskedOnce' /\ HeldItems' /\ PlanOwned'
      /\ \A k \in Key : OwnedOutside(k, pass.jobs) => OwnedOutside(k, {})'
      /\ \A k \in Key \ pass.keys : OwnedOutside(k, {}) => OwnedOutside(k, {})'
  <2>1. \A j \in Job \ pass.jobs : item'[j] = item[j]
    BY DEF ResolveItems, ItemsBecome, TypeOK
  <2>2. \A j \in pass.jobs, k \in Key : item'[j][k] # "none" => item[j][k] # "none"
    BY <1>3 DEF TypeOK, Passes
  <2>3. QED
    BY <1>1, <1>2, <2>1, <2>2, BatchKept
<1>5. BatchOwned(U)'
  BY <1>2 DEF BatchOwned, OnlyWritten, Unsettled
<1>6. CASE from \in {"completeItems", "failItems"}
  BY <1>1, <1>4, <1>5, <1>6, ResolvedOwned
<1>7. CASE st \in ItemActive
  <2>1. \A j \in Job, k \in Key : item[j][k] \in ItemActive => item'[j][k] \in ItemActive
    BY <1>3, <1>7
  <2>2. \A k \in Key : OwnedOutside(k, {}) => OwnedOutside(k, {})'
    BY <1>1, <2>1 DEF OwnedOutside, InProgress
  <2>3. QED
    BY <1>1, <1>4, <1>5, <2>2, ResolvedOwned
<1>8. QED
  BY <1>6, <1>7

\* A query of the try block throws.
LEMMA TryFailsOwned ==
  ASSUME NEW T, NEW U, OnlyWritten(T, U), TypeOK, AttemptsInv, OwnInv(T), TryFails PROVE OwnInv(U)'
<1>1. UNCHANGED <<cmd, asks, status, row, drops>>
  BY DEF TryFails, cmdVars
<1>2. /\ pass'.claimed = pass.claimed /\ pass'.plan = pass.plan /\ pass'.step = "catch"
      /\ pass'.jobs = pass.jobs /\ pass'.keys = pass.keys /\ pass'.error = "fatal"
  BY DEF TryFails, TypeOK, Passes
<1>3. \/ item' = item
      \/ pass.step = "completeItems" /\ ItemsBecome(pass.jobs, "confirmed")
  BY DEF TryFails
<1>4. /\ AskedOnce' /\ HeldItems' /\ PlanOwned'
      /\ \A k \in Key : OwnedOutside(k, pass.jobs) => OwnedOutside(k, {})'
      /\ \A k \in Key \ pass.keys : OwnedOutside(k, {}) => OwnedOutside(k, {})'
  <2>1. \A j \in Job \ pass.jobs : item'[j] = item[j]
    BY <1>3 DEF ItemsBecome, TypeOK
  <2>2. \A j \in pass.jobs, k \in Key :
          /\ item'[j][k] # "none" => item[j][k] # "none"
          /\ item'[j][k] \in ItemActive => item[j][k] \in ItemActive
    BY <1>3 DEF ItemsBecome, TypeOK, Passes, ItemActive
  <2>3. QED
    BY <1>1, <1>2, <2>1, <2>2, BatchKept
<1>5. BatchOwned(U)'
  BY <1>2 DEF BatchOwned, OnlyWritten, Unsettled
<1>6. CASE item' = item
  <2>1. \A k \in Key : OwnedOutside(k, {}) => OwnedOutside(k, {})'
    BY <1>1, <1>6 DEF OwnedOutside, InProgress
  <2>2. QED
    BY <1>1, <1>4, <1>5, <2>1, ResolvedOwned
<1>7. CASE pass.step = "completeItems"
  BY <1>1, <1>4, <1>5, <1>7, ResolvedOwned
<1>8. QED
  BY <1>3, <1>6, <1>7

\* Every step keeps an owner for every waiting row.
LEMMA StepOwned ==
  ASSUME NEW T, NEW U, OnlyWritten(T, U), TypeOK, AttemptsInv, OwnInv(T), [Next]_vars
  PROVE  OwnInv(U)'
<1>1. ASSUME NEW j \in Job, Command(j) \/ CommandFails(j) PROVE OwnInv(U)'
  BY <1>1, CommandOwned, AcceptOwned DEF Command
<1>2. CASE Clock \/ TimerFires \/ CronTick \/ UNCHANGED vars
  BY <1>2, ClockOwned
<1>3. ASSUME NEW d \in drops, Drop(d) PROVE OwnInv(U)'
  BY <1>3, DropOwned
<1>4. CASE Drained \/ NextRound \/ PassFails \/ Crash
  <2>1. UNCHANGED <<asks, status, item, row>> /\ drops' \subseteq drops
    BY <1>4 DEF Drained, NextRound, PassFails, Crash, cmdVars, jobVars
  <2>2. pass' = IdlePass \/ pass' = [IdlePass EXCEPT !.step = "claim"]
    BY <1>4 DEF Drained, NextRound, PassFails, Crash
  <2>3. pass'.claimed = {} /\ pass'.jobs = {} /\ pass'.keys = {} /\ pass'.step \in {"idle", "claim"}
    <3>1. CASE pass' = IdlePass
      BY <3>1 DEF IdlePass
    <3>2. CASE pass' = [IdlePass EXCEPT !.step = "claim"]
      BY <3>2 DEF IdlePass
    <3>3. QED
      BY <2>2, <3>1, <3>2
  <2>4. \A j \in Job : /\ cmd'[j] = "idle" => cmd[j] = "idle"
                       /\ InProgress(j) \/ cmd[j] = "lost" => InProgress(j)' \/ cmd'[j] = "lost"
    <3>1. CASE cmd' = cmd
      BY <3>1 DEF InProgress
    <3>2. CASE Crash
      BY <3>2 DEF Crash, InProgress
    <3>3. QED
      BY <1>4, <3>1, <3>2 DEF Drained, NextRound, PassFails, cmdVars
  <2>5. QED
    BY <2>1, <2>3, <2>4, ForgetOwned
<1>5. CASE PassWork
  <2>1. CASE \E C \in SUBSET Job, plan \in [Key -> Job \union {None}] : Claim(C, plan)
    BY <2>1, ClaimOwned
  <2>2. CASE \E gs \in SUBSET Group : Pick(gs)
    BY <2>2, PickOwned
  <2>3. CASE Mark \/ Verify \/ Confirm \/ Catch
             \/ \E chunk \in SUBSET Key, outcome \in WbOutcomes : Send(chunk, outcome)
    BY <2>3, RowsOwned
  <2>4. CASE CompleteJobs \/ FailJobs
    BY <2>4, ResolveJobsOwned DEF CompleteJobs, FailJobs
  <2>5. CASE RescheduleJobs
    BY <2>5, ResolveJobsOwned DEF RescheduleJobs, JobActive
  <2>6. CASE CompleteItems \/ FailItems
    BY <2>6, ResolveItemsOwned DEF CompleteItems, FailItems
  <2>7. CASE RescheduleItems
    BY <2>7, ResolveItemsOwned DEF RescheduleItems, ItemActive
  <2>8. QED
    BY <1>4, <1>5, <2>1, <2>2, <2>3, <2>4, <2>5, <2>6, <2>7 DEF PassWork
<1>6. CASE TryFails
  BY <1>6, TryFailsOwned
<1>7. QED
  BY <1>1, <1>2, <1>3, <1>4, <1>5, <1>6 DEF Next, Failure

\* A displayed bid that waits is never left to the memory of the pass, for any
\* commands, clusters, outcomes of WB, crashes and failing queries.
THEOREM OwnedCorrect == Spec => []RowOwned
<1>1. Init => AttemptsInv /\ OwnInv({})
  BY InitAttempts, InitOwned
<1>2. TypeOK /\ TypeOK' /\ AttemptsInv /\ OwnInv({}) /\ [Next]_vars => (AttemptsInv /\ OwnInv({}))'
  BY StepAttempts, StepOwned DEF OnlyWritten
<1>3. OwnInv({}) => RowOwned
  BY DEF OwnInv, OwnedBut, RowOwned
<1>4. QED
  BY <1>1, <1>2, <1>3, TypeCorrect, PTL DEF Spec

-----------------------------------------------------------------------------
(* Without retries the queue implements the latest-state queue. *)

\* WB accepts a request or refuses it for good.
NoRetries == WbOutcomes \subseteq {"accepted", "rejected"}

Accepted == {j \in Job : cmd[j] = "accepted"}

\* A command follows accepted ones only, and its supersede statements see them.
PastSeen ==
  /\ \A j \in Job : j \notin follows[j] /\ follows[j] \subseteq Accepted
  /\ \A j \in Job : cmd[j] = "opened" => follows[j] \subseteq sees[j]
  /\ \A j \in Accepted : status[j] # "absent"

\* What a command follows has nothing left to send where the command asks.
OvertakenDead ==
  \A j \in Accepted : \A i \in follows[j], k \in asks[j] :
    status[i] \notin JobActive \/ item[i][k] \notin ItemActive

\* WB shows accepted commands, and the plan never leads back from them.
PlanForward ==
  /\ \A k \in Key : wb[k] # None => wb[k] \in Accepted /\ k \in asks[wb[k]]
  /\ \A k \in Key : pass.plan[k] # None =>
       /\ pass.plan[k] \in Accepted /\ k \in asks[pass.plan[k]]
       /\ wb[k] # None => pass.plan[k] \notin follows[wb[k]]

NothingRetried ==
  /\ pass.error # "recoverable"
  /\ pass.step = "catch" => pass.error = "fatal"
  /\ pass.step \notin {"reschedJobs", "reschedItems"}

KeysPlanned == \A k \in pass.keys : pass.plan[k] # None

LatestInv == PastSeen /\ OvertakenDead /\ PlanForward /\ NothingRetried /\ KeysPlanned

LEMMA InitLatest == Init => LatestInv /\ Latest!Init
<1> SUFFICES ASSUME Init PROVE LatestInv /\ Latest!Init
  OBVIOUS
<1>1. Accepted = {} /\ pass.error = "none" /\ pass.step = "idle" /\ pass.plan = NoPlan
      /\ pass.keys = {}
  BY DEF Init, Accepted, IdlePass
<1>2. PastSeen /\ OvertakenDead
  BY <1>1 DEF Init, PastSeen, OvertakenDead
<1>3. PlanForward /\ NothingRetried /\ KeysPlanned
  BY <1>1 DEF Init, PlanForward, NothingRetried, KeysPlanned, NoPlan
<1> QED
  BY <1>1, <1>2, <1>3 DEF Init, LatestInv, Latest!Init, Accepted

\* Steps that accept nothing, send nothing and bring nothing back to life.
LEMMA QuietLatest ==
  ASSUME TypeOK, LatestInv, UNCHANGED <<asks, follows, sees, wb>>,
         \A j \in Job : (cmd'[j] = "accepted") <=> (cmd[j] = "accepted"),
         \A j \in Job : cmd'[j] = "opened" => cmd[j] = "opened",
         \A j \in Job : status[j] # "absent" => status'[j] # "absent",
         \A j \in Job, k \in Key : status'[j] \in JobActive /\ item'[j][k] \in ItemActive
                                   => status[j] \in JobActive /\ item[j][k] \in ItemActive,
         pass'.plan \in {pass.plan, NoPlan},
         NothingRetried', KeysPlanned'
  PROVE  LatestInv' /\ UNCHANGED Latest!vars
<1>1. Accepted' = Accepted
  BY DEF Accepted
<1>2. PastSeen'
  BY <1>1 DEF LatestInv, PastSeen, Accepted
<1>3. OvertakenDead'
  BY <1>1 DEF LatestInv, OvertakenDead, PastSeen, TypeOK, Accepted
<1>4. PlanForward'
  BY <1>1 DEF LatestInv, PlanForward, NoPlan
<1> QED
  BY <1>1, <1>2, <1>3, <1>4 DEF LatestInv, Latest!vars, Accepted

\* A command arrives.
LEMMA DesireLatest ==
  ASSUME TypeOK, LatestInv, NEW j \in Job, NEW K \in Requests, Desire(j, K)
  PROVE  LatestInv' /\ Latest!Arrive(j)
<1>1. /\ cmd[j] = "idle" /\ cmd' = [cmd EXCEPT ![j] = "desired"]
      /\ follows' = [follows EXCEPT ![j] = Accepted]
      /\ asks' = [asks EXCEPT ![j] = K]
      /\ UNCHANGED <<sees, status, item, wb, pass>>
  BY DEF Desire, Accepted, jobVars
<1>2. Accepted' = Accepted /\ j \notin Accepted
  BY <1>1 DEF Accepted, TypeOK
<1>3. \A i \in Job : i # j => /\ cmd'[i] = cmd[i] /\ follows'[i] = follows[i]
                              /\ asks'[i] = asks[i]
  BY <1>1 DEF TypeOK
<1>4. follows'[j] = Accepted /\ cmd'[j] = "desired"
  BY <1>1 DEF TypeOK
<1>5. PastSeen'
  BY <1>1, <1>2, <1>3, <1>4 DEF LatestInv, PastSeen
<1>6. OvertakenDead'
  BY <1>1, <1>2, <1>3 DEF LatestInv, OvertakenDead, Accepted
<1>7. PlanForward'
  BY <1>1, <1>2, <1>3 DEF LatestInv, PlanForward, Accepted
<1>8. Latest!Arrive(j)
  BY <1>1, <1>2 DEF Latest!Arrive, Accepted
<1> QED
  BY <1>1, <1>5, <1>6, <1>7, <1>8 DEF LatestInv, NothingRetried, KeysPlanned

\* Its second transaction begins.
LEMMA OpenLatest ==
  ASSUME TypeOK, LatestInv, NEW j \in Job, Open(j)
  PROVE  LatestInv' /\ UNCHANGED Latest!vars
<1>1. /\ cmd[j] = "stamped" /\ cmd' = [cmd EXCEPT ![j] = "opened"]
      /\ sees' = [sees EXCEPT ![j] = {i \in Job : status[i] # "absent"}]
      /\ UNCHANGED <<asks, follows, status, item, wb, pass>>
  BY DEF Open, jobVars
<1>2. Accepted' = Accepted
  BY <1>1 DEF Accepted, TypeOK
<1>3. follows[j] \subseteq sees'[j]
  BY <1>1 DEF LatestInv, PastSeen, Accepted, TypeOK
<1>4. PastSeen'
  BY <1>1, <1>2, <1>3 DEF LatestInv, PastSeen, TypeOK
<1> QED
  BY <1>1, <1>2, <1>4 DEF LatestInv, OvertakenDead, PlanForward, NothingRetried, KeysPlanned,
     Latest!vars,
     Accepted

\* It commits: nothing it follows keeps a live item where it asks.
LEMMA AcceptLatest ==
  ASSUME TypeOK, AskedOnce, LatestInv, NEW j \in Job, Accept(j)
  PROVE  LatestInv' /\ Latest!Answer(j)
<1>1. /\ cmd[j] = "opened" /\ cmd' = [cmd EXCEPT ![j] = "accepted"]
      /\ UNCHANGED <<asks, follows, sees, wb, pass>>
  BY DEF Accept
<1>2. Accepted' = Accepted \union {j} /\ j \notin Accepted
  BY <1>1 DEF Accepted, TypeOK
<1>3. /\ item' = [Superseded(j) EXCEPT ![j] =
                     [k \in Key |-> IF k \in asks[j] THEN "queued" ELSE "none"]]
      /\ status' = [i \in Job |->
           IF i = j THEN "queued"
           ELSE IF i \in Rivals(j) /\ \A k \in Key : Superseded(j)[i][k] \notin ItemActive
             THEN "failed" ELSE status[i]]
  BY DEF Accept
<1>4. \A i \in Job \ {j}, k \in Key :
        item'[i][k] = IF i \in Rivals(j) /\ k \in asks[j] /\ item[i][k] \in ItemActive
                        THEN "failed" ELSE item[i][k]
  BY <1>3 DEF Superseded
<1>5. \A i \in Job : /\ status[i] # "absent" => status'[i] # "absent"
                     /\ i # j /\ status'[i] \in JobActive => status[i] \in JobActive
  BY <1>3 DEF JobActive
<1>6. status'[j] # "absent"
  BY <1>3
<1>7. PastSeen'
  BY <1>1, <1>2, <1>5, <1>6 DEF LatestInv, PastSeen, TypeOK, Accepted
<1>8. OvertakenDead'
  <2> SUFFICES ASSUME NEW m \in Accepted', NEW i \in follows[m], NEW k \in asks[m],
                      status'[i] \in JobActive, item'[i][k] \in ItemActive
               PROVE  FALSE
    BY <1>1 DEF OvertakenDead
  <2>1. i \in Accepted /\ i \in Job /\ i # j /\ m \in Job /\ k \in Key
    BY <1>2 DEF LatestInv, PastSeen, TypeOK, Accepted
  <2>2. status[i] \in JobActive /\ item[i][k] \in ItemActive
    BY <1>4, <1>5, <2>1 DEF ItemActive
  <2>3. CASE m # j
    BY <1>2, <2>2, <2>3 DEF LatestInv, OvertakenDead
  <2>4. CASE m = j
    <3>1. k \in asks[i] /\ k \in asks[j]
      BY <2>1, <2>2, <2>4 DEF AskedOnce, ItemActive
    <3>2. i \in Rivals(j)
      BY <1>1, <2>1, <2>2, <2>4, <3>1 DEF Rivals, SameGroup, LatestInv, PastSeen
    <3>3. item'[i][k] = "failed"
      BY <1>4, <2>1, <2>2, <3>1, <3>2
    <3> QED BY <3>3 DEF ItemActive
  <2> QED BY <2>3, <2>4
<1>9. PlanForward'
  BY <1>1, <1>2 DEF LatestInv, PlanForward
<1>10. Latest!Answer(j)
  BY <1>1, <1>2 DEF Latest!Answer, Accepted
<1> QED
  BY <1>1, <1>7, <1>8, <1>9, <1>10 DEF LatestInv, NothingRetried, KeysPlanned

\* A claim plans live items of active jobs, which nothing in WB follows.
LEMMA ClaimLatest ==
  ASSUME TypeOK, AskedOnce, AttemptsInv, LatestInv,
         NEW C \in SUBSET Job, NEW plan \in [Key -> Job \union {None}], Claim(C, plan)
  PROVE  LatestInv' /\ UNCHANGED Latest!vars
<1>1. /\ C \subseteq Claimable /\ Merged(C, plan)
      /\ status' = [j \in Job |-> IF j \in C THEN "running" ELSE status[j]]
      /\ item' = [j \in Job |-> [k \in Key |->
           IF j \in C /\ item[j][k] \in ItemActive THEN "running" ELSE item[j][k]]]
      /\ UNCHANGED <<cmd, asks, follows, sees, wb>>
  BY DEF Claim, cmdVars
<1>2. pass'.plan = plan /\ pass'.error = "none" /\ pass'.step = "pick"
      /\ pass'.keys = {}
  BY DEF Claim, IdlePass
<1>3. Accepted' = Accepted
  BY <1>1 DEF Accepted
<1>4. \A j \in Job : /\ status'[j] \in JobActive => status[j] \in JobActive
                     /\ status[j] # "absent" => status'[j] # "absent"
  BY <1>1 DEF Claimable
<1>5. \A j \in Job, k \in Key : item'[j][k] \in ItemActive => item[j][k] \in ItemActive
  BY <1>1 DEF ItemActive
<1>6. PastSeen'
  BY <1>1, <1>3, <1>4 DEF LatestInv, PastSeen, Accepted
<1>7. OvertakenDead'
  BY <1>1, <1>3, <1>4, <1>5 DEF LatestInv, OvertakenDead, PastSeen, TypeOK, Accepted
<1>8. PlanForward'
  <2> SUFFICES ASSUME NEW k \in Key, plan[k] # None
               PROVE  /\ plan[k] \in Accepted /\ k \in asks[plan[k]]
                      /\ wb[k] # None => plan[k] \notin follows[wb[k]]
    BY <1>1, <1>2, <1>3 DEF PlanForward, LatestInv
  <2>1. plan[k] \in C /\ item[plan[k]][k] \in ItemActive
    BY <1>1 DEF Merged, Live
  <2>2. plan[k] \in Job /\ status[plan[k]] \in JobActive
    BY <1>1, <2>1 DEF Claimable
  <2>3. plan[k] \in Accepted /\ k \in asks[plan[k]]
    BY <2>1, <2>2 DEF AttemptsInv, AskedOnce, Accepted, JobActive, ItemActive
  <2> QED
    BY <2>1, <2>2, <2>3 DEF LatestInv, PlanForward, OvertakenDead
<1> QED
  BY <1>1, <1>2, <1>3, <1>6, <1>7, <1>8 DEF LatestInv, NothingRetried, KeysPlanned, Latest!vars, Accepted

\* A request takes WB forward.
LEMMA SendLatest ==
  ASSUME NoRetries, TypeOK, TypeOK', LatestInv, ConfirmedInv({}),
         NEW chunk \in SUBSET Key, NEW outcome \in WbOutcomes, Send(chunk, outcome)
  PROVE  LatestInv' /\ Latest!Apply
<1>1. /\ UNCHANGED <<cmd, asks, follows, sees, status, item>>
      /\ wb' = [k \in Key |-> IF k \in chunk /\ outcome \in {"accepted", "lost"}
                                THEN pass.plan[k] ELSE wb[k]]
      /\ chunk \subseteq pass.unsent
  BY DEF Send, cmdVars, jobVars
<1>2. ErrorOf(outcome) \in {"none", "fatal"}
  BY DEF NoRetries, ErrorOf
<1>3. /\ pass'.plan = pass.plan /\ pass'.keys = pass.keys
      /\ pass'.error = ErrorOf(outcome)
      /\ pass'.step \in {"catch", "verify", "send"}
      /\ pass'.step = "catch" => ErrorOf(outcome) # "none"
  BY DEF Send, TypeOK, Passes
<1>4. Accepted' = Accepted
  BY <1>1 DEF Accepted
<1>5. \A k \in chunk : pass.plan[k] # None
  BY <1>1 DEF LatestInv, KeysPlanned, ConfirmedInv
<1>6. \A k \in Key : wb'[k] = wb[k] \/ (pass.plan[k] # None /\ wb'[k] = pass.plan[k])
  BY <1>1, <1>5
<1>7. PastSeen' /\ OvertakenDead' /\ NothingRetried' /\ KeysPlanned'
  BY <1>1, <1>2, <1>3, <1>4 DEF LatestInv, PastSeen, OvertakenDead, NothingRetried, KeysPlanned
<1>8. PlanForward'
  <2>1. ASSUME NEW k \in Key, wb'[k] # None PROVE wb'[k] \in Accepted /\ k \in asks[wb'[k]]
    BY <1>6, <2>1 DEF LatestInv, PlanForward
  <2>2. ASSUME NEW k \in Key, pass.plan[k] # None, wb'[k] # None
        PROVE  pass.plan[k] \notin follows[wb'[k]]
    BY <1>6, <2>2 DEF LatestInv, PlanForward, PastSeen, Accepted
  <2> QED
    BY <1>1, <1>3, <1>4, <2>1, <2>2 DEF LatestInv, PlanForward
<1>9. Latest!Apply
  <2>1. \A k \in Key : wb'[k] = wb[k] \/ Latest!MayReplace(wb'[k], wb[k])
    BY <1>6 DEF LatestInv, PlanForward, Latest!MayReplace, Accepted
  <2> QED
    BY <1>1, <2>1 DEF Latest!Apply, TypeOK
<1> QED
  BY <1>7, <1>8, <1>9 DEF LatestInv, TypeOK

\* The other steps of the pass, and its background statements.
LEMMA PassLatest ==
  ASSUME TypeOK, LatestInv, ConfirmedInv({}), WbTrusted,
         \/ Drained \/ NextRound \/ Mark \/ Verify \/ Confirm \/ Catch \/ TimerFires \/ CronTick
         \/ CompleteJobs \/ CompleteItems \/ RescheduleJobs \/ RescheduleItems
         \/ FailJobs \/ FailItems
         \/ \E gs \in SUBSET Group : Pick(gs)
         \/ \E d \in drops : Drop(d)
         \/ TryFails \/ PassFails
  PROVE  LatestInv' /\ UNCHANGED Latest!vars
<1>1. \/ UNCHANGED <<status, item>>
      \/ \E js \in SUBSET Job, st \in {"succeeded", "failed"} :
           JobsBecome(js, st) /\ UNCHANGED item
      \/ \E js \in SUBSET Job, st \in {"confirmed", "failed"} :
           ItemsBecome(js, st) /\ UNCHANGED status
  <2>1. pass.jobs \in SUBSET Job /\ \A d \in drops : d.jobs \in SUBSET Job
    BY DEF TypeOK, Passes, Drops
  <2>2. CASE \/ Drained \/ NextRound \/ Mark \/ Verify \/ Confirm \/ Catch \/ TimerFires
             \/ CronTick \/ PassFails \/ \E gs \in SUBSET Group : Pick(gs)
    BY <2>2 DEF Drained, NextRound, Mark, Verify, Confirm, Catch, TimerFires, CronTick,
       PassFails, Pick, jobVars
  <2>3. CASE CompleteJobs \/ FailJobs
    BY <2>1, <2>3 DEF CompleteJobs, FailJobs, ResolveJobs
  <2>4. CASE CompleteItems \/ FailItems
    BY <2>1, <2>4 DEF CompleteItems, FailItems, ResolveItems
  <2>5. CASE \E d \in drops : Drop(d)
    BY <2>1, <2>5 DEF Drop
  <2>6. CASE TryFails
    BY <2>1, <2>6 DEF TryFails
  <2>7. ~RescheduleJobs /\ ~RescheduleItems
    BY DEF RescheduleJobs, RescheduleItems, ResolveJobs, ResolveItems, LatestInv, NothingRetried
  <2> QED
    BY <2>2, <2>3, <2>4, <2>5, <2>6, <2>7
<1>2. \A j \in Job : status[j] # "absent" => status'[j] # "absent"
  BY <1>1 DEF JobsBecome
<1>3. \A j \in Job, k \in Key : status'[j] \in JobActive /\ item'[j][k] \in ItemActive
                                => status[j] \in JobActive /\ item[j][k] \in ItemActive
  BY <1>1 DEF JobsBecome, ItemsBecome, JobActive, ItemActive
<1>4. UNCHANGED <<cmd, asks, follows, sees, wb>>
  BY DEF Drained, NextRound, Mark, Verify, Confirm, Catch, TimerFires, CronTick, CompleteJobs,
     CompleteItems, RescheduleJobs, RescheduleItems, FailJobs, FailItems, ResolveJobs,
     ResolveItems, Pick, Drop, TryFails, PassFails, cmdVars
<1>5. /\ pass'.plan \in {pass.plan, NoPlan}
      /\ NothingRetried' /\ KeysPlanned'
  <2>1. CASE Drained \/ NextRound \/ PassFails
    BY <2>1 DEF Drained, NextRound, PassFails, IdlePass, NothingRetried, KeysPlanned
  <2>2. CASE \E gs \in SUBSET Group : Pick(gs)
    <3>1. PICK gs \in SUBSET Group : Pick(gs)
      BY <2>2
    <3>2. /\ pass'.plan = pass.plan /\ pass'.keys = KeysOf(pass.plan, gs)
          /\ pass'.step = "mark" /\ pass'.error = "none"
      BY <3>1 DEF Pick, TypeOK, Passes
    <3> QED
      BY <3>2 DEF KeysOf, NothingRetried, KeysPlanned
  <2>3. CASE Verify
    <3>1. ~Mismatch
      BY <2>3 DEF Verify, ConfirmedInv, Applied, Mismatch
    <3> QED
      BY <2>3, <3>1 DEF Verify, TypeOK, Passes, LatestInv, NothingRetried, KeysPlanned
  <2>4. CASE Catch
    BY <2>4 DEF Catch, TypeOK, Passes, LatestInv, NothingRetried, KeysPlanned
  <2>5. CASE Mark \/ Confirm \/ TimerFires \/ CronTick \/ TryFails \/ \E d \in drops : Drop(d)
    BY <2>5 DEF Mark, Confirm, TimerFires, CronTick, TryFails, Drop, TypeOK, Passes, LatestInv,
       NothingRetried, KeysPlanned
  <2>6. CASE \/ CompleteJobs \/ CompleteItems \/ RescheduleJobs \/ RescheduleItems
             \/ FailJobs \/ FailItems
    BY <2>6 DEF CompleteJobs, CompleteItems, RescheduleJobs, RescheduleItems, FailJobs,
       FailItems, ResolveJobs, ResolveItems, TypeOK, Passes, LatestInv, NothingRetried,
       KeysPlanned
  <2> QED
    BY <2>1, <2>2, <2>3, <2>4, <2>5, <2>6
<1> QED
  BY <1>2, <1>3, <1>4, <1>5, QuietLatest

LEMMA StepLatest ==
  ASSUME NoRetries, TypeOK, TypeOK', AskedOnce, AttemptsInv, ConfirmedInv({}), LatestInv,
         [Next]_vars
  PROVE  LatestInv' /\ [Latest!Next]_Latest!vars
<1>0. WbTrusted
  BY DEF NoRetries, WbTrusted
<1>1. ASSUME NEW j \in Job, NEW K \in Requests, Desire(j, K)
      PROVE  LatestInv' /\ [Latest!Next]_Latest!vars
  BY <1>1, DesireLatest DEF Latest!Next
<1>2. ASSUME NEW j \in Job, Accept(j) PROVE LatestInv' /\ [Latest!Next]_Latest!vars
  BY <1>2, AcceptLatest DEF Latest!Next
<1>3. ASSUME NEW j \in Job, Open(j) PROVE LatestInv' /\ [Latest!Next]_Latest!vars
  BY <1>3, OpenLatest
<1>4. CASE \E C \in SUBSET Job, plan \in [Key -> Job \union {None}] : Claim(C, plan)
  BY <1>4, ClaimLatest
<1>5. CASE \E chunk \in SUBSET Key, outcome \in WbOutcomes : Send(chunk, outcome)
  BY <1>5, SendLatest DEF Latest!Next
<1>6. CASE UNCHANGED vars \/ Clock \/ \E j \in Job : Stamp(j) \/ CommandFails(j)
  <2>1. /\ UNCHANGED <<asks, follows, sees, wb, status, item, pass>>
        /\ \A j \in Job : (cmd'[j] = "accepted") <=> (cmd[j] = "accepted")
        /\ \A j \in Job : cmd'[j] = "opened" => cmd[j] = "opened"
    BY <1>6 DEF vars, Clock, Due, Age, CooldownEnds, Stamp, CommandFails, cmdVars, jobVars, TypeOK
  <2> QED
    BY <2>1, QuietLatest DEF LatestInv, NothingRetried, KeysPlanned
<1>7. CASE Crash
  <2>1. /\ UNCHANGED <<asks, follows, sees, wb, status, item>>
        /\ \A j \in Job : (cmd'[j] = "accepted") <=> (cmd[j] = "accepted")
        /\ \A j \in Job : cmd'[j] = "opened" => cmd[j] = "opened"
    BY <1>7 DEF Crash, jobVars
  <2>2. pass'.plan = NoPlan /\ NothingRetried' /\ KeysPlanned'
    BY <1>7 DEF Crash, IdlePass, NothingRetried, KeysPlanned
  <2> QED
    BY <2>1, <2>2, QuietLatest
<1> QED
  BY <1>0, <1>1, <1>2, <1>3, <1>4, <1>5, <1>6, <1>7, PassLatest
     DEF Next, Command, PassWork, Failure

\* As long as WB answers every request, by accepting or by refusing it, the queue
\* is a latest-state queue: whatever crashes, fails or is superseded meanwhile, no
\* command is overtaken by one that had been answered before it arrived.
THEOREM LatestCorrect ==
  ASSUME NoRetries PROVE Spec => LatestStateSpec
<1>1. WbTrusted
  BY DEF NoRetries, WbTrusted
<1>2. Init => AttemptsInv /\ OwnInv({}) /\ ConfirmedInv({}) /\ LatestInv /\ Latest!Init
  BY InitAttempts, InitOwned, InitConfirmed, InitLatest
<1>3. TypeOK /\ TypeOK' /\ AttemptsInv /\ OwnInv({}) /\ ConfirmedInv({}) /\ LatestInv /\ [Next]_vars
        => (AttemptsInv /\ OwnInv({}) /\ ConfirmedInv({}) /\ LatestInv)' /\ [Latest!Next]_Latest!vars
  BY <1>1, StepAttempts, StepOwned, StepConfirmed, StepLatest DEF OnlyWritten, OwnInv
<1> QED
  BY <1>2, <1>3, TypeCorrect, PTL DEF Spec, LatestStateSpec, Latest!Spec
=============================================================================
