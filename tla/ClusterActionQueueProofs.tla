----------------------- MODULE ClusterActionQueueProofs -----------------------
(* Theorems about ClusterActionQueue, for every value of its constants. *)
EXTENDS ClusterActionHistory, TLAPS

Drops == [jobs : SUBSET Job, step : {"jobs", "items"}]
Rows == [Key -> [job : Job \union {None}, status : RowStatus]]
Errors == {"none", "recoverable", "fatal"}

\* The idle pass is a pass.
LEMMA IdleIsPass == IdlePass \in Passes
  BY DEF IdlePass, Passes, PassStep

\* A pass stays a pass when it moves on to another step.
LEMMA PassMoves ==
  ASSUME NEW p \in Passes, NEW s \in PassStep, NEW e \in Errors
  PROVE  /\ [p EXCEPT !.step = s] \in Passes
         /\ [p EXCEPT !.step = s, !.error = e] \in Passes
         /\ [p EXCEPT !.error = e, !.step = s] \in Passes
<1>1. [p EXCEPT !.step = s] \in Passes
  BY DEF Passes
<1>2. [p EXCEPT !.step = s, !.error = e] \in Passes
  BY DEF Passes, Errors
<1>3. [p EXCEPT !.error = e, !.step = s] \in Passes
  BY DEF Passes, Errors
<1>4. QED
  BY <1>1, <1>2, <1>3

\* The initial state is well typed.
LEMMA InitTypeOK == Init => TypeOK
<1> SUFFICES ASSUME Init PROVE TypeOK
  OBVIOUS
<1>1. status \in [Job -> JobStatus] /\ attempts \in [Job -> Nat]
  BY DEF Init, JobStatus
<1>2. item \in [Job -> [Key -> ItemStatus]]
  BY DEF Init, ItemStatus
<1>3. row \in Rows
  BY DEF Init, RowStatus, Rows
<1>4. refresh \in [groups : SUBSET Group, seen : SUBSET Key]
  BY DEF Init, NoRefresh
<1>5. QED
  BY <1>1, <1>2, <1>3, <1>4, IdleIsPass DEF Init, TypeOK, CmdStage, Rows

\* A row written by the pass is a row, and the pass stays a pass.
LEMMA WriteRowType ==
  ASSUME TypeOK, NEW from \in PassStep, NEW k \in Key, NEW st \in RowStatus,
         NEW to \in PassStep, WriteRow(from, k, st, to)
  PROVE  TypeOK'
<1>1. row' \in Rows
  BY DEF WriteRow, TypeOK, Passes, Rows
<1>2. pass' \in Passes
  BY DEF WriteRow, TypeOK, Passes
<1>3. QED
  BY <1>1, <1>2 DEF WriteRow, TypeOK, cmdVars, jobVars, Rows

\* Every step of the queue keeps the types.
LEMMA StepTypeOK == TypeOK /\ [Next]_vars => TypeOK'
<1> SUFFICES ASSUME TypeOK, [Next]_vars PROVE TypeOK'
  OBVIOUS
<1> USE ActionQueueAssumption DEF cmdVars, jobVars
<1>1. ASSUME NEW j \in Job, NEW K \in Requests[j], Ask(j, K) PROVE TypeOK'
  BY <1>1 DEF Ask, TypeOK, CmdStage
<1>2. ASSUME NEW j \in Job, NEW k \in Key, Desire(j, k) PROVE TypeOK'
  BY <1>2 DEF Desire, TypeOK, RowStatus, RowWaiting
<1>3. ASSUME NEW j \in Job, Accept(j) PROVE TypeOK'
  <2>1. Superseded(j) \in [Job -> [Key -> ItemStatus]]
    BY DEF Superseded, TypeOK, ItemStatus
  <2>2. item' \in [Job -> [Key -> ItemStatus]]
    BY <1>3, <2>1 DEF Accept, ItemStatus, Active
  <2>3. status' \in [Job -> JobStatus]
    BY <1>3 DEF Accept, TypeOK, JobStatus, Active
  <2>4. QED
    BY <1>3, <2>2, <2>3 DEF Accept, TypeOK, CmdStage
<1>4. ASSUME NEW j \in Job, Ripen(j) PROVE TypeOK'
  BY <1>4 DEF Ripen, TypeOK
<1>5. CASE CooldownEnds
  BY <1>5 DEF CooldownEnds, TypeOK
<1>6. ASSUME NEW s \in PassStep, pass' = [pass EXCEPT !.step = s] PROVE pass' \in Passes
  BY <1>6, PassMoves DEF TypeOK, Errors
<1>7. CASE StartPass
  <2>1. pass' \in Passes
    BY <1>6, <1>7 DEF StartPass, PassStep
  <2>2. QED
    BY <1>7, <2>1 DEF StartPass, TypeOK
<1>8. ASSUME NEW C \in SUBSET Job, NEW plan \in [Key -> Job \union {None}], Claim(C, plan)
      PROVE TypeOK'
  <2>1. pass' \in Passes
    BY <1>8 DEF Claim, Passes, PassStep, IdlePass, JobsOf
  <2>2. drops' \subseteq Drops
    BY <1>8 DEF Claim, Drops, JobsOf, TypeOK
  <2>3. item' \in [Job -> [Key -> ItemStatus]]
    BY <1>8 DEF Claim, TypeOK, ItemStatus, Active
  <2>4. status' \in [Job -> JobStatus] /\ attempts' \in [Job -> Nat]
    BY <1>8 DEF Claim, TypeOK, JobStatus, Active
  <2>5. ready' \subseteq Job
    BY <1>8 DEF Claim, TypeOK
  <2>6. QED
    BY <1>8, <2>1, <2>2, <2>3, <2>4, <2>5 DEF Claim, TypeOK, Drops
<1>9. CASE Drained
  BY <1>9, IdleIsPass DEF Drained, TypeOK
<1>10. ASSUME NEW gs \in SUBSET Group, Pick(gs) PROVE TypeOK'
  <2>1. pass' \in Passes
    BY <1>10 DEF Pick, TypeOK, Passes, PassStep, JobsOf, KeysOf, Slice
  <2>2. QED
    BY <1>10, <2>1 DEF Pick, TypeOK
<1>11. CASE NextRound
  <2>1. pass' \in Passes
    BY <1>11, IdleIsPass, PassMoves DEF NextRound, PassStep, Errors
  <2>2. QED
    BY <1>11, <2>1 DEF NextRound, TypeOK
<1>12. ASSUME NEW k \in Key, Mark(k) \/ Confirm(k) \/ BackOff(k) \/ GiveUp(k) PROVE TypeOK'
  BY <1>12, WriteRowType DEF Mark, Confirm, BackOff, GiveUp, PassStep, RowStatus, RowWaiting
<1>13. ASSUME NEW g \in Group, Read(g) PROVE TypeOK'
  <2>1. Wanted(g) \subseteq Key
    BY DEF Wanted, Slice
  <2>2. pass' \in Passes
    BY <1>13, <2>1 DEF Read, TypeOK, Passes, PassStep
  <2>3. QED
    BY <1>13, <2>2 DEF Read, TypeOK
<1>14. ASSUME NEW g \in Group, NEW outcome \in WbOutcomes, Send(g, outcome) PROVE TypeOK'
  <2>1. ErrorOf(outcome) \in Errors
    BY DEF ErrorOf, Errors
  <2>2. CASE ErrorOf(outcome) = "none"
    <3>1. pass' = [pass EXCEPT !.todo = @ \ {g},
                     !.step = IF pass.todo = {g} THEN "verify" ELSE "send"]
      BY <1>14, <2>2 DEF Send
    <3>2. pass' \in Passes
      BY <3>1 DEF TypeOK, Passes, PassStep
    <3>3. cabinet' \subseteq Key
      BY <1>14 DEF Send, TypeOK, Passes, Slice
    <3>4. QED
      BY <1>14, <3>2, <3>3 DEF Send, TypeOK
  <2>3. CASE ErrorOf(outcome) # "none"
    <3>1. pass' = [pass EXCEPT !.error = ErrorOf(outcome),
                     !.step = IF Applied = {} THEN "catch" ELSE "sync"]
      BY <1>14, <2>3 DEF Send
    <3>2. pass' \in Passes
      BY <2>1, <3>1, PassMoves DEF TypeOK, PassStep
    <3>3. cabinet' \subseteq Key
      BY <1>14 DEF Send, TypeOK, Passes, Slice
    <3>4. QED
      BY <1>14, <3>2, <3>3 DEF Send, TypeOK
  <2>4. QED
    BY <2>2, <2>3
<1>15. CASE Verify
  <2>1. pass' = [pass EXCEPT !.step = "catch", !.error = "recoverable"]
        \/ pass' = [pass EXCEPT !.step = "mirror"]
    BY <1>15 DEF Verify
  <2>2. ASSUME pass' = [pass EXCEPT !.step = "catch", !.error = "recoverable"]
        PROVE pass' \in Passes
    BY <2>2 DEF TypeOK, Passes, PassStep
  <2>3. ASSUME pass' = [pass EXCEPT !.step = "mirror"] PROVE pass' \in Passes
    BY <1>6, <2>3 DEF PassStep
  <2>4. QED
    BY <1>15, <2>1, <2>2, <2>3 DEF Verify, TypeOK
<1>16. ASSUME NEW gs, ReplaceMirror(gs) PROVE mirror' \subseteq Key
  BY <1>16 DEF ReplaceMirror, TypeOK, Passes, Slice
<1>17. CASE Mirror
  <2>1. pass' \in Passes
    BY <1>17 DEF Mirror, TypeOK, Passes, PassStep, BatchKeys, KeysOf, Slice
  <2>2. QED
    BY <1>16, <1>17, <2>1 DEF Mirror, TypeOK
<1>18. CASE Sync
  <2>1. pass' \in Passes
    BY <1>6, <1>18 DEF Sync, PassStep
  <2>2. QED
    BY <1>16, <1>18, <2>1 DEF Sync, TypeOK
<1>19. CASE Catch
  <2>1. pass' \in Passes
    BY <1>19 DEF Catch, TypeOK, Passes, PassStep, BatchKeys, KeysOf, Slice
  <2>2. QED
    BY <1>19, <2>1 DEF Catch, TypeOK
<1>20. ASSUME NEW js, NEW st \in JobStatus, JobsBecome(js, st)
       PROVE status' \in [Job -> JobStatus]
  BY <1>20 DEF JobsBecome, TypeOK
<1>21. ASSUME NEW js, NEW st \in ItemStatus, ItemsBecome(js, st)
       PROVE item' \in [Job -> [Key -> ItemStatus]]
  BY <1>21 DEF ItemsBecome, TypeOK
<1>22. ASSUME NEW from \in PassStep, NEW st \in JobStatus, NEW to \in PassStep,
              ResolveJobs(from, st, to)
       PROVE TypeOK'
  BY <1>6, <1>20, <1>22 DEF ResolveJobs, TypeOK
<1>23. ASSUME NEW from \in PassStep, NEW st \in ItemStatus, ResolveItems(from, st)
       PROVE TypeOK'
  <2>1. pass' \in Passes
    BY <1>23 DEF ResolveItems, TypeOK, Passes, PassStep, IdlePass
  <2>2. QED
    BY <1>21, <1>23, <2>1 DEF ResolveItems, TypeOK
<1>24. CASE CompleteJobs \/ RescheduleJobs \/ FailJobs
  BY <1>22, <1>24 DEF CompleteJobs, RescheduleJobs, FailJobs, PassStep, JobStatus, Active
<1>25. CASE CompleteItems \/ RescheduleItems \/ FailItems
  BY <1>23, <1>25 DEF CompleteItems, RescheduleItems, FailItems, PassStep, ItemStatus, Active
<1>26. ASSUME NEW d \in drops, Drop(d) PROVE TypeOK'
  <2>1. status' \in [Job -> JobStatus]
    BY <1>20, <1>26 DEF Drop, JobStatus, TypeOK
  <2>2. item' \in [Job -> [Key -> ItemStatus]]
    BY <1>21, <1>26 DEF Drop, ItemStatus, TypeOK
  <2>3. drops' \subseteq Drops
    <3>1. drops \subseteq Drops
      BY DEF Drops, TypeOK
    <3>2. \A e \in Drops : [e EXCEPT !.step = "items"] \in Drops
      BY DEF Drops
    <3>3. drops' \subseteq drops \union {[d EXCEPT !.step = "items"]}
      BY <1>26 DEF Drop
    <3>4. QED
      BY <3>1, <3>2, <3>3
  <2>4. QED
    BY <1>26, <2>1, <2>2, <2>3 DEF Drop, Drops, TypeOK
<1>27. ASSUME NEW gs \in SUBSET Group, RefreshReads(gs) PROVE TypeOK'
  BY <1>27 DEF RefreshReads, TypeOK
<1>28. CASE RefreshWrites
  BY <1>28 DEF RefreshWrites, NoRefresh, TypeOK
<1>29. CASE TryFails
  <2>1. pass' \in Passes
    BY <1>29, PassMoves DEF TryFails, TypeOK, PassStep, Errors
  <2>2. item' \in [Job -> [Key -> ItemStatus]]
    BY <1>21, <1>29 DEF TryFails, ItemStatus, TypeOK
  <2>3. QED
    BY <1>29, <2>1, <2>2 DEF TryFails, Fault, TypeOK
<1>30. CASE PassFails
  BY <1>30, IdleIsPass DEF PassFails, Fault, TypeOK
<1>31. CASE Crash
  <2>1. cmd' \in [Job -> CmdStage]
    BY <1>31 DEF Crash, CmdStage, TypeOK
  <2>2. faults' \in Nat
    BY <1>31 DEF Crash, Fault, TypeOK
  <2>3. refresh' \in [groups : SUBSET Group, seen : SUBSET Key]
    BY <1>31 DEF Crash, NoRefresh
  <2>4. pass' \in Passes /\ cooldown' \in BOOLEAN /\ drops' = {}
    BY <1>31, IdleIsPass DEF Crash
  <2>5. UNCHANGED <<asks, unasked, older, status, item, attempts, ready, row,
                    cabinet, mirror>>
    BY <1>31 DEF Crash
  <2>6. QED
    BY <2>1, <2>2, <2>3, <2>4, <2>5 DEF TypeOK
<1>32. ASSUME NEW j \in Job, CommandFails(j) PROVE TypeOK'
  BY <1>32 DEF CommandFails, Fault, CmdStage, TypeOK
<1>33. CASE UNCHANGED vars
  BY <1>33 DEF vars, TypeOK
<1>34. CASE PassWork
  BY <1>8, <1>9, <1>10, <1>11, <1>12, <1>13, <1>14, <1>15, <1>17, <1>18, <1>19, <1>24,
     <1>25, <1>34 DEF PassWork
<1>35. CASE \E j \in Job : Command(j)
  BY <1>1, <1>2, <1>3, <1>35 DEF Command
<1>36. QED
  BY <1>4, <1>5, <1>7, <1>26, <1>27, <1>28, <1>29, <1>30, <1>31, <1>32, <1>33, <1>34, <1>35
     DEF Next, Clock, Refresh, Failure

\* Type correctness of the queue.
THEOREM TypeCorrect == Spec => []TypeOK
  BY InitTypeOK, StepTypeOK, PTL DEF Spec

-----------------------------------------------------------------------------
(* The sets the pass builds.  Without a refresh beside the queue, what was *)
(* read from the mirror is still what the mirror holds when it is sent.     *)

\* From the first set-minus until the mirror is written back.
Sent == {"send", "verify", "mirror", "sync"}

\* Steps at which the pass holds no set.
Free == PassStep \ ({"pick", "mark", "read", "confirm"} \union Sent)

\* The request for gs is the mirror, but for the clusters of the batch.
Planned(gs) ==
  \A k \in Slice(gs) : k \in pass.request <=>
    IF pass.plan[k] = None THEN k \in mirror ELSE pass.plan[k] \in Excludes

\* WB uses the sets requested for gs.
Used(gs) == \A k \in Slice(gs) : k \in cabinet <=> k \in pass.request

PlanInv ==
  /\ refresh.groups = {}
  /\ pass.step \in {"pick", "mark"} => pass.request = {}
  /\ pass.step = "mark" => pass.todo = pass.groups
  /\ pass.step \in {"read"} \union Sent => pass.todo \subseteq pass.groups
  /\ pass.step \in {"mark", "confirm"} => pass.rows \subseteq BatchKeys
  /\ pass.step = "read" => /\ pass.request \subseteq Slice(pass.groups \ pass.todo)
                           /\ Planned(pass.groups \ pass.todo)
  /\ pass.step \in Sent => pass.request \subseteq Slice(pass.groups) /\ Planned(pass.groups)
  /\ pass.step \in {"verify", "mirror"} => pass.todo = {}

LEMMA InitPlan == Init => PlanInv
  BY DEF Init, PlanInv, IdlePass, NoRefresh, Sent

\* Steps of others, and steps that let the sets go.
LEMMA OthersPlan ==
  ASSUME PlanInv, UNCHANGED <<pass, mirror, refresh>> PROVE PlanInv'
  BY DEF PlanInv, Planned, BatchKeys

LEMMA FreePlan ==
  ASSUME refresh'.groups = {}, pass'.step \in Free PROVE PlanInv'
  BY DEF PlanInv, Free, Sent

\* A row written: the rows left shrink, and the last one leads on.
LEMMA WriteRowPlan ==
  ASSUME TypeOK, PlanInv, NEW from \in {"mark", "confirm", "backOff", "giveUp"}, NEW k, NEW st,
         NEW to \in Free \union {"read"}, to = "read" => from = "mark", WriteRow(from, k, st, to)
  PROVE  PlanInv'
<1>1. /\ refresh' = refresh /\ mirror' = mirror /\ pass.step = from
      /\ pass' = [pass EXCEPT !.rows = @ \ {k}, !.step = IF pass.rows = {k} THEN to ELSE from]
  BY DEF WriteRow
<1>2. /\ pass'.step = IF pass.rows = {k} THEN to ELSE from
      /\ pass'.rows = pass.rows \ {k} /\ pass'.request = pass.request
      /\ pass'.todo = pass.todo /\ pass'.groups = pass.groups /\ pass'.plan = pass.plan
  BY <1>1 DEF TypeOK, Passes, PassStep, Free
<1>3. CASE pass'.step = "read"
  <2>1. from = "mark"
    BY <1>2, <1>3
  <2>2. pass'.request = {} /\ pass'.todo = pass'.groups
    BY <1>1, <1>2, <2>1 DEF PlanInv
  <2>3. Slice(pass'.groups \ pass'.todo) = {}
    BY <2>2 DEF Slice
  <2>4. QED
    BY <1>1, <1>3, <2>2, <2>3 DEF PlanInv, Planned, Sent
<1>4. CASE pass'.step \in {"mark", "confirm"}
  <2>1. pass'.step = pass.step
    BY <1>1, <1>2, <1>4 DEF Free
  <2>2. BatchKeys' = BatchKeys
    BY <1>2 DEF BatchKeys
  <2>3. QED
    BY <1>1, <1>2, <1>4, <2>1, <2>2 DEF PlanInv, Sent
<1>5. CASE pass'.step \in Free
  BY <1>1, <1>5, FreePlan DEF PlanInv
<1>6. CASE pass'.step \in {"backOff", "giveUp"}
  BY <1>1, <1>6, FreePlan DEF PlanInv, Free, PassStep, Sent
<1>7. QED
  BY <1>2, <1>3, <1>4, <1>5, <1>6

LEMMA StepPlan ==
  ASSUME ~Refreshing, TypeOK, PlanInv, [Next]_vars PROVE PlanInv'
<1> USE DEF cmdVars, jobVars
<1>1. refresh.groups = {} /\ pass \in Passes
  BY DEF PlanInv, TypeOK
<1>2. ASSUME NEW j \in Job, Command(j) PROVE PlanInv'
  BY <1>2, OthersPlan DEF Command, Ask, Desire, Accept
<1>3. CASE Clock
  BY <1>3, OthersPlan DEF Clock, CooldownEnds, Ripen
<1>4. ASSUME refresh' = refresh, NEW s \in Free, NEW p \in Passes, pass' = [p EXCEPT !.step = s]
      PROVE  PlanInv'
  <2>1. pass'.step = s
    BY <1>4 DEF Passes
  <2>2. QED
    BY <1>1, <1>4, <2>1, FreePlan
<1>5. CASE StartPass
  BY <1>1, <1>4, <1>5 DEF StartPass, Free, PassStep, Sent
<1>6. ASSUME refresh' = refresh, pass'.step = "pick", pass'.request = {} PROVE PlanInv'
  BY <1>1, <1>6 DEF PlanInv, Sent
<1>7. ASSUME NEW C \in SUBSET Job, NEW plan \in [Key -> Job \union {None}], Claim(C, plan)
      PROVE  PlanInv'
  BY <1>6, <1>7 DEF Claim, IdlePass
<1>8. CASE Drained
  BY <1>1, <1>8, FreePlan DEF Drained, IdlePass, Free, PassStep, Sent
<1>9. ASSUME NEW gs \in SUBSET Group, Pick(gs) PROVE PlanInv'
  <2>1. /\ pass'.step = "mark" /\ pass'.request = pass.request /\ pass'.todo = gs
        /\ pass'.groups = gs /\ pass'.rows = KeysOf(pass.plan, gs) /\ pass'.plan = pass.plan
    BY <1>1, <1>9 DEF Pick, Passes
  <2>2. refresh' = refresh /\ pass.step = "pick"
    BY <1>9 DEF Pick
  <2>3. QED
    BY <2>1, <2>2 DEF PlanInv, BatchKeys, Sent
<1>10. CASE NextRound
  BY <1>4, <1>10, IdleIsPass DEF NextRound, Free, PassStep, Sent
<1>11. ASSUME NEW k \in Key, Mark(k) \/ Confirm(k) \/ BackOff(k) \/ GiveUp(k) PROVE PlanInv'
  BY <1>11, WriteRowPlan DEF Mark, Confirm, BackOff, GiveUp, Free, PassStep, Sent
<1>12. ASSUME NEW g \in Group, Read(g) PROVE PlanInv'
  <2> DEFINE last == pass.todo = {g}
  <2>1. /\ refresh' = refresh /\ mirror' = mirror /\ pass.step = "read" /\ g \in pass.todo
    BY <1>12 DEF Read
  <2>2. /\ pass'.request = pass.request \union Wanted(g) /\ pass'.groups = pass.groups
        /\ pass'.plan = pass.plan
        /\ pass'.todo = IF last THEN pass.groups ELSE pass.todo \ {g}
        /\ pass'.step = IF last THEN "send" ELSE "read"
    BY <1>1, <1>12 DEF Read, Passes
  <2>3. pass.todo \subseteq pass.groups
    BY <2>1 DEF PlanInv
  <2> DEFINE done == (pass.groups \ pass.todo) \union {g}
  <2>4. Wanted(g) \subseteq Slice({g}) /\ pass'.request \subseteq Slice(done)
    BY <2>1, <2>2 DEF PlanInv, Wanted, Slice
  <2>5. ASSUME NEW k \in Slice(done)
        PROVE  k \in pass'.request <=>
                 IF pass.plan[k] = None THEN k \in mirror ELSE pass.plan[k] \in Excludes
    <3>1. CASE GroupOf[k] = g
      <4>1. k \notin pass.request
        BY <2>1, <3>1 DEF PlanInv, Slice
      <4>2. QED
        BY <2>2, <3>1, <4>1 DEF Wanted, Slice
    <3>2. CASE GroupOf[k] # g
      <4>1. k \in Slice(pass.groups \ pass.todo)
        BY <3>2 DEF Slice
      <4>2. k \notin Wanted(g)
        BY <2>4, <3>2 DEF Slice
      <4>3. QED
        BY <2>1, <2>2, <4>1, <4>2 DEF PlanInv, Planned
    <3>3. QED
      BY <3>1, <3>2
  <2>6. CASE last
    <3>1. done = pass'.groups
      BY <2>2, <2>3, <2>6
    <3>2. Planned(pass.groups)'
      BY <2>1, <2>2, <2>5, <3>1 DEF Planned
    <3>3. QED
      BY <1>1, <2>1, <2>2, <2>4, <2>6, <3>1, <3>2 DEF PlanInv, Sent
  <2>7. CASE ~last
    <3>1. done = pass'.groups \ pass'.todo
      BY <2>1, <2>2, <2>3, <2>7
    <3>2. Planned(pass.groups \ pass.todo)'
      BY <2>1, <2>2, <2>5, <3>1 DEF Planned
    <3>3. QED
      BY <1>1, <2>1, <2>2, <2>3, <2>4, <2>7, <3>1, <3>2 DEF PlanInv, Sent
  <2>8. QED
    BY <2>6, <2>7
\* The pass moves on among the steps after the sets are built.
<1>13. ASSUME UNCHANGED <<refresh, mirror>>, pass.step \in Sent, pass'.step \in Sent,
              pass'.request = pass.request, pass'.groups = pass.groups,
              pass'.plan = pass.plan, pass'.todo \subseteq pass.todo,
              pass'.step \in {"verify", "mirror"} => pass'.todo = {}
       PROVE  PlanInv'
  <2>1. /\ pass.request \subseteq Slice(pass.groups) /\ Planned(pass.groups)
        /\ pass.todo \subseteq pass.groups
    BY <1>13 DEF PlanInv
  <2>2. Planned(pass.groups)'
    BY <1>13, <2>1 DEF Planned
  <2>3. QED
    BY <1>1, <1>13, <2>1, <2>2 DEF PlanInv, Sent
<1>14. ASSUME NEW g \in Group, NEW outcome \in WbOutcomes, Send(g, outcome) PROVE PlanInv'
  <2>1. UNCHANGED <<refresh, mirror>> /\ pass.step = "send" /\ g \in pass.todo
    BY <1>14 DEF Send
  <2>2. CASE ErrorOf(outcome) = "none"
    <3>1. pass' = [pass EXCEPT !.todo = @ \ {g},
                     !.step = IF pass.todo = {g} THEN "verify" ELSE "send"]
      BY <1>14, <2>2 DEF Send
    <3>2. /\ pass'.step = IF pass.todo = {g} THEN "verify" ELSE "send"
          /\ pass'.todo = pass.todo \ {g} /\ pass'.request = pass.request
          /\ pass'.groups = pass.groups /\ pass'.plan = pass.plan
      BY <1>1, <3>1 DEF Passes
    <3>3. QED
      BY <1>13, <2>1, <3>2 DEF Sent
  <2>3. CASE ErrorOf(outcome) # "none"
    <3>1. pass' = [pass EXCEPT !.error = ErrorOf(outcome),
                     !.step = IF Applied = {} THEN "catch" ELSE "sync"]
      BY <1>14, <2>3 DEF Send
    <3>2. /\ pass'.step \in {"catch", "sync"}
          /\ pass'.todo = pass.todo /\ pass'.request = pass.request
          /\ pass'.groups = pass.groups /\ pass'.plan = pass.plan
      BY <1>1, <3>1 DEF Passes
    <3>3. CASE pass'.step = "catch"
      BY <1>1, <2>1, <3>3, FreePlan DEF Free, PassStep, Sent
    <3>4. CASE pass'.step = "sync"
      BY <1>13, <2>1, <3>2, <3>4 DEF Sent
    <3>5. QED
      BY <3>2, <3>3, <3>4
  <2>4. QED
    BY <2>2, <2>3
<1>15. CASE Verify
  <2>1. UNCHANGED <<refresh, mirror>> /\ pass.step = "verify" /\ pass.todo = {}
    BY <1>15 DEF Verify, PlanInv
  <2>2. CASE pass' = [pass EXCEPT !.step = "catch", !.error = "recoverable"]
    <3>1. pass'.step = "catch"
      BY <1>1, <2>2 DEF Passes
    <3>2. QED
      BY <1>1, <2>1, <3>1, FreePlan DEF Free, PassStep, Sent
  <2>3. CASE pass' = [pass EXCEPT !.step = "mirror"]
    <3>1. /\ pass'.step = "mirror" /\ pass'.todo = pass.todo /\ pass'.request = pass.request
          /\ pass'.groups = pass.groups /\ pass'.plan = pass.plan
      BY <1>1, <2>3 DEF Passes
    <3>2. QED
      BY <1>13, <2>1, <3>1 DEF Sent
  <2>4. QED
    BY <1>15, <2>2, <2>3 DEF Verify
<1>16. CASE Mirror
  <2>1. /\ refresh' = refresh
        /\ pass' = [pass EXCEPT !.step = "confirm", !.rows = BatchKeys]
    BY <1>16 DEF Mirror
  <2>2. /\ pass'.step = "confirm" /\ pass'.rows = BatchKeys
        /\ pass'.groups = pass.groups /\ pass'.plan = pass.plan
    BY <1>1, <2>1 DEF Passes
  <2>3. BatchKeys' = BatchKeys
    BY <2>2 DEF BatchKeys
  <2>4. QED
    BY <1>1, <2>1, <2>2, <2>3 DEF PlanInv, Sent
<1>17. CASE Sync
  BY <1>1, <1>4, <1>17 DEF Sync, Free, PassStep, Sent
<1>18. CASE Catch
  <2>1. refresh' = refresh /\ pass'.step \in {"giveUp", "backOff"}
    BY <1>1, <1>18 DEF Catch, Passes
  <2>2. QED
    BY <1>1, <2>1, FreePlan DEF Free, PassStep, Sent
<1>19. CASE CompleteJobs \/ RescheduleJobs \/ FailJobs
  BY <1>1, <1>4, <1>19
     DEF CompleteJobs, RescheduleJobs, FailJobs, ResolveJobs, Free, PassStep, Sent
<1>20. CASE CompleteItems \/ RescheduleItems \/ FailItems
  BY <1>6, <1>20 DEF CompleteItems, RescheduleItems, FailItems, ResolveItems, IdlePass
<1>21. CASE PassWork
  BY <1>7, <1>8, <1>9, <1>10, <1>11, <1>12, <1>14, <1>15, <1>16, <1>17, <1>18, <1>19,
     <1>20, <1>21 DEF PassWork
<1>22. ASSUME NEW d \in drops, Drop(d) PROVE PlanInv'
  BY <1>22, OthersPlan DEF Drop
<1>23. CASE Refresh
  BY <1>1, <1>23 DEF Refresh, RefreshReads, RefreshWrites
<1>24. CASE Failure
  <2>1. CASE TryFails
    <3>1. refresh' = refresh /\ pass'.step = "catch"
      BY <1>1, <2>1 DEF TryFails, Passes
    <3>2. QED
      BY <1>1, <3>1, FreePlan DEF Free, PassStep, Sent
  <2>2. CASE PassFails \/ Crash
    <3>1. refresh'.groups = {} /\ pass'.step = "idle"
      BY <1>1, <2>2 DEF PassFails, Crash, IdlePass, NoRefresh
    <3>2. QED
      BY <3>1, FreePlan DEF Free, PassStep, Sent
  <2>3. CASE \E j \in Job : CommandFails(j)
    BY <2>3, OthersPlan DEF CommandFails
  <2>4. QED
    BY <1>24, <2>1, <2>2, <2>3 DEF Failure
<1>25. CASE UNCHANGED vars
  BY <1>25, OthersPlan DEF vars
<1>26. QED
  BY <1>2, <1>3, <1>5, <1>21, <1>22, <1>23, <1>24, <1>25 DEF Next

-----------------------------------------------------------------------------
(* A confirmed cluster stands. *)

\* WB is trusted to use the sets it accepts, or the readback always tells.
WbTrusted == "ignored" \notin WbOutcomes
WbChecked == ReadbackMode = "enforce" /\ ~ReadbackFails

\* Steps at which nothing is owed to the clusters of the batch.
Loose == PassStep \ ({"mark", "read", "confirm"} \union Sent)

\* Mirror and cabinet agree on a confirmed cluster, so that a later set built
\* from the mirror leaves it alone; no cluster of a batch is shown as confirmed
\* from its mark to its confirmation.
ConfirmedInv ==
  /\ \A k \in Key : row[k].status = "confirmed" =>
       (k \in cabinet <=> row[k].job \in Excludes) /\ (k \in mirror <=> k \in cabinet)
  /\ pass.step = "mark" => \A k \in BatchKeys \ pass.rows : row[k].status # "confirmed"
  /\ pass.step \in {"read"} \union Sent => \A k \in BatchKeys : row[k].status # "confirmed"
  /\ pass.step \in {"send", "verify"} /\ WbTrusted => Used(pass.groups \ pass.todo)
  /\ pass.step = "mirror" => Used(pass.groups)
  /\ pass.step = "confirm" => \A k \in BatchKeys :
       (k \in cabinet <=> pass.plan[k] \in Excludes) /\ (k \in mirror <=> k \in cabinet)

LEMMA InitConfirmed == Init => ConfirmedInv
  BY DEF Init, ConfirmedInv, IdlePass, Sent

\* Rows may be withdrawn at any time.
LEMMA OthersConfirmed ==
  ASSUME ConfirmedInv, UNCHANGED <<pass, cabinet, mirror>>,
         \A k \in Key : row'[k] = row[k] \/ row'[k].status # "confirmed"
  PROVE  ConfirmedInv'
<1>1. BatchKeys' = BatchKeys /\ BatchKeys \subseteq Key
  BY DEF BatchKeys, KeysOf, Slice
<1>2. \A gs : Used(gs)' <=> Used(gs)
  BY DEF Used
<1>3. QED
  BY <1>1, <1>2 DEF ConfirmedInv, Used

LEMMA LooseConfirmed ==
  ASSUME ConfirmedInv, UNCHANGED <<cabinet, mirror>>, pass'.step \in Loose,
         \A k \in Key : row'[k] = row[k] \/ row'[k].status # "confirmed"
  PROVE  ConfirmedInv'
  BY DEF ConfirmedInv, Loose, Sent

LEMMA StepConfirmed ==
  ASSUME ~Refreshing, WbTrusted \/ WbChecked, TypeOK, PlanInv, ConfirmedInv, [Next]_vars
  PROVE  ConfirmedInv'
<1>1. /\ pass \in Passes /\ row \in Rows /\ BatchKeys \subseteq Key
      /\ refresh.groups = {} /\ GroupOf \in [Key -> Group] /\ None \notin Excludes
  BY ActionQueueAssumption DEF TypeOK, Rows, PlanInv, BatchKeys, KeysOf, Slice
<1>2. ASSUME NEW j \in Job, Command(j) PROVE ConfirmedInv'
  <2>1. ASSUME NEW k \in Key, Desire(j, k) PROVE ConfirmedInv'
    BY <1>1, <2>1, OthersConfirmed DEF Desire, Rows
  <2>2. QED
    BY <1>2, <2>1, OthersConfirmed DEF Command, Ask, Accept
<1>3. CASE Clock
  BY <1>3, OthersConfirmed DEF Clock, CooldownEnds, Ripen
<1>4. ASSUME UNCHANGED <<row, cabinet, mirror>>, NEW s \in Loose, pass'.step = s
      PROVE  ConfirmedInv'
  BY <1>4, LooseConfirmed
<1>5. CASE StartPass
  BY <1>1, <1>4, <1>5 DEF StartPass, Passes, Loose, PassStep, Sent
<1>6. ASSUME NEW C \in SUBSET Job, NEW plan \in [Key -> Job \union {None}], Claim(C, plan)
      PROVE  ConfirmedInv'
  BY <1>4, <1>6 DEF Claim, IdlePass, Loose, PassStep, Sent
<1>7. CASE Drained \/ NextRound
  BY <1>4, <1>7 DEF Drained, NextRound, IdlePass, Loose, PassStep, Sent
<1>8. ASSUME NEW gs \in SUBSET Group, Pick(gs) PROVE ConfirmedInv'
  <2>1. /\ pass'.step = "mark" /\ pass'.groups = gs
        /\ pass'.rows = KeysOf(pass.plan, gs) /\ pass'.plan = pass.plan
    BY <1>1, <1>8 DEF Pick, Passes
  <2>2. UNCHANGED <<row, cabinet, mirror>> /\ BatchKeys' \ pass'.rows = {}
    BY <1>8, <2>1 DEF Pick, BatchKeys
  <2>3. QED
    BY <2>1, <2>2 DEF ConfirmedInv, Sent
<1>9. ASSUME NEW from \in PassStep, NEW k \in Key, NEW st, NEW to \in PassStep,
             WriteRow(from, k, st, to)
      PROVE  /\ UNCHANGED <<cabinet, mirror>> /\ pass.step = from /\ k \in pass.rows
             /\ pass'.step = (IF pass.rows = {k} THEN to ELSE from)
             /\ pass'.rows = pass.rows \ {k} /\ BatchKeys' = BatchKeys
             /\ pass'.plan = pass.plan
             /\ row'[k] = [job |-> pass.plan[k], status |-> st]
             /\ \A l \in Key \ {k} : row'[l] = row[l]
  BY <1>1, <1>9 DEF WriteRow, Passes, Rows, BatchKeys
<1>10. ASSUME NEW k \in Key, Mark(k) PROVE ConfirmedInv'
  <2>1. WriteRow("mark", k, "sending", "read") /\ "mark" \in PassStep /\ "read" \in PassStep
    BY <1>10 DEF Mark, PassStep
  <2>2. /\ UNCHANGED <<cabinet, mirror>> /\ pass.step = "mark" /\ k \in pass.rows
        /\ pass'.step = (IF pass.rows = {k} THEN "read" ELSE "mark")
        /\ pass'.rows = pass.rows \ {k} /\ BatchKeys' = BatchKeys
        /\ row'[k] = [job |-> pass.plan[k], status |-> "sending"]
        /\ \A l \in Key \ {k} : row'[l] = row[l]
    BY <1>9, <2>1
  <2>3. \A l \in BatchKeys \ pass'.rows : row'[l].status # "confirmed"
    BY <1>1, <2>2 DEF ConfirmedInv
  <2>4. \A l \in Key : row'[l].status = "confirmed" => row'[l] = row[l]
    BY <2>2
  <2>5. QED
    BY <2>2, <2>3, <2>4 DEF ConfirmedInv, Sent
<1>11. ASSUME NEW k \in Key, Confirm(k) PROVE ConfirmedInv'
  <2>1. WriteRow("confirm", k, "confirmed", "completeJobs")
        /\ "confirm" \in PassStep /\ "completeJobs" \in PassStep
    BY <1>11 DEF Confirm, PassStep
  <2>2. /\ UNCHANGED <<cabinet, mirror>> /\ pass.step = "confirm" /\ k \in pass.rows
        /\ pass'.step = (IF pass.rows = {k} THEN "completeJobs" ELSE "confirm")
        /\ BatchKeys' = BatchKeys /\ pass'.plan = pass.plan
        /\ row'[k] = [job |-> pass.plan[k], status |-> "confirmed"]
        /\ \A l \in Key \ {k} : row'[l] = row[l]
    BY <1>9, <2>1
  <2>3. k \in BatchKeys /\ row'[k].job = pass.plan[k]
    BY <2>2 DEF PlanInv
  <2>4. (k \in cabinet <=> pass.plan[k] \in Excludes) /\ (k \in mirror <=> k \in cabinet)
    BY <2>2, <2>3 DEF ConfirmedInv
  <2>5. QED
    BY <2>2, <2>3, <2>4 DEF ConfirmedInv, Sent
<1>12. ASSUME NEW k \in Key, BackOff(k) \/ GiveUp(k) PROVE ConfirmedInv'
  <2>1. PICK from \in {"backOff", "giveUp"}, st \in {"queued", "failed"},
             to \in {"reschedJobs", "failJobs"} : WriteRow(from, k, st, to)
    BY <1>12 DEF BackOff, GiveUp
  <2>2. /\ UNCHANGED <<cabinet, mirror>> /\ pass'.step \in {from, to}
        /\ row'[k] = [job |-> pass.plan[k], status |-> st]
        /\ \A l \in Key \ {k} : row'[l] = row[l]
    BY <1>9, <2>1 DEF PassStep
  <2>3. \A l \in Key : row'[l] = row[l] \/ row'[l].status # "confirmed"
    BY <2>2
  <2>4. QED
    BY <2>2, <2>3, LooseConfirmed DEF Loose, PassStep, Sent
<1>13. ASSUME NEW g \in Group, Read(g) PROVE ConfirmedInv'
  <2>1. /\ UNCHANGED <<row, cabinet, mirror>> /\ pass.step = "read"
        /\ pass'.plan = pass.plan /\ pass'.groups = pass.groups
        /\ pass'.step = "read" \/ (pass'.step = "send" /\ pass'.todo = pass.groups)
    BY <1>1, <1>13 DEF Read, Passes
  <2>2. BatchKeys' = BatchKeys
    BY <2>1 DEF BatchKeys
  <2>3. pass'.step = "send" => Used(pass.groups \ pass.todo)'
    BY <2>1 DEF Used, Slice
  <2>4. QED
    BY <2>1, <2>2, <2>3 DEF ConfirmedInv, Sent
\* What is requested for a cluster that stays confirmed is what the cabinet has.
<1>14. ASSUME pass.step \in Sent, NEW k \in Slice(pass.groups), row[k].status = "confirmed"
       PROVE  (k \in pass.request <=> k \in mirror) /\ (k \in mirror <=> k \in cabinet)
  <2>1. pass.plan[k] = None
    BY <1>14 DEF ConfirmedInv, BatchKeys, KeysOf, Slice
  <2>2. QED
    BY <1>14, <2>1 DEF PlanInv, Planned, ConfirmedInv, Slice
<1>15. ASSUME NEW g \in Group, NEW outcome \in WbOutcomes, Send(g, outcome) PROVE ConfirmedInv'
  <2>1. /\ UNCHANGED <<row, mirror>> /\ pass.step = "send" /\ g \in pass.todo
        /\ pass'.plan = pass.plan /\ pass'.groups = pass.groups
        /\ pass'.request = pass.request
        /\ pass'.step \in {"send", "verify", "catch", "sync"}
        /\ pass'.step \in {"send", "verify"} =>
             ErrorOf(outcome) = "none" /\ pass'.todo = pass.todo \ {g}
    <3>1. CASE ErrorOf(outcome) = "none"
      <4>1. pass' = [pass EXCEPT !.todo = @ \ {g},
                       !.step = IF pass.todo = {g} THEN "verify" ELSE "send"]
        BY <1>15, <3>1 DEF Send
      <4>2. QED
        BY <1>1, <1>15, <3>1, <4>1 DEF Send, Passes
    <3>2. CASE ErrorOf(outcome) # "none"
      <4>1. pass' = [pass EXCEPT !.error = ErrorOf(outcome),
                       !.step = IF Applied = {} THEN "catch" ELSE "sync"]
        BY <1>15, <3>2 DEF Send
      <4>2. QED
        BY <1>1, <1>15, <3>2, <4>1 DEF Send, Passes
    <3>3. QED
      BY <3>1, <3>2
  <2>2. g \in pass.groups /\ BatchKeys' = BatchKeys
    BY <2>1 DEF PlanInv, Sent, BatchKeys
  <2>3. \A k \in Key : (k \in cabinet' <=> k \in cabinet)
                       \/ (GroupOf[k] = g /\ (k \in cabinet' <=> k \in pass.request))
    BY <1>15 DEF Send, Slice
  <2>4. \A k \in Key : row[k].status = "confirmed" => (k \in cabinet' <=> k \in cabinet)
    BY <1>14, <2>1, <2>2, <2>3 DEF Sent, Slice
  <2>5. ASSUME WbTrusted, pass'.step \in {"send", "verify"}
        PROVE  Used(pass.groups \ pass.todo)'
    <3>1. outcome = "accepted"
      BY <2>1, <2>5, ActionQueueAssumption DEF ErrorOf, WbTrusted
    <3>2. cabinet' = (cabinet \ Slice({g})) \union (pass.request \intersect Slice({g}))
      BY <1>15, <3>1 DEF Send
    <3>3. ASSUME NEW k \in Slice(pass.groups \ (pass.todo \ {g}))
          PROVE  k \in cabinet' <=> k \in pass.request
      <4>1. CASE GroupOf[k] = g
        BY <3>2, <3>3, <4>1 DEF Slice
      <4>2. CASE GroupOf[k] # g
        <5>1. k \in Slice(pass.groups \ pass.todo)
          BY <3>3, <4>2 DEF Slice
        <5>2. k \in cabinet <=> k \in pass.request
          BY <2>1, <2>5, <5>1 DEF ConfirmedInv, Used
        <5>3. QED
          BY <3>2, <4>2, <5>2 DEF Slice
      <4>3. QED
        BY <4>1, <4>2
    <3>4. QED
      BY <2>1, <2>5, <3>3 DEF Used
  <2>6. QED
    BY <2>1, <2>2, <2>4, <2>5 DEF ConfirmedInv, Sent
<1>16. CASE Verify
  <2>1. UNCHANGED <<row, cabinet, mirror>> /\ pass.step = "verify" /\ pass.todo = {}
    BY <1>16 DEF Verify, PlanInv
  <2>2. CASE pass' = [pass EXCEPT !.step = "catch", !.error = "recoverable"]
    <3>1. pass'.step = "catch"
      BY <1>1, <2>2 DEF Passes
    <3>2. QED
      BY <1>4, <2>1, <3>1 DEF Loose, PassStep, Sent
  <2>3. CASE /\ pass' = [pass EXCEPT !.step = "mirror"]
             /\ ReadbackMode # "enforce" \/ ReadbackFails \/ ~Mismatch
    <3>1. /\ pass'.step = "mirror" /\ pass'.request = pass.request
          /\ pass'.groups = pass.groups /\ pass'.plan = pass.plan
      BY <1>1, <2>3 DEF Passes
    <3>2. Used(pass.groups)
      <4>1. CASE WbTrusted
        BY <2>1, <4>1 DEF ConfirmedInv
      <4>2. CASE WbChecked
        <5>1. cabinet \intersect Slice(pass.groups) = pass.request
          BY <2>3, <4>2 DEF WbChecked, Mismatch
        <5>2. QED
          BY <5>1 DEF Used
      <4>3. QED
        BY <4>1, <4>2
    <3>3. Used(pass.groups)' /\ BatchKeys' = BatchKeys
      BY <2>1, <3>1, <3>2 DEF Used, BatchKeys
    <3>4. QED
      BY <2>1, <3>1, <3>3 DEF ConfirmedInv, Sent
  <2>4. QED
    BY <1>16, <2>2, <2>3 DEF Verify
<1>17. ASSUME NEW gs \in SUBSET pass.groups, ReplaceMirror(gs), pass.step \in Sent
       PROVE  \A k \in Key : row[k].status = "confirmed" => (k \in mirror' <=> k \in cabinet)
  BY <1>14, <1>17 DEF ReplaceMirror, ConfirmedInv, Slice
<1>18. CASE Mirror
  <2>1. /\ UNCHANGED <<row, cabinet>> /\ pass.step = "mirror" /\ ReplaceMirror(pass.groups)
        /\ pass'.step = "confirm" /\ pass'.plan = pass.plan /\ pass'.groups = pass.groups
    BY <1>1, <1>18 DEF Mirror, Passes
  <2>2. BatchKeys' = BatchKeys /\ BatchKeys \subseteq Slice(pass.groups)
    BY <2>1 DEF BatchKeys, KeysOf
  <2>3. \A k \in Slice(pass.groups) : (k \in cabinet <=> k \in pass.request)
                                     /\ (k \in mirror' <=> k \in pass.request)
    BY <2>1 DEF ConfirmedInv, Used, ReplaceMirror
  <2>4. \A k \in BatchKeys : k \in pass.request <=> pass.plan[k] \in Excludes
    BY <2>1 DEF PlanInv, Planned, BatchKeys, KeysOf, Sent
  <2>5. \A k \in Key : row[k].status = "confirmed" => (k \in mirror' <=> k \in cabinet)
    BY <1>17, <2>1 DEF Sent
  <2>6. QED
    BY <2>1, <2>2, <2>3, <2>4, <2>5 DEF ConfirmedInv, Sent
<1>19. CASE Sync
  <2>1. /\ UNCHANGED <<row, cabinet>> /\ pass.step = "sync" /\ pass'.step = "catch"
        /\ ReplaceMirror(pass.groups \ pass.todo)
    BY <1>1, <1>19 DEF Sync, Passes, Applied
  <2>2. \A k \in Key : row[k].status = "confirmed" => (k \in mirror' <=> k \in cabinet)
    BY <1>17, <2>1 DEF Sent
  <2>3. QED
    BY <2>1, <2>2 DEF ConfirmedInv, Sent
<1>20. CASE Catch
  <2>1. UNCHANGED <<row, cabinet, mirror>> /\ pass'.step \in {"giveUp", "backOff"}
    BY <1>1, <1>20 DEF Catch, Passes
  <2>2. QED
    BY <1>4, <2>1 DEF Loose, PassStep, Sent
<1>21. CASE CompleteJobs \/ RescheduleJobs \/ FailJobs
  <2>1. /\ UNCHANGED <<row, cabinet, mirror>>
        /\ pass'.step \in {"completeItems", "reschedItems", "failItems"}
    BY <1>1, <1>21 DEF CompleteJobs, RescheduleJobs, FailJobs, ResolveJobs, Passes
  <2>2. QED
    BY <1>4, <2>1 DEF Loose, PassStep, Sent
<1>22. CASE CompleteItems \/ RescheduleItems \/ FailItems
  <2>1. UNCHANGED <<row, cabinet, mirror>> /\ pass'.step = "pick"
    BY <1>22 DEF CompleteItems, RescheduleItems, FailItems, ResolveItems, IdlePass
  <2>2. QED
    BY <1>4, <2>1 DEF Loose, PassStep, Sent
<1>23. CASE PassWork
  BY <1>6, <1>7, <1>8, <1>10, <1>11, <1>12, <1>13, <1>15, <1>16, <1>18, <1>19, <1>20,
     <1>21, <1>22, <1>23 DEF PassWork
<1>24. ASSUME NEW d \in drops, Drop(d) PROVE ConfirmedInv'
  BY <1>24, OthersConfirmed DEF Drop
<1>25. CASE Refresh
  BY <1>1, <1>25 DEF Refresh, RefreshReads, RefreshWrites
<1>26. CASE Failure
  <2>1. CASE TryFails
    <3>1. UNCHANGED <<row, cabinet, mirror>> /\ pass'.step = "catch"
      BY <1>1, <2>1 DEF TryFails, Passes
    <3>2. QED
      BY <1>4, <3>1 DEF Loose, PassStep, Sent
  <2>2. CASE PassFails \/ Crash
    <3>1. UNCHANGED <<row, cabinet, mirror>> /\ pass'.step = "idle"
      BY <2>2 DEF PassFails, Crash, IdlePass
    <3>2. QED
      BY <1>4, <3>1 DEF Loose, PassStep, Sent
  <2>3. CASE \E j \in Job : CommandFails(j)
    BY <2>3, OthersConfirmed DEF CommandFails
  <2>4. QED
    BY <1>26, <2>1, <2>2, <2>3 DEF Failure
<1>27. CASE UNCHANGED vars
  BY <1>27, OthersConfirmed DEF vars
<1>28. QED
  BY <1>2, <1>3, <1>5, <1>23, <1>24, <1>25, <1>26, <1>27 DEF Next

\* What is shown as confirmed is so in the cabinet, for any number of clusters,
\* campaigns and commands and whatever fails, if no refresh runs beside the
\* queue and WB uses what it accepts or an enforced readback is always answered.
THEOREM ConfirmedCorrect ==
  ASSUME ~Refreshing, WbTrusted \/ WbChecked PROVE Spec => []ConfirmedStands
<1>1. Init => PlanInv /\ ConfirmedInv
  BY InitPlan, InitConfirmed
<1>2. TypeOK /\ PlanInv /\ ConfirmedInv /\ [Next]_vars => PlanInv' /\ ConfirmedInv'
  BY StepPlan, StepConfirmed
<1>3. ConfirmedInv => ConfirmedStands
  BY DEF ConfirmedInv, ConfirmedStands
<1>4. QED
  BY <1>1, <1>2, <1>3, TypeCorrect, PTL DEF Spec

-----------------------------------------------------------------------------
(* Partial application: the mirror follows the cabinet. *)

\* Answers are neither lost nor untrue, and a failed request changes nothing.
AnswersTell == WbOutcomes \subseteq {"accepted", "throttled", "rejected"}

\* No crash and no failing query of the pass comes between WB and the mirror.
MirrorReached == Faults \subseteq {"command"}

\* The mirror is the cabinet, but for the campaigns WB has answered for in a
\* batch under way: there the cabinet has what was requested.
MirrorInv ==
  /\ pass.step \notin Sent => mirror = cabinet
  /\ pass.step \in Sent => \A k \in Key : k \in cabinet <=>
       IF GroupOf[k] \in pass.groups \ pass.todo THEN k \in pass.request ELSE k \in mirror

LEMMA InitMirror == Init => MirrorInv
  BY DEF Init, MirrorInv, IdlePass, Sent

LEMMA OutsideMirror ==
  ASSUME MirrorInv, UNCHANGED <<cabinet, mirror>>, pass.step \notin Sent, pass'.step \notin Sent
  PROVE  MirrorInv'
  BY DEF MirrorInv

LEMMA OthersMirror ==
  ASSUME MirrorInv, UNCHANGED <<pass, cabinet, mirror>> PROVE MirrorInv'
  BY DEF MirrorInv

\* A set-minus keeps the mirror behind by no more than the campaigns applied,
\* and changes no cluster its batch does not name.
LEMMA SendMirror ==
  ASSUME AnswersTell, TypeOK, PlanInv, MirrorInv, NEW g \in Group, NEW outcome \in WbOutcomes,
         Send(g, outcome)
  PROVE  MirrorInv' /\ \A k \in Key : (k \in cabinet) # (k \in cabinet') => k \in BatchKeys
<1>1. /\ pass \in Passes /\ cabinet \subseteq Key /\ mirror' = mirror
      /\ pass.step = "send" /\ g \in pass.todo /\ g \in pass.groups
  BY DEF Send, TypeOK, PlanInv, Sent
<1>2. CASE ErrorOf(outcome) = "none"
  <2>1. outcome = "accepted"
    BY <1>2 DEF AnswersTell, ErrorOf
  <2>2. pass' = [pass EXCEPT !.todo = @ \ {g},
                   !.step = IF pass.todo = {g} THEN "verify" ELSE "send"]
    BY <1>2 DEF Send
  <2>3. /\ pass'.step \in Sent /\ pass'.todo = pass.todo \ {g}
        /\ pass'.groups = pass.groups /\ pass'.request = pass.request
    BY <1>1, <2>2 DEF Passes, Sent
  <2>4. cabinet' = (cabinet \ Slice({g})) \union (pass.request \intersect Slice({g}))
    BY <2>1 DEF Send
  <2>5. ASSUME NEW k \in Key
        PROVE  k \in cabinet' <=>
                 IF GroupOf[k] \in pass'.groups \ pass'.todo THEN k \in pass.request ELSE k \in mirror
    <3>1. CASE GroupOf[k] = g
      BY <1>1, <2>3, <2>4, <3>1 DEF Slice
    <3>2. CASE GroupOf[k] # g
      BY <1>1, <2>3, <2>4, <3>2 DEF Slice, MirrorInv, Sent
    <3>3. QED
      BY <3>1, <3>2
  <2>6. ASSUME NEW k \in Key, k \notin BatchKeys PROVE k \in cabinet <=> k \in cabinet'
    <3>1. CASE GroupOf[k] = g
      <4>1. k \in Slice(pass.groups) /\ pass.plan[k] = None
        BY <1>1, <2>6, <3>1 DEF BatchKeys, KeysOf, Slice
      <4>2. k \in pass.request <=> k \in mirror
        BY <1>1, <4>1 DEF PlanInv, Planned, Sent
      <4>3. k \in cabinet <=> k \in mirror
        BY <1>1, <3>1 DEF MirrorInv, Sent
      <4>4. k \in cabinet' <=> k \in pass.request
        BY <2>4, <3>1 DEF Slice
      <4>5. QED
        BY <4>2, <4>3, <4>4
    <3>2. CASE GroupOf[k] # g
      BY <2>4, <3>2 DEF Slice
    <3>3. QED
      BY <3>1, <3>2
  <2>7. MirrorInv'
    BY <1>1, <2>3, <2>5 DEF MirrorInv
  <2>8. QED
    BY <2>6, <2>7
<1>3. CASE ErrorOf(outcome) # "none"
  <2>1. cabinet' = cabinet
    BY <1>3 DEF Send, AnswersTell, ErrorOf
  <2>2. pass' = [pass EXCEPT !.error = ErrorOf(outcome),
                   !.step = IF Applied = {} THEN "catch" ELSE "sync"]
    BY <1>3 DEF Send
  <2>3. /\ pass'.step = IF Applied = {} THEN "catch" ELSE "sync"
        /\ pass'.todo = pass.todo /\ pass'.groups = pass.groups /\ pass'.request = pass.request
    BY <1>1, <2>2 DEF Passes
  <2>4. CASE Applied = {}
    <3>1. \A k \in Key : k \in cabinet <=> k \in mirror
      BY <1>1, <2>4 DEF MirrorInv, Applied, Sent
    <3>2. mirror = cabinet
      BY <1>1, <3>1 DEF TypeOK
    <3>3. QED
      BY <1>1, <2>1, <2>3, <2>4, <3>2 DEF MirrorInv, Sent
  <2>5. CASE Applied # {}
    BY <1>1, <2>1, <2>3, <2>5 DEF MirrorInv, Sent
  <2>6. QED
    BY <2>1, <2>4, <2>5
<1>4. QED
  BY <1>2, <1>3

LEMMA StepMirror ==
  ASSUME ~Refreshing, AnswersTell, MirrorReached, TypeOK, PlanInv, MirrorInv, [Next]_vars
  PROVE  MirrorInv' /\ \A k \in Key : (k \in cabinet) # (k \in cabinet') => k \in BatchKeys
<1>1. pass \in Passes /\ refresh.groups = {} /\ cabinet \subseteq Key /\ mirror \subseteq Key
  BY DEF TypeOK, PlanInv
<1> DEFINE Named == \A k \in Key : (k \in cabinet) # (k \in cabinet') => k \in BatchKeys
<1>2. cabinet' = cabinet => Named
  OBVIOUS
<1>3. ASSUME NEW j \in Job, Command(j) PROVE MirrorInv' /\ Named
  BY <1>2, <1>3, OthersMirror DEF Command, Ask, Desire, Accept
<1>4. CASE Clock
  BY <1>2, <1>4, OthersMirror DEF Clock, CooldownEnds, Ripen
<1>5. CASE StartPass
  BY <1>1, <1>2, <1>5, OutsideMirror DEF StartPass, Passes, Sent
<1>6. ASSUME NEW C \in SUBSET Job, NEW plan \in [Key -> Job \union {None}], Claim(C, plan)
      PROVE  MirrorInv' /\ Named
  BY <1>2, <1>6, OutsideMirror DEF Claim, IdlePass, Sent
<1>7. CASE Drained \/ NextRound
  BY <1>2, <1>7, OutsideMirror DEF Drained, NextRound, IdlePass, Sent
<1>8. ASSUME NEW gs \in SUBSET Group, Pick(gs) PROVE MirrorInv' /\ Named
  <2>1. UNCHANGED <<cabinet, mirror>> /\ pass.step = "pick" /\ pass'.step = "mark"
    BY <1>1, <1>8 DEF Pick, Passes
  <2>2. QED
    BY <1>2, <2>1, OutsideMirror DEF Sent
<1>9. ASSUME NEW k \in Key, Mark(k) \/ Confirm(k) \/ BackOff(k) \/ GiveUp(k)
      PROVE  MirrorInv' /\ Named
  <2>1. /\ UNCHANGED <<cabinet, mirror>>
        /\ pass.step \in {"mark", "confirm", "backOff", "giveUp"}
        /\ pass'.step \in {"mark", "confirm", "backOff", "giveUp", "read", "completeJobs",
                           "reschedJobs", "failJobs"}
    BY <1>1, <1>9 DEF Mark, Confirm, BackOff, GiveUp, WriteRow, Passes
  <2>2. QED
    BY <1>2, <2>1, OutsideMirror DEF Sent
<1>10. ASSUME NEW g \in Group, Read(g) PROVE MirrorInv' /\ Named
  <2>1. /\ UNCHANGED <<cabinet, mirror>> /\ pass.step = "read" /\ pass'.groups = pass.groups
        /\ pass'.step = "read" \/ (pass'.step = "send" /\ pass'.todo = pass.groups)
    BY <1>1, <1>10 DEF Read, Passes
  <2>2. mirror = cabinet
    BY <2>1 DEF MirrorInv, Sent
  <2>3. QED
    BY <1>2, <2>1, <2>2 DEF MirrorInv, Sent
<1>11. CASE Verify
  <2>1. /\ UNCHANGED <<cabinet, mirror>> /\ pass.step = "verify"
        /\ pass' = [pass EXCEPT !.step = "catch", !.error = "recoverable"]
           \/ pass' = [pass EXCEPT !.step = "mirror"]
    BY <1>11 DEF Verify
  <2>2. /\ pass'.step = "mirror" \/ (pass'.step = "catch" /\ ReadbackMode = "enforce" /\ Mismatch)
        /\ pass'.todo = pass.todo /\ pass'.groups = pass.groups /\ pass'.request = pass.request
    <3>1. CASE pass' = [pass EXCEPT !.step = "mirror"]
      BY <1>1, <3>1 DEF Passes
    <3>2. CASE pass' = [pass EXCEPT !.step = "catch", !.error = "recoverable"]
      <4>1. pass'.step = "catch"
        BY <1>1, <3>2 DEF Passes
      <4>2. pass'.step = "mirror" \/ (ReadbackMode = "enforce" /\ Mismatch)
        BY <1>1, <1>11 DEF Verify, Passes
      <4>3. QED
        BY <1>1, <3>2, <4>1, <4>2 DEF Passes
    <3>3. QED
      BY <2>1, <3>1, <3>2
  \* A mismatch cannot be: what WB answered for is what it uses.
  <2>3. ~Mismatch
    <3>1. pass.todo = {} /\ pass.request \subseteq Slice(pass.groups)
      BY <2>1 DEF PlanInv, Sent
    <3>2. \A k \in Slice(pass.groups) : k \in cabinet <=> k \in pass.request
      BY <2>1, <3>1 DEF MirrorInv, Slice, Sent
    <3>3. QED
      BY <3>1, <3>2 DEF Mismatch
  <2>4. QED
    BY <1>2, <2>1, <2>2, <2>3 DEF MirrorInv, Sent
<1>12. CASE Mirror
  <2>1. /\ cabinet' = cabinet /\ pass.step = "mirror" /\ pass'.step = "confirm"
        /\ mirror' = (mirror \ Slice(pass.groups)) \union (pass.request \intersect Slice(pass.groups))
    BY <1>1, <1>12 DEF Mirror, ReplaceMirror, Passes
  <2>2. pass.todo = {}
    BY <2>1 DEF PlanInv
  <2>3. \A k \in Key : k \in mirror' <=> k \in cabinet
    BY <2>1, <2>2 DEF MirrorInv, Sent, Slice
  <2>4. mirror' = cabinet
    BY <1>1, <2>1, <2>3 DEF Slice
  <2>5. QED
    BY <1>2, <2>1, <2>4 DEF MirrorInv, Sent
<1>13. CASE Sync
  <2>1. /\ cabinet' = cabinet /\ pass.step = "sync" /\ pass'.step = "catch"
        /\ mirror' = (mirror \ Slice(pass.groups \ pass.todo))
                       \union (pass.request \intersect Slice(pass.groups \ pass.todo))
    BY <1>1, <1>13 DEF Sync, ReplaceMirror, Applied, Passes
  <2>2. \A k \in Key : k \in mirror' <=> k \in cabinet
    BY <2>1 DEF MirrorInv, Sent, Slice
  <2>3. mirror' = cabinet
    BY <1>1, <2>1, <2>2 DEF Slice
  <2>4. QED
    BY <1>2, <2>1, <2>3 DEF MirrorInv, Sent
<1>14. CASE Catch
  <2>1. /\ UNCHANGED <<cabinet, mirror>> /\ pass.step = "catch"
        /\ pass'.step \in {"giveUp", "backOff"}
    BY <1>1, <1>14 DEF Catch, Passes
  <2>2. QED
    BY <1>2, <2>1, OutsideMirror DEF Sent
<1>15. CASE CompleteJobs \/ RescheduleJobs \/ FailJobs
  <2>1. /\ UNCHANGED <<cabinet, mirror>>
        /\ pass.step \in {"completeJobs", "reschedJobs", "failJobs"}
        /\ pass'.step \in {"completeItems", "reschedItems", "failItems"}
    BY <1>1, <1>15 DEF CompleteJobs, RescheduleJobs, FailJobs, ResolveJobs, Passes
  <2>2. QED
    BY <1>2, <2>1, OutsideMirror DEF Sent
<1>16. CASE CompleteItems \/ RescheduleItems \/ FailItems
  <2>1. /\ UNCHANGED <<cabinet, mirror>> /\ pass'.step = "pick"
        /\ pass.step \in {"completeItems", "reschedItems", "failItems"}
    BY <1>16 DEF CompleteItems, RescheduleItems, FailItems, ResolveItems, IdlePass
  <2>2. QED
    BY <1>2, <2>1, OutsideMirror DEF Sent
<1>17. CASE PassWork
  <2>1. ASSUME NEW g \in Group, NEW outcome \in WbOutcomes, Send(g, outcome)
        PROVE  MirrorInv' /\ Named
    BY <2>1, SendMirror
  <2>2. QED
    BY <1>6, <1>7, <1>8, <1>9, <1>10, <1>11, <1>12, <1>13, <1>14, <1>15, <1>16, <1>17, <2>1
       DEF PassWork
<1>18. ASSUME NEW d \in drops, Drop(d) PROVE MirrorInv' /\ Named
  BY <1>2, <1>18, OthersMirror DEF Drop
<1>19. CASE Refresh
  BY <1>1, <1>19 DEF Refresh, RefreshReads, RefreshWrites
<1>20. CASE Failure
  BY <1>2, <1>20, OthersMirror
     DEF Failure, MirrorReached, TryFails, PassFails, Crash, CommandFails, Fault
<1>21. CASE UNCHANGED vars
  BY <1>2, <1>21, OthersMirror DEF vars
<1>22. QED
  BY <1>3, <1>4, <1>5, <1>17, <1>18, <1>19, <1>20, <1>21 DEF Next

\* A set-minus changes no cluster that its batch does not name, however a batch
\* over several campaigns is cut short by throttling or a rejection, for any
\* number of clusters, campaigns and commands.
THEOREM OnlyNamedCorrect ==
  ASSUME ~Refreshing, AnswersTell, MirrorReached PROVE Spec => OnlyNamedChange
<1>1. Init => PlanInv /\ MirrorInv
  BY InitPlan, InitMirror
<1>2. TypeOK /\ PlanInv /\ MirrorInv /\ [Next]_vars => PlanInv' /\ MirrorInv'
  BY StepPlan, StepMirror
<1>3. TypeOK /\ PlanInv /\ MirrorInv /\ [Next]_vars =>
        [\A k \in Key : (k \in cabinet) # (k \in cabinet') => k \in BatchKeys]_vars
  BY StepMirror
<1>4. QED
  BY <1>1, <1>2, <1>3, TypeCorrect, PTL DEF Spec, OnlyNamedChange

-----------------------------------------------------------------------------
(* With one attempt per job the queue implements the latest-state queue.   *)
(* The history says so cluster by cluster.                                 *)

\* A job WB did not take is not tried again.
OneTry == MaxAttempts = 1 \/ WbOutcomes \subseteq {"accepted", "rejected"}

\* The history takes the steps of the queue,
LEMMA HistoryIsQueue ==
  ASSUME TypeOK, HistoryNext PROVE Next
<1>1. SUBSET Claimable \subseteq SUBSET Job
  BY DEF TypeOK, Claimable
<1>2. QED
  BY <1>1 DEF HistoryNext, Arrives, Builds, Sends, Mirrors, Others, Next, Command, PassWork

\* and all of them, if no refresh runs beside it.
LEMMA HistoryIsComplete ==
  ASSUME ~Refreshing, refresh.groups = {}, Next
  PROVE  \/ \E j \in Job : \E K \in Requests[j] : Ask(j, K)
         \/ \E g \in Group : Read(g) \/ \E outcome \in WbOutcomes : Send(g, outcome)
         \/ Mirror \/ Sync
         \/ Others
<1>1. ~Refresh
  BY DEF Refresh, RefreshReads, RefreshWrites
<1>2. \A C \in SUBSET Job, plan \in [Key -> Job \union {None}] :
        Claim(C, plan) => C \in SUBSET Claimable
  BY DEF Claim
<1>3. QED
  BY <1>1, <1>2 DEF Next, Command, PassWork, Others

HistoryTypeOK ==
  /\ follows \in [Job -> SUBSET Job]
  /\ shownBy \in [Key -> Job \union {None}]
  /\ mirrorBy \in [Key -> Job \union {None}]
  /\ sentBy \in [Key -> Job \union {None}]

LEMMA OverType ==
  ASSUME NEW by \in [Key -> Job \union {None}], NEW new \in [Key -> Job \union {None}], NEW K
  PROVE  Over(by, new, K) \in [Key -> Job \union {None}]
  BY DEF Over

LEMMA InitHistoryType == HistoryInit => HistoryTypeOK
  BY DEF HistoryInit, HistoryTypeOK, Nobodys

LEMMA StepHistoryType ==
  ASSUME TypeOK, HistoryTypeOK, [HistoryNext]_historyVars PROVE HistoryTypeOK'
<1> USE DEF sources, history
<1>1. ASSUME NEW j \in Job, Arrives(j) PROVE HistoryTypeOK'
  BY <1>1 DEF Arrives, HistoryTypeOK, Answered
<1>2. pass.plan \in [Key -> Job \union {None}]
  BY DEF TypeOK, Passes
<1>3. Wishes \in [Key -> Job \union {None}]
  BY <1>2, OverType DEF Wishes, HistoryTypeOK
<1>4. ASSUME NEW g \in Group, Builds(g) PROVE HistoryTypeOK'
  BY <1>3, <1>4, OverType DEF Builds, HistoryTypeOK
<1>5. ASSUME NEW g \in Group, NEW outcome \in WbOutcomes, Sends(g, outcome)
      PROVE  HistoryTypeOK'
  BY <1>5, OverType DEF Sends, HistoryTypeOK
<1>6. CASE Mirrors
  BY <1>6, OverType DEF Mirrors, HistoryTypeOK
<1>7. CASE UNCHANGED history
  BY <1>7 DEF HistoryTypeOK
<1>8. QED
  BY <1>1, <1>4, <1>5, <1>6, <1>7 DEF HistoryNext, historyVars
-----------------------------------------------------------------------------
\* What is asked, by whom, and that nothing is asked of WB twice.

\* Only an accepted command has live jobs, and items where it asks.
AskedInv ==
  /\ \A j \in Job : status[j] \in Active => cmd[j] = "accepted"
  /\ \A j \in Job, k \in Key : item[j][k] # "none" => cmd[j] = "accepted" /\ k \in asks[j]

\* No retry: a pass that catches an error has jobs that were tried already, or an
\* error that ends them.
OneTryInv ==
  /\ \A j \in pass.claimed \union pass.jobs : attempts[j] >= 1
  /\ pass.step \notin {"idle", "claim", "pick"} => pass.jobs # {}
  /\ pass.step \in {"sync", "catch"} => pass.error = "fatal" \/ MaxAttempts = 1
  /\ pass.step \notin {"backOff", "reschedJobs", "reschedItems"}

LEMMA InitAsked == Init => AskedInv /\ OneTryInv
<1> SUFFICES ASSUME Init PROVE AskedInv /\ OneTryInv
  OBVIOUS
<1>1. AskedInv
  BY DEF Init, AskedInv, Active
<1>2. pass.step = "idle" /\ pass.claimed = {} /\ pass.jobs = {}
  BY DEF Init, IdlePass
<1>3. OneTryInv
  BY <1>2 DEF OneTryInv
<1>4. QED
  BY <1>1, <1>3

\* What WB answered for is what it uses.
LEMMA NoMismatch ==
  ASSUME PlanInv, MirrorInv, pass.step = "verify" PROVE ~Mismatch
<1>1. pass.todo = {} /\ pass.request \subseteq Slice(pass.groups)
  BY DEF PlanInv, Sent
<1>2. \A k \in Slice(pass.groups) : k \in cabinet <=> k \in pass.request
  BY <1>1 DEF MirrorInv, Slice, Sent
<1>3. QED
  BY <1>1, <1>2 DEF Mismatch

\* A pass with the same jobs and attempts, at a step that resolves nothing.
LEMMA KeepTry ==
  ASSUME OneTryInv, UNCHANGED attempts,
         pass'.claimed = pass.claimed, pass'.jobs = pass.jobs,
         pass.step \notin {"idle", "claim", "pick"} \/ pass'.step \in {"idle", "claim", "pick"},
         pass'.step \notin {"sync", "catch", "backOff", "reschedJobs", "reschedItems"}
  PROVE  OneTryInv'
  BY DEF OneTryInv

LEMMA OthersTry ==
  ASSUME OneTryInv, UNCHANGED <<attempts, pass>> PROVE OneTryInv'
  BY DEF OneTryInv

LEMMA StepTry ==
  ASSUME ~Refreshing, OneTry, AnswersTell, MirrorReached, TypeOK, PlanInv, MirrorInv, OneTryInv,
         [Next]_vars
  PROVE  OneTryInv'
<1>1. pass \in Passes /\ attempts \in [Job -> Nat] /\ MaxAttempts \in Nat
      /\ refresh.groups = {}
  BY ActionQueueAssumption DEF TypeOK, PlanInv
<1>2. ASSUME NEW j \in Job, Command(j) PROVE OneTryInv'
  BY <1>2, OthersTry DEF Command, Ask, Desire, Accept, jobVars
<1>3. CASE Clock
  BY <1>3, OthersTry DEF Clock, CooldownEnds, Ripen, jobVars
<1>4. CASE StartPass
  <2>1. /\ UNCHANGED attempts /\ pass.step = "idle" /\ pass'.step = "claim"
        /\ pass'.claimed = pass.claimed /\ pass'.jobs = pass.jobs
    BY <1>1, <1>4 DEF StartPass, Passes, jobVars
  <2>2. QED
    BY <2>1, KeepTry
<1>5. ASSUME NEW C \in SUBSET Job, NEW plan \in [Key -> Job \union {None}], Claim(C, plan)
      PROVE  OneTryInv'
  <2>1. /\ attempts' = [j \in Job |-> IF j \in C THEN attempts[j] + 1 ELSE attempts[j]]
        /\ pass'.step = "pick" /\ pass'.claimed \subseteq C /\ pass'.jobs = {}
    BY <1>5 DEF Claim, IdlePass, JobsOf
  <2>2. \A j \in C : attempts'[j] >= 1
    BY <1>1, <2>1
  <2>3. QED
    BY <2>1, <2>2 DEF OneTryInv
<1>6. CASE Drained \/ NextRound
  <2>1. pass'.step \in {"idle", "claim"} /\ pass'.claimed = {} /\ pass'.jobs = {}
    BY <1>6 DEF Drained, NextRound, IdlePass
  <2>2. QED
    BY <2>1 DEF OneTryInv
<1>7. ASSUME NEW gs \in SUBSET Group, Pick(gs) PROVE OneTryInv'
  <2>1. /\ UNCHANGED attempts /\ pass'.step = "mark"
        /\ pass'.jobs = JobsOf(pass.claimed, gs)
        /\ pass'.claimed \subseteq pass.claimed
        /\ gs \subseteq Rest /\ gs # {}
    BY <1>1, <1>7 DEF Pick, Passes, jobVars
  <2>2. PICK g \in gs : g \in Rest
    BY <2>1
  <2>3. JobsOf(pass.claimed, {g}) # {}
    BY <2>2 DEF Rest, Sendable, GroupsOf
  <2>4. JobsOf(pass.claimed, {g}) \subseteq pass'.jobs
    BY <2>1, <2>2 DEF JobsOf
  <2>5. pass'.jobs \subseteq pass.claimed
    BY <2>1 DEF JobsOf
  <2>6. QED
    BY <2>1, <2>3, <2>4, <2>5 DEF OneTryInv
<1>8. ASSUME NEW k \in Key, Mark(k) \/ Confirm(k) \/ BackOff(k) \/ GiveUp(k) PROVE OneTryInv'
  <2>1. /\ UNCHANGED attempts
        /\ pass.step \in {"mark", "confirm", "giveUp"}
        /\ pass'.step \in {"mark", "confirm", "giveUp", "read", "completeJobs", "failJobs"}
        /\ pass'.claimed = pass.claimed /\ pass'.jobs = pass.jobs
    BY <1>1, <1>8 DEF Mark, Confirm, BackOff, GiveUp, WriteRow, Passes, jobVars, OneTryInv
  <2>2. QED
    BY <2>1, KeepTry
<1>9. ASSUME NEW g \in Group, Read(g) PROVE OneTryInv'
  <2>1. /\ UNCHANGED attempts /\ pass.step = "read" /\ pass'.step \in {"read", "send"}
        /\ pass'.claimed = pass.claimed /\ pass'.jobs = pass.jobs
    BY <1>1, <1>9 DEF Read, Passes, jobVars
  <2>2. QED
    BY <2>1, KeepTry
<1>10. ASSUME NEW g \in Group, NEW outcome \in WbOutcomes, Send(g, outcome) PROVE OneTryInv'
  <2>1. UNCHANGED attempts /\ pass.step = "send"
    BY <1>10 DEF Send, jobVars
  <2>2. CASE ErrorOf(outcome) = "none"
    <3>1. pass' = [pass EXCEPT !.todo = @ \ {g},
                     !.step = IF pass.todo = {g} THEN "verify" ELSE "send"]
      BY <1>10, <2>2 DEF Send
    <3>2. /\ pass'.step \in {"verify", "send"}
          /\ pass'.claimed = pass.claimed /\ pass'.jobs = pass.jobs
      BY <1>1, <3>1 DEF Passes
    <3>3. QED
      BY <2>1, <3>2, KeepTry
  <2>3. CASE ErrorOf(outcome) # "none"
    <3>1. pass' = [pass EXCEPT !.error = ErrorOf(outcome),
                     !.step = IF Applied = {} THEN "catch" ELSE "sync"]
      BY <1>10, <2>3 DEF Send
    <3>2. /\ pass'.step \in {"catch", "sync"} /\ pass'.error = ErrorOf(outcome)
          /\ pass'.claimed = pass.claimed /\ pass'.jobs = pass.jobs
      BY <1>1, <3>1 DEF Passes
    <3>3. ErrorOf(outcome) = "fatal" \/ MaxAttempts = 1
      BY <2>3 DEF OneTry, ErrorOf
    <3>4. QED
      BY <2>1, <3>2, <3>3 DEF OneTryInv
  <2>4. QED
    BY <2>2, <2>3
<1>11. CASE Verify
  <2>1. UNCHANGED attempts /\ pass.step = "verify"
        /\ pass' = [pass EXCEPT !.step = "mirror"]
    BY <1>11, NoMismatch DEF Verify, jobVars
  <2>2. /\ pass'.step = "mirror"
        /\ pass'.claimed = pass.claimed /\ pass'.jobs = pass.jobs
    BY <1>1, <2>1 DEF Passes
  <2>3. QED
    BY <2>1, <2>2, KeepTry
<1>12. CASE Mirror
  <2>1. /\ UNCHANGED attempts /\ pass.step = "mirror" /\ pass'.step = "confirm"
        /\ pass'.claimed = pass.claimed /\ pass'.jobs = pass.jobs
    BY <1>1, <1>12 DEF Mirror, Passes, jobVars
  <2>2. QED
    BY <2>1, KeepTry
<1>13. CASE Sync
  <2>1. /\ UNCHANGED attempts /\ pass.step = "sync" /\ pass'.step = "catch"
        /\ pass'.claimed = pass.claimed /\ pass'.jobs = pass.jobs
        /\ pass'.error = pass.error
    BY <1>1, <1>13 DEF Sync, Passes, jobVars
  <2>2. QED
    BY <2>1 DEF OneTryInv
<1>14. CASE Catch
  <2>1. /\ UNCHANGED attempts /\ pass.step = "catch"
        /\ pass'.step = (IF pass.error = "fatal" \/ Exhausted THEN "giveUp" ELSE "backOff")
        /\ pass'.claimed = pass.claimed /\ pass'.jobs = pass.jobs
    BY <1>1, <1>14 DEF Catch, Passes, jobVars
  <2>2. pass.error = "fatal" \/ Exhausted
    <3>1. PICK j \in pass.jobs : attempts[j] >= 1
      BY <2>1 DEF OneTryInv
    <3>2. MaxAttempts = 1 => attempts[j] >= MaxAttempts
      BY <3>1
    <3>3. QED
      BY <2>1, <3>1, <3>2 DEF OneTryInv, Exhausted
  <2>3. QED
    BY <2>1, <2>2, KeepTry
<1>15. CASE CompleteJobs \/ RescheduleJobs \/ FailJobs
  <2>1. /\ UNCHANGED attempts /\ pass.step \in {"completeJobs", "failJobs"}
        /\ pass'.step \in {"completeItems", "failItems"}
        /\ pass'.claimed = pass.claimed /\ pass'.jobs = pass.jobs
    BY <1>1, <1>15 DEF CompleteJobs, RescheduleJobs, FailJobs, ResolveJobs, Passes, OneTryInv
  <2>2. QED
    BY <2>1, KeepTry
<1>16. CASE CompleteItems \/ RescheduleItems \/ FailItems
  <2>1. /\ UNCHANGED attempts /\ pass'.step = "pick"
        /\ pass'.claimed = pass.claimed /\ pass'.jobs = {}
    BY <1>16 DEF CompleteItems, RescheduleItems, FailItems, ResolveItems, IdlePass
  <2>2. QED
    BY <2>1 DEF OneTryInv
<1>17. CASE PassWork
  BY <1>5, <1>6, <1>7, <1>8, <1>9, <1>10, <1>11, <1>12, <1>13, <1>14, <1>15, <1>16, <1>17
     DEF PassWork
<1>18. ASSUME NEW d \in drops, Drop(d) PROVE OneTryInv'
  BY <1>18, OthersTry DEF Drop
<1>19. CASE Refresh
  BY <1>1, <1>19 DEF Refresh, RefreshReads, RefreshWrites
<1>20. CASE Failure
  BY <1>20, OthersTry DEF Failure, MirrorReached, TryFails, PassFails, Crash, CommandFails,
     Fault, jobVars
<1>21. CASE UNCHANGED vars
  BY <1>21, OthersTry DEF vars, jobVars
<1>22. QED
  BY <1>2, <1>3, <1>4, <1>17, <1>18, <1>19, <1>20, <1>21 DEF Next
\* A step that accepts no command and brings nothing to life.
Dying ==
  /\ asks' = asks
  /\ \A j \in Job : (cmd'[j] = "accepted") <=> (cmd[j] = "accepted")
  /\ \A j \in Job : status'[j] \in Active => status[j] \in Active
  /\ \A j \in Job, k \in Key : /\ item'[j][k] # "none" => item[j][k] # "none"
                               /\ item'[j][k] \in Active => item[j][k] \in Active

LEMMA DyingOthers == UNCHANGED <<asks, cmd, status, item>> => Dying
  BY DEF Dying

LEMMA DyingJobs ==
  ASSUME NEW js, NEW st \in {"succeeded", "failed"}, JobsBecome(js, st),
         UNCHANGED <<asks, cmd, item>>
  PROVE  Dying
  BY DEF JobsBecome, Dying, Active

LEMMA DyingItems ==
  ASSUME NEW js, NEW st \in {"confirmed", "failed"}, ItemsBecome(js, st),
         UNCHANGED <<asks, cmd, status>>
  PROVE  Dying
  BY DEF ItemsBecome, Dying, Active

\* Without retries, only commands that arrive or are accepted are not of that kind.
LEMMA StepDying ==
  ASSUME MirrorReached, TypeOK, OneTryInv, [HistoryNext]_historyVars
  PROVE  Dying \/ \E j \in Job : Accept(j) \/ Arrives(j)
<1> USE DEF cmdVars, jobVars
<1>1. ASSUME NEW j \in Job, NEW k \in Key, Desire(j, k) PROVE Dying
  BY <1>1, DyingOthers DEF Desire
<1>2. CASE Clock \/ StartPass
  BY <1>2, DyingOthers DEF Clock, CooldownEnds, Ripen, StartPass
<1>3. ASSUME NEW C \in SUBSET Claimable, NEW plan \in [Key -> Job \union {None}], Claim(C, plan)
      PROVE  Dying
  <2>1. /\ C \subseteq Claimable /\ UNCHANGED <<cmd, asks>>
        /\ status' = [j \in Job |-> IF j \in C THEN "running" ELSE status[j]]
        /\ item' = [j \in Job |-> [k \in Key |->
             IF j \in C /\ item[j][k] \in Active THEN "running" ELSE item[j][k]]]
    BY <1>3 DEF Claim
  <2>2. \A j \in C : status[j] \in Active
    BY <2>1 DEF Claimable
  <2>3. QED
    BY <2>1, <2>2 DEF Dying, Active
<1>4. CASE \/ Drained \/ NextRound \/ Verify \/ Mirror \/ Sync \/ Catch
           \/ \E gs \in SUBSET Group : Pick(gs)
  BY <1>4, DyingOthers DEF Drained, NextRound, Verify, Mirror, Sync, Catch, Pick
<1>5. ASSUME NEW k \in Key, Mark(k) \/ Confirm(k) \/ BackOff(k) \/ GiveUp(k) PROVE Dying
  BY <1>5, DyingOthers DEF Mark, Confirm, BackOff, GiveUp, WriteRow
<1>6. ASSUME NEW g \in Group, Read(g) \/ \E outcome \in WbOutcomes : Send(g, outcome)
      PROVE  Dying
  BY <1>6, DyingOthers DEF Read, Send
<1>7. CASE CompleteJobs \/ FailJobs
  <2>1. PICK st \in {"succeeded", "failed"} : JobsBecome(pass.jobs, st)
    BY <1>7 DEF CompleteJobs, FailJobs, ResolveJobs
  <2>2. UNCHANGED <<cmd, asks, item>>
    BY <1>7 DEF CompleteJobs, FailJobs, ResolveJobs
  <2>3. QED
    BY <2>1, <2>2, DyingJobs
<1>8. CASE CompleteItems \/ FailItems
  <2>1. PICK st \in {"confirmed", "failed"} : ItemsBecome(pass.jobs, st)
    BY <1>8 DEF CompleteItems, FailItems, ResolveItems
  <2>2. UNCHANGED <<cmd, asks, status>>
    BY <1>8 DEF CompleteItems, FailItems, ResolveItems
  <2>3. QED
    BY <2>1, <2>2, DyingItems
<1>9. ~RescheduleJobs /\ ~RescheduleItems
  BY DEF RescheduleJobs, RescheduleItems, ResolveJobs, ResolveItems, OneTryInv
<1>10. ASSUME NEW d \in drops, Drop(d) PROVE Dying
  <2>1. UNCHANGED <<cmd, asks>>
    BY <1>10 DEF Drop
  <2>2. \/ JobsBecome(d.jobs, "failed") /\ UNCHANGED item
        \/ ItemsBecome(d.jobs, "failed") /\ UNCHANGED status
    BY <1>10 DEF Drop
  <2>3. QED
    BY <2>1, <2>2, DyingJobs, DyingItems
<1>11. CASE Failure
  <2>1. PICK j \in Job : CommandFails(j)
    BY <1>11 DEF Failure, MirrorReached, TryFails, PassFails, Crash, Fault
  <2>2. cmd' = [cmd EXCEPT ![j] = "lost"] /\ cmd[j] = "asking" /\ UNCHANGED <<asks, status, item>>
    BY <2>1 DEF CommandFails
  <2>3. QED
    BY <2>2 DEF Dying, TypeOK
<1>12. CASE UNCHANGED vars
  BY <1>12, DyingOthers DEF vars
<1>13. CASE Others
  BY <1>1, <1>2, <1>3, <1>4, <1>5, <1>7, <1>8, <1>9, <1>10, <1>11, <1>13 DEF Others
<1>14. QED
  BY <1>4, <1>6, <1>12, <1>13 DEF HistoryNext, historyVars, Builds, Sends, Mirrors

\* The tables after a command is accepted.
LEMMA AcceptTables ==
  ASSUME TypeOK, NEW j \in Job, Accept(j)
  PROVE  /\ asks' = asks /\ cmd[j] # "accepted" /\ cmd' = [cmd EXCEPT ![j] = "accepted"]
         /\ \A i \in Job \ {j} : status'[i] \in Active => status[i] \in Active
         /\ \A k \in Key : item'[j][k] # "none" => k \in asks[j]
         /\ \A i \in Job \ {j}, k \in Key :
              item'[i][k] = IF i \in Rivals(j) /\ k \in asks[j] /\ item[i][k] \in Active
                              THEN "failed" ELSE item[i][k]
<1>1. /\ asks' = asks /\ cmd[j] = "asking" /\ cmd' = [cmd EXCEPT ![j] = "accepted"]
      /\ item' = [Superseded(j) EXCEPT ![j] =
                     [k \in Key |-> IF k \in asks[j] THEN "queued" ELSE "none"]]
      /\ status' = [i \in Job |->
           IF i = j THEN "queued"
           ELSE IF i \in Rivals(j) /\ \A k \in Key : Superseded(j)[i][k] \notin Active
             THEN "failed" ELSE status[i]]
  BY DEF Accept
<1>2. \A i \in Job \ {j} : status'[i] \in Active => status[i] \in Active
  BY <1>1 DEF Active
<1>3. Superseded(j) = [i \in Job |-> [k \in Key |->
         IF i \in Rivals(j) /\ k \in asks[j] /\ item[i][k] \in Active
           THEN "failed" ELSE item[i][k]]]
  BY DEF Superseded
<1>4. \A k \in Key : item'[j][k] # "none" => k \in asks[j]
  BY <1>1, <1>3
<1>5. \A i \in Job \ {j}, k \in Key :
        item'[i][k] = IF i \in Rivals(j) /\ k \in asks[j] /\ item[i][k] \in Active
                        THEN "failed" ELSE item[i][k]
  BY <1>1, <1>3
<1>6. QED
  BY <1>1, <1>2, <1>4, <1>5

\* The tables after a command is asked.
LEMMA AskTables ==
  ASSUME TypeOK, AskedInv, NEW j \in Job, NEW K \in Requests[j], Ask(j, K)
  PROVE  /\ UNCHANGED <<status, item>> /\ cmd[j] = "idle"
         /\ cmd' = [cmd EXCEPT ![j] = "asking"]
         /\ \A i \in Job \ {j} : asks'[i] = asks[i]
         /\ status[j] \notin Active /\ \A k \in Key : item[j][k] = "none"
<1>1. /\ UNCHANGED <<status, item>> /\ cmd[j] = "idle"
      /\ cmd' = [cmd EXCEPT ![j] = "asking"] /\ asks' = [asks EXCEPT ![j] = K]
  BY DEF Ask, jobVars
<1>2. QED
  BY <1>1 DEF AskedInv, TypeOK

LEMMA StepAsked ==
  ASSUME MirrorReached, TypeOK, OneTryInv, AskedInv, [HistoryNext]_historyVars PROVE AskedInv'
<1>1. CASE Dying
  BY <1>1 DEF Dying, AskedInv
<1>2. ASSUME NEW j \in Job, Accept(j) PROVE AskedInv'
  <2>1. cmd'[j] = "accepted" /\ \A i \in Job : cmd[i] = "accepted" => cmd'[i] = "accepted"
    BY <1>2, AcceptTables DEF TypeOK
  <2>2. \A i \in Job : status'[i] \in Active => cmd'[i] = "accepted"
    BY <1>2, <2>1, AcceptTables DEF AskedInv
  <2>3. ASSUME NEW i \in Job, NEW k \in Key, item'[i][k] # "none"
        PROVE  cmd'[i] = "accepted" /\ k \in asks'[i]
    <3>1. CASE i = j
      BY <1>2, <2>1, <2>3, <3>1, AcceptTables
    <3>2. CASE i # j
      <4>1. item[i][k] # "none"
        BY <1>2, <2>3, <3>2, AcceptTables DEF Active
      <4>2. QED
        BY <1>2, <2>1, <4>1, AcceptTables DEF AskedInv
    <3>3. QED
      BY <3>1, <3>2
  <2>4. QED
    BY <2>2, <2>3 DEF AskedInv
<1>3. ASSUME NEW j \in Job, NEW K \in Requests[j], Ask(j, K) PROVE AskedInv'
  <2>1. \A i \in Job : cmd[i] = "accepted" => cmd'[i] = "accepted" /\ asks'[i] = asks[i]
    BY <1>3, AskTables DEF TypeOK
  <2>2. QED
    BY <1>3, <2>1, AskTables DEF AskedInv
<1>4. QED
  BY <1>1, <1>2, <1>3, StepDying DEF Arrives
-----------------------------------------------------------------------------
\* What a command follows, and what is left of it.

PastSeen == \A j \in Job : j \notin follows[j] /\ follows[j] \subseteq Answered

\* What an accepted command follows has nothing left to send where it asks.
OvertakenDead ==
  \A j \in Answered : \A i \in follows[j], k \in asks[j] :
    status[i] \notin Active \/ item[i][k] \notin Active

LEMMA InitOvertaken == HistoryInit => PastSeen /\ OvertakenDead
  BY DEF HistoryInit, Init, PastSeen, OvertakenDead, Answered

\* Only an arriving command is told what it follows.
LEMMA FollowsKept ==
  ASSUME [HistoryNext]_historyVars
  PROVE  follows' = follows \/ \E j \in Job : Arrives(j)
  BY DEF HistoryNext, historyVars, history, Builds, Sends, Mirrors

LEMMA ArrivesOvertaken ==
  ASSUME TypeOK, AskedInv, PastSeen, OvertakenDead, NEW j \in Job, Arrives(j),
         follows \in [Job -> SUBSET Job]
  PROVE  /\ PastSeen' /\ OvertakenDead' /\ Answered' = Answered /\ j \notin Answered
         /\ follows' = [follows EXCEPT ![j] = Answered]
<1>1. PICK K \in Requests[j] : Ask(j, K)
  BY DEF Arrives
<1>2. /\ UNCHANGED <<status, item>> /\ cmd[j] = "idle"
      /\ cmd' = [cmd EXCEPT ![j] = "asking"]
      /\ \A i \in Job \ {j} : asks'[i] = asks[i]
  BY <1>1, AskTables
<1>3. Answered' = Answered /\ j \notin Answered
  BY <1>2 DEF Answered, TypeOK
<1>4. follows' = [follows EXCEPT ![j] = Answered]
  BY DEF Arrives
<1>5. PastSeen'
  BY <1>3, <1>4 DEF PastSeen
<1>6. OvertakenDead'
  BY <1>2, <1>3, <1>4 DEF OvertakenDead, Answered
<1>7. QED
  BY <1>3, <1>4, <1>5, <1>6

LEMMA AcceptOvertaken ==
  ASSUME TypeOK, AskedInv, PastSeen, OvertakenDead, NEW j \in Job, Accept(j), follows' = follows
  PROVE  PastSeen' /\ OvertakenDead' /\ Answered' = Answered \union {j}
<1>1. Answered' = Answered \union {j} /\ j \notin Answered
  BY AcceptTables DEF Answered, TypeOK
<1>2. PastSeen'
  BY <1>1 DEF PastSeen
<1>3. SUFFICES ASSUME NEW m \in Answered', NEW i \in follows[m], NEW k \in asks[m],
                      status'[i] \in Active, item'[i][k] \in Active
               PROVE  FALSE
  BY <1>1, <1>2, AcceptTables DEF OvertakenDead
<1>4. m \in Job /\ i \in Answered /\ i \in Job \ {j} /\ k \in Key
  BY <1>1 DEF PastSeen, Answered, TypeOK
<1>5. status[i] \in Active
  BY <1>3, <1>4, AcceptTables
<1>6. item'[i][k] = IF i \in Rivals(j) /\ k \in asks[j] /\ item[i][k] \in Active
                      THEN "failed" ELSE item[i][k]
  BY <1>4, AcceptTables
<1>7. item[i][k] \in Active /\ ~(i \in Rivals(j) /\ k \in asks[j])
  BY <1>3, <1>6 DEF Active
<1>8. CASE m # j
  BY <1>1, <1>5, <1>7, <1>8 DEF OvertakenDead
<1>9. CASE m = j
  <2>1. k \in asks[i] /\ k \in asks[j]
    BY <1>4, <1>7, <1>9 DEF AskedInv, Active
  <2>2. i \in Rivals(j)
    BY <1>4, <1>5, <2>1 DEF Rivals, SameGroup
  <2>3. QED
    BY <1>7, <2>1, <2>2
<1>10. QED
  BY <1>8, <1>9

LEMMA DyingOvertaken ==
  ASSUME TypeOK, PastSeen, OvertakenDead, Dying, follows' = follows
  PROVE  PastSeen' /\ OvertakenDead' /\ Answered' = Answered
<1>1. Answered' = Answered
  BY DEF Dying, Answered
<1>2. PastSeen'
  BY <1>1 DEF PastSeen
<1>3. ASSUME NEW j \in Answered, NEW i \in follows[j], NEW k \in asks[j]
      PROVE  status'[i] \notin Active \/ item'[i][k] \notin Active
  <2>1. i \in Job /\ j \in Job /\ k \in Key
    BY <1>3 DEF PastSeen, Answered, TypeOK
  <2>2. QED
    BY <1>3, <2>1 DEF OvertakenDead, Dying
<1>4. OvertakenDead'
  BY <1>1, <1>3 DEF OvertakenDead, Dying
<1>5. QED
  BY <1>1, <1>2, <1>4

\* Every step is one of the three kinds.
LEMMA StepKinds ==
  ASSUME MirrorReached, TypeOK, OneTryInv, [HistoryNext]_historyVars
  PROVE  \/ \E j \in Job : Arrives(j)
         \/ \E j \in Job : Accept(j) /\ follows' = follows
         \/ Dying /\ follows' = follows
<1>1. CASE \E j \in Job : Arrives(j)
  BY <1>1
<1>2. CASE ~\E j \in Job : Arrives(j)
  BY <1>2, FollowsKept, StepDying
<1>3. QED
  BY <1>1, <1>2
-----------------------------------------------------------------------------
\* Whose wishes the sets carry.

\* Mirror and cabinet show the same commands, but for the campaigns WB has
\* answered for in a batch under way: there the cabinet shows what was sent.
ByInv ==
  /\ pass.step \notin Sent => mirrorBy = shownBy
  /\ pass.step \in Sent => \A k \in Key :
       shownBy[k] = IF GroupOf[k] \in pass.groups \ pass.todo THEN sentBy[k] ELSE mirrorBy[k]
  /\ pass.step = "read" => \A k \in Slice(pass.groups \ pass.todo) : sentBy[k] = Wishes[k]
  /\ pass.step \in Sent => \A k \in Slice(pass.groups) : sentBy[k] = Wishes[k]

LEMMA InitBy == HistoryInit => ByInv
  BY DEF HistoryInit, Init, IdlePass, ByInv, Sent

LEMMA WishesAre ==
  \A k \in Key : Wishes[k] = IF pass.plan[k] = None THEN mirrorBy[k] ELSE pass.plan[k]
  BY DEF Wishes, Over

\* How the pass moves in the steps the history does not follow.
LEMMA OthersMove ==
  ASSUME MirrorReached, TypeOK, PlanInv, MirrorInv, Others
  PROVE  /\ UNCHANGED <<cabinet, mirror>>
         /\ \/ pass' = pass
            \/ pass.step \notin Sent \union {"read"} /\ pass'.step \notin Sent \union {"read"}
            \/ pass'.step = "read" /\ pass.step \notin Sent /\ pass'.todo = pass'.groups
            \/ /\ pass.step = "verify" /\ pass'.step = "mirror"
               /\ pass'.todo = pass.todo /\ pass'.groups = pass.groups /\ pass'.plan = pass.plan
<1> DEFINE Moves ==
  /\ UNCHANGED <<cabinet, mirror>>
  /\ \/ pass' = pass
     \/ pass.step \notin Sent \union {"read"} /\ pass'.step \notin Sent \union {"read"}
     \/ pass'.step = "read" /\ pass.step \notin Sent /\ pass'.todo = pass'.groups
     \/ /\ pass.step = "verify" /\ pass'.step = "mirror"
        /\ pass'.todo = pass.todo /\ pass'.groups = pass.groups /\ pass'.plan = pass.plan
<1>1. pass \in Passes
  BY DEF TypeOK
<1>2. CASE \E j \in Job : Accept(j) \/ \E k \in Key : Desire(j, k)
  BY <1>2 DEF Accept, Desire
<1>3. CASE Clock
  BY <1>3 DEF Clock, CooldownEnds, Ripen
<1>4. CASE StartPass
  BY <1>1, <1>4 DEF StartPass, Passes, Sent
<1>5. CASE Failure
  BY <1>5 DEF Failure, MirrorReached, TryFails, PassFails, Crash, CommandFails, Fault
<1>6. CASE \E C \in SUBSET Claimable, plan \in [Key -> Job \union {None}] : Claim(C, plan)
  BY <1>6 DEF Claim, IdlePass, Sent
<1>7. CASE Drained \/ NextRound
  BY <1>7 DEF Drained, NextRound, IdlePass, Sent
<1>8. ASSUME NEW gs \in SUBSET Group, Pick(gs) PROVE Moves
  <2>1. UNCHANGED <<cabinet, mirror>> /\ pass.step = "pick" /\ pass'.step = "mark"
    BY <1>1, <1>8 DEF Pick, Passes
  <2>2. QED
    BY <2>1 DEF Sent
<1>9. ASSUME NEW k \in Key, NEW from, NEW st, NEW to, WriteRow(from, k, st, to)
      PROVE  /\ UNCHANGED <<cabinet, mirror>> /\ pass.step = from
             /\ pass'.step = (IF pass.rows = {k} THEN to ELSE from)
             /\ pass'.todo = pass.todo /\ pass'.groups = pass.groups
  BY <1>1, <1>9 DEF WriteRow, Passes
<1>10. ASSUME NEW k \in Key, Mark(k) PROVE Moves
  <2>1. /\ UNCHANGED <<cabinet, mirror>> /\ pass.step = "mark"
        /\ pass'.step \in {"mark", "read"}
        /\ pass'.todo = pass.todo /\ pass'.groups = pass.groups
    BY <1>9, <1>10 DEF Mark
  <2>2. QED
    BY <2>1 DEF PlanInv, Sent
<1>11. ASSUME NEW k \in Key, Confirm(k) \/ BackOff(k) \/ GiveUp(k) PROVE Moves
  <2>1. /\ UNCHANGED <<cabinet, mirror>> /\ pass.step \in {"confirm", "backOff", "giveUp"}
        /\ pass'.step \in {"confirm", "backOff", "giveUp", "completeJobs", "reschedJobs",
                           "failJobs"}
    BY <1>9, <1>11 DEF Confirm, BackOff, GiveUp
  <2>2. QED
    BY <2>1 DEF Sent
<1>12. CASE Verify
  <2>1. /\ UNCHANGED <<cabinet, mirror>> /\ pass.step = "verify"
        /\ pass' = [pass EXCEPT !.step = "mirror"]
    BY <1>12, NoMismatch DEF Verify
  <2>2. QED
    BY <1>1, <2>1 DEF Passes
<1>13. CASE Catch
  <2>1. /\ UNCHANGED <<cabinet, mirror>> /\ pass.step = "catch"
        /\ pass'.step \in {"giveUp", "backOff"}
    BY <1>1, <1>13 DEF Catch, Passes
  <2>2. QED
    BY <2>1 DEF Sent
<1>14. CASE CompleteJobs \/ RescheduleJobs \/ FailJobs
  <2>1. /\ UNCHANGED <<cabinet, mirror>>
        /\ pass.step \in {"completeJobs", "reschedJobs", "failJobs"}
        /\ pass'.step \in {"completeItems", "reschedItems", "failItems"}
    BY <1>1, <1>14 DEF CompleteJobs, RescheduleJobs, FailJobs, ResolveJobs, Passes
  <2>2. QED
    BY <2>1 DEF Sent
<1>15. CASE CompleteItems \/ RescheduleItems \/ FailItems
  <2>1. /\ UNCHANGED <<cabinet, mirror>> /\ pass'.step = "pick"
        /\ pass.step \in {"completeItems", "reschedItems", "failItems"}
    BY <1>15 DEF CompleteItems, RescheduleItems, FailItems, ResolveItems, IdlePass
  <2>2. QED
    BY <2>1 DEF Sent
<1>16. ASSUME NEW d \in drops, Drop(d) PROVE Moves
  BY <1>16 DEF Drop
<1>17. Moves
  BY <1>2, <1>3, <1>4, <1>5, <1>6, <1>7, <1>8, <1>10, <1>11, <1>12, <1>13, <1>14, <1>15, <1>16
     DEF Others
<1>18. QED
  BY <1>17

LEMMA OthersBy ==
  ASSUME MirrorReached, TypeOK, PlanInv, MirrorInv, ByInv, Others, UNCHANGED history
  PROVE  ByInv'
<1>1. UNCHANGED <<shownBy, mirrorBy, sentBy>>
  BY DEF history, sources
<1>2. CASE pass' = pass
  BY <1>1, <1>2 DEF ByInv, Wishes
<1>3. CASE pass.step \notin Sent \union {"read"} /\ pass'.step \notin Sent \union {"read"}
  BY <1>1, <1>3 DEF ByInv
<1>4. CASE pass'.step = "read" /\ pass.step \notin Sent /\ pass'.todo = pass'.groups
  <2>1. Slice(pass'.groups \ pass'.todo) = {}
    BY <1>4 DEF Slice
  <2>2. QED
    BY <1>1, <1>4, <2>1 DEF ByInv, Sent
<1>5. CASE /\ pass.step = "verify" /\ pass'.step = "mirror"
           /\ pass'.todo = pass.todo /\ pass'.groups = pass.groups /\ pass'.plan = pass.plan
  BY <1>1, <1>5 DEF ByInv, Wishes, Sent
<1>6. QED
  BY <1>2, <1>3, <1>4, <1>5, OthersMove
\* A set built carries the wishes of its batch, and of the mirror for the rest.
LEMMA BuildsBy ==
  ASSUME TypeOK, PlanInv, ByInv, NEW g \in Group, Builds(g) PROVE ByInv'
<1> DEFINE last == pass.todo = {g}
<1>1. /\ pass \in Passes /\ pass.step = "read" /\ g \in pass.todo
      /\ UNCHANGED <<shownBy, mirrorBy>> /\ sentBy' = Over(sentBy, Wishes, Slice({g}))
  BY DEF Builds, Read, TypeOK
<1>2. /\ pass'.groups = pass.groups /\ pass'.plan = pass.plan
      /\ pass'.todo = IF last THEN pass.groups ELSE pass.todo \ {g}
      /\ pass'.step = IF last THEN "send" ELSE "read"
  BY <1>1 DEF Builds, Read, Passes
<1>3. pass.todo \subseteq pass.groups /\ mirrorBy = shownBy
  BY <1>1 DEF PlanInv, ByInv, Sent
<1> DEFINE done == (pass.groups \ pass.todo) \union {g}
<1>4. ASSUME NEW k \in Slice(done) PROVE sentBy'[k] = Wishes[k]
  <2>1. CASE GroupOf[k] = g
    BY <1>1, <1>4, <2>1 DEF Over, Slice
  <2>2. CASE GroupOf[k] # g
    BY <1>1, <1>4, <2>2 DEF Over, Slice, ByInv
  <2>3. QED
    BY <2>1, <2>2
<1>5. Wishes' = Wishes
  BY <1>1, <1>2 DEF Wishes
<1>6. CASE last
  <2>1. done = pass'.groups /\ pass'.step = "send" /\ pass'.groups \ pass'.todo = {}
    BY <1>2, <1>3, <1>6
  <2>2. QED
    BY <1>1, <1>3, <1>4, <1>5, <2>1 DEF ByInv, Sent
<1>7. CASE ~last
  <2>1. done = pass'.groups \ pass'.todo /\ pass'.step = "read"
    BY <1>1, <1>2, <1>3, <1>7
  <2>2. QED
    BY <1>1, <1>3, <1>4, <1>5, <2>1 DEF ByInv, Sent
<1>8. QED
  BY <1>6, <1>7

\* A set-minus makes the cabinet show what was sent, which is new only where the
\* batch names a cluster.
LEMMA SendsBy ==
  ASSUME AnswersTell, TypeOK, HistoryTypeOK, PlanInv, ByInv,
         NEW g \in Group, NEW outcome \in WbOutcomes, Sends(g, outcome)
  PROVE  /\ ByInv' /\ pass'.plan = pass.plan
         /\ \A k \in Key : shownBy'[k] = shownBy[k]
                           \/ (pass.plan[k] # None /\ shownBy'[k] = pass.plan[k])
<1>1. /\ pass \in Passes /\ pass.step = "send" /\ g \in pass.todo /\ g \in pass.groups
      /\ UNCHANGED <<mirrorBy, sentBy>>
      /\ shownBy' = IF outcome \in {"accepted", "lost"} THEN Over(shownBy, sentBy, Slice({g}))
                                                        ELSE shownBy
  BY DEF Sends, Send, TypeOK, PlanInv, Sent
<1>2. CASE ErrorOf(outcome) = "none"
  <2>1. outcome = "accepted"
    BY <1>2 DEF AnswersTell, ErrorOf
  <2>2. pass' = [pass EXCEPT !.todo = @ \ {g},
                   !.step = IF pass.todo = {g} THEN "verify" ELSE "send"]
    BY <1>2 DEF Sends, Send
  <2>3. /\ pass'.step \in Sent /\ pass'.todo = pass.todo \ {g} /\ pass'.step # "read"
        /\ pass'.groups = pass.groups /\ pass'.plan = pass.plan
    BY <1>1, <2>2 DEF Passes, Sent
  <2>4. Wishes' = Wishes
    BY <1>1, <2>3 DEF Wishes
  <2>5. \A k \in Key : shownBy'[k] = IF GroupOf[k] = g THEN sentBy[k] ELSE shownBy[k]
    BY <1>1, <2>1 DEF Over, Slice
  <2>6. ASSUME NEW k \in Key
        PROVE  shownBy'[k] = IF GroupOf[k] \in pass'.groups \ pass'.todo THEN sentBy[k]
                                                                         ELSE mirrorBy[k]
    <3>1. CASE GroupOf[k] = g
      BY <1>1, <2>3, <2>5, <3>1
    <3>2. CASE GroupOf[k] # g
      BY <1>1, <2>3, <2>5, <3>2 DEF ByInv, Sent
    <3>3. QED
      BY <3>1, <3>2
  <2>7. ByInv'
    BY <1>1, <2>3, <2>4, <2>6 DEF ByInv, Sent
  <2>8. ASSUME NEW k \in Key, GroupOf[k] = g
        PROVE  sentBy[k] = shownBy[k] \/ (pass.plan[k] # None /\ sentBy[k] = pass.plan[k])
    <3>1. sentBy[k] = Wishes[k]
      BY <1>1, <2>8 DEF ByInv, Sent, Slice
    <3>2. shownBy[k] = mirrorBy[k]
      BY <1>1, <2>8 DEF ByInv, Sent
    <3>3. QED
      BY <3>1, <3>2, WishesAre
  <2>9. QED
    BY <2>3, <2>5, <2>7, <2>8
<1>3. CASE ErrorOf(outcome) # "none"
  <2>1. shownBy' = shownBy
    BY <1>1, <1>3 DEF AnswersTell, ErrorOf
  <2>2. pass' = [pass EXCEPT !.error = ErrorOf(outcome),
                   !.step = IF Applied = {} THEN "catch" ELSE "sync"]
    BY <1>3 DEF Sends, Send
  <2>3. /\ pass'.step = IF Applied = {} THEN "catch" ELSE "sync"
        /\ pass'.todo = pass.todo /\ pass'.groups = pass.groups /\ pass'.plan = pass.plan
    BY <1>1, <2>2 DEF Passes
  <2>4. Wishes' = Wishes
    BY <1>1, <2>3 DEF Wishes
  <2>5. CASE Applied = {}
    <3>1. \A k \in Key : mirrorBy[k] = shownBy[k]
      BY <1>1, <2>5 DEF ByInv, Applied, Sent
    <3>2. mirrorBy = shownBy
      BY <3>1 DEF HistoryTypeOK
    <3>3. QED
      BY <1>1, <2>1, <2>3, <2>5, <3>2 DEF ByInv, Sent
  <2>6. CASE Applied # {}
    BY <1>1, <2>1, <2>3, <2>4, <2>6 DEF ByInv, Sent
  <2>7. QED
    BY <2>5, <2>6
<1>4. QED
  BY <1>2, <1>3

\* Written back, the mirror shows what the cabinet shows.
LEMMA MirrorsBy ==
  ASSUME TypeOK, HistoryTypeOK, PlanInv, ByInv, Mirrors
  PROVE  ByInv' /\ mirrorBy' = shownBy' /\ pass'.plan = pass.plan /\ shownBy' = shownBy
<1>1. pass \in Passes /\ shownBy' = shownBy
  BY DEF TypeOK, Mirrors
<1>2. PICK gs \in {pass.groups, pass.groups \ pass.todo} :
         /\ mirrorBy' = Over(mirrorBy, sentBy, Slice(gs)) /\ pass.step \in Sent
         /\ pass'.step \in {"confirm", "catch"} /\ pass'.plan = pass.plan
         /\ gs = pass.groups \ pass.todo
  <2>1. CASE Mirror /\ mirrorBy' = Over(mirrorBy, sentBy, Slice(pass.groups))
    <3>1. /\ pass.step = "mirror" /\ pass'.step = "confirm" /\ pass'.plan = pass.plan
          /\ pass.todo = {}
      BY <1>1, <2>1 DEF Mirror, Passes, PlanInv
    <3>2. QED
      BY <2>1, <3>1 DEF Sent
  <2>2. CASE Sync /\ mirrorBy' = Over(mirrorBy, sentBy, Slice(Applied))
    <3>1. pass.step = "sync" /\ pass'.step = "catch" /\ pass'.plan = pass.plan
      BY <1>1, <2>2 DEF Sync, Passes
    <3>2. QED
      BY <2>2, <3>1 DEF Sent, Applied
  <2>3. QED
    BY <2>1, <2>2 DEF Mirrors
<1>3. \A k \in Key : mirrorBy'[k] = shownBy[k]
  BY <1>2 DEF ByInv, Over, Slice
<1>4. mirrorBy' = shownBy
  BY <1>2, <1>3 DEF HistoryTypeOK, Over
<1>5. QED
  BY <1>1, <1>2, <1>4 DEF ByInv, Sent

LEMMA StepBy ==
  ASSUME AnswersTell, MirrorReached, TypeOK, HistoryTypeOK, PlanInv, MirrorInv, ByInv,
         [HistoryNext]_historyVars
  PROVE  ByInv'
<1>1. ASSUME NEW j \in Job, Arrives(j) PROVE ByInv'
  <2>1. UNCHANGED <<pass, shownBy, mirrorBy, sentBy>>
    BY <1>1 DEF Arrives, Ask, sources
  <2>2. QED
    BY <2>1 DEF ByInv, Wishes
<1>2. CASE UNCHANGED historyVars
  <2>1. UNCHANGED <<pass, shownBy, mirrorBy, sentBy>>
    BY <1>2 DEF historyVars, history, sources, vars
  <2>2. QED
    BY <2>1 DEF ByInv, Wishes
<1>3. QED
  BY <1>1, <1>2, BuildsBy, SendsBy, MirrorsBy, OthersBy DEF HistoryNext

-----------------------------------------------------------------------------
\* The history tells the truth.

MirrorHolds == \A k \in Key : k \in mirror <=> Excluded(mirrorBy, k)

\* What is true of the mirror is true of the cabinet.
LEMMA TruthCarries ==
  ASSUME PlanInv, MirrorInv, ByInv, MirrorHolds PROVE ShownHolds
<1>1. SUFFICES ASSUME NEW k \in Key PROVE k \in cabinet <=> Excluded(shownBy, k)
  BY DEF ShownHolds
<1>2. CASE pass.step \notin Sent \/ GroupOf[k] \notin pass.groups \ pass.todo
  <2>1. (k \in cabinet <=> k \in mirror) /\ shownBy[k] = mirrorBy[k]
    BY <1>2 DEF MirrorInv, ByInv
  <2>2. QED
    BY <2>1 DEF MirrorHolds, Excluded
<1>3. CASE pass.step \in Sent /\ GroupOf[k] \in pass.groups \ pass.todo
  <2>1. k \in Slice(pass.groups)
    BY <1>3 DEF Slice
  <2>2. k \in cabinet <=>
          IF pass.plan[k] = None THEN k \in mirror ELSE pass.plan[k] \in Excludes
    BY <1>3, <2>1 DEF MirrorInv, PlanInv, Planned
  <2>3. shownBy[k] = IF pass.plan[k] = None THEN mirrorBy[k] ELSE pass.plan[k]
    BY <1>3, <2>1, WishesAre DEF ByInv
  <2>4. QED
    BY <1>1, <2>2, <2>3 DEF MirrorHolds, Excluded
<1>4. QED
  BY <1>2, <1>3

\* The mirror changes only when it is written back, and is then the cabinet.
LEMMA StepTruth ==
  ASSUME ~Refreshing, AnswersTell, MirrorReached, TypeOK, HistoryTypeOK, PlanInv, MirrorInv,
         ByInv, MirrorHolds, [HistoryNext]_historyVars
  PROVE  MirrorHolds'
<1>1. CASE UNCHANGED <<first, mirror, mirrorBy>>
  BY <1>1 DEF MirrorHolds, Excluded
<1>2. CASE Mirrors
  <2>1. cabinet' = cabinet /\ pass'.step \notin Sent
    BY <1>2 DEF Mirrors, Mirror, Sync, TypeOK, Passes, Sent
  <2>2. [Next]_vars
    BY <1>2, HistoryIsQueue DEF HistoryNext
  <2>3. mirror' = cabinet
    BY <2>1, <2>2, StepMirror DEF MirrorInv
  <2>4. mirrorBy' = shownBy /\ first' = first /\ ShownHolds
    BY <1>2, MirrorsBy, TruthCarries DEF Mirrors
  <2>5. QED
    BY <2>3, <2>4 DEF MirrorHolds, ShownHolds, Excluded
<1>3. ASSUME NEW j \in Job, Arrives(j) PROVE UNCHANGED <<first, mirror, mirrorBy>>
  BY <1>3 DEF Arrives, Ask, sources
<1>4. ASSUME NEW g \in Group, Builds(g) \/ \E outcome \in WbOutcomes : Sends(g, outcome)
      PROVE  UNCHANGED <<first, mirror, mirrorBy>>
  BY <1>4 DEF Builds, Read, Sends, Send
<1>5. ASSUME Others, UNCHANGED history PROVE UNCHANGED <<first, mirror, mirrorBy>>
  BY <1>5, OthersMove DEF history, sources
<1>6. ASSUME UNCHANGED historyVars PROVE UNCHANGED <<first, mirror, mirrorBy>>
  BY <1>6 DEF historyVars, vars, history, sources
<1>7. QED
  BY <1>1, <1>2, <1>3, <1>4, <1>5, <1>6 DEF HistoryNext
-----------------------------------------------------------------------------
\* The plan never leads back from what the cabinet shows.

ShownAnswered ==
  \A k \in Key : shownBy[k] # None => shownBy[k] \in Answered /\ k \in asks[shownBy[k]]

PlanForward ==
  \A k \in Key : pass.plan[k] # None =>
    /\ pass.plan[k] \in Answered /\ k \in asks[pass.plan[k]]
    /\ shownBy[k] # None => pass.plan[k] \notin follows[shownBy[k]]

ForwardInv == ShownAnswered /\ PlanForward

LEMMA InitForward == HistoryInit => ForwardInv
  BY DEF HistoryInit, Init, IdlePass, Nobodys, ForwardInv, ShownAnswered, PlanForward

\* Answered commands stay answered, with what they ask and follow.
Kept == \A j \in Answered : j \in Answered' /\ asks'[j] = asks[j] /\ follows'[j] = follows[j]

LEMMA KindsKept ==
  ASSUME TypeOK, HistoryTypeOK, AskedInv, PastSeen, OvertakenDead,
         \/ \E j \in Job : Arrives(j)
         \/ \E j \in Job : Accept(j) /\ follows' = follows
         \/ Dying /\ follows' = follows
  PROVE  Kept /\ PastSeen' /\ OvertakenDead'
<1>1. ASSUME NEW j \in Job, Arrives(j) PROVE Kept /\ PastSeen' /\ OvertakenDead'
  <2>1. /\ PastSeen' /\ OvertakenDead' /\ Answered' = Answered /\ j \notin Answered
        /\ follows' = [follows EXCEPT ![j] = Answered]
    BY <1>1, ArrivesOvertaken DEF HistoryTypeOK
  <2>2. \A i \in Job \ {j} : asks'[i] = asks[i]
    BY <1>1, AskTables DEF Arrives
  <2>3. Kept
    BY <2>1, <2>2 DEF Kept, Answered, HistoryTypeOK
  <2>4. QED
    BY <2>1, <2>3
<1>2. ASSUME NEW j \in Job, Accept(j), follows' = follows
      PROVE  Kept /\ PastSeen' /\ OvertakenDead'
  BY <1>2, AcceptOvertaken, AcceptTables DEF Kept
<1>3. ASSUME Dying, follows' = follows PROVE Kept /\ PastSeen' /\ OvertakenDead'
  BY <1>3, DyingOvertaken DEF Kept, Dying
<1>4. QED
  BY <1>1, <1>2, <1>3

\* Steps that plan nothing and send nothing.
LEMMA KeepForward ==
  ASSUME Kept, ForwardInv, shownBy' = shownBy, pass'.plan \in {pass.plan, Nobodys}
  PROVE  ForwardInv'
<1>1. ShownAnswered'
  BY DEF Kept, ForwardInv, ShownAnswered
<1>2. PlanForward'
  BY DEF Kept, ForwardInv, ShownAnswered, PlanForward, Nobodys
<1>3. QED
  BY <1>1, <1>2 DEF ForwardInv

\* A claim plans live items of active jobs, which nothing shown has followed.
LEMMA ClaimForward ==
  ASSUME TypeOK, AskedInv, PastSeen, OvertakenDead, Kept, ForwardInv, shownBy' = shownBy,
         NEW C \in SUBSET Claimable, NEW plan \in [Key -> Job \union {None}], Claim(C, plan)
  PROVE  ForwardInv'
<1>1. C \subseteq Claimable /\ Merged(C, plan) /\ pass'.plan = plan
  BY DEF Claim, IdlePass
<1>2. ASSUME NEW k \in Key, plan[k] # None
      PROVE  /\ plan[k] \in Answered /\ k \in asks[plan[k]]
             /\ shownBy[k] # None => plan[k] \notin follows[shownBy[k]]
  <2>1. plan[k] \in C /\ item[plan[k]][k] \in Active
    BY <1>1, <1>2 DEF Merged, Live
  <2>2. plan[k] \in Job /\ status[plan[k]] \in Active
    BY <1>1, <1>2, <2>1 DEF Claimable, TypeOK
  <2>3. plan[k] \in Answered /\ k \in asks[plan[k]]
    BY <2>1, <2>2 DEF AskedInv, Answered, Active
  <2>4. QED
    BY <2>1, <2>2, <2>3 DEF ForwardInv, ShownAnswered, OvertakenDead
<1>3. ShownAnswered'
  BY DEF Kept, ForwardInv, ShownAnswered
<1>4. PlanForward'
  BY <1>1, <1>2, <1>3 DEF Kept, ForwardInv, ShownAnswered, PlanForward
<1>5. QED
  BY <1>3, <1>4 DEF ForwardInv

\* A set-minus takes the cabinet forward.
LEMMA SendsForward ==
  ASSUME PastSeen, Kept, ForwardInv, pass'.plan = pass.plan, follows' = follows,
         \A k \in Key : shownBy'[k] = shownBy[k]
                        \/ (pass.plan[k] # None /\ shownBy'[k] = pass.plan[k])
  PROVE  /\ ForwardInv'
         /\ \A k \in Key : shownBy'[k] = shownBy[k] \/ Latest!MayReplace(shownBy'[k], shownBy[k])
<1>1. ASSUME NEW k \in Key, shownBy'[k] # None
      PROVE  shownBy'[k] \in Answered /\ k \in asks[shownBy'[k]]
  BY <1>1 DEF ForwardInv, ShownAnswered, PlanForward
<1>2. ShownAnswered'
  BY <1>1 DEF Kept, ShownAnswered
<1>3. ASSUME NEW k \in Key, pass.plan[k] # None, shownBy'[k] # None
      PROVE  pass.plan[k] \notin follows[shownBy'[k]]
  BY <1>1, <1>3 DEF ForwardInv, PlanForward, PastSeen, Answered
<1>4. PlanForward'
  BY <1>3 DEF Kept, ForwardInv, PlanForward
<1>5. \A k \in Key : shownBy'[k] = shownBy[k] \/ Latest!MayReplace(shownBy'[k], shownBy[k])
  BY DEF ForwardInv, PlanForward, Latest!MayReplace
<1>6. QED
  BY <1>2, <1>4, <1>5 DEF ForwardInv

\* How the plan moves in the other steps.
LEMMA OthersPlanned ==
  ASSUME MirrorReached, TypeOK, Others
  PROVE  \/ pass'.plan \in {pass.plan, Nobodys}
         \/ \E C \in SUBSET Claimable, plan \in [Key -> Job \union {None}] : Claim(C, plan)
<1>1. pass \in Passes
  BY DEF TypeOK
<1>2. CASE \/ Clock \/ Failure \/ \E j \in Job : Accept(j) \/ \E k \in Key : Desire(j, k)
           \/ \E d \in drops : Drop(d)
  BY <1>2 DEF Clock, CooldownEnds, Ripen, Failure, MirrorReached, TryFails, PassFails, Crash,
     CommandFails, Fault, Accept, Desire, Drop
<1>3. CASE StartPass
  BY <1>1, <1>3 DEF StartPass, Passes
<1>4. CASE Drained \/ NextRound
  BY <1>4 DEF Drained, NextRound, IdlePass, Nobodys
<1>5. CASE Verify
  BY <1>1, <1>5 DEF Verify, Passes
<1>6. CASE Catch
  BY <1>1, <1>6 DEF Catch, Passes
<1>7. ASSUME NEW gs \in SUBSET Group, Pick(gs) PROVE pass'.plan = pass.plan
  BY <1>1, <1>7 DEF Pick, Passes
<1>8. ASSUME NEW k \in Key, Mark(k) \/ Confirm(k) \/ BackOff(k) \/ GiveUp(k)
      PROVE  pass'.plan = pass.plan
  BY <1>1, <1>8 DEF Mark, Confirm, BackOff, GiveUp, WriteRow, Passes
<1>9. CASE CompleteJobs \/ RescheduleJobs \/ FailJobs
  BY <1>1, <1>9 DEF CompleteJobs, RescheduleJobs, FailJobs, ResolveJobs, Passes
<1>10. CASE CompleteItems \/ RescheduleItems \/ FailItems
  BY <1>10 DEF CompleteItems, RescheduleItems, FailItems, ResolveItems, IdlePass
<1>11. QED
  BY <1>2, <1>3, <1>4, <1>5, <1>6, <1>7, <1>8, <1>9, <1>10 DEF Others
LEMMA StepForward ==
  ASSUME AnswersTell, MirrorReached, TypeOK, TypeOK', HistoryTypeOK, HistoryTypeOK', PlanInv,
         MirrorInv, OneTryInv, AskedInv, PastSeen, OvertakenDead, ByInv, ForwardInv,
         [HistoryNext]_historyVars
  PROVE  PastSeen' /\ OvertakenDead' /\ ForwardInv' /\ [Latest!Next]_Latest!vars
<1>1. Kept /\ PastSeen' /\ OvertakenDead'
  BY StepKinds, KindsKept
<1>2. ASSUME NEW j \in Job, Arrives(j) PROVE ForwardInv' /\ [Latest!Next]_Latest!vars
  <2>1. shownBy' = shownBy /\ pass' = pass
    BY <1>2 DEF Arrives, sources, Ask
  <2>2. ForwardInv'
    BY <1>1, <2>1, KeepForward
  <2>3. Latest!Arrive(j)
    BY <1>2, <2>1, ArrivesOvertaken DEF HistoryTypeOK, Latest!Arrive
  <2>4. QED
    BY <2>2, <2>3 DEF Latest!Next
<1>3. ASSUME NEW g \in Group, NEW outcome \in WbOutcomes, Sends(g, outcome)
      PROVE  ForwardInv' /\ [Latest!Next]_Latest!vars
  <2>1. Answered' = Answered /\ follows' = follows
    BY <1>3 DEF Sends, Send, cmdVars, Answered
  <2>2. /\ ForwardInv'
        /\ \A k \in Key : shownBy'[k] = shownBy[k] \/ Latest!MayReplace(shownBy'[k], shownBy[k])
    BY <1>1, <1>3, <2>1, SendsBy, SendsForward
  <2>3. Latest!Apply
    BY <2>1, <2>2 DEF Latest!Apply, HistoryTypeOK
  <2>4. QED
    BY <2>2, <2>3 DEF Latest!Next
\* The steps left change neither what is shown nor, but for a claim, the plan.
<1>4. ASSUME shownBy' = shownBy, follows' = follows,
             \/ pass'.plan \in {pass.plan, Nobodys}
             \/ \E C \in SUBSET Claimable, plan \in [Key -> Job \union {None}] : Claim(C, plan),
             ~\E j \in Job : Arrives(j)
      PROVE  ForwardInv' /\ [Latest!Next]_Latest!vars
  <2>1. ForwardInv'
    BY <1>1, <1>4, KeepForward, ClaimForward
  <2>2. ASSUME NEW j \in Job, Accept(j) PROVE Latest!Answer(j)
    BY <1>4, <2>2, AcceptOvertaken DEF Latest!Answer
  <2>3. ASSUME Dying PROVE UNCHANGED Latest!vars
    BY <1>4, <2>3, DyingOvertaken DEF Latest!vars
  <2>4. QED
    BY <1>4, <2>1, <2>2, <2>3, StepDying DEF Latest!Next
<1>5. ASSUME ~\E j \in Job : Arrives(j), NEW g \in Group, Builds(g)
      PROVE  ForwardInv' /\ [Latest!Next]_Latest!vars
  <2>1. shownBy' = shownBy /\ follows' = follows /\ pass'.plan = pass.plan
    BY <1>5 DEF Builds, Read, TypeOK, Passes
  <2>2. QED
    BY <1>4, <1>5, <2>1
<1>6. ASSUME ~\E j \in Job : Arrives(j), Mirrors
      PROVE  ForwardInv' /\ [Latest!Next]_Latest!vars
  <2>1. shownBy' = shownBy /\ follows' = follows /\ pass'.plan = pass.plan
    BY <1>6, MirrorsBy DEF Mirrors
  <2>2. QED
    BY <1>4, <1>6, <2>1
<1>7. ASSUME ~\E j \in Job : Arrives(j), Others, UNCHANGED history
      PROVE  ForwardInv' /\ [Latest!Next]_Latest!vars
  <2>1. shownBy' = shownBy /\ follows' = follows
    BY <1>7 DEF history, sources
  <2>2. QED
    BY <1>4, <1>7, <2>1, OthersPlanned
<1>8. ASSUME ~\E j \in Job : Arrives(j), UNCHANGED historyVars
      PROVE  ForwardInv' /\ [Latest!Next]_Latest!vars
  <2>1. shownBy' = shownBy /\ follows' = follows /\ pass' = pass
    BY <1>8 DEF historyVars, vars, history, sources
  <2>2. QED
    BY <1>4, <1>8, <2>1
<1>9. QED
  BY <1>1, <1>2, <1>3, <1>5, <1>6, <1>7, <1>8 DEF HistoryNext

\* The history maps the queue's first state to that of the latest-state queue.
LEMMA InitLatest == HistoryInit => Latest!Init
  BY DEF HistoryInit, Init, Nobodys, Answered, Latest!Init

\* The queue is a latest-state queue, although no call of WB changes one cluster:
\* whatever commands, clusters and campaigns, and however a batch is cut short, no
\* set-minus brings back what a command answered earlier had asked, named or
\* carried along.  It holds if jobs are tried once, answers tell, no refresh runs
\* beside the queue, and neither crash nor failing query comes between WB and the
\* mirror.
THEOREM ActionLatestCorrect ==
  ASSUME ~Refreshing, AnswersTell, MirrorReached, OneTry
  PROVE  HistorySpec => LatestStateSpec
<1> DEFINE Tables == TypeOK /\ PlanInv /\ MirrorInv /\ AskedInv /\ OneTryInv
           Shown  == /\ HistoryTypeOK /\ PastSeen /\ OvertakenDead
                     /\ ByInv /\ MirrorHolds /\ ForwardInv
<1>1. HistoryInit => Tables
  BY InitTypeOK, InitPlan, InitMirror, InitAsked DEF HistoryInit
<1>2. HistoryInit => Shown
  BY InitHistoryType, InitOvertaken, InitBy, InitForward
     DEF HistoryInit, Init, MirrorHolds, Excluded, Nobodys
<1>3. Tables /\ [HistoryNext]_historyVars => Tables'
  <2>1. TypeOK /\ [HistoryNext]_historyVars => [Next]_vars
    BY HistoryIsQueue DEF historyVars
  <2>2. QED
    BY <2>1, StepTypeOK, StepPlan, StepMirror, StepAsked, StepTry
<1>4. Tables /\ Tables' /\ Shown /\ [HistoryNext]_historyVars
        => Shown' /\ [Latest!Next]_Latest!vars
  <2>1. Tables /\ Shown /\ [HistoryNext]_historyVars => HistoryTypeOK'
    BY StepHistoryType
  <2>2. QED
    BY <2>1, StepBy, StepTruth, StepForward
<1>5. Tables /\ Shown => ShownHolds
  BY TruthCarries
<1>6. QED
  BY <1>1, <1>2, <1>3, <1>4, <1>5, InitLatest, PTL DEF HistorySpec, LatestStateSpec, Latest!Spec
=============================================================================
