--------------------------- MODULE BidRefreshProofs ---------------------------
(***************************************************************************)
(* Theorems about the bid queue with the refresh of the displayed bids     *)
(* beside it. A step of the queue keeps its invariants for all rows but    *)
(* the torn ones; what is left to show is what a refresh does to the rows  *)
(* when it commits.                                                        *)
(***************************************************************************)
EXTENDS BidRefresh, ClusterBidQueueProofs

\* A step of the composition is one of the queue, or one of the refresh, which
\* leaves everything alone until it commits.
LEMMA Composition ==
  ASSUME [RefreshNext]_allVars
  PROVE  \/ /\ [Next]_vars /\ OnlyWritten(torn, torn') /\ torn' \subseteq torn
            /\ refresh' = refresh \/ refresh' = IdleRefresh
         \/ /\ UNCHANGED <<vars, torn>>
            /\ \/ \E gs \in SUBSET Group : ReadBids(gs)
               \/ SelectKept \/ DeleteRows \/ RollBack
         \/ CommitReplace
<1>2. CASE QueueStep
  BY <1>2 DEF QueueStep, Beside, OnlyWritten, Next, Failure
<1>3. CASE ProcessCrash
  BY <1>3 DEF ProcessCrash, Next, Failure, OnlyWritten
<1>4. CASE UNCHANGED allVars
  BY <1>4 DEF allVars, refreshVars, OnlyWritten
<1>5. CASE (\E gs \in SUBSET Group : ReadBids(gs)) \/ SelectKept \/ DeleteRows \/ RollBack
  BY <1>5 DEF ReadBids, SelectKept, DeleteRows, RollBack
<1>6. QED
  BY <1>2, <1>3, <1>4, <1>5 DEF RefreshNext, RefreshStep

LEMMA InitRefreshTyped == RefreshInit => TypeOK /\ RefreshTypeOK
<1> SUFFICES ASSUME RefreshInit PROVE TypeOK /\ RefreshTypeOK
  OBVIOUS
<1>1. TypeOK
  BY InitTypeOK DEF RefreshInit
<1>2. RefreshTypeOK
  BY DEF RefreshInit, IdleRefresh, RefreshTypeOK, NoPlan, NoRow, RowStatus
<1>3. QED
  BY <1>1, <1>2

\* What the INSERTs leave is a table of rows.
LEMMA CommitTyped ==
  ASSUME TypeOK, RefreshTypeOK, CommitReplace
  PROVE  row' \in [Key -> [job : Job \union {None}, status : RowStatus]]
<1>1. PICK known \in SUBSET refresh.group :
        row' = [k \in Key |->
          IF Replaced(known)[k] = NoRow /\ k \in refresh.group \ refresh.locked
            THEN row[k] ELSE Replaced(known)[k]]
  BY DEF CommitReplace
<1>2. ASSUME NEW k \in Key
      PROVE  Replaced(known)[k] \in [job : Job \union {None}, status : RowStatus]
  BY <1>2 DEF Replaced, RefreshTypeOK, TypeOK, NoRow, RowStatus
<1>3. QED
  BY <1>1, <1>2 DEF TypeOK

LEMMA StepRefreshTyped ==
  ASSUME TypeOK, RefreshTypeOK, [RefreshNext]_allVars PROVE TypeOK' /\ RefreshTypeOK'
<1>1. IdleRefresh \in [step : {"idle", "answered", "selected", "deleted"},
                       group : SUBSET Key, answer : [Key -> Job \union {None}],
                       base : [Key -> [job : Job \union {None}, status : RowStatus]],
                       locked : SUBSET Key]
      /\ IdleRefresh.locked = {}
  BY DEF IdleRefresh, NoPlan, NoRow, RowStatus
<1>2. CASE /\ [Next]_vars /\ OnlyWritten(torn, torn') /\ torn' \subseteq torn
           /\ refresh' = refresh \/ refresh' = IdleRefresh
  <2>1. TypeOK'
    BY <1>2, StepTypeOK
  <2>2. QED
    BY <1>1, <1>2, <2>1 DEF RefreshTypeOK
<1>3. CASE /\ UNCHANGED <<vars, torn>>
           /\ \/ \E gs \in SUBSET Group : ReadBids(gs)
              \/ SelectKept \/ DeleteRows \/ RollBack
  <2>1. TypeOK'
    BY <1>3, StepTypeOK
  <2>2. ASSUME NEW gs \in SUBSET Group, ReadBids(gs) PROVE RefreshTypeOK'
    BY <1>1, <1>3, <2>2 DEF ReadBids, RefreshTypeOK, TypeOK, InGroups
  <2>3. ASSUME SelectKept PROVE RefreshTypeOK'
    <3>1. row \in [Key -> [job : Job \union {None}, status : RowStatus]]
      BY DEF TypeOK
    <3>2. QED
      BY <1>3, <2>3, <3>1 DEF SelectKept, RefreshTypeOK
  <2>4. ASSUME DeleteRows PROVE RefreshTypeOK'
    BY <1>3, <2>4 DEF DeleteRows, RefreshTypeOK
  <2>5. ASSUME RollBack PROVE RefreshTypeOK'
    BY <1>1, <1>3, <2>5 DEF RollBack, RefreshTypeOK
  <2>6. QED
    BY <1>3, <2>1, <2>2, <2>3, <2>4, <2>5
<1>4. CASE CommitReplace
  <2>1. TypeOK'
    <3>1. UNCHANGED <<cmdVars, jobVars, ahead, ready, wb, cooldown, timer, pass, drops, faults>>
      BY <1>4 DEF CommitReplace
    <3>2. QED
      BY <1>4, <3>1, CommitTyped DEF TypeOK, cmdVars, jobVars
  <2>2. torn' \subseteq Key /\ refresh' = IdleRefresh
    BY <1>4 DEF CommitReplace, RefreshTypeOK
  <2>3. QED
    BY <1>1, <2>1, <2>2 DEF RefreshTypeOK
<1>5. QED
  BY <1>2, <1>3, <1>4, Composition

\* Type correctness of the queue with its refresh; only an open transaction of
\* the refresh holds locks.
THEOREM RefreshTypeCorrect == RefreshSpec => [](TypeOK /\ RefreshTypeOK)
<1>1. RefreshInit => TypeOK /\ RefreshTypeOK
  BY InitRefreshTyped
<1>2. TypeOK /\ RefreshTypeOK /\ [RefreshNext]_allVars => (TypeOK /\ RefreshTypeOK)'
  BY StepRefreshTyped
<1>3. QED
  BY <1>1, <1>2, PTL DEF RefreshSpec

-----------------------------------------------------------------------------
(* Waiting rows keep their owners. *)

\* A row that is not torn by a commit stays as it is, or it was like the refresh
\* had read it, without a bid, and is now WB's.
LEMMA CommitTears ==
  ASSUME TypeOK, RefreshTypeOK, CommitReplace, NEW k \in Key \ torn'
  PROVE  /\ k \notin torn
         /\ \/ row'[k] = row[k]
            \/ /\ row[k].job = None
               /\ row'[k] \in {NoRow, [job |-> refresh.answer[k], status |-> "confirmed"]}
<1>1. PICK known \in SUBSET refresh.group :
        row' = [l \in Key |->
          IF Replaced(known)[l] = NoRow /\ l \in refresh.group \ refresh.locked
            THEN row[l] ELSE Replaced(known)[l]]
  BY DEF CommitReplace
<1>2. torn' = torn \union {l \in refresh.group : row[l] # refresh.base[l] /\ row'[l] # row[l]}
  BY DEF CommitReplace
<1>3. Replaced(known)[k] =
        IF k \notin refresh.group THEN row[k]
        ELSE IF Kept(k) THEN refresh.base[k]
        ELSE IF refresh.answer[k] # None \/ k \in known
          THEN [job |-> refresh.answer[k], status |-> "confirmed"]
        ELSE NoRow
  BY DEF Replaced
<1>4. row'[k] = row[k] \/ row'[k] = Replaced(known)[k]
  BY <1>1
<1>5. k \notin torn /\ (k \in refresh.group => row[k] = refresh.base[k] \/ row'[k] = row[k])
  BY <1>2
<1>6. QED
  BY <1>3, <1>4, <1>5 DEF Kept

\* The refresh replaces rows, which moves no owner.
LEMMA CommitOwned ==
  ASSUME TypeOK, RefreshTypeOK, OwnInv(torn), CommitReplace PROVE OwnInv(torn)'
<1>1. UNCHANGED <<cmd, asks, status, item, pass, drops>>
  BY DEF CommitReplace, cmdVars, jobVars
<1>2. ASSUME NEW k \in Key \ torn', row'[k].status \in RowWaiting
      PROVE  k \notin torn /\ row'[k] = row[k]
  BY <1>2, CommitTears DEF NoRow, RowWaiting
<1>3. AskedOnce' /\ HeldItems' /\ PlanOwned'
  BY <1>1 DEF OwnInv, AskedOnce, HeldItems, Dropped, PlanOwned, Waits, JobsOf, OwnedOutside,
              InProgress
<1>4. OwnedBut(torn)'
  BY <1>1, <1>2 DEF OwnInv, OwnedBut, OwnedOutside, InProgress
<1>5. BatchOwned(torn)'
  <2>1. pass.keys \subseteq Key
    BY DEF TypeOK, Passes
  <2>2. QED
    BY <1>1, <1>2, <2>1 DEF OwnInv, BatchOwned, Unsettled, OwnedOutside, InProgress
<1>6. QED
  BY <1>3, <1>4, <1>5 DEF OwnInv

\* The invariant of the queue beside its refresh.
RefreshOwnInv == AttemptsInv /\ OwnInv(torn)

LEMMA StepRefreshOwned ==
  ASSUME TypeOK, TypeOK', RefreshTypeOK, RefreshOwnInv, [RefreshNext]_allVars
  PROVE  RefreshOwnInv'
<1>1. CASE [Next]_vars /\ OnlyWritten(torn, torn')
  <2>1. AttemptsInv'
    BY <1>1, StepAttempts DEF RefreshOwnInv
  <2>2. PICK T, U : T = torn /\ U = torn'
    OBVIOUS
  <2>3. OwnInv(T) /\ OnlyWritten(T, U)
    BY <1>1, <2>2 DEF RefreshOwnInv
  <2>4. OwnInv(U)'
    <3>1. [Next]_vars /\ AttemptsInv
      BY <1>1 DEF RefreshOwnInv
    <3>2. QED
      BY <2>3, <3>1, StepOwned
  <2>5. OwnInv(torn)'
    BY <2>2, <2>4 DEF OwnInv, OwnedBut, BatchOwned
  <2>6. QED
    BY <2>1, <2>5 DEF RefreshOwnInv
<1>2. CASE CommitReplace
  <2>1. AttemptsInv'
    BY <1>2 DEF CommitReplace, RefreshOwnInv, AttemptsInv, AttemptsBounded, Settled, Held,
               cmdVars, jobVars
  <2>2. QED
    BY <1>2, <2>1, CommitOwned DEF RefreshOwnInv
<1>3. CASE UNCHANGED <<vars, torn>>
  <2>1. [Next]_vars /\ OnlyWritten(torn, torn')
    BY <1>3 DEF OnlyWritten
  <2>2. QED
    BY <1>1, <2>1
<1>4. QED
  BY <1>1, <1>2, <1>3, Composition

\* A row that waits keeps somebody who will move it, whatever the refresh, the
\* commands and the pass do between each other's statements, unless the last
\* write to it was wiped out.
THEOREM RefreshedCorrect == RefreshSpec => []RefreshedRowsOwned
<1>1. RefreshInit => RefreshOwnInv
  <2> SUFFICES ASSUME RefreshInit PROVE RefreshOwnInv
    OBVIOUS
  <2>1. AttemptsInv /\ OwnInv({}) /\ torn = {}
    BY InitAttempts, InitOwned DEF RefreshInit
  <2>2. QED
    BY <2>1 DEF RefreshOwnInv
<1>2. /\ TypeOK /\ RefreshTypeOK /\ TypeOK' /\ RefreshOwnInv /\ [RefreshNext]_allVars
      => RefreshOwnInv'
  BY StepRefreshOwned
<1>3. RefreshOwnInv => RefreshedRowsOwned
  BY DEF RefreshOwnInv, OwnInv, OwnedBut, RefreshedRowsOwned
<1>4. QED
  BY <1>1, <1>2, <1>3, RefreshTypeCorrect, PTL DEF RefreshSpec

-----------------------------------------------------------------------------
(* The mirror is live. *)

\* Some command names k.
Asked(k) == \E j \in Job : k \in asks[j]

\* WB and the pass know bids of commands only, and a row without a bid is one
\* that nobody asked for.
AskInv(T) ==
  /\ \A k \in Key : wb[k] # None \/ pass.plan[k] # None => Asked(k)
  /\ \A k \in pass.keys : pass.plan[k] # None
  /\ \A k \in Key \ T : Asked(k) => row[k].job # None

LEMMA InitAsked == Init => AskInv({})
<1> SUFFICES ASSUME Init PROVE AskInv({})
  OBVIOUS
<1>1. pass.keys = {} /\ \A k \in Key : pass.plan[k] = None /\ wb[k] = None /\ ~Asked(k)
  BY DEF Init, IdlePass, NoPlan, Asked
<1>2. QED
  BY <1>1 DEF AskInv

\* Steps that neither plan nor command anything new.
LEMMA AskedKept ==
  ASSUME NEW T, NEW U, OnlyWritten(T, U), TypeOK, AskInv(T), asks' = asks,
         \A k \in Key : wb'[k] = wb[k] \/ wb'[k] = None \/ k \in pass.keys,
         \A k \in Key : pass'.plan[k] \in {pass.plan[k], None},
         \A k \in pass'.keys : k \in pass.keys /\ pass'.plan[k] = pass.plan[k],
         \A k \in Key : row'[k] = row[k] \/ row'[k].job # None
  PROVE  AskInv(U)'
<1>1. \A k \in Key : Asked(k)' <=> Asked(k)
  BY DEF Asked
<1>2. pass.keys \subseteq Key
  BY DEF TypeOK, Passes
<1>3. QED
  BY <1>1, <1>2 DEF AskInv, OnlyWritten

LEMMA StepAsked ==
  ASSUME NEW T, NEW U, OnlyWritten(T, U), TypeOK, AskedOnce, AskInv(T), [Next]_vars,
         pass.unsent \subseteq pass.keys
  PROVE  AskInv(U)'
<1>1. ASSUME NEW j \in Job, NEW K \in Requests, Desire(j, K) PROVE AskInv(U)'
  <2>1. UNCHANGED <<wb, pass>> /\ asks' = [asks EXCEPT ![j] = K] /\ asks[j] = {}
    BY <1>1 DEF Desire, AskedOnce
  <2>2. \A k \in Key : row'[k] = IF k \in K THEN [job |-> j, status |-> "queued"] ELSE row[k]
    BY <1>1 DEF Desire
  <2>3. \A k \in Key : Asked(k)' <=> Asked(k) \/ k \in K
    BY <2>1 DEF Asked, TypeOK
  <2>4. \A k \in K : row'[k].job # None
    BY <2>2, BidQueueAssumption
  <2>5. \A k \in Key \ K : row'[k] = row[k]
    BY <2>2
  <2>6. QED
    BY <2>1, <2>3, <2>4, <2>5 DEF AskInv, OnlyWritten
<1>2. CASE \/ \E j \in Job : Stamp(j) \/ Open(j) \/ Accept(j) \/ CommandFails(j)
           \/ Clock \/ UNCHANGED vars \/ \E d \in drops : Drop(d)
  <2>1. UNCHANGED <<asks, wb, pass, row>>
    BY <1>2 DEF Stamp, Open, Accept, CommandFails, Clock, Due, Age, CooldownEnds, Drop, vars, cmdVars
  <2>2. QED
    BY <2>1, AskedKept
<1>3. ASSUME NEW C \in SUBSET Job, NEW plan \in [Key -> Job \union {None}], Claim(C, plan)
      PROVE  AskInv(U)'
  <2>1. UNCHANGED <<asks, wb, row>> /\ pass'.plan = plan /\ pass'.keys = {}
    BY <1>3 DEF Claim, cmdVars, IdlePass
  <2>2. ASSUME NEW k \in Key, plan[k] # None PROVE Asked(k)
    <3>1. plan[k] \in C /\ item[plan[k]][k] \in ItemActive
      BY <1>3, <2>2 DEF Claim, Merged, Live
    <3>2. QED
      BY <3>1 DEF AskedOnce, Asked, ItemActive
  <2>3. \A k \in Key : Asked(k)' <=> Asked(k)
    BY <2>1 DEF Asked
  <2>4. QED
    BY <2>1, <2>2, <2>3 DEF AskInv, OnlyWritten
<1>4. ASSUME NEW gs \in SUBSET Group, Pick(gs) PROVE AskInv(U)'
  <2>1. /\ UNCHANGED <<asks, wb, row>> /\ pass'.plan = pass.plan
        /\ pass'.keys = KeysOf(pass.plan, gs)
    BY <1>4 DEF Pick, cmdVars, TypeOK, Passes
  <2>2. \A k \in Key : Asked(k)' <=> Asked(k)
    BY <2>1 DEF Asked
  <2>3. QED
    BY <2>1, <2>2 DEF AskInv, OnlyWritten, KeysOf
<1>5. CASE TimerFires \/ CronTick \/ Verify \/ TryFails \/ CompleteJobs \/ RescheduleJobs \/ FailJobs
  <2>1. UNCHANGED <<asks, wb, row>>
    BY <1>5 DEF TimerFires, CronTick, Verify, TryFails, CompleteJobs, RescheduleJobs, FailJobs,
                ResolveJobs, cmdVars
  <2>2. pass'.plan = pass.plan /\ pass'.keys = pass.keys
    BY <1>5 DEF TimerFires, CronTick, Verify, TryFails, CompleteJobs, RescheduleJobs, FailJobs,
                ResolveJobs, TypeOK, Passes
  <2>3. QED
    BY <2>1, <2>2, AskedKept
<1>6. CASE CompleteItems \/ RescheduleItems \/ FailItems
  <2>1. UNCHANGED <<asks, wb, row>> /\ pass'.plan = pass.plan /\ pass'.keys = {}
    BY <1>6 DEF CompleteItems, RescheduleItems, FailItems, ResolveItems, cmdVars, TypeOK, Passes
  <2>2. QED
    BY <2>1, AskedKept
<1>7. CASE Drained \/ NextRound \/ PassFails \/ Crash
  <2>1. UNCHANGED <<asks, wb, row>>
    BY <1>7 DEF Drained, NextRound, PassFails, Crash, cmdVars
  <2>2. pass' = IdlePass \/ pass' = [IdlePass EXCEPT !.step = "claim"]
    BY <1>7 DEF Drained, NextRound, PassFails, Crash
  <2>3. pass'.plan = NoPlan /\ pass'.keys = {}
    <3>1. CASE pass' = IdlePass
      BY <3>1 DEF IdlePass
    <3>2. CASE pass' = [IdlePass EXCEPT !.step = "claim"]
      BY <3>2 DEF IdlePass
    <3>3. QED
      BY <2>2, <3>1, <3>2
  <2>4. QED
    BY <2>1, <2>3, AskedKept DEF NoPlan
<1>8. ASSUME NEW chunk \in SUBSET Key, NEW outcome \in WbOutcomes, Send(chunk, outcome)
      PROVE  AskInv(U)'
  <2>1. UNCHANGED <<asks, row>> /\ chunk \subseteq pass.keys
    BY <1>8 DEF Send, cmdVars
  <2>2. pass'.plan = pass.plan /\ pass'.keys = pass.keys
    BY <1>8 DEF Send, TypeOK, Passes
  <2>3. \A k \in Key : wb'[k] = wb[k] \/ k \in pass.keys
    BY <1>8, <2>1 DEF Send
  <2>4. QED
    BY <2>1, <2>2, <2>3, AskedKept
<1>9. CASE Mark \/ Confirm \/ Catch
  <2>1. UNCHANGED <<asks, wb>> /\ \E st : WriteRows(st)
    BY <1>9 DEF Mark, Confirm, Catch, cmdVars
  <2>2. pass'.plan = pass.plan /\ pass'.keys = pass.keys
    BY <1>9 DEF Mark, Confirm, Catch, TypeOK, Passes
  <2>3. \A k \in Key : row'[k] = row[k] \/ row'[k].job # None
    BY <2>1, RowsWritten DEF AskInv
  <2>4. QED
    BY <2>1, <2>2, <2>3, AskedKept
<1>10. CASE PassWork
  BY <1>3, <1>4, <1>5, <1>6, <1>7, <1>8, <1>9, <1>10 DEF PassWork
<1>11. QED
  BY <1>1, <1>2, <1>5, <1>7, <1>10 DEF Next, Failure, Command

\* No bid of WB is ever taken back.
LEMMA BidsStay ==
  ASSUME NEW T, TypeOK, AskInv(T), [Next]_vars, pass.unsent \subseteq pass.keys,
         NEW k \in Key, wb[k] # None
  PROVE  wb'[k] # None
<1>1. ASSUME NEW chunk \in SUBSET Key, NEW outcome \in WbOutcomes, Send(chunk, outcome)
      PROVE  wb'[k] # None
  BY <1>1 DEF Send, AskInv
<1>2. CASE wb' = wb
  BY <1>2
<1>3. CASE PassWork
  <2>1. \/ \E chunk \in SUBSET Key, outcome \in WbOutcomes : Send(chunk, outcome)
        \/ wb' = wb
    BY <1>3 DEF PassWork, Claim, Drained, Pick, NextRound, Mark, Verify, Confirm, Catch,
                CompleteJobs, CompleteItems, RescheduleJobs, RescheduleItems, FailJobs, FailItems,
                ResolveJobs, ResolveItems
  <2>2. QED
    BY <1>1, <1>2, <2>1
<1>4. CASE ~PassWork
  <2>1. wb' = wb
    BY <1>4 DEF Next, Command, Desire, Stamp, Open, Accept, Clock, Due, Age, CooldownEnds,
                TimerFires, CronTick, Drop, Failure, TryFails, PassFails, Crash, CommandFails, vars
  <2>2. QED
    BY <1>2, <2>1
<1>5. QED
  BY <1>3, <1>4

\* What a refresh has read of WB is still a bid of WB, maybe an older one.
AnswerKnown == \A k \in Key : refresh.answer[k] # None => wb[k] # None

MirrorInv == RefreshOwnInv /\ ConfirmedInv(torn) /\ AskInv(torn) /\ AnswerKnown

\* A commit writes confirmed rows for what WB has and nobody asked for, or the
\* rows it had read; where they changed meanwhile they are torn.
LEMMA CommitMirrors ==
  ASSUME TypeOK, RefreshTypeOK, MirrorInv, CommitReplace
  PROVE  ConfirmedInv(torn)' /\ AskInv(torn)' /\ AnswerKnown'
<1>1. UNCHANGED <<asks, wb, pass>> /\ refresh' = IdleRefresh
  BY DEF CommitReplace, cmdVars
<1>2. ASSUME NEW k \in Key \ torn', row'[k] # row[k]
      PROVE  /\ ~Asked(k) /\ wb[k] = None /\ k \notin pass.keys
             /\ row'[k].job = None
  <2>1. /\ k \notin torn /\ row[k].job = None
        /\ row'[k] \in {NoRow, [job |-> refresh.answer[k], status |-> "confirmed"]}
    BY <1>2, CommitTears
  <2>2. ~Asked(k) /\ wb[k] = None /\ k \notin pass.keys
    BY <1>2, <2>1 DEF MirrorInv, AskInv
  <2>3. refresh.answer[k] = None
    BY <1>2, <2>2 DEF MirrorInv, AnswerKnown
  <2>4. QED
    BY <2>1, <2>2, <2>3 DEF NoRow
<1>3. \A k \in Key \ torn' : k \notin torn
  BY CommitTears
<1>4. pass.keys \subseteq Key
  BY DEF TypeOK, Passes
<1>5. ConfirmedInv(torn)'
  BY <1>1, <1>2, <1>3, <1>4 DEF MirrorInv, ConfirmedInv, ConfirmedBut, Applied
<1>6. AskInv(torn)'
  <2>1. \A k \in Key : Asked(k)' <=> Asked(k)
    BY <1>1 DEF Asked
  <2>2. QED
    BY <1>1, <1>2, <1>3, <2>1 DEF MirrorInv, AskInv
<1>7. AnswerKnown'
  BY <1>1 DEF AnswerKnown, IdleRefresh, NoPlan
<1>8. QED
  BY <1>5, <1>6, <1>7

LEMMA StepMirrored ==
  ASSUME WbTrusted \/ WbChecked, TypeOK, TypeOK', RefreshTypeOK, MirrorInv,
         [RefreshNext]_allVars
  PROVE  MirrorInv'
<1>1. RefreshOwnInv'
  BY StepRefreshOwned DEF MirrorInv
<1>2. ASSUME [Next]_vars, OnlyWritten(torn, torn')
      PROVE  ConfirmedInv(torn)' /\ AskInv(torn)' /\ \A k \in Key : wb[k] # None => wb'[k] # None
  <2>1. PICK T, U : T = torn /\ U = torn'
    OBVIOUS
  <2>2. /\ ConfirmedInv(T) /\ AskInv(T) /\ AskedOnce /\ OnlyWritten(T, U)
        /\ pass.unsent \subseteq pass.keys
    BY <1>2, <2>1 DEF MirrorInv, RefreshOwnInv, OwnInv, ConfirmedInv
  <2>3. ConfirmedInv(U)'
    BY <1>2, <2>2, StepConfirmed
  <2>4. AskInv(U)'
    BY <1>2, <2>2, StepAsked
  <2>5. \A k \in Key : wb[k] # None => wb'[k] # None
    BY <1>2, <2>2, BidsStay
  <2>6. QED
    BY <2>1, <2>3, <2>4, <2>5 DEF ConfirmedInv, ConfirmedBut, AskInv
<1>3. CASE /\ [Next]_vars /\ OnlyWritten(torn, torn')
           /\ refresh' = refresh \/ refresh' = IdleRefresh
  <2>1. AnswerKnown'
    BY <1>2, <1>3 DEF MirrorInv, AnswerKnown, IdleRefresh, NoPlan
  <2>2. QED
    BY <1>1, <1>2, <1>3, <2>1 DEF MirrorInv
<1>4. CASE /\ UNCHANGED <<vars, torn>>
           /\ \/ \E gs \in SUBSET Group : ReadBids(gs)
              \/ SelectKept \/ DeleteRows \/ RollBack
  <2>1. [Next]_vars /\ OnlyWritten(torn, torn') /\ wb' = wb
    BY <1>4 DEF OnlyWritten, vars
  <2>2. \A k \in Key : refresh'.answer[k] \in {refresh.answer[k], wb[k], None}
    <3>1. ASSUME NEW gs \in SUBSET Group, ReadBids(gs), NEW k \in Key
          PROVE  refresh'.answer[k] \in {wb[k], None}
      BY <3>1 DEF ReadBids, IdleRefresh
    <3>2. SelectKept \/ DeleteRows => refresh'.answer = refresh.answer
      BY DEF SelectKept, DeleteRows, RefreshTypeOK
    <3>3. RollBack => \A k \in Key : refresh'.answer[k] = None
      BY DEF RollBack, IdleRefresh, NoPlan
    <3>4. QED
      BY <1>4, <3>1, <3>2, <3>3
  <2>3. AnswerKnown'
    BY <2>1, <2>2 DEF MirrorInv, AnswerKnown
  <2>4. QED
    BY <1>1, <1>2, <2>1, <2>3 DEF MirrorInv
<1>5. CASE CommitReplace
  BY <1>1, <1>5, CommitMirrors DEF MirrorInv
<1>6. QED
  BY <1>3, <1>4, <1>5, Composition

\* A row shown as confirmed is the bid WB uses with refreshes at work, unless one
\* has just wiped out what was written to it; under the trust of ConfirmedCorrect.
THEOREM MirrorCorrect ==
  ASSUME WbTrusted \/ WbChecked PROVE RefreshSpec => []MirrorIsLive
<1>1. RefreshInit => MirrorInv
  <2> SUFFICES ASSUME RefreshInit PROVE MirrorInv
    OBVIOUS
  <2>1. AttemptsInv /\ OwnInv({}) /\ ConfirmedInv({}) /\ AskInv({}) /\ torn = {}
    BY InitAttempts, InitOwned, InitConfirmed, InitAsked DEF RefreshInit
  <2>2. AnswerKnown
    BY DEF RefreshInit, AnswerKnown, IdleRefresh, NoPlan
  <2>3. QED
    BY <2>1, <2>2 DEF MirrorInv, RefreshOwnInv
<1>2. TypeOK /\ RefreshTypeOK /\ TypeOK' /\ MirrorInv /\ [RefreshNext]_allVars => MirrorInv'
  BY StepMirrored
<1>3. MirrorInv => MirrorIsLive
  BY DEF MirrorInv, ConfirmedInv, ConfirmedBut, MirrorIsLive
<1>4. QED
  BY <1>1, <1>2, <1>3, RefreshTypeCorrect, PTL DEF RefreshSpec
=============================================================================
