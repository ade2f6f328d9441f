----------------------------- MODULE BidRefresh -----------------------------
(***************************************************************************)
(* The bid queue together with the refresh that mirrors WB's bids into     *)
(* wb_cluster_bids: the structure phase of a sync and the refresh of one   *)
(* product read a campaign's bids from WB and then run replaceClusterBids, *)
(* one transaction that reads the local bids it wants to keep, deletes     *)
(* every row of the campaign and inserts WB's and the kept bids again.     *)
(*                                                                         *)
(* PostgreSQL runs it in READ COMMITTED: rows written by others between    *)
(* its SELECT and its DELETE are deleted unseen; rows it deleted are       *)
(* locked until it ends, so their writers wait; a key without a row is not *)
(* locked, and the refresh overwrites what was inserted meanwhile.         *)
(***************************************************************************)
EXTENDS ClusterBidQueue

VARIABLES
  refresh, \* the refresh in progress
  torn     \* ghost: keys whose last write the refresh has wiped out

refreshVars == <<refresh, torn>>
allVars == <<vars, refreshVars>>

NoRow == [job |-> None, status |-> "none"]

\* answer: WB's bids as read; base, locked: rows at the SELECT, at the DELETE.
IdleRefresh == [step |-> "idle", group |-> {}, answer |-> NoPlan,
                base |-> [k \in Key |-> NoRow], locked |-> {}]

\* The type invariant of the refresh; only an open transaction holds locks.
RefreshTypeOK ==
  /\ refresh \in [step : {"idle", "answered", "selected", "deleted"},
                  group : SUBSET Key, answer : [Key -> Job \union {None}],
                  base : [Key -> [job : Job \union {None}, status : RowStatus]],
                  locked : SUBSET Key]
  /\ refresh.step # "deleted" => refresh.locked = {}
  /\ torn \subseteq Key

RefreshInit == Init /\ refresh = IdleRefresh /\ torn = {}

InGroups(gs) == {k \in Key : GroupOf[k] \in gs}

-----------------------------------------------------------------------------
\* getNormQueryBids of a chunk of products: an empty answer replaces nothing.
ReadBids(gs) ==
  /\ refresh.step = "idle"
  /\ \E k \in InGroups(gs) : wb[k] # None
  /\ refresh' = [IdleRefresh EXCEPT !.step = "answered", !.group = InGroups(gs),
                   !.answer = [k \in Key |-> IF k \in InGroups(gs) THEN wb[k] ELSE None]]
  /\ UNCHANGED <<vars, torn>>

\* BEGIN and the SELECT of the bids to preserve.
SelectKept ==
  /\ refresh.step = "answered"
  /\ refresh' = [refresh EXCEPT !.step = "selected", !.base = row]
  /\ UNCHANGED <<vars, torn>>

DeleteRows ==
  /\ refresh.step = "selected"
  /\ refresh' = [refresh EXCEPT !.step = "deleted",
                   !.locked = {k \in refresh.group : row[k] # NoRow}]
  /\ UNCHANGED <<vars, torn>>

\* Faulty variant: only unconfirmed bids are preserved.
Kept_Pending(k) == refresh.base[k].job # None /\ refresh.base[k].status # "confirmed"

\* "AND bid IS NOT NULL", whatever its status.
Kept(k) == refresh.base[k].job # None

\* Faulty variant: a kept row comes back with the default status.
Replaced_Requeued(known) ==
  [k \in Key |->
     IF k \notin refresh.group THEN row[k]
     ELSE IF Kept(k) THEN [refresh.base[k] EXCEPT !.status = "queued"]
     ELSE IF refresh.answer[k] # None \/ k \in known
       THEN [job |-> refresh.answer[k], status |-> "confirmed"]
     ELSE NoRow]

\* What the INSERTs leave: WB's bids, empty rows for the known clusters WB
\* has no bid for, and the kept rows over both.
Replaced(known) ==
  [k \in Key |->
     IF k \notin refresh.group THEN row[k]
     ELSE IF Kept(k) THEN refresh.base[k]
     ELSE IF refresh.answer[k] # None \/ k \in known
       THEN [job |-> refresh.answer[k], status |-> "confirmed"]
     ELSE NoRow]

CommitReplace ==
  /\ refresh.step = "deleted"
  /\ \E known \in SUBSET refresh.group :
       \* a row written since the SELECT stands only where no INSERT meets it
       row' = [k \in Key |->
         IF Replaced(known)[k] = NoRow /\ k \in refresh.group \ refresh.locked
           THEN row[k] ELSE Replaced(known)[k]]
  /\ torn' = torn \union {k \in refresh.group : row[k] # refresh.base[k] /\ row'[k] # row[k]}
  /\ refresh' = IdleRefresh
  /\ UNCHANGED <<cmdVars, jobVars, ahead, ready, wb, cooldown, timer, pass, drops, faults>>

\* A failing query or PostgreSQL's deadlock detector rolls it back: upserts
\* lock the cluster and then its bid, the refresh the bid and then the cluster.
\* Faulty variant: the connection goes back to the pool without a ROLLBACK.
RollBack_Leak ==
  /\ refresh.step \in {"selected", "deleted"}
  /\ refresh' = [refresh EXCEPT !.step = "idle"]
  /\ UNCHANGED <<vars, torn>>

RollBack ==
  /\ refresh.step \in {"selected", "deleted"}
  /\ refresh' = IdleRefresh
  /\ UNCHANGED <<vars, torn>>

-----------------------------------------------------------------------------
\* Beside(A): a step A of the queue, whose writers of a deleted row wait.
Beside(A) ==
  /\ A
  /\ \A k \in refresh.locked : row'[k] = row[k]
  /\ torn' = {k \in torn : row'[k] = row[k]}
  /\ UNCHANGED refresh

QueueStep ==
  \/ Beside(\E j \in Job : Command(j))
  \/ Beside(Clock)
  \/ Beside(TimerFires)
  \/ Beside(CronTick)
  \/ Beside(PassWork)
  \/ Beside(\E d \in drops : Drop(d))
  \/ Beside(TryFails)
  \/ Beside(PassFails)
  \/ Beside(\E j \in Job : CommandFails(j))

\* The process dies: the transaction of the refresh with it.
ProcessCrash ==
  /\ Crash
  /\ refresh' = IdleRefresh
  /\ UNCHANGED torn

RefreshStep == \/ SelectKept \/ DeleteRows \/ CommitReplace

RefreshNext ==
  \/ \E gs \in SUBSET Group : ReadBids(gs)
  \/ RefreshStep
  \/ RollBack
  \/ QueueStep
  \/ ProcessCrash

RefreshSpec == RefreshInit /\ [][RefreshNext]_allVars

\* As in ClusterBidQueue; the database answers the refresh, and a statement
\* waiting for a row is served before the next refresh can lock it.
FairRefresh ==
  /\ RefreshSpec
  /\ WF_allVars(RefreshStep)
  /\ WF_allVars(Beside(\E j \in Job : Stamp(j) \/ Open(j) \/ Accept(j)))
  /\ WF_allVars(Beside(Clock))
  /\ WF_allVars(Beside(CronTick))
  /\ SF_allVars(Beside(PassWork))
  /\ WF_allVars(Beside(\E d \in drops : Drop(d)))

-----------------------------------------------------------------------------
(* Properties. *)

\* The mirror never shows WB a bid it does not use: the answer of WB may be
\* older than a bid sent since, but then the row was not empty at the SELECT
\* and is kept; only a row written inside the transaction's own window can be
\* put back to an older one (preservePending, "bid IS NOT NULL").
MirrorIsLive ==
  \A k \in Key : row[k].status = "confirmed" /\ k \notin torn => wb[k] = row[k].job

\* A row that says "waiting" still has somebody who will move it with the
\* refresh at work, unless its last write was wiped out by one.
RefreshedRowsOwned ==
  \A k \in Key \ torn : row[k].status \in RowWaiting => OwnedOutside(k, {})
=============================================================================
