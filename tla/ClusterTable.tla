---------------------------- MODULE ClusterTable ----------------------------
(***************************************************************************)
(* The page of one product in the dashboard: the table of clusters of the  *)
(* selected campaign, the bids saved from it, and the flag of the          *)
(* workspace that says WB has not answered every command yet.  A table is  *)
(* shown from the memory cache at once and always asked for again;         *)
(* requests for the same table are shared, and what the page shows changes *)
(* only by the answer its last effect waits for.  One period, the filters  *)
(* as the page opens, and one cluster with a bid per campaign.  The        *)
(* backend sends no workspace with a table in it, so the hook's bootstrap  *)
(* table is always null.                                                   *)
(***************************************************************************)
EXTENDS FiniteSets, Naturals

CONSTANTS
  Tab,          \* the campaigns of the product
  Save,         \* the bids a behaviour may save
  MaxTrials,    \* saves and failing requests, together
  NoTab

ASSUME TableAssumption == MaxTrials \in Nat /\ IsFiniteSet(Save) /\ NoTab \notin Tab

VARIABLES
  stored,     \* how often the bid of each campaign was stored
  bidSync,     \* its bid_sync_status
  built,      \* Postgres has rows for the campaign and period
  selected,   \* the campaign whose table is open
  shown,      \* rawTable
  memory,     \* productWorkspaceClusterTableMemoryCache
  asking,    \* productWorkspaceClusterTableRequestInFlight
  retrying,   \* the timer that asks again for a table that is being built
  save,       \* applyProductAdvertisingClusterBid of each save
  optimistic, \* savingBidClusterKey: whose cell shows the bid that is saved
  pending,    \* hasPendingClusterSync as the page knows it
  workspace,  \* productWorkspaceRequestInFlight
  trials,
  returned,   \* ghost: the bid of each campaign when a save last returned
  behind      \* ghost: the last effect joined an older asking, or its own failed

tableVars == <<stored, bidSync, built, selected, shown, memory, asking, retrying,
               save, optimistic, pending, workspace, trials, returned, behind>>
serverVars == <<stored, bidSync, built>>
editorVars == <<save, optimistic, returned>>

Saves == 0..Cardinality(Save)
Status == {"confirmed", "queued", "failed"}
Table == [of : Tab, bid : Saves, mark : Status, built : BOOLEAN]
NoTable == [of |-> NoTab, bid |-> 0, mark |-> "confirmed", built |-> FALSE]
NotAsked == [step |-> "none", table |-> NoTable]
Asked == [step |-> "sent", table |-> NoTable]
Unsaved == [step |-> "idle", tab |-> NoTab]

\* The type invariant. A timer waits only while nothing is asked, and the cell
\* that shows a bid not yet saved has a save under way.
TableTypeOK ==
  /\ stored \in [Tab -> Saves] /\ bidSync \in [Tab -> Status] /\ built \in [Tab -> BOOLEAN]
  /\ selected \in Tab
  /\ shown \in Table \union {NoTable}
  /\ memory \in [Tab -> Table \union {NoTable}]
  /\ asking \in [Tab -> {NotAsked, Asked} \union [step : {"answered"}, table : Table]]
  /\ retrying \in BOOLEAN /\ (retrying => asking[selected] = NotAsked)
  /\ save \in [Save -> [step : {"idle", "sent", "stored", "over"}, tab : Tab \union {NoTab}]]
  /\ optimistic \in Tab \union {NoTab}
  /\ optimistic # NoTab => \E s \in Save : save[s].tab = optimistic /\ save[s].step \in {"sent", "stored"}
  /\ pending \in BOOLEAN
  /\ workspace \in {"none", "sent", "pending", "settled"}
  /\ trials \in 0..MaxTrials
  /\ returned \in [Tab -> Saves] /\ behind \in BOOLEAN

TableInit ==
  /\ stored = [t \in Tab |-> 0]
  /\ bidSync = [t \in Tab |-> "confirmed"]
  /\ built \in [Tab -> BOOLEAN]
  /\ selected \in Tab
  /\ shown = NoTable
  /\ memory = [t \in Tab |-> NoTable]
  /\ asking = [t \in Tab |-> IF t = selected THEN Asked ELSE NotAsked]
  /\ retrying = FALSE
  /\ save = [s \in Save |-> Unsaved] /\ optimistic = NoTab
  /\ pending = FALSE /\ workspace = "sent"
  /\ trials = 0
  /\ returned = [t \in Tab |-> 0] /\ behind = FALSE

Trial == trials < MaxTrials /\ trials' = trials + 1

-----------------------------------------------------------------------------
\* Faulty variant: a table found in the cache is not asked for again.
Fetched_Once(t, cache) ==
  IF asking[t] = NotAsked /\ cache[t] = NoTable THEN [asking EXCEPT ![t] = Asked] ELSE asking

\* fetchProductAdvertisingWorkspaceClusterTable: one request per table.
Fetched(t, cache) ==
  IF asking[t] = NotAsked THEN [asking EXCEPT ![t] = Asked] ELSE asking

\* The effect of useProductAdvertisingClusterTable for campaign t, over a cache:
\* the cached table at once, the one on the screen while the campaign stays the
\* same, and a fetch.
Effect(t, cache) ==
  /\ selected' = t
  /\ memory' = cache
  /\ shown' = IF cache[t] # NoTable THEN cache[t]
              ELSE IF t = selected THEN shown ELSE NoTable
  /\ asking' = Fetched(t, cache)
  /\ behind' = (asking[t] # NotAsked)
  /\ retrying' = FALSE

Select(t) ==
  /\ t # selected
  /\ Effect(t, memory)
  /\ UNCHANGED <<serverVars, editorVars, pending, workspace, trials>>

\* The backend reads the rows of a campaign.
ReadRows(t) ==
  /\ asking[t] = Asked
  /\ asking' = [asking EXCEPT ![t] =
       [step |-> "answered",
        table |-> [of |-> t, bid |-> stored[t], mark |-> bidSync[t], built |-> built[t]]]]
  /\ UNCHANGED <<serverVars, selected, shown, memory, retrying, editorVars, pending,
                 workspace, trials, behind>>

\* Faulty variant: the answer is taken without a look at isCancelled.
Awaited_Any(t) == TRUE

\* isCancelled: only the effect of the selected campaign listens.
Awaited(t) == t = selected

\* The answer goes to the cache whatever it says; a table that is still being
\* built is asked for again in three seconds and not shown.
TableArrives(t) ==
  /\ asking[t].step = "answered"
  /\ LET table == asking[t].table IN
     /\ memory' = [memory EXCEPT ![t] = table]
     /\ shown' = IF Awaited(t) /\ table.built THEN table ELSE shown
     /\ retrying' = (retrying \/ (t = selected /\ ~table.built))
  /\ asking' = [asking EXCEPT ![t] = NotAsked]
  /\ UNCHANGED <<serverVars, selected, editorVars, pending, workspace, trials, behind>>

RetryTable ==
  /\ retrying
  /\ retrying' = FALSE
  /\ asking' = [asking EXCEPT ![selected] = Asked]
  /\ UNCHANGED <<serverVars, selected, shown, memory, editorVars, pending, workspace,
                 trials, behind>>

\* The page keeps what it shows, without an error.
TableFails(t) ==
  /\ asking[t] # NotAsked
  /\ Trial
  /\ asking' = [asking EXCEPT ![t] = NotAsked]
  /\ behind' = (behind \/ t = selected)
  /\ UNCHANGED <<serverVars, selected, shown, memory, retrying, editorVars, pending, workspace>>

-----------------------------------------------------------------------------
\* A refresh of the workspace joins the one in flight.
Refreshed == IF workspace = "none" THEN "sent" ELSE workspace

\* commitEditingClusterBid: not for the cell that is being saved.
CommitBid(s) ==
  /\ save[s] = Unsaved
  /\ Trial
  /\ shown # NoTable /\ shown.built
  /\ optimistic # shown.of
  /\ save' = [save EXCEPT ![s] = [step |-> "sent", tab |-> shown.of]]
  /\ optimistic' = shown.of
  /\ UNCHANGED <<serverVars, selected, shown, memory, asking, retrying, pending, workspace,
                 returned, behind>>

\* The backend stores the bid and a job for WB.
StoreBid(s) ==
  /\ save[s].step = "sent"
  /\ save' = [save EXCEPT ![s].step = "stored"]
  /\ stored' = [stored EXCEPT ![save[s].tab] = @ + 1]
  /\ bidSync' = [bidSync EXCEPT ![save[s].tab] = "queued"]
  /\ UNCHANGED <<built, selected, shown, memory, asking, retrying, optimistic, pending,
                 workspace, trials, returned, behind>>

\* invalidateCachedProductWorkspaceClusterTableMatching.
Dropped(t) == [memory EXCEPT ![t] = NoTable]

\* The save returns: handleReloadSelectedProductAdvertising drops the table of
\* its campaign and runs the effects of the page again, whatever is selected by
\* then.
Saved(s) ==
  /\ save[s].step = "stored"
  /\ save' = [save EXCEPT ![s].step = "over"]
  /\ optimistic' = NoTab
  /\ returned' = [returned EXCEPT ![save[s].tab] = stored[save[s].tab]]
  /\ Effect(selected, Dropped(save[s].tab))
  /\ workspace' = Refreshed
  /\ UNCHANGED <<serverVars, pending, trials>>

\* An error, or an answer that is lost: nothing is asked for again.
SaveFails(s) ==
  /\ save[s].step \in {"sent", "stored"}
  /\ Trial
  /\ save' = [save EXCEPT ![s].step = "over"]
  /\ optimistic' = NoTab
  /\ UNCHANGED <<serverVars, selected, shown, memory, asking, retrying, pending, workspace,
                 returned, behind>>

-----------------------------------------------------------------------------
\* has_pending_cluster_sync: a row whose status is not "confirmed".
HasPending == \E t \in Tab : bidSync[t] # "confirmed"

ReadWorkspace ==
  /\ workspace = "sent"
  /\ workspace' = IF HasPending THEN "pending" ELSE "settled"
  /\ UNCHANGED <<serverVars, selected, shown, memory, asking, retrying, editorVars, pending,
                 trials, behind>>

\* When the flag falls the table is asked for again, its cache left alone.
WorkspaceArrives ==
  /\ workspace \in {"pending", "settled"}
  /\ workspace' = "none"
  /\ pending' = (workspace = "pending")
  /\ IF pending /\ workspace = "settled"
       THEN Effect(selected, memory)
       ELSE UNCHANGED <<selected, shown, memory, asking, retrying, behind>>
  /\ UNCHANGED <<serverVars, editorVars, trials>>

\* A silent error is tried again, another one is not.
WorkspaceFails ==
  /\ workspace # "none"
  /\ Trial
  /\ workspace' \in {"none", "sent"}
  /\ UNCHANGED <<serverVars, selected, shown, memory, asking, retrying, editorVars, pending,
                 behind>>

\* useProductAdvertisingPendingSyncPolling: every six seconds while the flag is up.
PollPending ==
  /\ pending /\ workspace = "none"
  /\ workspace' = "sent"
  /\ UNCHANGED <<serverVars, selected, shown, memory, asking, retrying, editorVars, pending,
                 trials, behind>>

\* WB answers the command on a campaign, or the queue gives it up.
WbAnswers(t) ==
  /\ bidSync[t] = "queued"
  /\ \E end \in {"confirmed", "failed"} : bidSync' = [bidSync EXCEPT ![t] = end]
  /\ UNCHANGED <<stored, built, selected, shown, memory, asking, retrying, editorVars,
                 pending, workspace, trials, behind>>

\* The materialization of the campaign and period is over.
Materialized(t) ==
  /\ ~built[t]
  /\ built' = [built EXCEPT ![t] = TRUE]
  /\ UNCHANGED <<stored, bidSync, selected, shown, memory, asking, retrying, editorVars,
                 pending, workspace, trials, behind>>

-----------------------------------------------------------------------------
TableNext ==
  \/ \E t \in Tab : Select(t) \/ ReadRows(t) \/ TableArrives(t) \/ TableFails(t)
  \/ RetryTable
  \/ \E s \in Save : CommitBid(s) \/ StoreBid(s) \/ Saved(s) \/ SaveFails(s)
  \/ ReadWorkspace \/ WorkspaceArrives \/ WorkspaceFails \/ PollPending
  \/ \E t \in Tab : WbAnswers(t) \/ Materialized(t)

TableSpec == TableInit /\ [][TableNext]_tableVars

-----------------------------------------------------------------------------
(* Properties. *)

\* The table on the screen is always the selected campaign's: an answer or a
\* cached table of another campaign never gets there, however late it comes
\* (the comment of the effect: "clear the table so as not to show the data of
\* another campaign").
OwnTable == shown # NoTable => shown.of = selected

\* Nothing the table still waits for.
Settled == asking[selected] = NotAsked /\ ~retrying

\* A save that returned is on the screen once the table settles, whatever was
\* cached or in flight and wherever the manager went in between; except when
\* the last effect joined a request that was sent before it, or failed.
SavedIsShown == Settled /\ ~behind => shown # NoTable /\ shown.bid >= returned[selected]
=============================================================================
