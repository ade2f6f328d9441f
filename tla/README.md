# WB-auto in TLA+

WB-auto automates advertising on Wildberries (WB): a NestJS backend
(`backend/src`) keeps its state in PostgreSQL and calls the WB APIs, a React
dashboard (`Frontend/src`) shows it and sends commands. One backend process
runs under PM2; PostgreSQL and WB outlive it.

The modules here are translated from the TypeScript source. They cover the
parts that change what a shop pays for or what it advertises on: the queues that
write cluster bids and include or exclude clusters, the lanes of the client both
of them call, the engines that decide and command, the syncs that mirror WB, and
the jobs and caches behind what the dashboard shows. Paths below are relative to
`backend/src/wb-clusters/` unless they say otherwise; "the bid queue" and "the
action queue" are the two write queues.

## 1. Inventory

### What runs

| Part | State it keeps | Operations | Meets the others through |
|---|---|---|---|
| Cluster bid queue (`wb-clusters-command-flow.mutations.ts`, `wb-clusters-bid-queue.write-*.ts`, `wb-clusters.repository.bid-job-*.ts`) | `wb_cluster_bids` (desired bid and displayed status), `wb_cluster_bid_jobs`, `wb_cluster_bid_job_items`; in memory the debounce timer and the promise of the pass in flight | command (row transaction, job transaction, archive, timer), write pass (claim, merge, batch, mark, send, readback, confirm, complete / reschedule / fail) | rows and jobs shared by commands, the pass and the structure refresh; the bid-write lane; the scheduler |
| Cluster action queue (`wb-clusters-action-queue.*.ts`, `wb-clusters.repository.action-job-*.ts`) | `wb_cluster_actions`, its own jobs and items, `wb_campaign_minus_phrases` (the mirror of the sets in WB) | command, write pass: the whole set of a campaign is rebuilt from the mirror and sent | the mirror is shared with the structure refresh; the minus-write lane |
| Promotion API client (`wb-promotion-api.client.*.ts`) | per lane `nextAllowedRequestAtMs` and a chain of promises; `backgroundSuppressedUntilMs` | slot, send, retry, cooldown, suppression of reads | every component that calls WB |
| Structure, stats and slice refresh (`wb-clusters-sync-flow.*.ts`, `wb-clusters-command-flow.refresh*.ts`) | `wb_sync_runs`, campaign tables | phases of paged reads, replacement of bids and of minus sets | overwrites tables the queues write |
| Sync orchestrator and scheduler (`wb-clusters-sync-orchestrator.service.ts`, `wb-clusters.scheduler.ts`) | flags of running syncs, retry timer | crons; one full sync at a time; resume after a restart | starts everything above |
| Preset snapshot queue (`product-preset-snapshot-orchestrator.service.ts`, `wb-clusters-read-flow.materialize*.ts`, `*.readiness-warmup.ts`) | `wb_product_preset_snapshot_jobs`; in memory the warm-up state of each product | request, direct run, queue pass (claim, build, complete / reschedule / fail) | the job's row and the warm-up map, shared by requests, direct runs and the pass |
| Export orchestrator and archive (`backend/src/wb-sync`) | map of runs in flight; a status file and a result file per job, one file with the cooldowns of all methods | queue an export, run it, poll it, sweep at start-up | files without locks, written by requests, runs and polls |
| Read flow and caches (`wb-clusters-read-flow.*.ts`) | bounded in-process caches and loads in flight, keyed by a version per product | read, fill, invalidate | invalidated by commands, syncs, imports |
| Automation engines (`product-cluster-automation*.ts`, `product-cluster-accrual.service.ts`, `product-cluster-bid*.ts`, `product-drr*.ts`) | state rows per cluster, lists, baseline; accounts per price bucket; bids and positions | periodic passes that read, decide, command, store; managers' requests between their steps | issue commands to the two queues |
| Product page of the dashboard (`Frontend/src/features/dashboard/advertising`, `Frontend/src/api`) | the table on the screen, a memory cache and a request in flight per campaign, the bid being saved, the workspace with its flag | open a campaign, fetch, retry, save a bid and reload, poll while the flag is up | HTTP requests to the read flow and the command of the bid queue |
| Browser bridges, statistics repositories, builders, import scripts, schema, the other pages of the dashboard, deployment | rows, files, view models | I/O, SQL and projection | – |

`PROJECT.json` lists the same parts with their files and says of each what is
modelled and why the rest is not.

### What is hard here

* **Interleaving.** Commands are HTTP handlers with an `await` between any two
  queries; the pass awaits WB for seconds with its plan in memory; statements
  issued without `await` (`void repository.fail...`) run on their own. A command
  supersedes jobs the pass is sending.
* **Two systems, no common transaction.** The displayed row, the job and its
  items are separate transactions, WB is a third party, and a PM2 restart may
  fall between any two of them. Jobs left `running` are reclaimed after 90 s.
* **Untrustworthy answers.** A request may be applied and its answer lost,
  accepted and ignored, throttled, or rejected.
* **Replacement of whole sets.** WB has no call that excludes one cluster. A set
  built from a mirror that is behind undoes somebody else's cluster.
* **Shared lanes.** Slots, cooldowns and the suppression of reads are read
  before a wait and used after it.

The hazards in `PROJECT.json` name the line where each bites and the property
that covers it.

### What would make each part correct

* Bid queue: a row shown as confirmed is the bid WB uses; a waiting row has
  somebody responsible for it; retries are bounded; every job and row settles;
  WB never goes back to an older bid.
* Action queue: a confirmed cluster stays as the command wanted it whatever is
  sent later; a set-minus changes only the clusters of its batch; jobs settle.
* Lanes: requests keep their distance; a suppressed read waits; every call returns.
* Refresh: it does not overwrite what a command or a confirmation wrote after
  it read; what is steady in WB's cabinet is shown steadily; every campaign has
  its turn.
* Sync runs: a flag does not outlive its run, a final row tells the truth, no row
  stays "running" with nobody at work.
* Engines: no command for a cluster that waits for its review; what the manager
  and the regulator ask of a cluster is what a pass leaves in the cabinet; a day is
  accounted once; a bid moves only for the position that was measured.
* Snapshot queue and exports: one worker per job; what is shown as running,
  failed or done is so.
* Caches: nothing older than the last drop is served to whoever asks after it (it
  is, in the one case named in section 3).
* Product page: the table is the selected campaign's and has the bids that were saved.

## 2. Modules

| Module | What it is |
|---|---|
| `ClusterBidQueue` | the bid queue: state, actions, properties |
| `LatestStateQueue` | the abstract promise of a latest-state queue; both queues are checked against it and proved to implement it, with `answered <- {j \in Job : cmd[j] = "accepted"}` |
| `BidRefresh` | extends `ClusterBidQueue` with the refresh that replaces the displayed bids |
| `ClusterActionQueue` | the action queue, with WB's sets, the mirror and a structure refresh beside it |
| `ClusterActionHistory` | extends `ClusterActionQueue` with the history of whose wish the cabinet, the mirror and the sets under way show; refines `LatestStateQueue` |
| `PromotionLane` | lanes, chain, slots and retries of the Promotion API client |
| `SyncRuns` | who may start a sync or a product refresh, their rows and flags |
| `CampaignSync` | which campaigns a sync reads, in which order, and its three cursors |
| `ClusterLists` | what is shown as active and excluded: the lists of WB, upserts, pruning |
| `DecisionRules`, `ClusterAutomation` | the rules of the CPO automation, and a pass beside a manager and the daily regulator |
| `ClusterAccrual` | the nightly account of spend and orders, and what a pass judges |
| `BidRules`, `BidEngine` | the arithmetic of bids, and a round of the bid engine |
| `ExportJobs` | exports with their files, runs and status requests |
| `SnapshotJobs` | the job that builds snapshots, its two kinds of workers, what is shown of it |
| `SheetCache` | the caches behind a product's sheet |
| `ClusterTable` | the page of one product: its table, shared requests, saves and the pending flag |
| `Clusters` | the set of clusters that four modules share |
| `MC*` | instances for TLC; `MCEngines` and `MCUpkeep` compose modules that share no variable |
| `*Proofs` | theorems and proofs, one module per component (`UpkeepProofs` for what `MCUpkeep` composes, `EnginesProofs` for what `MCEngines` composes, with the sums of the account in `AccrualProofs`) |

A definition written just before another and named after it with a suffix
(`Superseded_All`, `Exhausted_Late`, ...) is a faulty variant of it. Nothing in
the specifications uses the variants; putting one in place of its original must
make TLC report the property it threatens.

### ClusterBidQueue

One action is one database transaction, one autocommitted query, one WB call or
one synchronous stretch of JavaScript, so that processes interleave exactly
where the code yields.

| TLA+ | Code |
|---|---|
| `Desire` | first transaction of `applyProductClusterBids`: rows upserted as queued |
| `Stamp`, `Open`, `Accept` | `createClusterBidJob`: `queuedAt` is taken; the supersede statements start and see what is committed (READ COMMITTED); COMMIT, then the timer (skipped when the archive write fails) |
| `TimerFires`, `CronTick` | debounce timer and `*/5 * * * * *` cron, both through the single-flight `processClusterBidWritePass` |
| `Claim`, `Drained` | `claimReadyClusterBidJobsByPhase` plus merging and the background failure of groups with nothing live |
| `Pick`, `Mark`, `Send`, `Verify`, `Confirm` | batching, "sending" rows, chunks of one request, `verifyBidReadback`, "confirmed" rows |
| `Complete*`, `Reschedule*`, `Fail*` | the two queries of each resolution |
| `Catch` | error handler: give up on a fatal error or exhausted attempts, otherwise back off |
| `Drop` | the two queries of a `failClusterBidJobs` nobody awaits |
| `TryFails`, `PassFails`, `CommandFails`, `Crash` | a query that throws inside the `try` block or outside it, a command that dies, a PM2 restart |

Abstractions: a bid is identified with the job that asked for it; `created_at`
and `next_attempt_at` are kept as the orders `older` and `ahead` (ties within a
millisecond and the one-second slack of the claim are left out); a retry's delay
and the 90 s stale limit are the nondeterministic `Due` and `Age`, which only
concern jobs the process does not hold; the lane is the flag `cooldown`.

### BidRefresh

`ReadBids` is the chunk of bids read from WB; `SelectKept`, `DeleteRows` and
`CommitReplace` are the statements of `replaceClusterBids`, one transaction under
READ COMMITTED: rows it deleted are locked (`Beside` lets no writer touch them),
a row without a predecessor is not. `RollBack` is a failing statement or
PostgreSQL's deadlock detector. `torn` is a ghost: rows whose last write fell
between the SELECT and the COMMIT and was replaced.

### ClusterActionQueue

The job tables follow the same protocol, so this module keeps it short (a
command's job transaction is one action, a claim takes any due jobs) and spends
its detail where the two differ: rows are upserted one by one (`Desire`,
`WriteRow`), the set of each campaign is built from the mirror (`Read`,
`Wanted`), the requests go out one campaign after the other (`Send`), the
campaigns already applied travel on the error and are written to the mirror
(`Applied`, `Sync`), and a structure refresh reads WB's sets, awaits, and
replaces the mirror (`RefreshReads`, `RefreshWrites`). `cabinet` is what WB
uses; only this program changes it. "queued" stands for "throttled" too.

### ClusterActionHistory

A set of excluded clusters does not say who wanted them so, and an abstract queue
is about commands. The history variables say it: `shownBy[k]` is the command whose
wish the cabinet shows for `k`, `mirrorBy[k]` the one the mirror shows, `sentBy[k]`
the one in the set under way, which is the batch's own command for the clusters
the batch names and the mirror's for those it carries along (`Wishes`). They only
observe: every step of `HistorySpec` is one of the queue, and every step of the
queue without its refresh is one of `HistorySpec` (both proved, `HistoryIsQueue`
and `HistoryIsComplete`). `LatestStateSpec` asks two things: the history behaves as
`LatestStateQueue` with `wb <- shownBy`, and it tells the truth about the sets in
the cabinet (`ShownHolds`).

### PromotionLane

An absolute time of the code is kept as what is left until it; `Tick` counts all
of them down and nothing forces a timer to fire on time. `Join` reads the
suppression and appends to the chain, `Sleep` and `TakeSlot` are
`waitForPromotionRequestSlot`, `Refuse` is a wait longer than `maxQueueWaitMs`,
`Throttled`, `Unavailable`, `Rejected` the error handler of `request`. `since`,
`promised` and `asked` only observe.

### SyncRuns, CampaignSync, ClusterLists

`SyncRuns` keeps a call per request or cron tick: `Check` (the flag is read),
`Sweep` (`failStaleRunningSyncs`), `Start` (INSERT of the row; flag and work in
one turn of the event loop), `Finish` / `CompletionFails`, `Settle` (the finally
block; a sync that failed rejects unhandled and takes the process with it).
`PutOff` and `TimerAsks` are the refresh that steps back behind pending writes.
`Poll` and `PollSweeps` are the status request. Rows of calls that were forgotten
are only remembered as `orphans`.

`CampaignSync` is the order of the work: `BeginInventory` to `EndInventory`,
`Enter`, `ReadChunk`, `NextRound`, `CompletePhase`, and `ChunkRefused` or `Stop`
where it ends early. The next campaign is the first after the cursor, wrapping
around. `owed` is a ghost: who has had a turn since.

`ClusterLists` is one chunk of the structure phase for one product: rows without
twins, upsert, prune (each its own query), the bids that add active rows, and the
refresh of the product beside it. `Shown` is the overlay the dashboard reads.

### The engines

`ClusterAutomation`: the four queries of a pass are sent together and answered one
by one (`ReadPart`); `Overtaking` names those that may be answered before one sent
earlier. `DecideAll` reads the account and applies the rules and the guard against
mass exclusion, `OrderExcludes` and `OrderIncludes` are the two commands,
`StoreRows`, `BlacklistJunk`, `ApproveJunk` and `MarkBaseline` the writes after
them. The cron's pass and a manager's pass run side by side; `Regulate` is the daily
regulator. Clusters drift between verdicts, and the cabinet moves them. Two ghosts:
`unseen` are the clusters nobody has reviewed, `steady[p]` those that had no new
instruction and no other move since the pass `p` began.

`ClusterAccrual`: `AccrueYesterday` is the 05:45 job, `AccrueRerun` a second run by
hand, `Midnight` moves the day. `Spends` and `Sells` are also what a sync of the
statistics finds out of a past day. `booked` is a ghost: what the first job that
found statistics of a day found.

`BidRules` counts kopecks, so that the rounding to whole rubles is in it: the lowest
bid up, caps and the bid in force down, steps to the nearest ruble and at least one.
`BidEngine`: the queries of a round are steps (`RoundReads`, answered in any order,
`RoundCaps`, `RoundBids`); `Probe` measures one cluster at a time and notes the wish,
`Skip` writes the note of a cluster no bid can make profitable, `ApplyBids` hands
over; without a threshold (0 here) there is no cap and only the lowest bid is left.
`ThresholdMoves`, `OrdersMove`, `ManagerBids` and `Excluded` come between any two of
them. `touched` is a ghost: the bids set by somebody since the round read them.

### Jobs and caches

`ExportJobs`: every file write is two steps where somebody may look between them
(truncated, then filled), `copy` is the cooldown file as a run read it before it
writes it back whole; a crash may leave that file empty. A status request reads
the status (`PollReads`) and, if it cannot, the result (`PollReadsResult`);
`PollMends` and `PollMended` are the repair from what it read before.

`SnapshotJobs`: `AskSnapshots`, `ReadCoverage`, `UpsertJob` are a request,
`AskFails` one of its queries throwing, `Direct*` the run it starts when the export
is saved here, `ClaimSnapshotJob` and `QueuePassEnds` the queue. `QueuePassBreaks`
is the query of the error handler itself throwing: the rejection is only logged, the
row and the warm-up entries go on saying "running". `SnapTimePasses` makes an
attempt due or a run old. `astray` is a ghost: products a run gave up and the job's
row no longer has to do. The marks that a build sets product by product
(`wb-clusters-read-flow.materialize.orchestrator.ts:200-208`) are not in `warm`:
they carry no export, so they are kept under another key
(`wb-clusters-read-flow.readiness-warmup.ts:3-12`) than the job's.

`SheetCache`: requests join a load in flight, or load; a load reads the sheet and
then the overlay, under the key of its beginning; `Invalidate`, `ClearAll`,
`ClearJam` and `Expire` are the four ways values go. `promised` is a ghost, the data
as they were at the last drop of any kind; `late` marks loads that had read when
`ClearAll` dropped the caches of a product without a version, and the sheets they
leave in the cache.

### ClusterTable

`Effect` is one run of the effect of `useProductAdvertisingClusterTable`: the
cached table at once, and a fetch that joins a request in flight for the same
table (`Fetched`). `ReadRows` is the backend's read, `TableArrives` the answer,
which goes to the cache whatever it says and to the screen only when the effect
that listens is the selected campaign's (`Awaited`, the code's `isCancelled`) and
the rows are built; `RetryTable` is the timer of three seconds. `CommitBid`,
`StoreBid` and `Saved` are a bid typed into the table, the backend's transaction
and the reload; the manager may leave the campaign between any two of them.
`ReadWorkspace`, `WorkspaceArrives` and `PollPending` are the workspace with its
flag. `returned` and `behind` are ghosts. The effect's branch for a table that
comes with the workspace is left out: every producer of a workspace sets
`initialClusterTable` to null. So are the session caches that give the first frame
after a reload of the browser and the bundle request that fills the same cache
ahead of time, the filters and dates, which are other keys of the same cache, and
the editor's draft.

## 3. Runs

Twelve runs, each a question of its own. Ten pass; two show that the code does
not do what one of its comments or documents says.

| Run | Instance | Shows |
|---|---|---|
| `bid_safety` | 2 commands on 2 clusters of one campaign, naming one or both, batch limit 1 (a command may need two requests), one fault of any kind | `TypeOK`, `ConfirmedIsLive`, `AttemptsBounded`, `RowOwned` |
| `bid_latest` | 2 commands, 3 clusters in 2 campaigns, batch limit 2 (two campaigns may share a request, one command may fill it), one fault, WB accepts or rejects | refinement of `LatestStateQueue` |
| `bid_liveness` | 2 commands on one cluster, all five outcomes, enforced readback, one fault | `JobsSettle`, `RowsSettle` |
| `bid_refresh` | 2 commands on one cluster, refreshes at any time, two attempts, one fault | `RefreshTypeOK`, `MirrorIsLive`, `RefreshedRowsOwned` |
| `bid_forgotten` | 1 command and refreshes, no fault | violated: `QueuedIsDurable` |
| `lane_safety` | 2 reads and 1 write, one refusable, retries, 429s, a priority window | `TypeOK`, `Paced`, `CalledQuietHeld`, `CallsReturn` |
| `action_safety` | 3 commands, 3 clusters in 2 campaigns that may share a batch, WB accepts, throttles or rejects, one attempt per job, no fault | `TypeOK`, `ConfirmedStands`, `OnlyNamedChange`, refinement of `LatestStateQueue` (`LatestStateSpec`) |
| `action_liveness` | 2 commands on one cluster or on two campaigns, WB accepts, ignores or rejects, a refresh beside the queue, enforced readback, one fault | `JobsSettle`, `RowsSettle` |
| `sync` | 3 calls, one of them the cron, of every kind; one fault | `RunTypeOK`, `FlagIsLive`, `FinalIsTruth`, `StaleSettles` |
| `engines` | 2 clusters, 2 price buckets, 3 days, 1 rerun, 1 change of price, 2 events beside the passes; a lowest bid of 20.50, caps below it, within WB's limits, above them and none, 1 change during a round; 2 campaigns of a product, the open one perhaps not built, 2 saves, saves and failing requests together at most 2 | `EnginesTypeOK`, `QuarantineKept`, `InstructionsObeyed`, `EachDayOnce`, `MovesForPosition`, `OwnTable`, `SavedIsShown` |
| `upkeep` | 3 campaigns; 2 clusters with 2 moves and a torn answer; 2 exports of 1 or 2 methods with a crash; 2 products with 2 requests and a crash; 2 readers with 2 drops | `UpkeepTypeOK`, `RoundRobin`, `SteadyShown`, `SteadyStays`, `FailedIsOver`, `SucceededHasResult`, `OneWorker`, `RunningIsWorked`, `DropsAreSeen` |
| `jam_fresh` | 2 readers, commits and drops | violated: `NextReadHasTexts` |

**What the violations say.** `bid_forgotten`: a bid is confirmed and its job
completed between the refresh's SELECT and its DELETE; the refresh writes back
the row it read, "still being sent", and nobody is left to confirm it.
`jam_fresh`: JAM's sync deletes the cached overlays only; a sheet that carries
the old overlay, and a load in flight, survive it.

**What the passing runs leave out, because it does not hold.** These are cases the
modules can show and the passing instances exclude by name: a retry writes every
item of its jobs, so an item superseded while its batch was in flight comes back and
is sent after the newer one (`bid_latest` has no recoverable errors, `action_safety`
tries a job once; `wb-clusters.repository.bid-job-resolution.ts:62`, and
`action-job-resolution.ts:62`); a restart between the row and the job of a command
leaves the row queued (the exception for lost commands in `RowOwned` and
`RowsSettle`); a read that waits in its chain while a suppression begins is sent
inside it (`CalledQuietHeld` is about the suppression it was called under); a waiter
writes the next slot over a cooldown extended while it slept; a structure refresh
that read before a batch puts the mirror back, and the next set undoes a confirmed
cluster (`ConfirmedStands` and `LatestStateSpec` assume no refresh beside the
queue); a set-minus whose answer is lost is rolled back by the next set
(`LatestStateSpec` and `OnlyNamedChange` assume truthful answers). Of the engines: a bid that a manager sets while a round measures is overwritten by
the round's (`touched` in `MovesForPosition`). Of the snapshots: when a pass gives up
with a retry, or breaks down in its error handler, the products stay shown as
running, since "queued" does not replace "running"; the next pass takes them up as
long as the row still has them to do. A request that takes them out of the row
meanwhile, or a row that another run ended, leaves them shown as running with nobody
at work (`astray` in `RunningIsWorked`). Of the caches: `clearAllFrequencyCaches`
gives a new version only to products that have one, so for the others a load that
read before the import is cached and served after it (`late` in `DropsAreSeen`).
That contradicts the comment at `wb-clusters.service.ts:460`, "all products reflect
the new data on the next request": with `request[r].late` taken out of the property
TLC finds it violated in a few steps (read, clear, store, ask again).

Four that the modules keep as they are and no property contradicts: two exports that
end together lose one of the cooldowns; a snapshot job that the queue takes while
its export is not saved here fails; a pass writes back the review it had read, so a
review given meanwhile is asked for again; what a sync finds out of a day after its
night's account stays out of it.

Of the product page, `SavedIsShown` leaves out what its `behind` names: a reload
after a save joins a request that was sent before it, and shows what that read,
or its own request fails, and the old table stays. The mark beside a bid ("sent",
"confirmed") may stay behind for good, so no property speaks of it: the page asks
for the table again only when the workspace's flag falls, while
`wb-clusters.repository.workspace-shell-sql.ts:104` keeps the flag up for a failed
bid as well (the comment in `useDashboardProductsWorkspace.ts:275` expects it to
fall), and a confirmation between the table's read and the first read of the
workspace is never seen. A table that is still being built is put into the memory
cache like any other, and is what a manager sees who opens the campaign again
before it is ready.

**Bounds.** The source's limits (200 jobs per claim, 100 bids per request, 8
attempts) become 1 or 2, so that claims, chunks and attempts run out within a few
steps. Two jobs are enough for every race of two supersede transactions and of a
command with the pass; the third command of `action_safety` is there because a
rollback needs one campaign applied, one cut off and one command built on the
result; it either follows the first on its cluster or names the other cluster of its
campaign. `MaxFaults`, `MaxCrashes` and their like are 1: a fault resets the
process, and a second one starts from a state that the first already reaches; the
proofs below do not depend on it. Time in the lanes is 1 to 4 units, enough to make
an interval, a retry delay and a suppression overlap in every order. Three calls are
enough for a sync that is swept by another while a third's completion is refused.
`RoundRobin` needs three campaigns, so that the one after the cursor, the one it
wraps to and one that appears are different. `MaxVersion` 2 lets a load span a drop
and its successor. Two saves and two campaigns let a save return while another is
under way, after its campaign was left or opened again; one bid per campaign is
enough, since a table is fetched and dropped whole. The events of managers and
numbers in `engines` are bounded per behaviour (`MaxEvents`, `MaxOffers`,
`MaxReruns`, `MaxPrices`), each at the value that lets one of them fall between any
two steps of a pass. `Overtaking` is empty there: the four queries of a pass are
answered in the order they were sent, since with every order the run takes many
times as long; the proofs hold for any `Overtaking`. The automation starts with a
cluster that costs too much and one still to come (`AutoStarts`), so that a review,
a baseline and a list can each concern either. A verdict is "dear" or "unknown" there: a
good cluster gets the same commands as one that cannot be judged, which may besides
keep the mark of a manager's hand. Symmetry is used where the elements are alike and no liveness
is checked: the commands of `bid_safety`, the clusters and the saves of `engines`,
the readers of `upkeep`. `action_safety` allows no crash or failing query of the
pass, because `LatestStateSpec` does not hold then (a restart between set-minus and
the mirror, listed under the hazards); `ConfirmedStands` does, and is proved for
them. Nor does a command die there: the theorems cover it, and `action_liveness` has
it.

In `engines` and `upkeep` a variable `turn` says which of the composed modules
moves. They share no variable, so every property of one holds of the
composition with all of them moving; the union keeps the state space a sum. That
each of them still implements its own specification there is proved
(`EnginesCompose`, `UpkeepCompose`).

**Fairness.** A handler that was started goes on (`WF` of the command's steps, of
`PassWork` and of `CallWork`): the event loop runs every resolved promise, queries
and requests have time limits. The clock moves (`Due`, `Age`, `CooldownEnds`,
`Ripen`, `Tick`). The crons fire again and again (`CronTick`, `StartPass`,
`Check(Cron, "sync")`). Nothing is assumed of users, of the debounce timer, of
faults, or of what WB answers. Strong fairness is used once, in `FairRefresh`: a
statement of the pass that waits for a row lock is in PostgreSQL's queue for that
lock and is served before the next refresh can take it, so refreshes that come
again and again do not starve it.

## 4. Proofs

All theorems hold for any sets of clusters, campaigns, commands, calls, jobs and
any limits; the assumptions on the constants are the named `ASSUME` of each
module.

| Theorem | Further assumptions | Argument |
|---|---|---|
| `ClusterBidQueueProofs!TypeCorrect` | – | `TypeOK` is inductive |
| `ClusterBidQueueProofs!ConfirmedCorrect` | `WbTrusted \/ WbChecked` | `ConfirmedInv`: what the pass knows of WB at each step, and that no row of the batch is confirmed while it is being sent. Without the latter a send could change WB under a confirmed row |
| `ClusterBidQueueProofs!OwnedCorrect` | – | `OwnInv`: what is live of the jobs in memory is in the plan, what is planned for later batches is owned, and while a batch is resolved others own the rows queued meanwhile; no owner is ever in the memory of the pass alone |
| `ClusterBidQueueProofs!AttemptsCorrect` | – | `AttemptsInv`: a held job is not claimable, and a job is only let go when it is resolved or has an attempt left; each fault gives one attempt more |
| `ClusterBidQueueProofs!LatestCorrect` | `NoRetries` | `OvertakenDead`: what a command follows has no live item left in an active job where the command asks; `PlanForward`: so no plan leads back from what WB shows |
| `BidRefreshProofs!RefreshTypeCorrect` | – | the steps of the queue keep the types of the refresh and the other way round |
| `BidRefreshProofs!RefreshedCorrect` | – | `OwnedBut(torn)`: the steps of the queue keep ownership of all rows but the torn ones, so a refresh may take rows out of the promise one by one (`CommitTears`) |
| `BidRefreshProofs!MirrorCorrect` | `WbTrusted \/ WbChecked` | `ConfirmedBut(torn)`; `AskInv`: a row without a bid is one nobody asked for, so what WB answers for it stays true; `AnswerKnown`: what the refresh holds of WB |
| `ClusterActionQueueProofs!TypeCorrect` | – | `TypeOK` is inductive |
| `ClusterActionQueueProofs!ConfirmedCorrect` | `~Refreshing`, `WbTrusted \/ WbChecked` | `PlanInv`: the set in hand is still what the mirror asks for; `ConfirmedInv`: mirror and cabinet agree on every confirmed cluster, so the next set leaves it alone |
| `ClusterActionQueueProofs!OnlyNamedCorrect` | `~Refreshing`, `AnswersTell`, `MirrorReached` | `MirrorInv`: the mirror is the cabinet, except for the campaigns already answered for in a batch under way |
| `ClusterActionQueueProofs!ActionLatestCorrect` | `~Refreshing`, `AnswersTell`, `MirrorReached`, `OneTry` | `MirrorHolds`, `TruthCarries`: the history says what mirror and cabinet hold; `ByInv`: the two show the same commands, but for the campaigns already answered for, where the cabinet shows what was sent; so what a set carries along changes nothing. `OvertakenDead`, `PlanForward`: what it names never leads back from what the cabinet shows, as in the bid queue. `OneTryInv`: no pass reschedules, whatever it catches ends its jobs |
| `PromotionLaneProofs!TypeCorrect` | – | with `Chained` (a sleeper is the head of its chain), else `Tail` may be taken of an empty chain |
| `PromotionLaneProofs!PacedCorrect` | – | `SlotInv`: what is left to wait covers what is missing from the interval |
| `PromotionLaneProofs!CalledQuietCorrect` | – | `SlotInv`: a read's remaining wait covers the suppression it was called under |
| `SyncRunsProofs!RunTypeCorrect` | – | `RunTypeOK` is inductive |
| `SyncRunsProofs!FlagCorrect` | – | `FlagsOwned`: a flag is held by a live run of its own kind, so no run of another kind can leave it behind when it ends |
| `SyncRunsProofs!FinalCorrect` | – | `RowsTold`: once its result is known a row is no longer "running", so no sweep touches it |
| `EnginesProofs!QuarantineCorrect` | – | `Quarantined`: every copy of a new cluster's row that some pass holds says pending, or the pass read before it existed (`Unborn`) and holds nothing for it |
| `EnginesProofs!InstructionsCorrect` | – | `Copied`: of an undisturbed cluster a pass's copies stay true, whatever order they came in; `Commanded`: so its two commands carry whatever is still to move, and nothing against the instructions |
| `EnginesProofs!MovesCorrect` | – | `WishesHaveReasons`: every wish of the round is what the bid read and the position seen call for; `ReadsInForce`: a bid nobody touched since is still the one in force, so the reasons hold of it at the write |
| `UpkeepProofs!FailedCorrect`, `SucceededCorrect` | – | `RunHistory`, `PollKnows`: what a status request may write from what it read, for every point of the run it raced with |
| `UpkeepProofs!OneWorkerCorrect`, `RunningCorrect` | – | `WorkIsRunning`: while somebody builds, the job's row is running or was taken for old; what a run leaves is the row's to do, or counted in `astray` by the step that takes it from the row |
| `UpkeepProofs!DropsCorrect` | – | `OneLoad`: a waiter's load has its key; `FreshEnough`: what a load has read is enough for the drop and for whoever waits or will join under its key, unless it is `late`, which `ClearAll` sets exactly for the loads it overtakes under the same key |
| `UpkeepProofs!RoundRobinCorrect` | – | `InTurn`: what a campaign still waits for comes before it in the rotation after the cursor; `VisitedFirst`: the round has visited a first part of its rotation |
| `EnginesProofs!OwnTableCorrect` | – | `OwnRows`: what is cached or answered for a campaign is its own |
| `EnginesProofs!SavedShownCorrect` | – | `AnswerHasSaves`: unless the page is behind, the answer it waits for was read after every return, which `ReturnedStored` bounds |
| `AccrualProofs!DaysCorrect` | – | `AccountIsBooked`: each account is the sum of what was booked for the past days of its bucket; `Nights`: no account is ahead of the night, no later day is booked, and yesterday is booked exactly when the account of its price says so, which is what a rerun looks at |
| `EnginesProofs!EnginesCompose`, `UpkeepProofs!UpkeepCompose` | – | a step of the one that has the turn is a step of its own specification and a stutter of the others |
| `EnginesProofs!EnginesTypeCorrect` | – | the type theorem of each of the four (`AutoTypeCorrect`, `AccrualTypeCorrect`, `BidTypeCorrect`, `TableTypeCorrect`) and `EnginesCompose`. The page needs `TableInv`: the saves that stored a bid are counted (`StoredOnce`, so that the bound holds), and a cell differs from its row only under a save (`SavingShown`) |
| `UpkeepProofs!UpkeepTypeCorrect` | – | likewise with `UpkeepCompose`. The sheets need `OneLoad` and `OneOverlay` (a load in flight is known by the key it began with, so a waiter has one to wait for); snapshots that an old row is a running one (`SnapRest`); campaigns that the cursor is always one of them (`CampaignRest`, `EndOfQueue`) |
| `UpkeepProofs!ShownCorrect`, `StaysCorrect` | – | `RowsOfList`, `AnswersOfList`: an answer that has the list of an unmoved cluster at all names the cluster there, so the upsert writes and the pruning spares its row |

`WbTrusted` says WB uses what it accepts, `WbChecked` that the readback is enforced
and answers; one of the two is needed, since in "observe" mode an ignored request is
confirmed. `NoRetries` says that WB accepts or refuses each request for good: a
retry rewrites superseded items, and then the refinement fails (listed under the
hazards). `OneTry` is the same exclusion for the action queue: jobs are tried once,
or WB only accepts or rejects. `AnswersTell` and `MirrorReached` exclude the two
cases named under "what the passing runs leave out": the lost answer, and the crash
between set-minus and the mirror.

Two arguments go around what the prover lacks. Sums over sets of days are folds,
which need an induction over data; `AccrualProofs` names a sum as a function on
the subsets of the days and takes, for whatever might fail of it, a smallest set
it fails for (`Smallest`), which has one day less to fail for. The order of the
campaigns needs the last one of a queue, which exists because `Campaign` is
finite: WB's list of campaigns is one answer.

Every safety invariant and action property of a passing run is proved.
Model-checked only: liveness (`JobsSettle`, `RowsSettle`, `StaleSettles`,
`CallsReturn`; fairness and `ENABLED` are out of the prover's reach) and the
violations.

## 5. Not modelled

* Read-only mode, low-noise windows, archive contents, counters and telemetry of
  the queues: switches and reports that do not change what the properties see.
* The legacy reconcile pass: no job of the current write method reaches it.
* PostgreSQL's row locks in general: the victim of a deadlock is the failing query
  of `CommandFails`, `PassFails` and `RollBack`, which may happen anywhere.
* The other response caches (same protocol as the sheet's under other keys), the
  paging of an export, how the relevance filter learns words, how a position is
  measured: inputs of what is modelled.
* The components marked "not_modelled" in `PROJECT.json`, each with its reason. Most
  of the repository's lines are SQL, view models, React views and import scripts:
  sequential code without state that two actors share.

## 6. Plan

Done: the two queues, the lanes, the refreshes, sync runs and their order, the
three engines, exports, snapshot jobs, the sheet's caches and the product page.
Left, in this order:

1. The window lock of the Safari bridge (`wb-cmp-*.ts`): one window, several scripts.
2. The session caches of the dashboard against the versions of the backend.
