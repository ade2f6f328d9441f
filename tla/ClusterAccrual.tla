--------------------------- MODULE ClusterAccrual ---------------------------
(***************************************************************************)
(* What one cluster spent and sold, day by day, and what the automation    *)
(* knows of it. At 05:45 the statistics of yesterday are added to the      *)
(* account of the price bucket the product was sold in; a pass judges the  *)
(* account of today's bucket plus the statistics of today. JAM's orders of *)
(* a day arrive during the following days, and every sync of the           *)
(* statistics fetches past days again, which may by then have cost and     *)
(* sold more. An excluded cluster no longer spends; orders may follow.     *)
(***************************************************************************)
EXTENDS DecisionRules, FiniteSetsExt

CONSTANTS
  Bucket,    \* price buckets
  MaxCpo,
  LastDay,   \* days the model runs
  MaxSpend,  \* of a day
  MaxOrders, \* of each kind, altogether
  MaxReruns, \* of the nightly job, altogether
  MaxPrices  \* new prices, altogether

ASSUME AccrualAssumption ==
  /\ {MaxCpo, LastDay, MaxSpend, MaxOrders, MaxReruns, MaxPrices} \subseteq Nat
  /\ MaxCpo > 0 /\ LastDay > 0 /\ Bucket # {}

Day == 1..LastDay

VARIABLES
  day,      \* today, in Moscow
  morning,  \* 05:45 has passed
  stats,    \* daily statistics: spend, orders of the campaign, orders of JAM
  price,    \* the bucket of each day's price
  account,  \* wb_cluster_accrual: one row per bucket, last_accrued_date with it
  running,  \* the cluster is not excluded
  booked,   \* ghost: what the first job that found statistics of a day found
  reruns

accrualVars == <<day, morning, stats, price, account, running, booked, reruns>>

Stats == [spend : 0..MaxSpend, rk : 0..MaxOrders, jam : 0..MaxOrders]
NoStats == [spend |-> 0, rk |-> 0, jam |-> 0]
NoDay == 0

TotalOf(D, field) == MapThenSumSet(LAMBDA d : stats[d][field], D)

AccrualTypeOK ==
  /\ day \in Day /\ morning \in BOOLEAN
  /\ stats \in [Day -> Stats]
  /\ price \in [Day -> Bucket]
  /\ \A b \in Bucket : account[b].last \in 0..(day - 1) \* only days that are over
  /\ running \in BOOLEAN /\ booked \in [Day -> Stats]
  /\ reruns \in 0..MaxReruns

AccrualInit ==
  /\ day = 1 /\ morning = TRUE
  /\ stats = [d \in Day |-> NoStats]
  /\ \E b \in Bucket : price = [d \in Day |-> b]
  /\ account = [b \in Bucket |-> [spend |-> 0, rk |-> 0, jam |-> 0, last |-> NoDay]]
  /\ running = TRUE /\ booked = [d \in Day |-> NoStats]
  /\ reruns = 0

-----------------------------------------------------------------------------
\* Today, or what a sync finds out of an earlier day.
Spends(d) ==
  /\ d < day \/ (d = day /\ running)
  /\ stats[d].spend < MaxSpend
  /\ stats' = [stats EXCEPT ![d].spend = @ + 1]
  /\ UNCHANGED <<day, morning, price, account, running, booked, reruns>>

\* An order of the campaign, today or found out later, or JAM's of an earlier day.
Sells(d, field) ==
  /\ IF field = "rk" THEN d <= day ELSE d < day
  /\ TotalOf(Day, field) < MaxOrders
  /\ stats' = [stats EXCEPT ![d][field] = @ + 1]
  /\ UNCHANGED <<day, morning, price, account, running, booked, reruns>>

\* The price snapshot of the night; without one the latest price counts.
Reprices(b) ==
  /\ ~morning /\ b # price[day]
  /\ Cardinality({d \in Day \ {1} : price[d] # price[d - 1]}) < MaxPrices
  /\ price' = [d \in Day |-> IF d >= day THEN b ELSE price[d]]
  /\ UNCHANGED <<day, morning, stats, account, running, booked, reruns>>

Midnight ==
  /\ morning /\ day < LastDay
  /\ day' = day + 1 /\ morning' = FALSE
  /\ UNCHANGED <<stats, price, account, running, booked, reruns>>

-----------------------------------------------------------------------------
\* Faulty variant: a day that is accrued already is added again.
Accrued_Again(row, d) ==
  IF row.last <= d THEN [spend |-> row.spend + stats[d].spend, rk |-> row.rk + stats[d].rk,
                         jam |-> row.jam + stats[d].jam, last |-> d] ELSE row

\* The upsert of accrueDailyDeltas: a day already accrued leaves the row.
Accrued(row, d) ==
  IF row.last < d THEN [spend |-> row.spend + stats[d].spend, rk |-> row.rk + stats[d].rk,
                        jam |-> row.jam + stats[d].jam, last |-> d] ELSE row

\* getMskYesterday.
Accruable == day - 1

\* No statistics, no row.
AccrueDay ==
  LET d == Accruable IN
  IF d = NoDay \/ stats[d] = NoStats THEN UNCHANGED <<account, booked>>
  ELSE /\ account' = [account EXCEPT ![price[d]] = Accrued(@, d)]
       /\ booked' = [booked EXCEPT ![d] = IF @ = NoStats THEN stats[d] ELSE @]

\* The job of 05:45.
AccrueYesterday ==
  /\ ~morning /\ morning' = TRUE
  /\ AccrueDay
  /\ UNCHANGED <<day, stats, price, running, reruns>>

\* The server is down at 05:45, or the job fails: nothing accrues this day later.
AccrualMissed ==
  /\ ~morning /\ morning' = TRUE
  /\ UNCHANGED <<day, stats, price, account, running, booked, reruns>>

\* The job runs once more the same day.
AccrueRerun ==
  /\ morning /\ reruns < MaxReruns
  /\ reruns' = reruns + 1
  /\ AccrueDay
  /\ UNCHANGED <<day, morning, stats, price, running>>

\* loadLiveBucketAccrual: the settled bucket and today.
Running(field) == account[price[day]][field] + stats[day][field]

\* A pass judges the cluster; what it decides is commanded.
Judge ==
  LET dear == VerdictByAccrual(Running("spend"), Ordered(Running("rk"), Running("jam")), MaxCpo) = "dear"
  IN  running' = ~dear
  /\ UNCHANGED <<day, morning, stats, price, account, booked, reruns>>

AccrualNext ==
  \/ \E d \in Day : Spends(d)
  \/ \E d \in Day, field \in {"rk", "jam"} : Sells(d, field)
  \/ \E b \in Bucket : Reprices(b)
  \/ Midnight \/ AccrueYesterday \/ AccrualMissed \/ AccrueRerun
  \/ Judge

AccrualSpec == AccrualInit /\ [][AccrualNext]_accrualVars

-----------------------------------------------------------------------------
\* Every day for which a job found statistics is in the account of its price
\* exactly once, as it was then, however often the job ran and whatever became
\* known of the day later; a day whose job did not run is in none
\* (wb-clusters.repository.accrual.ts:138-142).
EachDayOnce ==
  \A b \in Bucket, field \in {"spend", "rk", "jam"} :
    account[b][field] =
      MapThenSumSet(LAMBDA d : booked[d][field], {d \in 1..(day - 1) : price[d] = b})
=============================================================================
