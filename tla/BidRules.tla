------------------------------ MODULE BidRules ------------------------------
(***************************************************************************)
(* The arithmetic of the bid engine: the highest CPM bid that keeps the    *)
(* cost of an order under the threshold, and the bid of the next round.    *)
(* Money is kopecks; WB takes whole rubles only, so every bid computed     *)
(* here is a multiple of a hundred. Percentages are of the lowest bid.     *)
(***************************************************************************)
EXTENDS Integers

Larger(a, b) == IF a > b THEN a ELSE b
Smaller(a, b) == IF a < b THEN a ELSE b
Within(v, lo, hi) == Larger(lo, Smaller(hi, v))

DownToRuble(money) == 100 * (money \div 100)
UpToRuble(money) == 100 * ((money + 99) \div 100)

ViewsFloor == 100
NoCap == -1

\* computeBidCap of computeClusterCr: maxCpo * 1000 * orders / views, rounded
\* down to rubles; no cap without a threshold (0 rubles or none set).
BidCap(maxCpo, orders, views) ==
  IF maxCpo = 0 THEN NoCap
  ELSE DownToRuble((maxCpo * 100000 * orders) \div Larger(views, ViewsFloor))

TargetPosition == 4
NoPosition == 0

\* A share of the lowest bid in whole rubles, at least one.
StepOf(minBid, percent) == Larger(100, 100 * ((minBid * percent + 5000) \div 10000))

\* Without a cap, or with an empty one, only the lowest bid is left.
Lowest(minBid) == UpToRuble(minBid)
Highest(minBid, cap, maxBid) ==
  Larger(Lowest(minBid), DownToRuble(Smaller(IF cap > 0 THEN cap ELSE minBid, maxBid)))

\* Faulty variant: a position in the top raises the bid too.
DesiredBid_Up(position, current, minBid, cap, maxBid, coarse, fine) ==
  LET hi == Highest(minBid, cap, maxBid)
      now == Within(DownToRuble(current), Lowest(minBid), hi)
  IN  IF position = NoPosition THEN now
      ELSE Within(now + StepOf(minBid, coarse), Lowest(minBid), hi)

\* computeDesiredBid: down in the top, up below it, one step within the bounds.
DesiredBid(position, current, minBid, cap, maxBid, coarse, fine) ==
  LET lo == Lowest(minBid)
      hi == Highest(minBid, cap, maxBid)
      now == Within(DownToRuble(current), lo, hi)
  IN  CASE position = NoPosition -> now
        [] position # NoPosition /\ position <= TargetPosition ->
             Within(now - StepOf(minBid, fine), lo, hi)
        [] position > TargetPosition -> Within(now + StepOf(minBid, coarse), lo, hi)

\* No bid WB takes keeps the cost; without a threshold nothing is unprofitable.
UnprofitableAtMin(cap, minBid) == cap # NoCap /\ cap < minBid
=============================================================================
