----------------------------- MODULE BidEngine -----------------------------
(***************************************************************************)
(* A round of the bid engine over the clusters of one campaign. It reads   *)
(* the clusters, the threshold, the accrued orders and the bids one after  *)
(* the other, then asks for the position of each cluster, which takes      *)
(* minutes, notes each wish and at the end hands all changed bids to the   *)
(* bid queue. Managers set bids at any time; orders and views move caps.   *)
(***************************************************************************)
EXTENDS BidRules, Clusters

CONSTANTS
  MinBid, MaxWbBid, Coarse, Fine, \* of the configuration and of WB
  MinDelta,                       \* no smaller change is sent
  BaseBid,                        \* search_bid: the bid of a cluster without one
  Thresholds, Accruals,           \* rubles; orders and views there may be
  Offers, Positions,              \* managers' bids and positions there may be
  NoBid,
  MaxOffers                       \* bids of managers and other changes, altogether

ASSUME EngineAssumption ==
  /\ {MinBid, MaxWbBid, MinDelta, BaseBid, Coarse, Fine, MaxOffers} \subseteq Nat
  /\ MinBid > 0 /\ MaxWbBid >= Lowest(MinBid) /\ MinDelta > 0
  /\ Thresholds \subseteq Nat /\ Accruals \subseteq [orders : Nat, views : Nat]
  /\ Offers \subseteq Nat /\ Positions \subseteq Nat
  /\ NoBid \notin Nat

VARIABLES
  bid,       \* the clusters' own bids, as they are shown
  threshold, \* maxCpo of the product, 0 when there is none
  accrued,   \* orders and views of the account and of today
  active,    \* clusters that are not excluded
  note,      \* the last wish of the engine, and bid_reached_top
  engine,    \* the round: what it read and collected
  offers

engineVars == <<bid, threshold, accrued, active, note, engine, offers>>

world == <<bid, threshold, accrued, active>>

\* The bid WB uses for a cluster: its own, or that of the campaign.
InForce(x) == IF bid[x] = NoBid THEN BaseBid ELSE bid[x]

Resting == [step |-> "idle", got |-> {}, todo |-> {}, maxCpo |-> 0, reached |-> {},
            cap |-> [x \in Cluster |-> NoCap], read |-> [x \in Cluster |-> BaseBid],
            seen |-> [x \in Cluster |-> NoPosition], apply |-> [x \in Cluster |-> NoBid],
            touched |-> {}] \* ghost: bids set by somebody since the round read them

BidTypeOK ==
  /\ \A x \in Cluster : bid[x] \in Lowest(MinBid)..MaxWbBid \union Offers \union {NoBid}
  /\ threshold \in Thresholds /\ accrued \in [Cluster -> Accruals]
  /\ active \subseteq Cluster
  /\ \A x \in Cluster : note[x].wish \in Lowest(MinBid)..MaxWbBid \union {NoBid}
  /\ engine.step \in {"idle", "asking", "capping", "reading", "probing"}
  /\ engine.todo \subseteq Cluster
  /\ offers \in 0..MaxOffers

BidInit ==
  /\ bid = [x \in Cluster |-> NoBid]
  /\ threshold \in Thresholds /\ accrued \in [Cluster -> Accruals]
  /\ active = Cluster
  /\ note = [x \in Cluster |-> [wish |-> NoBid, reached |-> FALSE]]
  /\ engine = Resting
  /\ offers = 0

-----------------------------------------------------------------------------
\* regulateCampaign: four queries at once; the bounds are constants here.
RoundBegins ==
  /\ engine.step = "idle"
  /\ engine' = [Resting EXCEPT !.step = "asking"]
  /\ UNCHANGED <<world, note, offers>>

RoundParts == {"clusters", "threshold", "states"}

RoundReads(part) ==
  /\ engine.step = "asking" /\ part \in RoundParts \ engine.got
  /\ LET q == [engine EXCEPT
           !.got = @ \union {part},
           !.step = IF engine.got \union {part} = RoundParts THEN "capping" ELSE @]
     IN  engine' = CASE part = "clusters" -> [q EXCEPT !.todo = active]
                     [] part = "threshold" -> [q EXCEPT !.maxCpo = threshold]
                     [] part = "states" -> [q EXCEPT !.reached = {x \in Cluster : note[x].reached}]
  /\ UNCHANGED <<world, note, offers>>

\* The live account: the caps, and the active clusters with orders.
RoundCaps ==
  /\ engine.step = "capping"
  /\ LET sold == {x \in engine.todo : accrued[x].orders > 0}
     IN  engine' = IF sold = {} THEN Resting
                   ELSE [engine EXCEPT
                     !.step = "reading", !.got = {}, !.todo = sold,
                     !.cap = [x \in Cluster |-> BidCap(engine.maxCpo, accrued[x].orders,
                                                       accrued[x].views)]]
  /\ UNCHANGED <<world, note, offers>>

RoundBids ==
  /\ engine.step = "reading"
  /\ engine' = [engine EXCEPT !.step = "probing",
                              !.read = [x \in Cluster |-> InForce(x)]]
  /\ UNCHANGED <<world, note, offers>>

\* No bid WB takes pays: the cluster is left to the decisions, its wish is empty.
Skip(x) ==
  /\ engine.step = "probing" /\ x \in engine.todo
  /\ UnprofitableAtMin(engine.cap[x], MinBid)
  /\ engine' = [engine EXCEPT !.todo = @ \ {x}]
  /\ note' = [note EXCEPT ![x] = [wish |-> NoBid, reached |-> x \in engine.reached]]
  /\ UNCHANGED <<world, offers>>

Distance(a, b) == IF a > b THEN a - b ELSE b - a

\* One position, measured or not; the observation is stored at once.
Probe(x, position) ==
  LET desired == DesiredBid(position, engine.read[x], MinBid, engine.cap[x], MaxWbBid, Coarse, Fine)
      top == position # NoPosition /\ position <= TargetPosition
  IN  /\ engine.step = "probing" /\ x \in engine.todo
      /\ ~UnprofitableAtMin(engine.cap[x], MinBid)
      /\ engine' = [engine EXCEPT
           !.todo = @ \ {x}, !.seen[x] = position,
           !.apply[x] = IF Distance(desired, engine.read[x]) >= MinDelta THEN desired ELSE NoBid]
      /\ note' = [note EXCEPT ![x] = [wish |-> desired, reached |-> top \/ x \in engine.reached]]
      /\ UNCHANGED <<world, offers>>

\* applyProductClusterBids: the bids as they are shown from now on, whatever
\* was set since they were read.
ApplyBids ==
  /\ engine.step = "probing" /\ engine.todo = {}
  /\ bid' = [x \in Cluster |-> IF engine.apply[x] = NoBid THEN bid[x] ELSE engine.apply[x]]
  /\ engine' = Resting
  /\ UNCHANGED <<threshold, accrued, active, note, offers>>

\* A dry run, a campaign of another type, an error of a read, or a restart.
RoundEnds ==
  /\ engine.step # "idle"
  /\ engine' = Resting
  /\ UNCHANGED <<world, note, offers>>

-----------------------------------------------------------------------------
Offer == offers < MaxOffers /\ offers' = offers + 1

\* A manager's bid, or what a sync of WB's bids brings.
ManagerBids(x, b) ==
  /\ Offer
  /\ b # bid[x] /\ bid' = [bid EXCEPT ![x] = b]
  /\ engine' = IF engine.step = "probing" THEN [engine EXCEPT !.touched = @ \union {x}] ELSE engine
  /\ UNCHANGED <<threshold, accrued, active, note>>

ThresholdMoves(c) ==
  /\ Offer
  /\ c # threshold /\ threshold' = c
  /\ UNCHANGED <<bid, accrued, active, note, engine>>

OrdersMove(x, a) ==
  /\ Offer
  /\ a # accrued[x] /\ accrued' = [accrued EXCEPT ![x] = a]
  /\ UNCHANGED <<bid, threshold, active, note, engine>>

Excluded(x) ==
  /\ Offer
  /\ x \in active /\ active' = active \ {x}
  /\ UNCHANGED <<bid, threshold, accrued, note, engine>>

BidNext ==
  \/ RoundBegins \/ RoundCaps \/ RoundBids \/ ApplyBids \/ RoundEnds
  \/ \E part \in RoundParts : RoundReads(part)
  \/ \E c \in Thresholds : ThresholdMoves(c)
  \/ \E x \in Cluster :
       \/ Skip(x) \/ Excluded(x)
       \/ \E position \in Positions : Probe(x, position)
       \/ \E b \in Offers : ManagerBids(x, b)
       \/ \E a \in Accruals : OrdersMove(x, a)

BidSpec == BidInit /\ [][BidNext]_engineVars

-----------------------------------------------------------------------------
\* What the engine does to the bid in force, from its first read to its last
\* write minutes later: it raises it only for a position below the top, by one
\* step and never over the cap, or to the lowest bid; it lowers it only for a
\* position in the top, by one step, or to get under the cap. A bid that
\* somebody set in between is the exception: it is overwritten.
MovesForPosition ==
  [][\A x \in Cluster \ engine.touched :
       LET now == InForce(x)
           hi == Highest(MinBid, engine.cap[x], MaxWbBid)
       IN  (engine.step = "probing" /\ engine' = Resting /\ bid'[x] # bid[x]) =>
             /\ bid'[x] <= hi
             /\ bid'[x] > now =>
                  \/ bid'[x] = Lowest(MinBid)
                  \/ engine.seen[x] > TargetPosition
                     /\ bid'[x] <= Larger(now, Lowest(MinBid)) + StepOf(MinBid, Coarse)
             /\ bid'[x] < DownToRuble(now) =>
                  \/ bid'[x] = hi
                  \/ engine.seen[x] \in 1..TargetPosition
                     /\ bid'[x] >= Smaller(DownToRuble(now), hi) - StepOf(MinBid, Fine)
    ]_engineVars
=============================================================================
