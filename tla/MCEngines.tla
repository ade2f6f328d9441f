----------------------------- MODULE MCEngines -----------------------------
(***************************************************************************)
(* A small instance for TLC of those who command bids and clusters: the    *)
(* three automation engines, and the manager at the page of a product.     *)
(* They write columns of their own and read what the others wrote as any   *)
(* other change: turn says which of them moves, the others rest.           *)
(***************************************************************************)
EXTENDS ClusterAutomation, ClusterAccrual, BidEngine, ClusterTable, TLC

CONSTANTS x1, x2, b1, b2, t1, t2, s1, s2

\* A cluster that costs too much, and an excluded one that cannot be judged; one
\* that is good is commanded as the second.
Turns == {[out |-> FALSE, verdict |-> "dear"], [out |-> TRUE, verdict |-> "unknown"]}

\* Orders and views of a cluster: a cap of 22 or 30 rubles, of 10 or 13, or none.
NoOrders == [orders |-> 0, views |-> 500]
Sales == {NoOrders, [orders |-> 1, views |-> 500], [orders |-> 1, views |-> 1100]}

VARIABLE turn

EngineVars == <<turn, autoVars, accrualVars, engineVars, tableVars>>

\* One cluster that costs too much, and one that is still to come.
AutoStarts ==
  \E x, y \in Cluster : view[x] = Unmanaged /\ view[y] = [out |-> FALSE, verdict |-> "dear"]

\* The start of those that rest.
AutoRests == view = [x \in Cluster |-> Unmanaged]
AccrualRests == price[1] = b1
BidsRest == threshold = 0 /\ accrued = [x \in Cluster |-> NoOrders]
PageRests == built[t1]

EngineInit ==
  /\ AutoInit /\ AccrualInit /\ BidInit /\ TableInit
  /\ selected = t1 /\ built[t2] \* the first tab; the second has been looked at before
  /\ \/ turn = "automation" /\ AutoStarts /\ AccrualRests /\ BidsRest /\ PageRests
     \/ turn = "accrual" /\ AutoRests /\ BidsRest /\ PageRests
     \/ turn = "bids" /\ AutoRests /\ AccrualRests /\ PageRests
     \/ turn = "page" /\ AutoRests /\ AccrualRests /\ BidsRest

EngineNext ==
  /\ \/ /\ turn = "automation" /\ AutoNext
        /\ UNCHANGED <<accrualVars, engineVars, tableVars>>
     \/ /\ turn = "accrual" /\ AccrualNext
        /\ UNCHANGED <<autoVars, engineVars, tableVars>>
     \/ /\ turn = "bids" /\ BidNext
        /\ UNCHANGED <<autoVars, accrualVars, tableVars>>
     \/ /\ turn = "page" /\ TableNext
        /\ UNCHANGED <<autoVars, accrualVars, engineVars>>
  /\ UNCHANGED turn

EngineSpec == EngineInit /\ [][EngineNext]_EngineVars

\* The type invariants of the four; a bid the engine sets stays within WB's
\* bounds, an account settles only days that are over, and a cell of the page
\* shows a bid that is not stored only while a save is under way.
EnginesTypeOK == AutoTypeOK /\ AccrualTypeOK /\ BidTypeOK /\ TableTypeOK

\* Nothing tells the clusters apart, nor the saves of the page; where the ones
\* move the others rest, so that both may be exchanged at once.
Alike == {f \in Permutations(Cluster \union Save) :
            f[x1] \in Cluster /\ f[x2] \in Cluster /\ (f[x1] = x1 <=> f[s1] = s1)}
=============================================================================
