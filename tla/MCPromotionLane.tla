--------------------------- MODULE MCPromotionLane ---------------------------
(* Small instances of PromotionLane for TLC: a read lane and a write lane. *)
EXTENDS PromotionLane
CONSTANTS r1, r2, r3, read, write

Lanes     == [r \in Request |-> IF r = r3 THEN write ELSE read]
Interval  == [l \in Lane |-> 2]
Unit      == [l \in Lane |-> 1]
Impatient == [r \in Request |-> IF r = r1 THEN Unlimited ELSE 1]
Doubling  == [n \in 0..RetryAttempts |-> 2 ^ n]
=============================================================================
