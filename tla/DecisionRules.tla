--------------------------- MODULE DecisionRules ---------------------------
(***************************************************************************)
(* The rules of the CPO automation as operators: what a cluster's spend    *)
(* and orders say of it, which state that and the manager's lists give it, *)
(* and the command that follows. CPO is spend / orders; the comparison     *)
(* with the threshold is written without the division.                     *)
(***************************************************************************)
EXTENDS Naturals

\* Orders counted for a cluster: the campaign's own or those of JAM.
Ordered(rk, jam) == IF rk > jam THEN rk ELSE jam

\* By the last 30 days (v1); without orders the spend itself is compared.
VerdictByWindow(spend, ordered, maxCpo) ==
  IF spend = 0 /\ ordered = 0 THEN "unknown"
  ELSE IF spend <= maxCpo * (IF ordered = 0 THEN 1 ELSE ordered) THEN "good" ELSE "dear"

\* By what the price bucket accrued (v2): no orders is no verdict until the
\* spend reaches the threshold.
VerdictByAccrual(spend, ordered, maxCpo) ==
  IF ordered = 0 THEN (IF spend < maxCpo THEN "unknown" ELSE "dear")
  ELSE IF spend <= maxCpo * ordered THEN "good" ELSE "dear"

-----------------------------------------------------------------------------
OutStates == {"blacklisted", "excluded_drr", "excluded_high"}
InStates == {"protected", "active", "learning", "manual_protected"}

\* Faulty variant: the verdict comes before the manager's lists.
Standing_VerdictFirst(accrual, review, role, held, verdict, manual) ==
  CASE review = "pending"                        -> "pending_review"
    [] review # "pending" /\ verdict = "dear"    -> "excluded_high"
    [] review # "pending" /\ verdict # "dear"    ->
         CASE role = "black" -> "blacklisted" [] role = "white" -> "protected"
           [] role = "none" -> IF held THEN "excluded_drr" ELSE "active"

\* The manager's lists, the daily budget's hold and the verdict, in that order.
\* The rule of the accrual (v2) says of a cluster it cannot judge yet that it learns.
Standing(accrual, review, role, held, verdict, manual) ==
  CASE review = "pending"                        -> "pending_review"
    [] review # "pending" /\ role = "black"      -> "blacklisted"
    [] review # "pending" /\ role = "white"      -> "protected"
    [] review # "pending" /\ role = "none"
       /\ held                                   -> "excluded_drr"
    [] review # "pending" /\ role = "none"
       /\ ~held /\ verdict = "dear"              -> "excluded_high"
    [] review # "pending" /\ role = "none"
       /\ ~held /\ verdict = "good"              -> "active"
    [] review # "pending" /\ role = "none"
       /\ ~held /\ verdict = "unknown"           -> IF manual THEN "manual_protected"
                                                    ELSE IF accrual THEN "learning" ELSE "active"

\* Included again after the engine excluded it: a person did that.
ByHand(manual, mode, out, last) == manual \/ (mode = "live" /\ ~out /\ last = "exclude")

CommandOf(state, out) ==
  CASE state \in OutStates /\ ~out -> "exclude"
    [] state \in InStates /\ out   -> "include"
    [] OTHER                       -> "noop"
=============================================================================
