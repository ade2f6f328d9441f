-------------------------- MODULE LatestStateQueue --------------------------
(***************************************************************************)
(* What a latest-state queue promises to those who write to it: each       *)
(* command is answered once, only answered commands reach the target, and  *)
(* the target never goes back to a command that had been answered before   *)
(* the one it shows had arrived.                                           *)
(***************************************************************************)
CONSTANTS Key, Job, None

VARIABLES
  answered, \* commands the caller got an answer for
  follows,  \* follows[j]: commands answered when j arrived
  wb        \* the command whose value the target shows, per key

vars == <<answered, follows, wb>>

Init ==
  /\ answered = {}
  /\ follows = [j \in Job |-> {}]
  /\ wb = [k \in Key |-> None]

Arrive(j) ==
  /\ j \notin answered
  /\ follows' = [follows EXCEPT ![j] = answered]
  /\ UNCHANGED <<answered, wb>>

Answer(j) ==
  /\ answered' = answered \union {j}
  /\ UNCHANGED <<follows, wb>>

MayReplace(j, i) == j \in answered /\ (i = None \/ j \notin follows[i])

Apply ==
  /\ wb' \in [Key -> Job \union {None}]
  /\ \A k \in Key : wb'[k] = wb[k] \/ MayReplace(wb'[k], wb[k])
  /\ UNCHANGED <<answered, follows>>

Next ==
  \/ \E j \in Job : Arrive(j) \/ Answer(j)
  \/ Apply

Spec == Init /\ [][Next]_vars
=============================================================================
