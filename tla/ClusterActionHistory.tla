------------------------ MODULE ClusterActionHistory ------------------------
(***************************************************************************)
(* The include/exclude queue with its history: for every cluster, which    *)
(* command the cabinet, the mirror and the sets under way show. A set      *)
(* carries what the mirror shows for the clusters its batch does not name; *)
(* so a command that is overtaken shows here as one that comes back.  The  *)
(* structure refresh is left out: it puts back sets read before the pass   *)
(* replaced them, and the promise stated here is then not kept.            *)
(***************************************************************************)
EXTENDS ClusterActionQueue

VARIABLES
  first,    \* the minus phrases WB used before any command
  follows,  \* follows[j]: commands answered when j arrived
  shownBy,  \* the command whose wish the cabinet shows; None: as at first
  mirrorBy, \* likewise in the mirror
  sentBy    \* in the sets the pass has built

sources == <<shownBy, mirrorBy, sentBy>>
history == <<first, follows, sources>>
historyVars == <<vars, history>>

Answered == {j \in Job : cmd[j] = "accepted"}
Nobodys == [k \in Key |-> None]

\* What by shows, but for the clusters K what new shows.
Over(by, new, K) == [k \in Key |-> IF k \in K THEN new[k] ELSE by[k]]

\* Whose wishes the next set of a campaign carries.
Wishes == Over(pass.plan, mirrorBy, {k \in Key : pass.plan[k] = None})

HistoryInit ==
  /\ Init
  /\ first = cabinet
  /\ follows = [j \in Job |-> {}]
  /\ shownBy = Nobodys /\ mirrorBy = Nobodys /\ sentBy = Nobodys

-----------------------------------------------------------------------------
Arrives(j) ==
  /\ \E K \in Requests[j] : Ask(j, K)
  /\ follows' = [follows EXCEPT ![j] = Answered]
  /\ UNCHANGED <<first, sources>>

Builds(g) ==
  /\ Read(g)
  /\ sentBy' = Over(sentBy, Wishes, Slice({g}))
  /\ UNCHANGED <<first, follows, shownBy, mirrorBy>>

Sends(g, outcome) ==
  /\ Send(g, outcome)
  /\ shownBy' = IF outcome \in {"accepted", "lost"} THEN Over(shownBy, sentBy, Slice({g}))
                                                   ELSE shownBy
  /\ UNCHANGED <<first, follows, mirrorBy, sentBy>>

Mirrors ==
  /\ \/ Mirror /\ mirrorBy' = Over(mirrorBy, sentBy, Slice(pass.groups))
     \/ Sync /\ mirrorBy' = Over(mirrorBy, sentBy, Slice(Applied))
  /\ UNCHANGED <<first, follows, shownBy, sentBy>>

\* Every other step of the queue.
Others ==
  \/ \E j \in Job : Accept(j) \/ \E k \in Key : Desire(j, k)
  \/ Clock \/ StartPass \/ Failure
  \/ \E C \in SUBSET Claimable, plan \in [Key -> Job \union {None}] : Claim(C, plan)
  \/ Drained \/ NextRound \/ Verify \/ Catch
  \/ \E gs \in SUBSET Group : Pick(gs)
  \/ \E k \in Key : Mark(k) \/ Confirm(k) \/ BackOff(k) \/ GiveUp(k)
  \/ CompleteJobs \/ CompleteItems \/ RescheduleJobs \/ RescheduleItems
  \/ FailJobs \/ FailItems
  \/ \E d \in drops : Drop(d)

HistoryNext ==
  \/ \E j \in Job : Arrives(j)
  \/ \E g \in Group : Builds(g) \/ \E outcome \in WbOutcomes : Sends(g, outcome)
  \/ Mirrors
  \/ Others /\ UNCHANGED history

HistorySpec == HistoryInit /\ [][HistoryNext]_historyVars

-----------------------------------------------------------------------------
\* Is k excluded, going by the commands by?
Excluded(by, k) == IF by[k] = None THEN k \in first ELSE by[k] \in Excludes

\* The history tells the truth: the cabinet excludes a cluster if and only if
\* the command it is said to show asked for that, or nobody asked otherwise.
ShownHolds == \A k \in Key : k \in cabinet <=> Excluded(shownBy, k)

Latest == INSTANCE LatestStateQueue WITH answered <- Answered, wb <- shownBy

\* The cabinet of WB, set by set, shows what a latest-state queue shows: no
\* set-minus brings back the wish of a command that had been answered before
\* the one it replaces arrived, neither by naming the cluster nor by carrying
\* it along in the set of its campaign (wb-clusters-action-queue.batch.ts:64).
LatestStateSpec == Latest!Spec /\ []ShownHolds
=============================================================================
