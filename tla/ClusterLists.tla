---------------------------- MODULE ClusterLists ----------------------------
(***************************************************************************)
(* What is shown as active and as excluded for one product of a campaign.  *)
(* WB keeps each cluster in one of two lists. wb_clusters has a row per    *)
(* cluster and list: the structure phase removes excluded rows that have   *)
(* an active twin, writes a row for every cluster of WB's answer and then  *)
(* deletes the rows its lists do not name, each with a query of its own;   *)
(* its bids then write active rows for the clusters WB has a bid for. The  *)
(* refresh of the product only writes rows. A command's row in             *)
(* wb_cluster_actions goes before all of them, for good.                   *)
(***************************************************************************)
EXTENDS Naturals, Clusters

CONSTANTS
  MaxMoves, \* how often a cluster may change its list, or get its first bid
  MaxTorn,  \* how many answers without lists, refusals and crashes there are
  Nobody

List == {"active", "excluded"}
Lists == [Cluster -> List]

ASSUME ListAssumption == MaxMoves \in Nat /\ MaxTorn \in Nat /\ Nobody \notin List

VARIABLES
  wbList,  \* the list WB keeps each cluster in
  bidden,  \* the clusters WB has a bid for
  listRows, \* the rows of each cluster in wb_clusters
  acted,   \* the wish in wb_cluster_actions
  reader,  \* the structure phase
  slice,   \* the refresh of the product
  mover,   \* ghost: the clusters that changed list or were acted upon
  moves, tornReads

listVars == <<wbList, bidden, listRows, acted, reader, slice, mover, moves, tornReads>>

\* An answer of WB: the clusters it names in each list.
Answer == [List -> SUBSET Cluster]
NoAnswer == [l \in List |-> {}]
Asleep == [step |-> "idle", answer |-> NoAnswer]

ListTypeOK ==
  /\ wbList \in Lists
  /\ bidden \subseteq Cluster /\ mover \subseteq Cluster
  /\ listRows \in [Cluster -> SUBSET List]
  /\ acted \in [Cluster -> List \union {Nobody}]
  /\ reader \in [step : {"idle", "begun", "read", "written", "passed", "listed"}, answer : Answer]
  /\ slice \in [step : {"idle", "read", "written"}, answer : Answer]
  /\ reader.step \in {"idle", "begun"} => reader.answer = NoAnswer
  /\ slice.step # "read" => slice.answer = NoAnswer
  /\ moves \in 0..MaxMoves /\ tornReads \in 0..MaxTorn

ListInit ==
  /\ wbList \in Lists
  /\ bidden = {}
  /\ listRows = [x \in Cluster |-> {}]
  /\ acted = [x \in Cluster |-> Nobody]
  /\ reader = Asleep /\ slice = Asleep
  /\ mover = {}
  /\ moves = 0 /\ tornReads = 0

Named(lists) == [l \in List |-> {x \in Cluster : lists[x] = l}]

\* The row shown: the command's wish, else the active twin, else the excluded.
Shown(x) ==
  IF acted[x] # Nobody THEN acted[x]
  ELSE IF "active" \in listRows[x] THEN "active"
  ELSE IF "excluded" \in listRows[x] THEN "excluded" ELSE "nothing"

-----------------------------------------------------------------------------
\* In the cabinet or by a command that WB carried out.
Move(x) ==
  /\ moves < MaxMoves
  /\ moves' = moves + 1
  /\ \/ /\ wbList' = [wbList EXCEPT ![x] = IF @ = "active" THEN "excluded" ELSE "active"]
        /\ mover' = mover \union {x}
        /\ UNCHANGED bidden
     \/ /\ x \notin bidden
        /\ bidden' = bidden \union {x}
        /\ UNCHANGED <<wbList, mover>>
  /\ UNCHANGED <<listRows, acted, reader, slice, tornReads>>

\* applyProductClusterAction writes the wish; nothing ever deletes it.
Act(x, l) ==
  /\ moves < MaxMoves
  /\ moves' = moves + 1
  /\ acted' = [acted EXCEPT ![x] = l]
  /\ mover' = mover \union {x}
  /\ UNCHANGED <<wbList, bidden, listRows, reader, slice, tornReads>>

\* A bid command writes an active row for its cluster, whatever its list.
BidRow(x) ==
  /\ moves < MaxMoves
  /\ moves' = moves + 1
  /\ listRows' = [listRows EXCEPT ![x] = @ \union {"active"}]
  /\ bidden' = bidden \union {x}
  /\ UNCHANGED <<wbList, acted, reader, slice, mover, tornReads>>

-----------------------------------------------------------------------------
\* deduplicateClustersBySourceKind.
WithoutTwins(r) == IF "active" \in r THEN r \ {"excluded"} ELSE r

BeginLists ==
  /\ reader.step = "idle"
  /\ reader' = [Asleep EXCEPT !.step = "begun"]
  /\ listRows' = [x \in Cluster |-> WithoutTwins(listRows[x])]
  /\ UNCHANGED <<wbList, bidden, acted, slice, mover, moves, tornReads>>

\* getNormQueryList; a transient answer may lack the lists.
ReadLists ==
  /\ reader.step = "begun"
  /\ \/ /\ reader' = [step |-> "read", answer |-> Named(wbList)]
        /\ UNCHANGED tornReads
     \/ /\ tornReads < MaxTorn
        /\ tornReads' = tornReads + 1
        /\ \E gone \in SUBSET List : gone # {} /\
             reader' = [step |-> "read",
                        answer |-> [l \in List |-> IF l \in gone THEN {} ELSE Named(wbList)[l]]]
  /\ UNCHANGED <<wbList, bidden, listRows, acted, slice, mover, moves>>

\* upsertClusters: ON CONFLICT (cluster_key), a key per cluster and list.
Upserted(answer) ==
  [x \in Cluster |-> listRows[x] \union {l \in List : x \in answer[l]}]

UpsertLists ==
  /\ reader.step = "read"
  /\ reader' = [reader EXCEPT !.step = "written"]
  /\ listRows' = Upserted(reader.answer)
  /\ UNCHANGED <<wbList, bidden, acted, slice, mover, moves, tornReads>>

\* Faulty variant: an empty list deletes every row of its kind.
Pruned_Empty(l, names) ==
  [x \in Cluster |-> IF x \notin names THEN listRows[x] \ {l} ELSE listRows[x]]

\* A pass of deactivateStaleActiveClusters: an empty list is no list.
Pruned(l, names) ==
  [x \in Cluster |-> IF names # {} /\ x \notin names THEN listRows[x] \ {l} ELSE listRows[x]]

Prune(l, before, after) ==
  /\ reader.step = before
  /\ reader' = [reader EXCEPT !.step = after]
  /\ listRows' = Pruned(l, reader.answer[l])
  /\ UNCHANGED <<wbList, bidden, acted, slice, mover, moves, tornReads>>

\* Faulty variant: and for the clusters that are known, like its empty bids.
Bidden_All == [x \in Cluster |-> listRows[x] \union {"active"}]

\* replaceClusterBids writes active rows for WB's bids.
Bidden == [x \in Cluster |-> IF x \in bidden THEN listRows[x] \union {"active"} ELSE listRows[x]]

MirrorBids ==
  /\ reader.step = "listed"
  /\ reader' = Asleep
  /\ listRows' = Bidden
  /\ UNCHANGED <<wbList, bidden, acted, slice, mover, moves, tornReads>>

\* A refused request or a crash ends the phase where it stands.
ReaderStops ==
  /\ reader.step # "idle" /\ tornReads < MaxTorn
  /\ tornReads' = tornReads + 1
  /\ reader' = Asleep
  /\ UNCHANGED <<wbList, bidden, listRows, acted, slice, mover, moves>>

-----------------------------------------------------------------------------
\* refreshCampaignProductSlice: one upsert per name, active ones first; a
\* refused list is skipped.
SliceReads ==
  /\ slice.step = "idle"
  /\ slice' = [step |-> "read", answer |-> Named(wbList)]
  /\ UNCHANGED <<wbList, bidden, listRows, acted, reader, mover, moves, tornReads>>

SliceWrites ==
  /\ slice.step = "read"
  /\ \E l \in List : \E x \in slice.answer[l] :
       /\ l = "excluded" => slice.answer["active"] = {}
       /\ listRows' = [listRows EXCEPT ![x] = @ \union {l}]
       /\ slice' = [slice EXCEPT !.answer[l] = @ \ {x}]
  /\ UNCHANGED <<wbList, bidden, acted, reader, mover, moves, tornReads>>

SliceWritten ==
  /\ slice.step = "read" /\ slice.answer = NoAnswer
  /\ slice' = [slice EXCEPT !.step = "written"]
  /\ UNCHANGED <<wbList, bidden, listRows, acted, reader, mover, moves, tornReads>>

SliceMirrorsBids ==
  /\ slice.step = "written"
  /\ slice' = Asleep
  /\ listRows' \in {listRows, Bidden}
  /\ UNCHANGED <<wbList, bidden, acted, reader, mover, moves, tornReads>>

-----------------------------------------------------------------------------
ReaderStep ==
  \/ BeginLists \/ ReadLists \/ UpsertLists
  \/ Prune("active", "written", "passed") \/ Prune("excluded", "passed", "listed")
  \/ MirrorBids

SliceStep == SliceReads \/ SliceWrites \/ SliceWritten \/ SliceMirrorsBids

ListNext ==
  \/ ReaderStep
  \/ ReaderStops
  \/ SliceStep
  \/ \E x \in Cluster : Move(x) \/ BidRow(x)
  \/ \E x \in Cluster, l \in List : Act(x, l)

ListSpec == ListInit /\ [][ListNext]_listVars

-----------------------------------------------------------------------------
(* Properties. *)

\* A cluster that never changed its list and nobody acted upon is never shown
\* in the other one, unless it is excluded and has a bid; and once shown it
\* does not vanish: not by an answer without lists, a phase that ends half-way,
\* or a refresh beside it.
SteadyShown ==
  \A x \in Cluster \ mover :
    x \notin bidden \/ wbList[x] = "active" => Shown(x) \in {"nothing", wbList[x]}

SteadyStays ==
  [][\A x \in Cluster : x \notin mover' /\ Shown(x) = wbList[x] /\ x \notin bidden' =>
       Shown(x)' = wbList[x]]_listVars
=============================================================================
