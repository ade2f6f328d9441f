------------------------------ MODULE MCUpkeep ------------------------------
(***************************************************************************)
(* A small instance for TLC of what keeps the stored data up to date: the  *)
(* campaigns of a sync run, the lists of clusters, exports, snapshot jobs  *)
(* and the caches of the sheet.  They meet only in tables none of these    *)
(* models keeps: turn says which of them moves, the others rest.           *)
(***************************************************************************)
EXTENDS CampaignSync, ClusterLists, ExportJobs, SnapshotJobs, SheetCache, TLC

CONSTANTS x1, x2, j1, j2, m1, m2, p1, p2, r1, r2

VARIABLE turn

UpkeepVars == <<turn, campaignVars, listVars, exportVars, snapVars, cacheVars>>

Turns == {"campaigns", "lists", "exports", "snapshots", "sheets"}

UpkeepInit ==
  /\ CampaignInit /\ ListInit /\ ExportInit /\ SnapInit /\ CacheInit
  /\ turn \in Turns
  /\ turn # "campaigns" => listed = {}
  /\ turn # "lists" => wbList = [x \in Cluster |-> "active"]
  /\ turn # "exports" => method = [j \in Export |-> IF j = j1 THEN m1 ELSE m2]

UpkeepNext ==
  /\ \/ /\ turn = "campaigns" /\ CampaignNext
        /\ UNCHANGED <<listVars, exportVars, snapVars, cacheVars>>
     \/ /\ turn = "lists" /\ ListNext
        /\ UNCHANGED <<campaignVars, exportVars, snapVars, cacheVars>>
     \/ /\ turn = "exports" /\ ExportNext
        /\ UNCHANGED <<campaignVars, listVars, snapVars, cacheVars>>
     \/ /\ turn = "snapshots" /\ SnapNext
        /\ UNCHANGED <<campaignVars, listVars, exportVars, cacheVars>>
     \/ /\ turn = "sheets" /\ CacheNext
        /\ UNCHANGED <<campaignVars, listVars, exportVars, snapVars>>
  /\ UNCHANGED turn

UpkeepSpec == UpkeepInit /\ [][UpkeepNext]_UpkeepVars

\* The type invariants of the five; the map of exports in flight is exactly
\* the runs of this process, and who waits for a sheet waits for a load.
UpkeepTypeOK ==
  CampaignTypeOK /\ ListTypeOK /\ ExportTypeOK /\ SnapTypeOK /\ CacheTypeOK

\* Nothing tells the requests for the sheet apart.
AlikeReaders == Permutations(Reader)
=============================================================================
