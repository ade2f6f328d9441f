---------------------------- MODULE CampaignSync ----------------------------
(***************************************************************************)
(* Which campaigns a sync reads, and in which order. A full sync runs the  *)
(* phases inventory, structure and stats; each has a cursor in             *)
(* wb_cluster_sync_state and visits its campaigns by ascending id, from    *)
(* the one after the cursor. Inventory moves the cursor with every         *)
(* campaign; structure and stats read chunks (here of one campaign, which  *)
(* has one product), stop at the first one WB refuses, and move their      *)
(* cursor only when everything was read. The list of campaigns may come    *)
(* from WB, from the archive of an earlier answer, or from the campaigns   *)
(* stored with products.                                                   *)
(***************************************************************************)
EXTENDS FiniteSets, Naturals

CONSTANTS
  Campaign,   \* the ids
  Cpm, Cpc,   \* campaigns by payment type; only these have statistics
  MaxRelists, \* how often WB's list of campaigns may change
  MaxStops    \* how many crashes and unrecoverable errors may happen

ASSUME CampaignAssumption ==
  /\ Campaign \subseteq Nat \ {0} /\ IsFiniteSet(Campaign)
  /\ Cpm \subseteq Campaign /\ Cpc \subseteq Campaign
  /\ MaxRelists \in Nat /\ MaxStops \in Nat

Phase == {"inventory", "structure", "stats"}
NoCursor == 0

VARIABLES
  listed,   \* the campaigns WB lists
  relists,  \* how often that changed
  archived, \* the list of the latest archived answer, if there is one: {} or {list}
  known,    \* campaigns stored with products
  cursor,   \* lastCompletedAdvertId of each phase
  phase,    \* the phase in progress, or "none"
  full,     \* the run goes on to the next phase
  fresh,    \* the list came from WB and will be archived
  pool,     \* the campaigns of the phase
  left,     \* those of this round not visited yet
  from,     \* the cursor when the phase began
  round,    \* lists, then bids and minus phrases; daily, then aggregate rows
  upserted, \* the campaign's rows are written, its cursor is not
  owed,     \* ghost: campaigns to be completed before this one is again
  stops

campaignVars == <<listed, relists, archived, known, cursor, phase, full, fresh,
                  pool, left, from, round, upserted, owed, stops>>
worldVars == <<listed, relists, stops>>

CampaignTypeOK ==
  /\ listed \subseteq Campaign /\ known \subseteq Campaign
  /\ archived \subseteq SUBSET Campaign
  /\ cursor \in [Phase -> Campaign \union {NoCursor}]
  /\ phase \in Phase \union {"none"}
  /\ full \in BOOLEAN /\ fresh \in BOOLEAN /\ upserted \in BOOLEAN
  /\ left \subseteq pool /\ pool \subseteq Campaign
  /\ from \in Campaign \union {NoCursor}
  /\ round \in 1..2
  /\ owed \in [Campaign -> SUBSET Campaign]
  /\ relists \in 0..MaxRelists /\ stops \in 0..MaxStops

CampaignInit ==
  /\ listed \in SUBSET Campaign
  /\ relists = 0
  /\ archived = {} /\ known = {}
  /\ cursor = [p \in Phase |-> NoCursor]
  /\ phase = "none" /\ full = FALSE /\ fresh = FALSE
  /\ pool = {} /\ left = {} /\ from = NoCursor /\ round = 1
  /\ upserted = FALSE
  /\ owed = [c \in Campaign |-> {}]
  /\ stops = 0

-----------------------------------------------------------------------------
\* Faulty variant: the pivot is the cursor itself, visited already.
Before_AtPivot(k, c, d) == IF (c >= k) = (d >= k) THEN c < d ELSE c >= k

\* The order of buildCampaignQueue: ascending ids, rotated to begin after k.
Before(k, c, d) == IF (c > k) = (d > k) THEN c < d ELSE c > k

First(S, k) == CHOOSE c \in S : \A d \in S \ {c} : Before(k, c, d)
Last(S, k) == CHOOSE c \in S : \A d \in S \ {c} : Before(k, d, c)

\* Whose rows each round reads; only cpm campaigns have aggregate statistics.
Stage(p, r, S) == IF p = "stats" /\ r = 2 THEN S \intersect Cpm ELSE S

Enter(p, S) ==
  /\ phase' = p /\ pool' = S /\ left' = S /\ from' = cursor[p] /\ round' = 1

Rest ==
  /\ phase' = "none" /\ full' = FALSE /\ fresh' = FALSE
  /\ pool' = {} /\ left' = {} /\ from' = NoCursor /\ round' = 1
  /\ upserted' = FALSE

-----------------------------------------------------------------------------
\* WB: a campaign is created, archived, or hidden from the list.
Relist ==
  /\ relists < MaxRelists
  /\ relists' = relists + 1
  /\ listed' \in SUBSET Campaign
  /\ UNCHANGED <<archived, known, cursor, phase, full, fresh, pool, left, from,
                 round, upserted, owed, stops>>

\* The list of campaigns: WB's; the archived one, empty as it may be, when WB is
\* busy; the stored campaigns when there is none.
Refs(answered) ==
  IF answered THEN listed ELSE IF archived # {} THEN UNION archived ELSE known

BeginInventory ==
  /\ phase = "none"
  /\ full' \in BOOLEAN
  /\ \E answered \in BOOLEAN :
       /\ fresh' = answered
       /\ Enter("inventory", Refs(answered))
       /\ owed' = [c \in Campaign |-> owed[c] \intersect Refs(answered)]
  /\ UNCHANGED <<worldVars, archived, known, cursor, upserted>>

\* The campaign's rows, when WB sent its products or they are stored.
UpsertCampaign ==
  /\ phase = "inventory" /\ left # {} /\ ~upserted
  /\ upserted' = TRUE
  /\ known' = known \union {First(left, from)}
  /\ UNCHANGED <<worldVars, archived, cursor, phase, full, fresh, pool, left,
                 from, round, owed>>

\* Its cursor; a campaign without products is skipped and gets it at once.
CompleteCampaign ==
  /\ phase = "inventory" /\ left # {}
  /\ upserted \/ First(left, from) \notin known
  /\ LET c == First(left, from) IN
       /\ cursor' = [cursor EXCEPT !["inventory"] = c]
       /\ left' = left \ {c}
       /\ owed' = [d \in Campaign |-> IF d = c THEN pool \ {c} ELSE owed[d] \ {c}]
  /\ upserted' = FALSE
  /\ UNCHANGED <<worldVars, archived, known, phase, full, fresh, pool, from, round>>

EndInventory ==
  /\ phase = "inventory" /\ left = {}
  /\ archived' = IF fresh THEN {pool} ELSE archived
  /\ IF full
       THEN /\ Enter("structure", known)
            /\ fresh' = FALSE
            /\ UNCHANGED <<full, upserted>>
       ELSE Rest
  /\ UNCHANGED <<worldVars, known, cursor, owed>>

BeginAlone(p) ==
  /\ phase = "none" /\ p # "inventory"
  /\ Enter(p, IF p = "stats" THEN known \intersect (Cpm \union Cpc) ELSE known)
  /\ UNCHANGED <<worldVars, archived, known, cursor, full, fresh, upserted, owed>>

ReadChunk ==
  /\ phase \in {"structure", "stats"} /\ left # {}
  /\ left' = left \ {First(left, from)}
  /\ UNCHANGED <<worldVars, archived, known, cursor, phase, full, fresh, pool,
                 from, round, upserted, owed>>

NextRound ==
  /\ phase \in {"structure", "stats"} /\ left = {} /\ round = 1
  /\ round' = 2
  /\ left' = Stage(phase, 2, pool)
  /\ UNCHANGED <<worldVars, archived, known, cursor, phase, full, fresh, pool,
                 from, upserted, owed>>

Leave ==
  IF full /\ phase = "structure"
    THEN Enter("stats", known \intersect (Cpm \union Cpc)) /\ UNCHANGED <<full, fresh, upserted>>
    ELSE Rest

\* A recoverable refusal: the phase is over, the run goes on.
ChunkRefused ==
  /\ phase \in {"structure", "stats"} /\ left # {}
  /\ Leave
  /\ UNCHANGED <<worldVars, archived, known, cursor, owed>>

CompletePhase ==
  /\ phase \in {"structure", "stats"} /\ left = {} /\ round = 2
  /\ cursor' = IF pool = {} THEN cursor ELSE [cursor EXCEPT ![phase] = Last(pool, from)]
  /\ Leave
  /\ UNCHANGED <<worldVars, archived, known, owed>>

\* Another error ends the run, and its process; so does a crash.
Stop ==
  /\ phase # "none" /\ stops < MaxStops
  /\ stops' = stops + 1
  /\ Rest
  /\ UNCHANGED <<listed, relists, archived, known, cursor, owed>>

-----------------------------------------------------------------------------
CampaignNext ==
  \/ BeginInventory \/ UpsertCampaign \/ CompleteCampaign \/ EndInventory
  \/ \E p \in Phase : BeginAlone(p)
  \/ ReadChunk \/ NextRound \/ CompletePhase
  \/ ChunkRefused
  \/ Relist
  \/ Stop

CampaignSpec == CampaignInit /\ [][CampaignNext]_campaignVars

-----------------------------------------------------------------------------
(* Properties. *)

\* Fair turns: the campaign whose turn it is was not completed since every
\* other campaign listed ever since was, whatever runs were cut short,
\* whatever the source of their list and whatever was created meanwhile.
RoundRobin ==
  phase = "inventory" /\ left # {} => owed[First(left, from)] = {}
=============================================================================
