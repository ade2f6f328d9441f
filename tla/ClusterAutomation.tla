------------------------- MODULE ClusterAutomation -------------------------
(***************************************************************************)
(* The automation of one campaign. A pass reads the clusters, their state  *)
(* rows, the manager's lists and the baseline in parallel, then what has   *)
(* accrued, decides for every cluster, commands the differences when the   *)
(* mode is live, and writes all state rows back. The ten-minute round is   *)
(* one pass at a time; a manager's request (mode, review, lists) runs a    *)
(* pass of its own beside it. The daily regulator holds clusters back to   *)
(* keep the budget.                                                        *)
(***************************************************************************)
EXTENDS DecisionRules, Clusters

CONSTANTS
  Cron, Manager, \* the passes
  V2,            \* modes in which the accrual rule is switched on
  Inputs,        \* what statistics and the cabinet may say of a cluster
  Overtaking,    \* queries of a pass that may be answered before those sent earlier
  MaxEvents      \* requests of managers, new statistics, new clusters, moves in
                 \* the cabinet, regulator steps and failures, together

Input == [out : BOOLEAN, verdict : {"unknown", "good", "dear"}]

ASSUME AutomationAssumption ==
  /\ Cron # Manager
  /\ V2 \in {{}, {"preview"}, {"preview", "live"}}
  /\ Inputs \subseteq Input
  /\ MaxEvents \in Nat

Pass == {Cron, Manager}
Mode == {"off", "preview", "live"}
Part == {"inputs", "rows", "lists", "baseline"} \* the queries of a pass
NoRow == [state |-> "none", manual |-> FALSE, last |-> "none", review |-> "none"]
Row == [state : OutStates \union InStates \union {"pending_review"},
        manual : BOOLEAN, last : {"include", "exclude", "noop"},
        review : {"pending", "approved"}]
Unmanaged == [out |-> FALSE, verdict |-> "none"]

VARIABLES
  autoMode,  \* wb_campaign_automation.mode
  baselined, \* baselined_at is set
  view,      \* wb_clusters, its overlay and statistics: in or out, the verdict
  rows,      \* wb_cluster_automation_state
  held,      \* drr_held of the row
  role,      \* wb_cluster_automation_override
  by,        \* initiator of the latest command for the cluster
  pass,      \* what each pass is at
  unseen,    \* ghost: new since the baseline and reviewed by nobody
  steady,    \* ghost: by pass, where nobody else gave another instruction or
             \* moved the cluster since the pass began; none if it does not act
  events

autoVars == <<autoMode, baselined, view, rows, held, role, by, pass, unseen, steady, events>>

Idle == [step |-> "idle", mode |-> "off", got |-> {},
         inputs |-> [x \in Cluster |-> Unmanaged], rows |-> [x \in Cluster |-> NoRow],
         held |-> {}, role |-> [x \in Cluster |-> "none"], based |-> FALSE,
         exclude |-> {}, include |-> {}, junk |-> {}]

Managed(in) == {x \in Cluster : in[x] # Unmanaged}

AutoTypeOK ==
  /\ autoMode \in Mode /\ baselined \in BOOLEAN
  /\ view \in [Cluster -> Input \union {Unmanaged}]
  /\ rows \in [Cluster -> Row \union {NoRow}]
  /\ held \subseteq {x \in Cluster : rows[x] # NoRow}
  /\ role \in [Cluster -> {"none", "white", "black"}]
  /\ by \in [Cluster -> {"user", "automation"}]
  /\ \A p \in Pass :
       /\ pass[p].step \in {"idle", "asked", "reading", "excluding", "including", "storing",
                            "blacklisting", "approving", "marking"}
       /\ pass[p].step = "reading" => pass[p].mode # "off"
       /\ pass[p].exclude \intersect pass[p].include = {}
  /\ unseen \subseteq Cluster /\ steady \in [Pass -> SUBSET Cluster]
  /\ events \in 0..MaxEvents

\* The first pass, the one of the request that set the mode, has failed.
AutoInit ==
  /\ autoMode = "live" /\ baselined = FALSE
  /\ view \in [Cluster -> Inputs \union {Unmanaged}]
  /\ rows = [x \in Cluster |-> NoRow]
  /\ held = {}
  /\ role = [x \in Cluster |-> "none"]
  /\ by = [x \in Cluster |-> "user"]
  /\ pass = [p \in Pass |-> Idle]
  /\ unseen = {}
  /\ steady = [p \in Pass |-> {}]
  /\ events = 0

tables == <<autoMode, baselined, view, rows, held, role, by>>

Event == events < MaxEvents /\ events' = events + 1

\* A pass starts, in some mode; it stops.
Begun(p, m) == [pass EXCEPT ![p] = [Idle EXCEPT !.step = "reading", !.mode = m]]
Starts(p, m) == pass' = Begun(p, m) /\ steady' = [steady EXCEPT ![p] = Cluster]

\* Somebody outside a pass (p: of another pass than p) disturbs clusters.
Disturbed(S) == [p \in Pass |-> steady[p] \ S]
DisturbedBy(p, S) == [o \in Pass |-> IF o = p THEN steady[p] ELSE steady[o] \ S]

-----------------------------------------------------------------------------
\* The round of runAll: the mode is read when the round begins.
CronBegins ==
  /\ pass[Cron] = Idle /\ autoMode # "off"
  /\ Starts(Cron, autoMode)
  /\ UNCHANGED <<tables, unseen, events>>

ManagerSetsMode(m) ==
  /\ pass[Manager] = Idle
  /\ Event
  /\ autoMode' = m
  /\ IF m = "off" THEN UNCHANGED <<pass, steady>> ELSE Starts(Manager, m)
  /\ UNCHANGED <<baselined, view, rows, held, role, by, unseen>>

\* The override of a verdict of the review, then the status, then a pass.
ManagerReviews(x, r) ==
  /\ pass[Manager] = Idle
  /\ rows[x].review = "pending"
  /\ Event
  /\ role' = IF r = "none" THEN role ELSE [role EXCEPT ![x] = r]
  /\ pass' = [pass EXCEPT ![Manager] = [Idle EXCEPT !.step = "asked", !.junk = {x}]]
  /\ steady' = IF role' = role THEN steady ELSE Disturbed({x})
  /\ UNCHANGED <<autoMode, baselined, view, rows, held, by, unseen>>

ReviewDone ==
  /\ pass[Manager].step = "asked"
  /\ \E x \in pass[Manager].junk :
       /\ rows' = [rows EXCEPT ![x].review = "approved"]
       /\ unseen' = unseen \ {x}
  /\ IF autoMode = "off" THEN pass' = [pass EXCEPT ![Manager] = Idle] /\ UNCHANGED steady
     ELSE Starts(Manager, autoMode)
  /\ UNCHANGED <<autoMode, baselined, view, held, role, by, events>>

\* Both lists are replaced in one transaction (here one change); then a pass.
ManagerLists(x, r) ==
  /\ pass[Manager] = Idle
  /\ Event
  /\ r # role[x] /\ role' = [role EXCEPT ![x] = r]
  /\ pass' = IF autoMode = "off" THEN pass ELSE Begun(Manager, autoMode)
  /\ steady' = [Disturbed({x}) EXCEPT ![Manager] = IF autoMode = "off" THEN {} ELSE Cluster]
  /\ UNCHANGED <<autoMode, baselined, view, rows, held, by, unseen>>

-----------------------------------------------------------------------------
\* The parallel reads of evaluateOne; the pool sends them in this order.
SentBefore(part) == CASE part = "inputs" -> {}
                      [] part = "rows" -> {"inputs"}
                      [] part = "lists" -> {"inputs", "rows"}
                      [] part = "baseline" -> {"inputs", "rows", "lists"}

ReadPart(p, part) ==
  /\ pass[p].step = "reading" /\ part \in Part \ pass[p].got
  /\ part \notin Overtaking => SentBefore(part) \subseteq pass[p].got
  /\ LET q == [pass[p] EXCEPT !.got = @ \union {part}]
     IN  pass' = [pass EXCEPT ![p] = CASE part = "inputs" -> [q EXCEPT !.inputs = view]
                                       [] part = "rows" -> [q EXCEPT !.rows = rows, !.held = held]
                                       [] part = "lists" -> [q EXCEPT !.role = role]
                                       [] part = "baseline" -> [q EXCEPT !.based = baselined]]
  /\ UNCHANGED <<tables, unseen, steady, events>>

\* Faulty variant: a cluster without a row is taken for an old one.
ReviewOf_Known(q, x) == IF q.rows[x] # NoRow THEN q.rows[x].review ELSE "approved"

\* A cluster without a row is new when the campaign has its baseline.
ReviewOf(q, x) ==
  IF q.rows[x] # NoRow THEN q.rows[x].review
  ELSE IF q.based THEN "pending" ELSE "approved"

DecisionOf(q, x) ==
  LET manual == ByHand(q.rows[x].manual, q.mode, q.inputs[x].out, q.rows[x].last)
      state == Standing(q.mode \in V2, ReviewOf(q, x), q.role[x], q.mode \in V2 /\ x \in q.held,
                        q.inputs[x].verdict, manual)
  IN  [state |-> state,
       manual |-> manual /\ state \in {"manual_protected", "learning"},
       last |-> CommandOf(state, q.inputs[x].out),
       review |-> ReviewOf(q, x)]

Chosen(q, command) == {x \in Managed(q.inputs) : DecisionOf(q, x).last = command}

\* MAX_EXCLUDE_SHARE: a pass that would exclude more than 80 % commands nothing.
TooMany(q) == 5 * Cardinality(Chosen(q, "exclude")) > 4 * Cardinality(Managed(q.inputs))

\* Faulty variant: the state of a row that may not exist yet.
Reverted_Raw(q, x) ==
  [DecisionOf(q, x) EXCEPT !.last = "noop", !.state = q.rows[x].state,
                           !.manual = q.rows[x].manual]

\* revertBlockedDecisions.
Reverted(q, x) ==
  LET d == DecisionOf(q, x) IN
  IF d.last = "noop" THEN d
  ELSE [d EXCEPT !.last = "noop",
                 !.state = IF q.rows[x] = NoRow THEN "active" ELSE q.rows[x].state,
                 !.manual = IF q.rows[x] = NoRow THEN @ ELSE q.rows[x].manual]

\* The account is read last; under v2 it gives the verdicts.
WithAccount(q) ==
  [q EXCEPT !.inputs = [x \in Cluster |->
     IF x \in Managed(q.inputs) /\ q.mode \in V2
     THEN [q.inputs[x] EXCEPT !.verdict = view[x].verdict] ELSE q.inputs[x]]]

\* The decisions; junk are the pending clusters whose words managers rejected.
DecideAll(p) ==
  LET q == WithAccount(pass[p])
      blocked == q.mode = "live" /\ TooMany(q)
      act == q.mode = "live" /\ ~blocked
      decided == [x \in Cluster |-> IF x \notin Managed(q.inputs) THEN NoRow
                                    ELSE IF blocked THEN Reverted(q, x) ELSE DecisionOf(q, x)]
  IN  /\ q.step = "reading" /\ q.got = Part
      /\ \E junk \in SUBSET {x \in Cluster : decided[x].review = "pending"} :
           pass' = [pass EXCEPT ![p] =
                      [Idle EXCEPT !.step = IF act THEN "excluding" ELSE "storing",
                                   !.rows = decided, !.based = q.based,
                                   !.exclude = IF act THEN Chosen(q, "exclude") ELSE {},
                                   !.include = IF act THEN Chosen(q, "include") ELSE {},
                                   !.junk = junk]]
      /\ steady' = IF act THEN steady ELSE [steady EXCEPT ![p] = {}]
      /\ UNCHANGED <<tables, unseen, events>>

\* applyProductClusterAction: the overlay shows the wish at once.
Order(S, out) ==
  /\ view' = [x \in Cluster |-> IF x \in S /\ view[x] # Unmanaged
                                THEN [view[x] EXCEPT !.out = out] ELSE view[x]]
  /\ by' = [x \in Cluster |-> IF x \in S THEN "automation" ELSE by[x]]

OrderExcludes(p) ==
  /\ pass[p].step = "excluding"
  /\ Order(pass[p].exclude, TRUE)
  /\ pass' = [pass EXCEPT ![p].step = "including", ![p].exclude = {}]
  /\ steady' = DisturbedBy(p, pass[p].exclude)
  /\ UNCHANGED <<autoMode, baselined, rows, held, role, unseen, events>>

OrderIncludes(p) ==
  /\ pass[p].step = "including"
  /\ Order(pass[p].include, FALSE)
  /\ pass' = [pass EXCEPT ![p].step = "storing", ![p].include = {}]
  /\ steady' = DisturbedBy(p, pass[p].include)
  /\ UNCHANGED <<autoMode, baselined, rows, held, role, unseen, events>>

\* upsertClusterAutomationStates: every column but drr_held, from what was read.
StoreRows(p) ==
  LET q == pass[p] IN
  /\ q.step = "storing"
  /\ rows' = [x \in Cluster |-> IF q.rows[x] # NoRow THEN q.rows[x] ELSE rows[x]]
  /\ pass' = [pass EXCEPT ![p].step = IF q.junk = {} THEN "marking" ELSE "blacklisting",
                          ![p].rows = Idle.rows]
  /\ steady' = [steady EXCEPT ![p] = {}]
  /\ UNCHANGED <<autoMode, baselined, view, held, role, by, unseen, events>>

BlacklistJunk(p, x) ==
  /\ pass[p].step = "blacklisting" /\ x \in pass[p].junk
  /\ role' = [role EXCEPT ![x] = "black"]
  /\ pass' = [pass EXCEPT ![p].step = "approving", ![p].include = {x}]
  /\ steady' = Disturbed({x})
  /\ UNCHANGED <<autoMode, baselined, view, rows, held, by, unseen, events>>

ApproveJunk(p) ==
  LET q == pass[p] IN
  /\ q.step = "approving"
  /\ \E x \in q.include :
       /\ rows' = [rows EXCEPT ![x].review = "approved"]
       /\ unseen' = unseen \ {x}
       /\ pass' = [pass EXCEPT ![p].step = IF q.junk = {x} THEN "marking" ELSE "blacklisting",
                               ![p].junk = @ \ {x}, ![p].include = {}]
  /\ UNCHANGED <<autoMode, baselined, view, held, role, by, steady, events>>

MarkBaseline(p) ==
  /\ pass[p].step = "marking"
  /\ baselined' = (baselined \/ ~pass[p].based)
  /\ pass' = [pass EXCEPT ![p] = Idle]
  /\ UNCHANGED <<autoMode, view, rows, held, role, by, unseen, steady, events>>

\* A query or a command throws, or there is no threshold; whoever asked logs it.
PassThrows(p) ==
  /\ pass[p] # Idle
  /\ Event
  /\ pass' = [pass EXCEPT ![p] = Idle]
  /\ steady' = [steady EXCEPT ![p] = {}]
  /\ UNCHANGED <<tables, unseen>>

-----------------------------------------------------------------------------
\* The regulator: candidates are running clusters, or those it holds.
Regulate(S, hold) ==
  /\ S # {} /\ S \subseteq {x \in Cluster : rows[x] # NoRow}
  /\ IF hold THEN S \intersect held = {} /\ \A x \in S : rows[x].state \in {"active", "learning"}
             ELSE S \subseteq held
  /\ Event
  /\ held' = IF hold THEN held \union S ELSE held \ S
  /\ steady' = Disturbed(S)
  /\ UNCHANGED <<autoMode, baselined, view, rows, role, by, pass, unseen>>

\* Statistics arrive, or the cabinet, a sync or a manager moves the cluster.
Drift(x, in) ==
  /\ view[x] # Unmanaged /\ in # view[x]
  /\ Event
  /\ view' = [view EXCEPT ![x] = in]
  /\ by' = [by EXCEPT ![x] = IF in.out # view[x].out THEN "user" ELSE @]
  /\ steady' = IF in.out # view[x].out THEN Disturbed({x}) ELSE steady
  /\ UNCHANGED <<autoMode, baselined, rows, held, role, pass, unseen>>

\* WB adds a cluster; it is new when no pass goes on without the baseline.
Appear(x, in) ==
  /\ view[x] = Unmanaged
  /\ Event
  /\ view' = [view EXCEPT ![x] = in]
  /\ unseen' = IF baselined /\ \A p \in Pass : "baseline" \in pass[p].got => pass[p].based
               THEN unseen \union {x} ELSE unseen
  /\ UNCHANGED <<autoMode, baselined, rows, held, role, by, pass, steady>>

PassNext ==
  \E p \in Pass :
    \/ \E part \in Part : ReadPart(p, part)
    \/ DecideAll(p) \/ OrderExcludes(p) \/ OrderIncludes(p) \/ StoreRows(p)
    \/ \E x \in Cluster : BlacklistJunk(p, x)
    \/ ApproveJunk(p) \/ MarkBaseline(p) \/ PassThrows(p)

AutoNext ==
  \/ CronBegins
  \/ \E m \in Mode : ManagerSetsMode(m)
  \/ \E x \in Cluster, r \in {"none", "white", "black"} :
       ManagerReviews(x, r) \/ ManagerLists(x, r)
  \/ ReviewDone
  \/ PassNext
  \/ \E S \in SUBSET Cluster, hold \in BOOLEAN : Regulate(S, hold)
  \/ \E x \in Cluster, in \in Inputs : Drift(x, in) \/ Appear(x, in)

AutoSpec == AutoInit /\ [][AutoNext]_autoVars

-----------------------------------------------------------------------------
\* A cluster WB added after the baseline waits for a manager: no pass, however
\* stale what it read, commands it before somebody reviewed it (or its words
\* were rejected before); automation.service.ts:347-349.
QuarantineKept == \A x \in unseen : by[x] # "automation"

\* What a pass that acts has done to a reviewed cluster, when it has commanded:
\* on the black list, or held by the regulator (v2), the cluster is out; on the
\* white list it is in. This holds whatever ran beside the pass, unless another
\* instruction for the cluster, or another move of it, came after the pass began.
InstructionsObeyed ==
  \A p \in Pass, x \in Cluster :
    (pass[p].step = "storing" /\ x \in steady[p] /\ pass[p].rows[x].review = "approved") =>
      /\ role[x] = "black" => view[x].out
      /\ role[x] = "white" => ~view[x].out
      /\ role[x] = "none" /\ x \in held /\ "live" \in V2 => view[x].out
=============================================================================
