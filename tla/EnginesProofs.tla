--------------------------- MODULE EnginesProofs ----------------------------
(***************************************************************************)
(* Proofs about the engines and the page, for any clusters, campaigns and  *)
(* saves and any number of events and failures: in the automation of a     *)
(* campaign a new cluster waits for its review, and a pass obeys the       *)
(* manager's lists and the regulator; the bids of the engine stay within   *)
(* WB's bounds and move only for a reason; the table on the page belongs   *)
(* to the selected campaign and shows the saves that returned. Side by     *)
(* side each of them, and the account, does what its own specification     *)
(* allows.                                                                 *)
(***************************************************************************)
EXTENDS MCEngines, AccrualProofs

-----------------------------------------------------------------------------
(* The automation of a campaign. *)

PassStep == {"idle", "asked", "reading", "excluding", "including", "storing",
             "blacklisting", "approving", "marking"}
Role == {"none", "white", "black"}

PassRecord == [step : PassStep, mode : Mode, got : SUBSET Part,
               inputs : [Cluster -> Input \union {Unmanaged}],
               rows : [Cluster -> Row \union {NoRow}],
               held : SUBSET Cluster, role : [Cluster -> Role], based : BOOLEAN,
               exclude : SUBSET Cluster, include : SUBSET Cluster,
               junk : SUBSET Cluster]

TablesTyped ==
  /\ autoMode \in Mode /\ baselined \in BOOLEAN
  /\ view \in [Cluster -> Input \union {Unmanaged}]
  /\ rows \in [Cluster -> Row \union {NoRow}]
  /\ role \in [Cluster -> Role]
  /\ by \in [Cluster -> {"user", "automation"}]
  /\ unseen \subseteq Cluster

HeldTyped == held \subseteq {x \in Cluster : rows[x] # NoRow}

PassTyped == pass \in [Pass -> PassRecord]

\* What a pass holds at each of its steps; a set of commands is emptied by its
\* command, and the clusters to be approved have rows.
PassShape ==
  \A p \in Pass :
    /\ pass[p].step = "reading" => pass[p].mode # "off"
    /\ pass[p].step # "excluding" => pass[p].exclude = {}
    /\ pass[p].step \notin {"excluding", "including", "approving"} => pass[p].include = {}
    /\ pass[p].exclude \intersect pass[p].include = {}
    /\ pass[p].step \in {"asked", "blacklisting", "approving"} =>
         \A x \in pass[p].junk \union pass[p].include : rows[x] # NoRow
    /\ pass[p].step \in {"excluding", "including", "storing"} =>
         \A x \in pass[p].junk : pass[p].rows[x] # NoRow

EventsTyped == events \in 0..MaxEvents

AutoTyped == TablesTyped /\ HeldTyped /\ PassTyped /\ PassShape /\ EventsTyped

\* A cluster that WB has not shown yet is in no table and no pass.
Unborn ==
  \A x \in Cluster : view[x] = Unmanaged =>
    /\ rows[x] = NoRow /\ by[x] # "automation"
    /\ \A p \in Pass :
         /\ pass[p].inputs[x] = Unmanaged /\ pass[p].rows[x] = NoRow
         /\ x \notin pass[p].exclude \union pass[p].include \union pass[p].junk

Waits(r) == r = NoRow \/ r.review = "pending"

\* A new cluster: its row, and every copy of it, is missing or pending; a pass
\* that asked for the baseline found it; no pass is about to command it.
Quarantined ==
  \A x \in unseen :
    /\ view[x] # Unmanaged /\ baselined /\ Waits(rows[x]) /\ by[x] # "automation"
    /\ \A p \in Pass :
         /\ "baseline" \in pass[p].got => pass[p].based
         /\ Waits(pass[p].rows[x])
         /\ pass[p].step \in {"excluding", "including"} =>
              x \notin pass[p].exclude \union pass[p].include

AutoIInv == AutoTyped /\ Unborn /\ Quarantined

-----------------------------------------------------------------------------
\* An event is counted up to the bound.
LEMMA EventCounted == EventsTyped /\ Event => EventsTyped'
BY AutomationAssumption DEF EventsTyped, Event

\* The order of the rules gives every cluster a state.
LEMMA StandingTyped ==
  ASSUME NEW a \in BOOLEAN, NEW review \in {"pending", "approved"}, NEW r \in Role,
         NEW h \in BOOLEAN, NEW verdict \in {"unknown", "good", "dear"}, NEW manual \in BOOLEAN
  PROVE  /\ Standing(a, review, r, h, verdict, manual)
              \in OutStates \union InStates \union {"pending_review"}
         /\ review = "pending" => Standing(a, review, r, h, verdict, manual) = "pending_review"
         /\ review = "approved" /\ (r = "black" \/ (r = "none" /\ h)) =>
              Standing(a, review, r, h, verdict, manual) \in OutStates
         /\ review = "approved" /\ r = "white" =>
              Standing(a, review, r, h, verdict, manual) \in InStates
<1>1. CASE review = "pending"
  BY <1>1 DEF Standing
<1>2. CASE review = "approved" /\ r # "none"
  BY <1>2 DEF Standing, Role, OutStates, InStates
<1>3. CASE review = "approved" /\ r = "none" /\ h
  BY <1>3 DEF Standing, OutStates
<1>4. CASE review = "approved" /\ r = "none" /\ ~h
  BY <1>4 DEF Standing, OutStates, InStates
<1> QED
  BY <1>1, <1>2, <1>3, <1>4 DEF Role

\* A command is one of three, and none for a cluster that waits for its review.
LEMMA CommandTyped ==
  ASSUME NEW state \in OutStates \union InStates \union {"pending_review"}, NEW out \in BOOLEAN
  PROVE  /\ CommandOf(state, out) \in {"include", "exclude", "noop"}
         /\ state = "pending_review" => CommandOf(state, out) = "noop"
         /\ state \in OutStates => CommandOf(state, out) = IF out THEN "noop" ELSE "exclude"
         /\ state \in InStates => CommandOf(state, out) = IF out THEN "include" ELSE "noop"
<1>1. CASE state \in OutStates /\ ~out
  BY <1>1 DEF CommandOf, OutStates, InStates
<1>2. CASE state \in InStates /\ out
  BY <1>2 DEF CommandOf, OutStates, InStates
<1>3. CASE ~(state \in OutStates /\ ~out) /\ ~(state \in InStates /\ out)
  BY <1>3 DEF CommandOf
<1> QED
  BY <1>1, <1>2, <1>3 DEF CommandOf, OutStates, InStates

\* No row of the table is the missing row.
LEMMA RowsExist == ASSUME NEW r \in Row PROVE r # NoRow
<1>1. r.state # "none"
  BY DEF Row, OutStates, InStates
<1> QED
  BY <1>1 DEF NoRow

\* What a pass writes for a managed cluster is a row; a cluster that waits for
\* its review goes on waiting and is not commanded; the lists, and the regulator,
\* say what is commanded for a reviewed one.
LEMMA DecisionTyped ==
  ASSUME NEW q \in PassRecord, NEW x \in Cluster, q.inputs[x] # Unmanaged
  PROVE  /\ DecisionOf(q, x) \in Row /\ Reverted(q, x) \in Row
         /\ DecisionOf(q, x).review = ReviewOf(q, x)
         /\ Reverted(q, x).review = ReviewOf(q, x)
         /\ ReviewOf(q, x) = "pending" => DecisionOf(q, x).last = "noop"
         /\ ReviewOf(q, x) = "approved"
              /\ (q.role[x] = "black" \/ (q.role[x] = "none" /\ q.mode \in V2 /\ x \in q.held)) =>
              DecisionOf(q, x).last = IF q.inputs[x].out THEN "noop" ELSE "exclude"
         /\ ReviewOf(q, x) = "approved" /\ q.role[x] = "white" =>
              DecisionOf(q, x).last = IF q.inputs[x].out THEN "include" ELSE "noop"
<1> DEFINE manual == ByHand(q.rows[x].manual, q.mode, q.inputs[x].out, q.rows[x].last)
           h == q.mode \in V2 /\ x \in q.held
           v2 == q.mode \in V2
           state == Standing(v2, ReviewOf(q, x), q.role[x], h, q.inputs[x].verdict, manual)
           command == CommandOf(state, q.inputs[x].out)
<1>1. /\ q.inputs[x] \in Input /\ q.rows[x] \in Row \union {NoRow}
      /\ q.role[x] \in Role /\ q.based \in BOOLEAN
  BY DEF PassRecord
<1>2. q.inputs[x].out \in BOOLEAN /\ q.inputs[x].verdict \in {"unknown", "good", "dear"}
  BY <1>1 DEF Input
<1>3. q.rows[x].manual \in BOOLEAN
  <2>1. CASE q.rows[x] \in Row
    BY <2>1 DEF Row
  <2>2. CASE q.rows[x] = NoRow
    BY <2>2 DEF NoRow
  <2> QED
    BY <1>1, <2>1, <2>2
<1>4. manual \in BOOLEAN /\ h \in BOOLEAN /\ v2 \in BOOLEAN
  <2>1. h \in BOOLEAN /\ v2 \in BOOLEAN
    OBVIOUS
  <2>2. \A a, b, c, d : a \in BOOLEAN => (a \/ (b = "live" /\ ~c /\ d = "exclude")) \in BOOLEAN
    OBVIOUS
  <2> QED
    BY <1>3, <2>1, <2>2 DEF ByHand
<1>5. ReviewOf(q, x) \in {"pending", "approved"}
  BY <1>1 DEF ReviewOf, Row
<1> HIDE DEF manual, h, v2
<1>6. /\ state \in OutStates \union InStates \union {"pending_review"}
      /\ ReviewOf(q, x) = "pending" => state = "pending_review"
      /\ ReviewOf(q, x) = "approved" /\ (q.role[x] = "black" \/ (q.role[x] = "none" /\ h)) =>
           state \in OutStates
      /\ ReviewOf(q, x) = "approved" /\ q.role[x] = "white" => state \in InStates
  BY <1>1, <1>2, <1>4, <1>5, StandingTyped
<1>7. /\ command \in {"include", "exclude", "noop"}
      /\ state = "pending_review" => command = "noop"
      /\ state \in OutStates => command = IF q.inputs[x].out THEN "noop" ELSE "exclude"
      /\ state \in InStates => command = IF q.inputs[x].out THEN "include" ELSE "noop"
  BY <1>2, <1>6, CommandTyped
<1>8. (manual /\ state \in {"manual_protected", "learning"}) \in BOOLEAN
  OBVIOUS
<1> USE DEF manual, h, v2
<1>9. DecisionOf(q, x) = [state |-> state,
                          manual |-> manual /\ state \in {"manual_protected", "learning"},
                          last |-> command, review |-> ReviewOf(q, x)]
  BY DEF DecisionOf
<1> HIDE DEF manual, h, v2, state, command
<1>10. DecisionOf(q, x) \in Row
  BY <1>5, <1>6, <1>7, <1>8, <1>9 DEF Row
<1>11. DecisionOf(q, x).review = ReviewOf(q, x) /\ DecisionOf(q, x).last = command
  BY <1>9
<1>12. Reverted(q, x) \in Row /\ Reverted(q, x).review = DecisionOf(q, x).review
  <2>1. CASE DecisionOf(q, x).last = "noop"
    BY <1>10, <2>1 DEF Reverted
  <2>2. CASE DecisionOf(q, x).last # "noop" /\ q.rows[x] = NoRow
    BY <1>10, <2>2 DEF Reverted, Row, InStates
  <2>3. CASE DecisionOf(q, x).last # "noop" /\ q.rows[x] # NoRow
    BY <1>1, <1>10, <2>3 DEF Reverted, Row
  <2> QED
    BY <2>1, <2>2, <2>3
<1>13. /\ ReviewOf(q, x) = "approved"
            /\ (q.role[x] = "black" \/ (q.role[x] = "none" /\ q.mode \in V2 /\ x \in q.held)) =>
            command = IF q.inputs[x].out THEN "noop" ELSE "exclude"
       /\ ReviewOf(q, x) = "approved" /\ q.role[x] = "white" =>
            command = IF q.inputs[x].out THEN "include" ELSE "noop"
  BY <1>6, <1>7 DEF h
<1> QED
  BY <1>6, <1>7, <1>10, <1>11, <1>12, <1>13

\* The resting pass, and one that begins to read.
LEMMA IdleTyped ==
  /\ Idle \in PassRecord
  /\ \A m \in Mode : [Idle EXCEPT !.step = "reading", !.mode = m] \in PassRecord
  /\ \A x \in Cluster : [Idle EXCEPT !.step = "asked", !.junk = {x}] \in PassRecord
BY DEF Idle, PassRecord, PassStep, Mode, Part, Role

-----------------------------------------------------------------------------
\* A pass that begins, or that is put to rest, disturbs nothing; it may come
\* with another mode or another list.
LEMMA BeginsKeeps ==
  ASSUME AutoIInv, NEW p \in Pass, NEW q \in PassRecord,
         pass' = [pass EXCEPT ![p] = q],
         q.step \in {"idle", "reading", "asked"}, q.step = "reading" => q.mode # "off",
         q.got = {}, q.exclude = {}, q.include = {}, \A x \in q.junk : rows[x] # NoRow,
         \A x \in Cluster : q.inputs[x] = Unmanaged /\ q.rows[x] = NoRow,
         autoMode' \in Mode, role' \in [Cluster -> Role], EventsTyped',
         UNCHANGED <<baselined, view, rows, held, by, unseen>>
  PROVE  AutoIInv'
BY DEF AutoIInv, AutoTyped, TablesTyped, HeldTyped, PassTyped, PassShape,
       Unborn, Quarantined, Waits, PassRecord

\* The round begins, with the mode of the moment.
LEMMA CronBeginsKeeps == AutoIInv /\ CronBegins => AutoIInv'
<1> SUFFICES ASSUME AutoIInv, CronBegins PROVE AutoIInv'
  OBVIOUS
<1> DEFINE q == [Idle EXCEPT !.step = "reading", !.mode = autoMode]
<1>1. q \in PassRecord /\ Cron \in Pass /\ q.step = "reading" /\ q.mode # "off"
      /\ q.got = {} /\ q.exclude = {} /\ q.include = {} /\ q.junk = {}
      /\ \A x \in Cluster : q.inputs[x] = Unmanaged /\ q.rows[x] = NoRow
  BY IdleTyped DEF AutoIInv, AutoTyped, TablesTyped, CronBegins, Idle, Pass
<1>2. pass' = [pass EXCEPT ![Cron] = q]
  BY DEF CronBegins, Starts, Begun
<1>3. UNCHANGED <<autoMode, baselined, view, rows, held, role, by, unseen, events>>
  BY DEF CronBegins, tables
<1>4. autoMode' \in Mode /\ role' \in [Cluster -> Role] /\ EventsTyped'
  BY <1>3 DEF AutoIInv, AutoTyped, TablesTyped, EventsTyped
<1> HIDE DEF q
<1> QED
  BY <1>1, <1>2, <1>3, <1>4, BeginsKeeps

\* A request that changes the mode or the lists and then runs a pass, unless
\* the automation is off.
LEMMA RequestKeeps ==
  ASSUME AutoIInv, NEW m \in Mode, Event,
         pass' = IF m = "off" THEN pass
                 ELSE [pass EXCEPT ![Manager] = [Idle EXCEPT !.step = "reading", !.mode = m]],
         autoMode' \in Mode, role' \in [Cluster -> Role],
         UNCHANGED <<baselined, view, rows, held, by, unseen>>
  PROVE  AutoIInv'
<1>1. EventsTyped'
  BY EventCounted DEF AutoIInv, AutoTyped
<1>2. CASE m = "off"
  BY <1>1, <1>2
  DEF AutoIInv, AutoTyped, TablesTyped, HeldTyped, PassTyped, PassShape, Unborn,
      Quarantined, Waits
<1>3. CASE m # "off"
  <2> DEFINE q == [Idle EXCEPT !.step = "reading", !.mode = m]
  <2>1. q \in PassRecord /\ Manager \in Pass /\ q.step = "reading" /\ q.mode # "off"
        /\ q.got = {} /\ q.exclude = {} /\ q.include = {} /\ q.junk = {}
        /\ \A x \in Cluster : q.inputs[x] = Unmanaged /\ q.rows[x] = NoRow
    BY <1>3, IdleTyped DEF Idle, Pass
  <2>2. pass' = [pass EXCEPT ![Manager] = q]
    BY <1>3
  <2> HIDE DEF q
  <2> QED
    BY <1>1, <2>1, <2>2, BeginsKeeps
<1> QED
  BY <1>2, <1>3

\* PATCH of the mode.
LEMMA ManagerSetsModeKeeps ==
  ASSUME AutoIInv, NEW m \in Mode, ManagerSetsMode(m) PROVE AutoIInv'
BY RequestKeeps DEF ManagerSetsMode, Starts, Begun, AutoIInv, AutoTyped, TablesTyped

\* PUT of the lists.
LEMMA ManagerListsKeeps ==
  ASSUME AutoIInv, NEW x \in Cluster, NEW r \in Role, ManagerLists(x, r) PROVE AutoIInv'
<1>1. autoMode \in Mode /\ autoMode' \in Mode /\ role' \in [Cluster -> Role]
  BY DEF AutoIInv, AutoTyped, TablesTyped, ManagerLists
<1> QED
  BY <1>1, RequestKeeps DEF ManagerLists, Begun

\* The review of one cluster, its override first.
LEMMA ManagerReviewsKeeps ==
  ASSUME AutoIInv, NEW x \in Cluster, NEW r \in Role, ManagerReviews(x, r) PROVE AutoIInv'
<1> DEFINE q == [Idle EXCEPT !.step = "asked", !.junk = {x}]
<1>1. q \in PassRecord /\ Manager \in Pass /\ q.step = "asked"
      /\ q.got = {} /\ q.exclude = {} /\ q.include = {} /\ q.junk = {x}
      /\ \A y \in Cluster : q.inputs[y] = Unmanaged /\ q.rows[y] = NoRow
  BY IdleTyped DEF Idle, Pass
<1>2. rows[x] # NoRow
  BY DEF ManagerReviews, NoRow
<1>3. EventsTyped'
  BY EventCounted DEF ManagerReviews, AutoIInv, AutoTyped
<1>4. /\ pass' = [pass EXCEPT ![Manager] = q]
      /\ UNCHANGED <<autoMode, baselined, view, rows, held, by, unseen>>
  BY DEF ManagerReviews
<1>5. autoMode' \in Mode /\ role' \in [Cluster -> Role]
  BY DEF ManagerReviews, AutoIInv, AutoTyped, TablesTyped
<1> HIDE DEF q
<1> QED
  BY <1>1, <1>2, <1>3, <1>4, <1>5, BeginsKeeps

\* Whatever a pass was at, throwing puts it to rest.
LEMMA PassThrowsKeeps == ASSUME AutoIInv, NEW p \in Pass, PassThrows(p) PROVE AutoIInv'
<1>1. Idle \in PassRecord /\ Idle.step = "idle" /\ Idle.got = {} /\ Idle.exclude = {}
      /\ Idle.include = {} /\ Idle.junk = {}
      /\ \A x \in Cluster : Idle.inputs[x] = Unmanaged /\ Idle.rows[x] = NoRow
  BY IdleTyped DEF Idle
<1>2. EventsTyped'
  BY EventCounted DEF PassThrows, AutoIInv, AutoTyped
<1>3. /\ pass' = [pass EXCEPT ![p] = Idle]
      /\ UNCHANGED <<autoMode, baselined, view, rows, held, role, by, unseen>>
  BY DEF PassThrows, tables
<1>4. autoMode' \in Mode /\ role' \in [Cluster -> Role]
  BY <1>3 DEF AutoIInv, AutoTyped, TablesTyped
<1> QED
  BY <1>1, <1>2, <1>3, <1>4, BeginsKeeps

\* An approval gives up a cluster's quarantine with its row.
LEMMA ApprovedRow ==
  ASSUME TablesTyped, NEW x \in Cluster, rows[x] # NoRow
  PROVE  LET r == [rows EXCEPT ![x].review = "approved"]
         IN  /\ r \in [Cluster -> Row \union {NoRow}]
             /\ \A y \in Cluster : (r[y] = NoRow <=> rows[y] = NoRow)
             /\ \A y \in Cluster \ {x} : r[y] = rows[y]
<1> DEFINE r == [rows EXCEPT ![x].review = "approved"]
<1>1. rows[x] \in Row
  BY DEF TablesTyped
<1>2. [rows[x] EXCEPT !.review = "approved"] \in Row
  BY <1>1 DEF Row
<1>3. r = [rows EXCEPT ![x] = [rows[x] EXCEPT !.review = "approved"]]
  BY DEF TablesTyped
<1>4. [rows[x] EXCEPT !.review = "approved"] # NoRow
  BY <1>2, RowsExist
<1> HIDE DEF r
<1>5. /\ r \in [Cluster -> Row \union {NoRow}]
      /\ \A y \in Cluster : (r[y] = NoRow <=> rows[y] = NoRow)
      /\ \A y \in Cluster \ {x} : r[y] = rows[y]
  BY <1>2, <1>3, <1>4 DEF TablesTyped
<1> QED
  BY <1>5 DEF r

\* The review's status, then its pass.
LEMMA ReviewDoneKeeps == ASSUME AutoIInv, ReviewDone PROVE AutoIInv'
<1>1. PICK x \in pass[Manager].junk :
        /\ rows' = [rows EXCEPT ![x].review = "approved"]
        /\ unseen' = unseen \ {x}
  BY DEF ReviewDone
<1>2. Manager \in Pass /\ x \in Cluster /\ rows[x] # NoRow
  BY DEF Pass, AutoIInv, AutoTyped, PassTyped, PassRecord, PassShape, ReviewDone
<1>3. /\ rows' \in [Cluster -> Row \union {NoRow}]
      /\ \A y \in Cluster : (rows'[y] = NoRow <=> rows[y] = NoRow)
      /\ \A y \in Cluster \ {x} : rows'[y] = rows[y]
  BY <1>1, <1>2, ApprovedRow DEF AutoIInv, AutoTyped
<1> DEFINE q == IF autoMode = "off" THEN Idle
                ELSE [Idle EXCEPT !.step = "reading", !.mode = autoMode]
<1>4. /\ q \in PassRecord /\ q.step \in {"idle", "reading"}
      /\ q.step = "reading" => q.mode # "off"
      /\ q.got = {} /\ q.exclude = {} /\ q.include = {} /\ q.junk = {}
      /\ \A y \in Cluster : q.inputs[y] = Unmanaged /\ q.rows[y] = NoRow
  BY IdleTyped DEF Idle, AutoIInv, AutoTyped, TablesTyped
<1>5. /\ pass' = [pass EXCEPT ![Manager] = q]
      /\ UNCHANGED <<autoMode, baselined, view, held, role, by, events>>
  BY DEF ReviewDone, Starts, Begun
<1> HIDE DEF q
<1> QED
  BY <1>1, <1>2, <1>3, <1>4, <1>5
  DEF AutoIInv, AutoTyped, TablesTyped, HeldTyped, PassTyped, PassShape, EventsTyped,
      Unborn, Quarantined, Waits

-----------------------------------------------------------------------------
\* One of the parallel reads copies the tables of that moment.
LEMMA ReadPartKeeps ==
  ASSUME AutoIInv, NEW p \in Pass, NEW part \in Part, ReadPart(p, part) PROVE AutoIInv'
<1>1. /\ pass[p] \in PassRecord /\ pass[p].step = "reading" /\ part \notin pass[p].got
      /\ UNCHANGED <<autoMode, baselined, view, rows, held, role, by, unseen, events>>
  BY DEF ReadPart, tables, AutoIInv, AutoTyped, PassTyped
<1>2. PICK q \in PassRecord :
        /\ pass' = [pass EXCEPT ![p] = q]
        /\ q.step = "reading" /\ q.mode = pass[p].mode /\ q.got = pass[p].got \union {part}
        /\ q.exclude = pass[p].exclude /\ q.include = pass[p].include /\ q.junk = pass[p].junk
        /\ q.inputs \in {pass[p].inputs, view} /\ q.rows \in {pass[p].rows, rows}
        /\ part = "baseline" => q.based = baselined
        /\ part # "baseline" => q.based = pass[p].based
  <2>1. CASE part = "inputs"
    <3> DEFINE q == [pass[p] EXCEPT !.got = @ \union {part}, !.inputs = view]
    <3>1. held \subseteq Cluster
      BY DEF AutoIInv, AutoTyped, HeldTyped
    <3>2. q \in PassRecord /\ pass' = [pass EXCEPT ![p] = q]
      BY <1>1, <2>1, <3>1
      DEF ReadPart, PassRecord, AutoIInv, AutoTyped, TablesTyped, PassTyped, Part
    <3> QED
      BY <1>1, <2>1, <3>2 DEF PassRecord
  <2>2. CASE part = "rows"
    <3> DEFINE q == [pass[p] EXCEPT !.got = @ \union {part}, !.rows = rows, !.held = held]
    <3>1. held \subseteq Cluster
      BY DEF AutoIInv, AutoTyped, HeldTyped
    <3>2. q \in PassRecord /\ pass' = [pass EXCEPT ![p] = q]
      BY <1>1, <2>2, <3>1
      DEF ReadPart, PassRecord, AutoIInv, AutoTyped, TablesTyped, PassTyped, Part
    <3> QED
      BY <1>1, <2>2, <3>2 DEF PassRecord
  <2>3. CASE part = "lists"
    <3> DEFINE q == [pass[p] EXCEPT !.got = @ \union {part}, !.role = role]
    <3>1. held \subseteq Cluster
      BY DEF AutoIInv, AutoTyped, HeldTyped
    <3>2. q \in PassRecord /\ pass' = [pass EXCEPT ![p] = q]
      BY <1>1, <2>3, <3>1
      DEF ReadPart, PassRecord, AutoIInv, AutoTyped, TablesTyped, PassTyped, Part
    <3> QED
      BY <1>1, <2>3, <3>2 DEF PassRecord
  <2>4. CASE part = "baseline"
    <3> DEFINE q == [pass[p] EXCEPT !.got = @ \union {part}, !.based = baselined]
    <3>1. held \subseteq Cluster
      BY DEF AutoIInv, AutoTyped, HeldTyped
    <3>2. q \in PassRecord /\ pass' = [pass EXCEPT ![p] = q]
      BY <1>1, <2>4, <3>1
      DEF ReadPart, PassRecord, AutoIInv, AutoTyped, TablesTyped, PassTyped, Part
    <3> QED
      BY <1>1, <2>4, <3>2 DEF PassRecord
  <2> QED
    BY <2>1, <2>2, <2>3, <2>4 DEF Part
<1>3. AutoTyped'
  BY <1>1, <1>2
  DEF AutoIInv, AutoTyped, TablesTyped, HeldTyped, PassTyped, PassShape, EventsTyped
<1>4. Unborn'
  BY <1>1, <1>2 DEF AutoIInv, AutoTyped, PassTyped, Unborn
<1>5. Quarantined'
  BY <1>1, <1>2 DEF AutoIInv, AutoTyped, PassTyped, Quarantined, Waits, Part
<1> QED
  BY <1>3, <1>4, <1>5 DEF AutoIInv

\* A command moves the clusters it names, which are managed and not new.
LEMMA OrderKeeps ==
  ASSUME AutoIInv, NEW p \in Pass, NEW S \in SUBSET Cluster, NEW out \in BOOLEAN,
         NEW q \in PassRecord, Order(S, out),
         pass[p].step \in {"excluding", "including"},
         S \subseteq pass[p].exclude \union pass[p].include,
         q = [pass[p] EXCEPT !.step = "including", !.exclude = {}]
           \/ q = [pass[p] EXCEPT !.step = "storing", !.include = {}],
         q.exclude = {},
         pass' = [pass EXCEPT ![p] = q],
         UNCHANGED <<autoMode, baselined, rows, held, role, unseen, events>>
  PROVE  AutoIInv'
<1>1. view' \in [Cluster -> Input \union {Unmanaged}]
      /\ \A x \in Cluster : view'[x] = Unmanaged <=> view[x] = Unmanaged
  <2>1. \A v \in Input : [v EXCEPT !.out = out] \in Input
    BY DEF Input
  <2>2. \A v \in Input : v # Unmanaged
    BY DEF Input, Unmanaged
  <2> QED
    BY <2>1, <2>2 DEF Order, AutoIInv, AutoTyped, TablesTyped
<1>2. by' = [x \in Cluster |-> IF x \in S THEN "automation" ELSE by[x]]
  BY DEF Order
<1>3. /\ q.got = pass[p].got /\ q.based = pass[p].based /\ q.rows = pass[p].rows
      /\ q.inputs = pass[p].inputs /\ q.junk = pass[p].junk
      /\ q.include \subseteq pass[p].include /\ q.step \in {"including", "storing"}
      /\ q.step = "storing" => q.include = {}
  BY DEF PassRecord, AutoIInv, AutoTyped, PassTyped
<1>4. \A x \in S : x \notin unseen /\ view[x] # Unmanaged
  BY DEF AutoIInv, Unborn, Quarantined
<1>5. AutoTyped'
  BY <1>1, <1>2, <1>3
  DEF AutoIInv, AutoTyped, TablesTyped, HeldTyped, PassTyped, PassShape, EventsTyped
<1>6. Unborn'
  BY <1>1, <1>2, <1>3, <1>4
  DEF AutoIInv, AutoTyped, PassTyped, TablesTyped, Unborn
<1>7. Quarantined'
  BY <1>1, <1>2, <1>3, <1>4
  DEF AutoIInv, AutoTyped, PassTyped, TablesTyped, Quarantined, Waits
<1> QED
  BY <1>5, <1>6, <1>7 DEF AutoIInv

\* What the account says last changes no more than verdicts.
LEMMA WithAccountTyped ==
  ASSUME TablesTyped, PassTyped, Unborn, NEW p \in Pass
  PROVE  LET w == WithAccount(pass[p])
         IN  /\ w \in PassRecord
             /\ w.mode = pass[p].mode /\ w.rows = pass[p].rows /\ w.held = pass[p].held
             /\ w.role = pass[p].role /\ w.based = pass[p].based
             /\ w.got = pass[p].got /\ w.step = pass[p].step
             /\ \A x \in Cluster : /\ w.inputs[x] = Unmanaged <=> pass[p].inputs[x] = Unmanaged
                                  /\ w.inputs[x].out = pass[p].inputs[x].out
             /\ \A x \in Cluster : ReviewOf(w, x) = ReviewOf(pass[p], x)
<1> DEFINE c == pass[p]
           given == [x \in Cluster |->
                       IF x \in Managed(c.inputs) /\ c.mode \in V2
                       THEN [c.inputs[x] EXCEPT !.verdict = view[x].verdict] ELSE c.inputs[x]]
           w == [c EXCEPT !.inputs = given]
<1>1. c \in PassRecord
  BY DEF PassTyped
<1>2. \A v \in Input : v # Unmanaged
  BY DEF Input, Unmanaged
<1>3. ASSUME NEW x \in Cluster
      PROVE  /\ given[x] \in Input \union {Unmanaged}
             /\ given[x] = Unmanaged <=> c.inputs[x] = Unmanaged
             /\ given[x].out = c.inputs[x].out
  <2>1. CASE c.inputs[x] = Unmanaged
    BY <2>1 DEF Managed
  <2>2. CASE c.inputs[x] # Unmanaged
    <3>1. c.inputs[x] \in Input /\ view[x] \in Input
      BY <1>1, <2>2 DEF PassRecord, Unborn, TablesTyped
    <3>2. view[x].verdict \in {"unknown", "good", "dear"}
      BY <3>1 DEF Input
    <3>3. \A v \in Input, d \in {"unknown", "good", "dear"} :
            /\ [v EXCEPT !.verdict = d] \in Input
            /\ [v EXCEPT !.verdict = d].out = v.out
      BY DEF Input
    <3> QED
      BY <1>2, <2>2, <3>1, <3>2, <3>3
  <2> QED
    BY <2>1, <2>2
<1> HIDE DEF given
<1>4. given \in [Cluster -> Input \union {Unmanaged}]
  BY <1>3 DEF given
<1>5. w \in PassRecord
  BY <1>1, <1>4 DEF PassRecord
<1>6. /\ w.inputs = given /\ w.mode = c.mode /\ w.rows = c.rows /\ w.held = c.held
      /\ w.role = c.role /\ w.based = c.based /\ w.got = c.got /\ w.step = c.step
  BY <1>1 DEF PassRecord
<1>7. WithAccount(c) = w
  BY DEF WithAccount, given
<1> HIDE DEF w
<1> QED
  BY <1>3, <1>5, <1>6, <1>7 DEF ReviewOf

\* What the decisions of a pass are: rows for what it has seen, no command for
\* a cluster that waits, and no cluster in both commands; who acts commands
\* what the lists and the regulator ask for, as far as they have been read.
Decided(c, q) ==
  /\ q.step \in {"excluding", "storing"} /\ q.got = {} /\ q.based = c.based
  /\ q.step = "storing" => q.exclude = {} /\ q.include = {}
  /\ q.exclude \intersect q.include = {}
  /\ q.inputs = Idle.inputs
  /\ \A x \in Cluster :
       IF c.inputs[x] = Unmanaged
       THEN q.rows[x] = NoRow /\ x \notin q.exclude \union q.include
       ELSE /\ q.rows[x] \in Row
            /\ q.rows[x].review = ReviewOf(c, x)
            /\ ReviewOf(c, x) = "pending" => x \notin q.exclude \union q.include
            /\ q.step = "excluding" /\ q.rows[x].review = "approved" =>
                 /\ c.role[x] = "black" \/ (c.role[x] = "none" /\ x \in c.held /\ "live" \in V2) =>
                      /\ c.inputs[x].out \/ x \in q.exclude
                      /\ x \notin q.include
                 /\ c.role[x] = "white" =>
                      /\ ~c.inputs[x].out \/ x \in q.include
                      /\ x \notin q.exclude
  /\ \A x \in q.junk : q.rows[x] # NoRow

LEMMA DecideAllShape ==
  ASSUME NEW p \in Pass, TablesTyped, PassTyped, Unborn, DecideAll(p)
  PROVE  \E q \in PassRecord :
           /\ pass' = [pass EXCEPT ![p] = q]
           /\ Decided(pass[p], q)
           /\ steady' = IF q.step = "excluding" THEN steady ELSE [steady EXCEPT ![p] = {}]
<1> DEFINE w == WithAccount(pass[p])
<1>0. /\ w \in PassRecord
      /\ w.mode = pass[p].mode /\ w.held = pass[p].held
      /\ w.role = pass[p].role /\ w.based = pass[p].based
      /\ \A x \in Cluster : /\ w.inputs[x] = Unmanaged <=> pass[p].inputs[x] = Unmanaged
                           /\ w.inputs[x].out = pass[p].inputs[x].out
      /\ \A x \in Cluster : ReviewOf(w, x) = ReviewOf(pass[p], x)
  BY WithAccountTyped
<1> DEFINE blocked == w.mode = "live" /\ TooMany(w)
           act == w.mode = "live" /\ ~blocked
           decided == [x \in Cluster |-> IF x \notin Managed(w.inputs) THEN NoRow
                                         ELSE IF blocked THEN Reverted(w, x) ELSE DecisionOf(w, x)]
           E == IF act THEN Chosen(w, "exclude") ELSE {}
           I == IF act THEN Chosen(w, "include") ELSE {}
           S == IF act THEN "excluding" ELSE "storing"
<1>2. PICK junk \in SUBSET {x \in Cluster : decided[x].review = "pending"} :
        pass' = [pass EXCEPT ![p] =
                   [Idle EXCEPT !.step = S, !.rows = decided, !.based = w.based,
                                !.exclude = E, !.include = I, !.junk = junk]]
  BY DEF DecideAll
<1>1. steady' = IF S = "excluding" THEN steady ELSE [steady EXCEPT ![p] = {}]
  BY DEF DecideAll
<1> HIDE DEF w
<1> DEFINE q == [Idle EXCEPT !.step = S, !.rows = decided, !.based = w.based,
                             !.exclude = E, !.include = I, !.junk = junk]
<1>3. \A x \in Cluster :
        IF w.inputs[x] = Unmanaged THEN decided[x] = NoRow
        ELSE decided[x] \in Row /\ decided[x].review = ReviewOf(w, x)
  BY <1>0, DecisionTyped DEF Managed
<1>4. decided \in [Cluster -> Row \union {NoRow}]
  BY <1>3
<1>5. /\ E \subseteq Cluster /\ I \subseteq Cluster /\ E \intersect I = {}
      /\ S = "storing" => E = {} /\ I = {}
      /\ \A x \in E \union I : w.inputs[x] # Unmanaged /\ DecisionOf(w, x).last # "noop"
  BY DEF Chosen, Managed
<1>6. \A x \in E \union I : ReviewOf(w, x) # "pending"
  BY <1>0, <1>5, DecisionTyped
<1>7. S \in {"excluding", "storing"}
  OBVIOUS
<1>8. \A x \in junk : decided[x] # NoRow
  BY <1>2 DEF NoRow
<1>9. ASSUME NEW x \in Cluster, w.inputs[x] # Unmanaged, S = "excluding",
             ReviewOf(w, x) = "approved"
      PROVE  /\ w.role[x] = "black" \/ (w.role[x] = "none" /\ x \in w.held /\ "live" \in V2) =>
                  (w.inputs[x].out \/ x \in E) /\ x \notin I
             /\ w.role[x] = "white" => (~w.inputs[x].out \/ x \in I) /\ x \notin E
  <2>1. /\ w.mode = "live" /\ x \in Managed(w.inputs)
        /\ E = Chosen(w, "exclude") /\ I = Chosen(w, "include")
    BY <1>9 DEF Managed
  <2>2. /\ x \in E <=> DecisionOf(w, x).last = "exclude"
        /\ x \in I <=> DecisionOf(w, x).last = "include"
    BY <2>1 DEF Chosen
  <2> HIDE DEF E, I
  <2> QED
    BY <1>0, <1>9, <2>1, <2>2, DecisionTyped
<1> HIDE DEF decided, E, I, S
<1>10. q \in PassRecord
  BY <1>0, <1>2, <1>4, <1>5, <1>7, IdleTyped DEF PassRecord, PassStep
<1>11. /\ q.step = S /\ q.rows = decided /\ q.based = w.based /\ q.exclude = E
       /\ q.include = I /\ q.junk = junk /\ q.got = {} /\ q.inputs = Idle.inputs
  BY DEF Idle
<1>12. pass' = [pass EXCEPT ![p] = q]
  BY <1>2
<1> HIDE DEF q
<1>13. ASSUME NEW x \in Cluster
       PROVE  IF pass[p].inputs[x] = Unmanaged
              THEN q.rows[x] = NoRow /\ x \notin q.exclude \union q.include
              ELSE /\ q.rows[x] \in Row
                   /\ q.rows[x].review = ReviewOf(pass[p], x)
                   /\ ReviewOf(pass[p], x) = "pending" => x \notin q.exclude \union q.include
                   /\ q.step = "excluding" /\ q.rows[x].review = "approved" =>
                        /\ pass[p].role[x] = "black"
                            \/ (pass[p].role[x] = "none" /\ x \in pass[p].held /\ "live" \in V2) =>
                              /\ pass[p].inputs[x].out \/ x \in q.exclude
                              /\ x \notin q.include
                        /\ pass[p].role[x] = "white" =>
                              /\ ~pass[p].inputs[x].out \/ x \in q.include
                              /\ x \notin q.exclude
  <2>1. CASE w.inputs[x] = Unmanaged
    BY <1>0, <1>3, <1>5, <1>11, <2>1
  <2>2. CASE w.inputs[x] # Unmanaged
    BY <1>0, <1>3, <1>6, <1>9, <1>11, <2>2
  <2> QED
    BY <2>1, <2>2
<1>14. Decided(pass[p], q)
  BY <1>0, <1>5, <1>7, <1>8, <1>11, <1>13 DEF Decided
<1> QED
  BY <1>1, <1>10, <1>11, <1>12, <1>14

\* The decisions.
LEMMA DecideAllKeeps == ASSUME AutoIInv, NEW p \in Pass, DecideAll(p) PROVE AutoIInv'
<1>1. PICK q \in PassRecord : pass' = [pass EXCEPT ![p] = q] /\ Decided(pass[p], q)
  BY DecideAllShape DEF AutoIInv, AutoTyped
<1>2. /\ UNCHANGED <<autoMode, baselined, view, rows, held, role, by, unseen, events>>
      /\ "baseline" \in pass[p].got
  BY WithAccountTyped DEF DecideAll, tables, Part, AutoIInv, AutoTyped
<1>3. \A x \in Cluster : q.inputs[x] = Unmanaged
  BY <1>1 DEF Decided, Idle
<1>4. AutoTyped'
  BY <1>1, <1>2
  DEF Decided, AutoIInv, AutoTyped, TablesTyped, HeldTyped, PassTyped, PassShape, EventsTyped
<1>5. Unborn'
  <2>1. \A x \in Cluster : view[x] = Unmanaged => q.rows[x] = NoRow
                           /\ x \notin q.exclude \union q.include \union q.junk
    BY <1>1 DEF Decided, AutoIInv, Unborn
  <2> QED
    BY <1>1, <1>2, <1>3, <2>1 DEF AutoIInv, AutoTyped, PassTyped, Unborn
<1>6. Quarantined'
  <2>1. \A x \in unseen : ReviewOf(pass[p], x) = "pending"
    BY <1>2 DEF AutoIInv, Quarantined, Waits, ReviewOf
  <2>2. \A x \in unseen : Waits(q.rows[x]) /\ x \notin q.exclude \union q.include
    BY <1>1, <2>1 DEF Decided, Waits, AutoIInv, AutoTyped, TablesTyped
  <2> QED
    BY <1>1, <1>2, <2>2 DEF Decided, AutoIInv, AutoTyped, PassTyped, Quarantined
<1> QED
  BY <1>4, <1>5, <1>6 DEF AutoIInv

\* Both commands of a pass.
LEMMA OrderExcludesKeeps == ASSUME AutoIInv, NEW p \in Pass, OrderExcludes(p) PROVE AutoIInv'
<1> DEFINE q == [pass[p] EXCEPT !.step = "including", !.exclude = {}]
<1>1. pass[p] \in PassRecord /\ pass[p].step = "excluding"
  BY DEF OrderExcludes, AutoIInv, AutoTyped, PassTyped
<1>2. q \in PassRecord /\ q.exclude = {} /\ pass' = [pass EXCEPT ![p] = q]
  BY <1>1 DEF OrderExcludes, PassRecord, PassStep, AutoIInv, AutoTyped, PassTyped
<1>3. pass[p].exclude \in SUBSET Cluster
  BY <1>1 DEF PassRecord
<1>4. Order(pass[p].exclude, TRUE)
      /\ UNCHANGED <<autoMode, baselined, rows, held, role, unseen, events>>
  BY DEF OrderExcludes
<1>5. q = [pass[p] EXCEPT !.step = "including", !.exclude = {}]
  OBVIOUS
<1> HIDE DEF q
<1> QED
  BY <1>1, <1>2, <1>3, <1>4, <1>5, OrderKeeps

LEMMA OrderIncludesKeeps == ASSUME AutoIInv, NEW p \in Pass, OrderIncludes(p) PROVE AutoIInv'
<1> DEFINE q == [pass[p] EXCEPT !.step = "storing", !.include = {}]
<1>1. pass[p] \in PassRecord /\ pass[p].step = "including" /\ pass[p].exclude = {}
  BY DEF OrderIncludes, AutoIInv, AutoTyped, PassTyped, PassShape
<1>2. q \in PassRecord /\ q.exclude = {} /\ pass' = [pass EXCEPT ![p] = q]
  BY <1>1 DEF OrderIncludes, PassRecord, PassStep, AutoIInv, AutoTyped, PassTyped
<1>3. pass[p].include \in SUBSET Cluster
  BY <1>1 DEF PassRecord
<1>4. Order(pass[p].include, FALSE)
      /\ UNCHANGED <<autoMode, baselined, rows, held, role, unseen, events>>
  BY DEF OrderIncludes
<1>5. q = [pass[p] EXCEPT !.step = "storing", !.include = {}]
  OBVIOUS
<1> HIDE DEF q
<1> QED
  BY <1>1, <1>2, <1>3, <1>4, <1>5, OrderKeeps

-----------------------------------------------------------------------------
\* The upsert of all rows of a pass; a new cluster's row stays pending.
LEMMA StoreRowsKeeps == ASSUME AutoIInv, NEW p \in Pass, StoreRows(p) PROVE AutoIInv'
<1> DEFINE c == pass[p]
           q == [c EXCEPT !.step = IF c.junk = {} THEN "marking" ELSE "blacklisting",
                          !.rows = Idle.rows]
<1>1. c \in PassRecord /\ c.step = "storing" /\ c.include = {} /\ c.exclude = {}
  BY DEF StoreRows, AutoIInv, AutoTyped, PassTyped, PassShape
<1>2. q \in PassRecord /\ pass' = [pass EXCEPT ![p] = q]
  BY <1>1, IdleTyped DEF StoreRows, PassRecord, PassStep, AutoIInv, AutoTyped, PassTyped
<1>3. /\ q.step \in {"marking", "blacklisting"} /\ q.got = c.got /\ q.based = c.based
      /\ q.exclude = {} /\ q.include = {} /\ q.junk = c.junk /\ q.inputs = c.inputs
      /\ \A x \in Cluster : q.rows[x] = NoRow
  BY <1>1 DEF PassRecord, Idle
<1>4. /\ rows' = [x \in Cluster |-> IF c.rows[x] # NoRow THEN c.rows[x] ELSE rows[x]]
      /\ UNCHANGED <<autoMode, baselined, view, held, role, by, unseen, events>>
  BY DEF StoreRows
<1>5. /\ rows' \in [Cluster -> Row \union {NoRow}]
      /\ \A x \in Cluster : rows[x] # NoRow => rows'[x] # NoRow
      /\ \A x \in c.junk : rows'[x] # NoRow
  BY <1>1, <1>4 DEF PassRecord, AutoIInv, AutoTyped, TablesTyped, PassShape
<1>6. \A x \in Cluster : view[x] = Unmanaged => rows'[x] = NoRow
  BY <1>4 DEF AutoIInv, Unborn
<1>7. \A x \in unseen : Waits(rows'[x])
  BY <1>4 DEF AutoIInv, Quarantined, Waits, AutoTyped, TablesTyped
<1> HIDE DEF q
<1>8. AutoTyped'
  <2>1. TablesTyped' /\ HeldTyped' /\ PassTyped' /\ EventsTyped'
    BY <1>2, <1>4, <1>5
    DEF AutoIInv, AutoTyped, TablesTyped, HeldTyped, PassTyped, EventsTyped
  <2>2. PassShape'
    BY <1>2, <1>3, <1>5
    DEF AutoIInv, AutoTyped, TablesTyped, PassTyped, PassShape, PassRecord
  <2> QED
    BY <2>1, <2>2 DEF AutoTyped
<1>9. Unborn'
  BY <1>2, <1>3, <1>4, <1>6 DEF AutoIInv, AutoTyped, PassTyped, Unborn
<1>10. Quarantined'
  BY <1>2, <1>3, <1>4, <1>7
  DEF AutoIInv, AutoTyped, TablesTyped, PassTyped, Quarantined, Waits
<1> QED
  BY <1>8, <1>9, <1>10 DEF AutoIInv

\* The junk is blacklisted and approved one cluster at a time.
LEMMA BlacklistJunkKeeps ==
  ASSUME AutoIInv, NEW p \in Pass, NEW x \in Cluster, BlacklistJunk(p, x) PROVE AutoIInv'
<1> DEFINE q == [pass[p] EXCEPT !.step = "approving", !.include = {x}]
<1>1. pass[p] \in PassRecord /\ pass[p].step = "blacklisting" /\ x \in pass[p].junk
      /\ pass[p].exclude = {}
  BY DEF BlacklistJunk, AutoIInv, AutoTyped, PassTyped, PassShape
<1>2. q \in PassRecord /\ pass' = [pass EXCEPT ![p] = q]
  BY <1>1 DEF BlacklistJunk, PassRecord, PassStep, AutoIInv, AutoTyped, PassTyped
<1>3. /\ q.step = "approving" /\ q.got = pass[p].got /\ q.based = pass[p].based
      /\ q.exclude = {} /\ q.include = {x} /\ q.junk = pass[p].junk
      /\ q.inputs = pass[p].inputs /\ q.rows = pass[p].rows
  BY <1>1 DEF PassRecord
<1>4. /\ role' = [role EXCEPT ![x] = "black"] /\ role' \in [Cluster -> Role]
      /\ UNCHANGED <<autoMode, baselined, view, rows, held, by, unseen, events>>
  BY DEF BlacklistJunk, Role, AutoIInv, AutoTyped, TablesTyped
<1> HIDE DEF q
<1>5. AutoTyped'
  BY <1>1, <1>2, <1>3, <1>4
  DEF AutoIInv, AutoTyped, TablesTyped, HeldTyped, PassTyped, PassShape, EventsTyped
<1>6. Unborn'
  BY <1>1, <1>2, <1>3, <1>4 DEF AutoIInv, AutoTyped, PassTyped, Unborn
<1>7. Quarantined'
  BY <1>2, <1>3, <1>4 DEF AutoIInv, AutoTyped, PassTyped, Quarantined, Waits
<1> QED
  BY <1>5, <1>6, <1>7 DEF AutoIInv

LEMMA ApproveJunkKeeps == ASSUME AutoIInv, NEW p \in Pass, ApproveJunk(p) PROVE AutoIInv'
<1> DEFINE c == pass[p]
<1>1. c \in PassRecord /\ c.step = "approving" /\ c.exclude = {}
  BY DEF ApproveJunk, AutoIInv, AutoTyped, PassTyped, PassShape
<1>2. PICK x \in c.include :
        /\ rows' = [rows EXCEPT ![x].review = "approved"]
        /\ unseen' = unseen \ {x}
        /\ pass' = [pass EXCEPT ![p].step = IF c.junk = {x} THEN "marking" ELSE "blacklisting",
                                ![p].junk = @ \ {x}, ![p].include = {}]
  BY DEF ApproveJunk
<1> DEFINE q == [c EXCEPT !.step = IF c.junk = {x} THEN "marking" ELSE "blacklisting",
                          !.junk = c.junk \ {x}, !.include = {}]
<1>3. x \in Cluster /\ rows[x] # NoRow
  BY <1>1 DEF AutoIInv, AutoTyped, PassShape, PassRecord
<1>4. q \in PassRecord /\ pass' = [pass EXCEPT ![p] = q]
  BY <1>1, <1>2 DEF PassRecord, PassStep, AutoIInv, AutoTyped, PassTyped
<1>5. /\ q.step \in {"marking", "blacklisting"} /\ q.got = c.got /\ q.based = c.based
      /\ q.exclude = {} /\ q.include = {} /\ q.junk \subseteq c.junk
      /\ q.inputs = c.inputs /\ q.rows = c.rows
  BY <1>1 DEF PassRecord
<1>6. /\ rows' \in [Cluster -> Row \union {NoRow}]
      /\ \A y \in Cluster : (rows'[y] = NoRow <=> rows[y] = NoRow)
      /\ \A y \in Cluster \ {x} : rows'[y] = rows[y]
  BY <1>2, <1>3, ApprovedRow DEF AutoIInv, AutoTyped
<1>7. UNCHANGED <<autoMode, baselined, view, held, role, by, events>>
  BY DEF ApproveJunk
<1> HIDE DEF q
<1>8. AutoTyped'
  <2>0. unseen' \subseteq Cluster
    BY <1>2 DEF AutoIInv, AutoTyped, TablesTyped
  <2>1. TablesTyped' /\ HeldTyped' /\ PassTyped' /\ EventsTyped'
    BY <2>0, <1>4, <1>6, <1>7
    DEF AutoIInv, AutoTyped, TablesTyped, HeldTyped, PassTyped, EventsTyped
  <2>2. PassShape'
    <3> SUFFICES ASSUME NEW o \in Pass
                 PROVE  /\ pass'[o].step = "reading" => pass'[o].mode # "off"
                        /\ pass'[o].step # "excluding" => pass'[o].exclude = {}
                        /\ pass'[o].step \notin {"excluding", "including", "approving"}
                             => pass'[o].include = {}
                        /\ pass'[o].exclude \intersect pass'[o].include = {}
                        /\ pass'[o].step \in {"asked", "blacklisting", "approving"} =>
                             \A y \in pass'[o].junk \union pass'[o].include : rows'[y] # NoRow
                        /\ pass'[o].step \in {"excluding", "including", "storing"} =>
                             \A y \in pass'[o].junk : pass'[o].rows[y] # NoRow
      BY DEF PassShape
    <3>1. pass[o] \in PassRecord
      BY DEF AutoIInv, AutoTyped, PassTyped
    <3>2. CASE o = p
      <4>1. pass'[o] = q
        BY <1>4, <3>2 DEF AutoIInv, AutoTyped, PassTyped
      <4>2. \A y \in q.junk : y \in Cluster /\ rows[y] # NoRow
        BY <1>1, <1>5 DEF PassRecord, AutoIInv, AutoTyped, PassShape
      <4> QED
        BY <1>5, <1>6, <4>1, <4>2
    <3>3. CASE o # p
      <4>1. pass'[o] = pass[o]
        BY <1>4, <3>3 DEF AutoIInv, AutoTyped, PassTyped
      <4>2. \A y \in pass[o].junk \union pass[o].include : y \in Cluster
        BY <3>1 DEF PassRecord
      <4> QED
        BY <1>6, <4>1, <4>2 DEF AutoIInv, AutoTyped, PassShape
    <3> QED
      BY <3>2, <3>3
  <2> QED
    BY <2>1, <2>2 DEF AutoTyped
<1>9. Unborn'
  BY <1>4, <1>5, <1>6, <1>7 DEF AutoIInv, AutoTyped, PassTyped, Unborn
<1>10. Quarantined'
  <2>1. \A y \in unseen' : y \in unseen /\ y \in Cluster /\ rows'[y] = rows[y]
    BY <1>2, <1>6 DEF AutoIInv, AutoTyped, TablesTyped
  <2>2. \A y \in unseen' : view'[y] # Unmanaged /\ baselined' /\ Waits(rows'[y])
                           /\ by'[y] # "automation"
    BY <1>7, <2>1 DEF AutoIInv, Quarantined, Waits
  <2>3. ASSUME NEW y \in unseen', NEW o \in Pass
        PROVE  /\ "baseline" \in pass'[o].got => pass'[o].based
               /\ Waits(pass'[o].rows[y])
               /\ pass'[o].step \in {"excluding", "including"} =>
                    y \notin pass'[o].exclude \union pass'[o].include
    BY <1>4, <1>5, <2>1 DEF AutoIInv, AutoTyped, PassTyped, Quarantined, Waits
  <2> QED
    BY <2>2, <2>3 DEF Quarantined, Waits
<1> QED
  BY <1>8, <1>9, <1>10 DEF AutoIInv

\* The end of a pass; a baseline once set stays.
LEMMA MarkBaselineKeeps == ASSUME AutoIInv, NEW p \in Pass, MarkBaseline(p) PROVE AutoIInv'
<1>1. Idle \in PassRecord /\ Idle.step = "idle" /\ Idle.got = {} /\ Idle.exclude = {}
      /\ Idle.include = {} /\ Idle.junk = {}
      /\ \A x \in Cluster : Idle.inputs[x] = Unmanaged /\ Idle.rows[x] = NoRow
  BY IdleTyped DEF Idle
<1>2. /\ pass' = [pass EXCEPT ![p] = Idle] /\ baselined' \in BOOLEAN
      /\ baselined => baselined'
      /\ UNCHANGED <<autoMode, view, rows, held, role, by, unseen, events>>
  BY DEF MarkBaseline
<1> QED
  BY <1>1, <1>2
  DEF AutoIInv, AutoTyped, TablesTyped, HeldTyped, PassTyped, PassShape, EventsTyped,
      Unborn, Quarantined, Waits

-----------------------------------------------------------------------------
\* The regulator, and what happens around the automation.
LEMMA RegulateKeeps ==
  ASSUME AutoIInv, NEW S \in SUBSET Cluster, NEW hold \in BOOLEAN, Regulate(S, hold)
  PROVE  AutoIInv'
<1>1. EventsTyped'
  BY EventCounted DEF Regulate, AutoIInv, AutoTyped
<1>2. HeldTyped'
  BY DEF Regulate, AutoIInv, AutoTyped, HeldTyped
<1>3. UNCHANGED <<autoMode, baselined, view, rows, role, by, pass, unseen>>
  BY DEF Regulate
<1> QED
  BY <1>1, <1>2, <1>3
  DEF AutoIInv, AutoTyped, TablesTyped, PassTyped, PassShape, Unborn, Quarantined, Waits

LEMMA DriftKeeps ==
  ASSUME AutoIInv, NEW x \in Cluster, NEW in \in Input, Drift(x, in) PROVE AutoIInv'
<1>1. EventsTyped'
  BY EventCounted DEF Drift, AutoIInv, AutoTyped
<1>2. in # Unmanaged
  BY DEF Input, Unmanaged
<1>3. /\ view[x] # Unmanaged /\ view' = [view EXCEPT ![x] = in]
      /\ by' = [by EXCEPT ![x] = IF in.out # view[x].out THEN "user" ELSE @]
      /\ UNCHANGED <<autoMode, baselined, rows, held, role, pass, unseen>>
  BY DEF Drift
<1> QED
  BY <1>1, <1>2, <1>3
  DEF AutoIInv, AutoTyped, TablesTyped, HeldTyped, PassTyped, PassShape, Unborn,
      Quarantined, Waits

\* A new cluster begins its life in quarantine when everybody knows of the
\* baseline, because no table and no pass has seen it yet.
LEMMA AppearKeeps ==
  ASSUME AutoIInv, NEW x \in Cluster, NEW in \in Input, Appear(x, in) PROVE AutoIInv'
<1>1. EventsTyped'
  BY EventCounted DEF Appear, AutoIInv, AutoTyped
<1>2. in # Unmanaged
  BY DEF Input, Unmanaged
<1>3. /\ view[x] = Unmanaged /\ view' = [view EXCEPT ![x] = in]
      /\ UNCHANGED <<autoMode, baselined, rows, held, role, by, pass>>
      /\ unseen' \in {unseen, unseen \union {x}}
      /\ unseen' # unseen =>
           baselined /\ \A p \in Pass : "baseline" \in pass[p].got => pass[p].based
  BY DEF Appear
<1>4. /\ Waits(rows[x]) /\ by[x] # "automation"
      /\ \A p \in Pass : /\ Waits(pass[p].rows[x])
                         /\ x \notin pass[p].exclude \union pass[p].include
  BY <1>3 DEF AutoIInv, Unborn, Waits
<1>5. AutoTyped'
  BY <1>1, <1>3
  DEF AutoIInv, AutoTyped, TablesTyped, HeldTyped, PassTyped, PassShape
<1>6. Unborn'
  BY <1>2, <1>3 DEF AutoIInv, AutoTyped, TablesTyped, Unborn
<1>7. Quarantined'
  BY <1>2, <1>3, <1>4 DEF AutoIInv, AutoTyped, TablesTyped, Quarantined, Waits
<1> QED
  BY <1>5, <1>6, <1>7 DEF AutoIInv

-----------------------------------------------------------------------------
\* The strengthening holds at the start and is kept by every step.
LEMMA AutoInvariant == AutoSpec => []AutoIInv
<1>1. AutoInit => AutoIInv
  <2> SUFFICES ASSUME AutoInit PROVE AutoIInv
    OBVIOUS
  <2>1. view \in [Cluster -> Input \union {Unmanaged}] /\ autoMode \in Mode
    BY AutomationAssumption DEF Mode, AutoInit
  <2>0. EventsTyped
    BY AutomationAssumption DEF AutoInit, EventsTyped
  <2>2. TablesTyped /\ HeldTyped
    BY <2>1 DEF AutoInit, TablesTyped, HeldTyped, Role
  <2>3. PassTyped
    BY IdleTyped DEF AutoInit, PassTyped
  <2>4. \A p \in Pass : pass[p].step = "idle" /\ pass[p].exclude = {} /\ pass[p].include = {}
          /\ pass[p].junk = {} /\ \A x \in Cluster : pass[p].inputs[x] = Unmanaged
                                                 /\ pass[p].rows[x] = NoRow
    BY DEF AutoInit, Idle
  <2>5. PassShape /\ Unborn /\ Quarantined
    BY <2>4 DEF AutoInit, PassShape, Unborn, Quarantined
  <2> QED
    BY <2>0, <2>2, <2>3, <2>5 DEF AutoIInv, AutoTyped
<1>2. AutoIInv /\ [AutoNext]_autoVars => AutoIInv'
  <2> SUFFICES ASSUME AutoIInv, [AutoNext]_autoVars PROVE AutoIInv'
    OBVIOUS
  <2>1. CASE UNCHANGED autoVars
    BY <2>1
    DEF autoVars, AutoIInv, AutoTyped, TablesTyped, HeldTyped, PassTyped, PassShape,
        EventsTyped, Unborn, Quarantined, Waits
  <2>2. CASE PassNext
    BY <2>2, ReadPartKeeps, DecideAllKeeps, OrderExcludesKeeps, OrderIncludesKeeps,
       StoreRowsKeeps, BlacklistJunkKeeps, ApproveJunkKeeps, MarkBaselineKeeps,
       PassThrowsKeeps DEF PassNext
  <2>3. CASE AutoNext /\ ~PassNext
    BY <2>3, CronBeginsKeeps, ManagerSetsModeKeeps, ManagerReviewsKeeps, ManagerListsKeeps,
       ReviewDoneKeeps, RegulateKeeps, DriftKeeps, AppearKeeps, AutomationAssumption
       DEF AutoNext, Role
  <2> QED
    BY <2>1, <2>2, <2>3
<1> QED
  BY <1>1, <1>2, PTL DEF AutoSpec

-----------------------------------------------------------------------------
(* What a pass does with the manager's lists and the regulator's holds. *)

SteadyTyped == steady \in [Pass -> SUBSET Cluster]

Working == {"reading", "excluding", "including", "storing"}

\* Of the undisturbed clusters, what a pass has read is still so.
Copied(p) ==
  pass[p].step = "reading" =>
    \A x \in steady[p] :
      /\ "inputs" \in pass[p].got =>
           pass[p].inputs[x] = Unmanaged \/ pass[p].inputs[x].out = view[x].out
      /\ "rows" \in pass[p].got => (x \in pass[p].held <=> x \in held)
      /\ "lists" \in pass[p].got => pass[p].role[x] = role[x]

\* An undisturbed and reviewed cluster is where the lists and the regulator want
\* it, or about to be commanded there, and not to be commanded away.
Commanded(p) ==
  pass[p].step \in {"excluding", "including", "storing"} =>
    \A x \in steady[p] : pass[p].rows[x].review = "approved" =>
      /\ role[x] = "black" \/ (role[x] = "none" /\ x \in held /\ "live" \in V2) =>
           (view[x].out \/ x \in pass[p].exclude) /\ x \notin pass[p].include
      /\ role[x] = "white" =>
           (~view[x].out \/ x \in pass[p].include) /\ x \notin pass[p].exclude

Instructed(p) ==
  /\ pass[p].step \notin Working => steady[p] = {}
  /\ Copied(p) /\ Commanded(p)

InstructIInv == SteadyTyped /\ \A p \in Pass : Instructed(p)

\* A pass does not notice what is done to clusters that are disturbed for it, to
\* clusters it has not seen, and to rows.
LEMMA ElsewhereKeeps ==
  ASSUME AutoIInv, NEW p \in Pass, Instructed(p),
         pass'[p] = pass[p], steady'[p] \subseteq steady[p],
         \A x \in steady'[p] :
           /\ role'[x] = role[x] /\ (x \in held' <=> x \in held)
           /\ view'[x].out = view[x].out \/ view[x] = Unmanaged,
         steady[p] \subseteq Cluster
  PROVE  Instructed(p)'
<1>1. \A x \in steady[p] : view[x] = Unmanaged =>
        pass[p].inputs[x] = Unmanaged /\ pass[p].rows[x].review # "approved"
  BY DEF AutoIInv, Unborn, NoRow
<1>2. Copied(p)'
  BY <1>1 DEF Instructed, Copied
<1>3. Commanded(p)'
  BY <1>1 DEF Instructed, Commanded
<1>4. (pass[p].step \notin Working => steady[p] = {})'
  BY DEF Instructed
<1> QED
  BY <1>2, <1>3, <1>4 DEF Instructed

\* A pass that begins has read nothing and commanded nothing.
LEMMA BegunInstructed ==
  ASSUME NEW p \in Pass, pass'[p].step = "reading", pass'[p].got = {}
  PROVE  Instructed(p)'
BY DEF Instructed, Copied, Commanded, Working

\* Without an undisturbed cluster there is nothing to obey.
LEMMA DisturbedInstructed == ASSUME NEW p \in Pass, steady'[p] = {} PROVE Instructed(p)'
BY DEF Instructed, Copied, Commanded

\* Somebody outside the passes acts; a pass may begin with that.
LEMMA OutsideKeeps ==
  ASSUME AutoIInv, InstructIInv, SteadyTyped',
         \A p \in Pass :
           \/ pass'[p].step = "reading" /\ pass'[p].got = {}
           \/ /\ pass'[p] = pass[p] /\ steady'[p] \subseteq steady[p]
              /\ \A x \in steady'[p] :
                   /\ role'[x] = role[x] /\ (x \in held' <=> x \in held)
                   /\ view'[x].out = view[x].out \/ view[x] = Unmanaged
  PROVE  InstructIInv'
<1> SUFFICES ASSUME NEW p \in Pass PROVE Instructed(p)'
  BY DEF InstructIInv
<1>1. steady[p] \subseteq Cluster /\ Instructed(p)
  BY DEF InstructIInv, SteadyTyped
<1> QED
  BY <1>1, BegunInstructed, ElsewhereKeeps

\* The round begins.
LEMMA CronBeginsInstructed == AutoIInv /\ InstructIInv /\ CronBegins => InstructIInv'
<1> SUFFICES ASSUME AutoIInv, InstructIInv, CronBegins PROVE InstructIInv'
  OBVIOUS
<1>1. pass \in [Pass -> PassRecord] /\ SteadyTyped /\ Cron \in Pass
  BY DEF AutoIInv, AutoTyped, PassTyped, InstructIInv, Pass
<1>2. SteadyTyped'
  BY <1>1 DEF CronBegins, Starts, SteadyTyped
<1>3. /\ pass'[Cron].step = "reading" /\ pass'[Cron].got = {}
      /\ \A p \in Pass \ {Cron} : pass'[p] = pass[p] /\ steady'[p] = steady[p]
  BY <1>1 DEF CronBegins, Starts, Begun, Idle, SteadyTyped
<1>4. UNCHANGED <<role, held, view>>
  BY DEF CronBegins, tables
<1> QED
  BY <1>2, <1>3, <1>4, OutsideKeeps

\* PATCH of the mode.
LEMMA ManagerSetsModeInstructed ==
  ASSUME AutoIInv, InstructIInv, NEW m \in Mode, ManagerSetsMode(m) PROVE InstructIInv'
<1>1. pass \in [Pass -> PassRecord] /\ SteadyTyped /\ Manager \in Pass
  BY DEF AutoIInv, AutoTyped, PassTyped, InstructIInv, Pass
<1>2. SteadyTyped'
  BY <1>1 DEF ManagerSetsMode, Starts, SteadyTyped
<1>3. \A p \in Pass : \/ pass'[p].step = "reading" /\ pass'[p].got = {}
                      \/ pass'[p] = pass[p] /\ steady'[p] = steady[p]
  BY <1>1 DEF ManagerSetsMode, Starts, Begun, Idle, SteadyTyped
<1>4. UNCHANGED <<role, held, view>>
  BY DEF ManagerSetsMode
<1> QED
  BY <1>2, <1>3, <1>4, OutsideKeeps

\* PUT of the lists: the cluster that changes lists is disturbed for every pass
\* under way, and not for the one that follows.
LEMMA ManagerListsInstructed ==
  ASSUME AutoIInv, InstructIInv, NEW x \in Cluster, NEW r \in Role, ManagerLists(x, r)
  PROVE  InstructIInv'
<1>1. /\ pass \in [Pass -> PassRecord] /\ SteadyTyped /\ Manager \in Pass
      /\ role \in [Cluster -> Role]
  BY DEF AutoIInv, AutoTyped, TablesTyped, PassTyped, InstructIInv, Pass
<1>2. /\ steady' = [Disturbed({x}) EXCEPT ![Manager] = IF autoMode = "off" THEN {} ELSE Cluster]
      /\ role' = [role EXCEPT ![x] = r]
      /\ pass' = IF autoMode = "off" THEN pass ELSE Begun(Manager, autoMode)
      /\ pass[Manager] = Idle /\ UNCHANGED <<held, view>>
  BY DEF ManagerLists
<1>3. /\ steady'[Manager] = IF autoMode = "off" THEN {} ELSE Cluster
      /\ \A p \in Pass \ {Manager} : steady'[p] = steady[p] \ {x}
  BY <1>1, <1>2 DEF Disturbed
<1>4. SteadyTyped'
  BY <1>1, <1>2 DEF SteadyTyped, Disturbed
<1>5. \A p \in Pass : \/ pass'[p].step = "reading" /\ pass'[p].got = {}
                      \/ pass'[p] = pass[p] /\ steady'[p] \subseteq steady[p] \ {x}
  <2>1. CASE autoMode = "off"
    BY <1>2, <1>3, <2>1
  <2>2. CASE autoMode # "off"
    <3>1. /\ pass'[Manager].step = "reading" /\ pass'[Manager].got = {}
          /\ \A p \in Pass \ {Manager} : pass'[p] = pass[p]
      BY <1>1, <1>2, <2>2 DEF Begun, Idle
    <3> QED
      BY <1>3, <3>1
  <2> QED
    BY <2>1, <2>2
<1>6. \A p \in Pass : \A y \in steady[p] \ {x} : role'[y] = role[y]
  BY <1>1, <1>2 DEF SteadyTyped
<1> QED
  BY <1>2, <1>4, <1>5, <1>6, OutsideKeeps

\* The review of a cluster: its override, if any, disturbs it.
LEMMA ManagerReviewsInstructed ==
  ASSUME AutoIInv, InstructIInv, NEW x \in Cluster, NEW r \in Role, ManagerReviews(x, r)
  PROVE  InstructIInv'
<1>1. /\ pass \in [Pass -> PassRecord] /\ SteadyTyped /\ Manager \in Pass
      /\ role \in [Cluster -> Role] /\ "idle" \notin Working
  BY DEF AutoIInv, AutoTyped, TablesTyped, PassTyped, InstructIInv, Pass, Working
<1>2. /\ pass[Manager] = Idle /\ UNCHANGED <<held, view>>
      /\ pass' = [pass EXCEPT ![Manager] = [Idle EXCEPT !.step = "asked", !.junk = {x}]]
      /\ role' = IF r = "none" THEN role ELSE [role EXCEPT ![x] = r]
      /\ steady' = IF role' = role THEN steady ELSE Disturbed({x})
  BY DEF ManagerReviews
<1>3. steady[Manager] = {}
  BY <1>1, <1>2 DEF InstructIInv, Instructed, Idle
<1>4. \A p \in Pass : /\ steady'[p] \subseteq steady[p]
                      /\ role' = role \/ steady'[p] \subseteq steady[p] \ {x}
  BY <1>1, <1>2 DEF Disturbed
<1>5. SteadyTyped'
  BY <1>1, <1>2 DEF SteadyTyped, Disturbed
<1>6. ASSUME NEW p \in Pass PROVE Instructed(p)'
  <2>1. CASE p = Manager
    <3>1. steady'[p] = {}
      BY <1>3, <1>4, <2>1
    <3> QED
      BY <3>1, DisturbedInstructed
  <2>2. CASE p # Manager
    <3>1. pass'[p] = pass[p] /\ Instructed(p) /\ steady[p] \subseteq Cluster
      BY <1>1, <1>2, <2>2 DEF InstructIInv, SteadyTyped
    <3>2. \A y \in steady'[p] : role'[y] = role[y]
      BY <1>1, <1>2, <1>4, <3>1
    <3> QED
      BY <1>2, <1>4, <3>1, <3>2, ElsewhereKeeps
  <2> QED
    BY <2>1, <2>2
<1> QED
  BY <1>5, <1>6 DEF InstructIInv

\* The review's status, then its pass.
LEMMA ReviewDoneInstructed == AutoIInv /\ InstructIInv /\ ReviewDone => InstructIInv'
<1> SUFFICES ASSUME AutoIInv, InstructIInv, ReviewDone PROVE InstructIInv'
  OBVIOUS
<1>1. pass \in [Pass -> PassRecord] /\ SteadyTyped /\ Manager \in Pass
  BY DEF AutoIInv, AutoTyped, PassTyped, InstructIInv, Pass
<1>2. /\ pass[Manager].step = "asked" /\ UNCHANGED <<held, view, role>>
      /\ IF autoMode = "off" THEN pass' = [pass EXCEPT ![Manager] = Idle] /\ UNCHANGED steady
         ELSE Starts(Manager, autoMode)
  BY DEF ReviewDone
<1>3. steady[Manager] = {}
  BY <1>1, <1>2 DEF InstructIInv, Instructed, Working
<1>4. SteadyTyped'
  BY <1>1, <1>2 DEF SteadyTyped, Starts
<1>5. ASSUME NEW p \in Pass PROVE Instructed(p)'
  <2>1. CASE p = Manager /\ autoMode = "off"
    BY <1>2, <1>3, <2>1, DisturbedInstructed
  <2>2. CASE p = Manager /\ autoMode # "off"
    <3>1. pass'[p].step = "reading" /\ pass'[p].got = {}
      BY <1>1, <1>2, <2>2 DEF Starts, Begun, Idle
    <3> QED
      BY <3>1, BegunInstructed
  <2>3. CASE p # Manager
    <3>1. /\ pass'[p] = pass[p] /\ steady'[p] = steady[p]
          /\ Instructed(p) /\ steady[p] \subseteq Cluster
      BY <1>1, <1>2, <2>3 DEF Starts, Begun, InstructIInv, SteadyTyped
    <3> QED
      BY <1>2, <3>1, ElsewhereKeeps
  <2> QED
    BY <2>1, <2>2, <2>3
<1> QED
  BY <1>4, <1>5 DEF InstructIInv

-----------------------------------------------------------------------------
\* One of the reads copies what is there.
LEMMA ReadPartInstructed ==
  ASSUME AutoIInv, InstructIInv, NEW p \in Pass, NEW part \in Part, ReadPart(p, part)
  PROVE  InstructIInv'
<1>1. /\ pass \in [Pass -> PassRecord] /\ SteadyTyped
      /\ UNCHANGED <<view, held, role, steady>> /\ pass[p].step = "reading"
  BY DEF ReadPart, tables, AutoIInv, AutoTyped, PassTyped, InstructIInv
<1>2. /\ \A o \in Pass \ {p} : pass'[o] = pass[o]
      /\ pass'[p].step = "reading" /\ pass'[p].got = pass[p].got \union {part}
      /\ pass'[p].inputs = IF part = "inputs" THEN view ELSE pass[p].inputs
      /\ pass'[p].held = IF part = "rows" THEN held ELSE pass[p].held
      /\ pass'[p].role = IF part = "lists" THEN role ELSE pass[p].role
  <2>1. CASE part = "inputs"
    BY <1>1, <2>1 DEF ReadPart, PassRecord
  <2>2. CASE part = "rows"
    BY <1>1, <2>2 DEF ReadPart, PassRecord
  <2>3. CASE part = "lists"
    BY <1>1, <2>3 DEF ReadPart, PassRecord
  <2>4. CASE part = "baseline"
    BY <1>1, <2>4 DEF ReadPart, PassRecord
  <2> QED
    BY <2>1, <2>2, <2>3, <2>4 DEF Part
<1>3. ASSUME NEW o \in Pass PROVE Instructed(o)'
  <2>1. Instructed(o) /\ steady[o] \subseteq Cluster
    BY <1>1 DEF InstructIInv, SteadyTyped
  <2>2. CASE o # p
    BY <1>1, <1>2, <2>1, <2>2, ElsewhereKeeps
  <2>3. CASE o = p
    <3>1. Copied(o)'
      BY <1>1, <1>2, <2>1, <2>3 DEF Instructed, Copied
    <3> QED
      BY <1>1, <1>2, <2>3, <3>1 DEF Instructed, Commanded, Working
  <2> QED
    BY <2>2, <2>3
<1>4. SteadyTyped'
  BY <1>1 DEF SteadyTyped
<1> QED
  BY <1>3, <1>4 DEF InstructIInv

\* The decisions follow what was read, which is still so where nobody disturbed.
LEMMA DecideAllInstructed ==
  ASSUME AutoIInv, InstructIInv, NEW p \in Pass, DecideAll(p) PROVE InstructIInv'
<1>1. PICK q \in PassRecord :
        /\ pass' = [pass EXCEPT ![p] = q]
        /\ Decided(pass[p], q)
        /\ steady' = IF q.step = "excluding" THEN steady ELSE [steady EXCEPT ![p] = {}]
  BY DecideAllShape DEF AutoIInv, AutoTyped
<1>2. /\ pass \in [Pass -> PassRecord] /\ SteadyTyped /\ UNCHANGED <<view, held, role>>
      /\ pass[p].got = Part /\ pass[p].step = "reading"
  BY WithAccountTyped DEF DecideAll, tables, AutoIInv, AutoTyped, PassTyped, InstructIInv
<1>3. ASSUME NEW o \in Pass PROVE Instructed(o)'
  <2>1. Instructed(o) /\ steady[o] \subseteq Cluster
    BY <1>2 DEF InstructIInv, SteadyTyped
  <2>2. CASE o # p
    <3>1. pass'[o] = pass[o] /\ steady'[o] = steady[o]
      BY <1>1, <1>2, <2>2 DEF SteadyTyped
    <3> QED
      BY <1>2, <2>1, <3>1, ElsewhereKeeps
  <2>3. CASE o = p /\ q.step # "excluding"
    <3>1. steady'[o] = {}
      BY <1>1, <1>2, <2>3 DEF SteadyTyped
    <3> QED
      BY <3>1, DisturbedInstructed
  <2>4. CASE o = p /\ q.step = "excluding"
    <3>1. pass'[p] = q /\ steady' = steady
      BY <1>1, <1>2, <2>4
    <3>2. \A x \in steady[p] :
            /\ pass[p].inputs[x] = Unmanaged \/ pass[p].inputs[x].out = view[x].out
            /\ x \in pass[p].held <=> x \in held
            /\ pass[p].role[x] = role[x]
      BY <1>2, <2>1, <2>4 DEF Instructed, Copied, Part
    <3>3. Commanded(p)'
      <4> SUFFICES ASSUME NEW x \in steady[p], q.rows[x].review = "approved"
                   PROVE  /\ role[x] = "black" \/ (role[x] = "none" /\ x \in held /\ "live" \in V2) =>
                               (view[x].out \/ x \in q.exclude) /\ x \notin q.include
                          /\ role[x] = "white" =>
                               (~view[x].out \/ x \in q.include) /\ x \notin q.exclude
        BY <1>2, <3>1 DEF Commanded
      <4>1. x \in Cluster /\ pass[p].inputs[x] # Unmanaged
        BY <1>1, <2>1, <2>4 DEF Decided, NoRow
      <4>2. pass[p].inputs[x].out = view[x].out
        BY <3>2, <4>1
      <4> QED
        BY <1>1, <2>4, <3>2, <4>1, <4>2 DEF Decided
    <3> QED
      BY <2>4, <3>1, <3>3 DEF Instructed, Copied, Working
  <2> QED
    BY <2>2, <2>3, <2>4
<1>4. SteadyTyped'
  BY <1>1, <1>2 DEF SteadyTyped
<1> QED
  BY <1>3, <1>4 DEF InstructIInv

\* A command moves the clusters it names; for the other passes they are disturbed.
LEMMA OrderInstructed ==
  ASSUME AutoIInv, NEW p \in Pass, NEW S \in SUBSET Cluster, NEW out \in BOOLEAN,
         Order(S, out), SteadyTyped, steady' = DisturbedBy(p, S),
         UNCHANGED <<held, role>>
  PROVE  /\ SteadyTyped' /\ steady'[p] = steady[p]
         /\ \A x \in Cluster : x \notin S => view'[x].out = view[x].out
         /\ \A x \in S : view[x] # Unmanaged => view'[x].out = out
         /\ \A o \in Pass \ {p} : pass'[o] = pass[o] /\ Instructed(o) => Instructed(o)'
<1>1. SteadyTyped' /\ steady'[p] = steady[p]
  BY DEF SteadyTyped, DisturbedBy
<1>2. \A o \in Pass \ {p} : steady'[o] = steady[o] \ S
  BY DEF DisturbedBy
<1>3. \A x \in Cluster : view'[x] = IF x \in S /\ view[x] # Unmanaged
                                    THEN [view[x] EXCEPT !.out = out] ELSE view[x]
  BY DEF Order
<1>4. \A x \in S : view[x] # Unmanaged => view'[x].out = out
  <2>1. \A x \in Cluster : view[x] # Unmanaged => view[x] \in Input
    BY DEF AutoIInv, AutoTyped, TablesTyped
  <2>2. \A v \in Input : [v EXCEPT !.out = out].out = out
    BY DEF Input
  <2> QED
    BY <1>3, <2>1, <2>2
<1>5. ASSUME NEW o \in Pass \ {p}, pass'[o] = pass[o], Instructed(o) PROVE Instructed(o)'
  <2>1. steady[o] \subseteq Cluster
    BY DEF SteadyTyped
  <2>2. \A x \in steady'[o] : view'[x].out = view[x].out
    BY <1>2, <1>3, <2>1
  <2> QED
    BY <1>2, <1>5, <2>1, <2>2, ElsewhereKeeps
<1> QED
  BY <1>1, <1>3, <1>4, <1>5

\* A decided cluster is managed.
LEMMA DecidedManaged ==
  ASSUME AutoIInv, NEW p \in Pass, NEW x \in Cluster, pass[p].rows[x].review = "approved"
  PROVE  view[x] # Unmanaged
BY DEF AutoIInv, Unborn, NoRow

LEMMA OrderExcludesInstructed ==
  ASSUME AutoIInv, InstructIInv, NEW p \in Pass, OrderExcludes(p) PROVE InstructIInv'
<1>1. /\ pass \in [Pass -> PassRecord] /\ SteadyTyped /\ pass[p].exclude \in SUBSET Cluster
      /\ pass[p].exclude \intersect pass[p].include = {} /\ pass[p].step = "excluding"
      /\ Order(pass[p].exclude, TRUE) /\ steady' = DisturbedBy(p, pass[p].exclude)
      /\ UNCHANGED <<held, role>>
  BY DEF OrderExcludes, AutoIInv, AutoTyped, PassTyped, PassShape, PassRecord, InstructIInv
<1>2. /\ \A o \in Pass \ {p} : pass'[o] = pass[o]
      /\ pass'[p].step = "including" /\ pass'[p].exclude = {}
      /\ pass'[p].include = pass[p].include /\ pass'[p].rows = pass[p].rows
  BY <1>1 DEF OrderExcludes, PassRecord
<1>3. /\ SteadyTyped' /\ steady'[p] = steady[p]
      /\ \A x \in Cluster : x \notin pass[p].exclude => view'[x].out = view[x].out
      /\ \A x \in pass[p].exclude : view[x] # Unmanaged => view'[x].out = TRUE
      /\ \A o \in Pass \ {p} : pass'[o] = pass[o] /\ Instructed(o) => Instructed(o)'
  BY <1>1, OrderInstructed
<1>4. Instructed(p)'
  <2>1. Instructed(p) /\ steady[p] \subseteq Cluster
    BY <1>1 DEF InstructIInv, SteadyTyped
  <2>2. ASSUME NEW x \in steady[p], pass[p].rows[x].review = "approved"
        PROVE  /\ role[x] = "black" \/ (role[x] = "none" /\ x \in held /\ "live" \in V2) =>
                    view'[x].out /\ x \notin pass[p].include
               /\ role[x] = "white" => ~view'[x].out \/ x \in pass[p].include
    <3>1. view[x] # Unmanaged
      BY <2>1, <2>2, DecidedManaged
    <3>2. /\ role[x] = "black" \/ (role[x] = "none" /\ x \in held /\ "live" \in V2) =>
               (view[x].out \/ x \in pass[p].exclude) /\ x \notin pass[p].include
          /\ role[x] = "white" =>
               (~view[x].out \/ x \in pass[p].include) /\ x \notin pass[p].exclude
      BY <1>1, <2>1, <2>2 DEF Instructed, Commanded
    <3> QED
      BY <1>3, <2>1, <3>1, <3>2
  <2>3. Commanded(p)'
    BY <1>1, <1>2, <1>3, <2>2 DEF Commanded
  <2> QED
    BY <1>2, <2>3 DEF Instructed, Copied, Working
<1> QED
  BY <1>2, <1>3, <1>4 DEF InstructIInv

LEMMA OrderIncludesInstructed ==
  ASSUME AutoIInv, InstructIInv, NEW p \in Pass, OrderIncludes(p) PROVE InstructIInv'
<1>1. /\ pass \in [Pass -> PassRecord] /\ SteadyTyped /\ pass[p].include \in SUBSET Cluster
      /\ pass[p].exclude = {} /\ pass[p].step = "including"
      /\ Order(pass[p].include, FALSE) /\ steady' = DisturbedBy(p, pass[p].include)
      /\ UNCHANGED <<held, role>>
  BY DEF OrderIncludes, AutoIInv, AutoTyped, PassTyped, PassShape, PassRecord, InstructIInv
<1>2. /\ \A o \in Pass \ {p} : pass'[o] = pass[o]
      /\ pass'[p].step = "storing" /\ pass'[p].include = {}
      /\ pass'[p].exclude = {} /\ pass'[p].rows = pass[p].rows
  BY <1>1 DEF OrderIncludes, PassRecord
<1>3. /\ SteadyTyped' /\ steady'[p] = steady[p]
      /\ \A x \in Cluster : x \notin pass[p].include => view'[x].out = view[x].out
      /\ \A x \in pass[p].include : view[x] # Unmanaged => view'[x].out = FALSE
      /\ \A o \in Pass \ {p} : pass'[o] = pass[o] /\ Instructed(o) => Instructed(o)'
  BY <1>1, OrderInstructed
<1>4. Instructed(p)'
  <2>1. Instructed(p) /\ steady[p] \subseteq Cluster
    BY <1>1 DEF InstructIInv, SteadyTyped
  <2>2. ASSUME NEW x \in steady[p], pass[p].rows[x].review = "approved"
        PROVE  /\ role[x] = "black" \/ (role[x] = "none" /\ x \in held /\ "live" \in V2) =>
                    view'[x].out
               /\ role[x] = "white" => ~view'[x].out
    <3>1. view[x] # Unmanaged
      BY <2>1, <2>2, DecidedManaged
    <3>2. /\ role[x] = "black" \/ (role[x] = "none" /\ x \in held /\ "live" \in V2) =>
               view[x].out /\ x \notin pass[p].include
          /\ role[x] = "white" => ~view[x].out \/ x \in pass[p].include
      BY <1>1, <2>1, <2>2 DEF Instructed, Commanded
    <3> QED
      BY <1>3, <2>1, <3>1, <3>2
  <2>3. Commanded(p)'
    BY <1>1, <1>2, <1>3, <2>2 DEF Commanded
  <2> QED
    BY <1>2, <2>3 DEF Instructed, Copied, Working
<1> QED
  BY <1>2, <1>3, <1>4 DEF InstructIInv

\* A pass that stores, throws or goes on to the junk disturbs nobody but itself.
LEMMA PassRestInstructed ==
  ASSUME AutoIInv, InstructIInv, NEW p \in Pass,
         \/ StoreRows(p) \/ ApproveJunk(p) \/ MarkBaseline(p) \/ PassThrows(p)
         \/ \E x \in Cluster : BlacklistJunk(p, x)
  PROVE  InstructIInv'
<1>1. /\ pass \in [Pass -> PassRecord] /\ SteadyTyped /\ role \in [Cluster -> Role]
      /\ pass[p].step \in {"approving", "marking", "blacklisting"} => steady[p] = {}
  BY DEF AutoIInv, AutoTyped, TablesTyped, PassTyped, InstructIInv, Instructed, Working
<1>2. /\ steady'[p] = {} /\ SteadyTyped' /\ UNCHANGED <<view, held>>
      /\ \A o \in Pass \ {p} : pass'[o] = pass[o] /\ steady'[o] \subseteq steady[o]
      /\ \A o \in Pass : \A x \in steady'[o] : role'[x] = role[x]
  <2>1. CASE StoreRows(p)
    BY <1>1, <2>1 DEF StoreRows, SteadyTyped
  <2>2. CASE ApproveJunk(p)
    BY <1>1, <2>2 DEF ApproveJunk, SteadyTyped
  <2>3. CASE MarkBaseline(p)
    BY <1>1, <2>3 DEF MarkBaseline, SteadyTyped
  <2>4. CASE PassThrows(p)
    BY <1>1, <2>4 DEF PassThrows, SteadyTyped, tables
  <2>5. ASSUME NEW x \in Cluster, BlacklistJunk(p, x)
        PROVE  /\ steady'[p] = {} /\ SteadyTyped' /\ UNCHANGED <<view, held>>
               /\ \A o \in Pass \ {p} : pass'[o] = pass[o] /\ steady'[o] \subseteq steady[o]
               /\ \A o \in Pass : \A y \in steady'[o] : role'[y] = role[y]
    BY <1>1, <2>5 DEF BlacklistJunk, Disturbed, SteadyTyped
  <2> QED
    BY <2>1, <2>2, <2>3, <2>4, <2>5
<1>3. ASSUME NEW o \in Pass PROVE Instructed(o)'
  <2>1. CASE o = p
    BY <1>2, <2>1, DisturbedInstructed
  <2>2. CASE o # p
    <3>1. Instructed(o) /\ steady[o] \subseteq Cluster
      BY <1>1 DEF InstructIInv, SteadyTyped
    <3> QED
      BY <1>2, <2>2, <3>1, ElsewhereKeeps
  <2> QED
    BY <2>1, <2>2
<1> QED
  BY <1>2, <1>3 DEF InstructIInv

\* The regulator, statistics and WB disturb what they move.
LEMMA WorldInstructed ==
  ASSUME AutoIInv, InstructIInv,
         \/ \E S \in SUBSET Cluster, hold \in BOOLEAN : Regulate(S, hold)
         \/ \E x \in Cluster, in \in Inputs : Drift(x, in) \/ Appear(x, in)
  PROVE  InstructIInv'
<1>1. SteadyTyped /\ view \in [Cluster -> Input \union {Unmanaged}]
  BY DEF AutoIInv, AutoTyped, TablesTyped, InstructIInv
<1>2. /\ SteadyTyped' /\ UNCHANGED <<pass, role>>
      /\ \A p \in Pass :
           /\ steady'[p] \subseteq steady[p]
           /\ \A x \in steady'[p] : /\ x \in held' <=> x \in held
                                    /\ view'[x].out = view[x].out \/ view[x] = Unmanaged
  <2>1. ASSUME NEW S \in SUBSET Cluster, NEW hold \in BOOLEAN, Regulate(S, hold)
        PROVE  /\ SteadyTyped' /\ UNCHANGED <<pass, role>>
               /\ \A p \in Pass :
                    /\ steady'[p] \subseteq steady[p]
                    /\ \A x \in steady'[p] : /\ x \in held' <=> x \in held
                                             /\ view'[x].out = view[x].out \/ view[x] = Unmanaged
    BY <1>1, <2>1 DEF Regulate, Disturbed, SteadyTyped
  <2>2. ASSUME NEW x \in Cluster, NEW in \in Inputs, Drift(x, in)
        PROVE  /\ SteadyTyped' /\ UNCHANGED <<pass, role>>
               /\ \A p \in Pass :
                    /\ steady'[p] \subseteq steady[p]
                    /\ \A y \in steady'[p] : /\ y \in held' <=> y \in held
                                             /\ view'[y].out = view[y].out \/ view[y] = Unmanaged
    <3>1. UNCHANGED <<pass, role, held>> /\ view' = [view EXCEPT ![x] = in]
          /\ steady' = IF in.out # view[x].out THEN Disturbed({x}) ELSE steady
      BY <2>2 DEF Drift
    <3>2. SteadyTyped' /\ \A p \in Pass : steady'[p] \subseteq steady[p]
                                          /\ (x \in steady'[p] => in.out = view[x].out)
      BY <1>1, <3>1 DEF Disturbed, SteadyTyped
    <3>3. \A y \in Cluster : view'[y] = IF y = x THEN in ELSE view[y]
      BY <1>1, <3>1
    <3> QED
      BY <3>1, <3>2, <3>3 DEF SteadyTyped
  <2>3. ASSUME NEW x \in Cluster, NEW in \in Inputs, Appear(x, in)
        PROVE  /\ SteadyTyped' /\ UNCHANGED <<pass, role>>
               /\ \A p \in Pass :
                    /\ steady'[p] \subseteq steady[p]
                    /\ \A y \in steady'[p] : /\ y \in held' <=> y \in held
                                             /\ view'[y].out = view[y].out \/ view[y] = Unmanaged
    BY <1>1, <2>3 DEF Appear, SteadyTyped
  <2> QED
    BY <2>1, <2>2, <2>3
<1> QED
  BY <1>2, OutsideKeeps

LEMMA InstructionsInvariant == AutoSpec => [](AutoIInv /\ InstructIInv)
<1>1. AutoInit => InstructIInv
  BY DEF AutoInit, InstructIInv, SteadyTyped, Instructed, Copied, Commanded
<1>2. AutoIInv /\ InstructIInv /\ [AutoNext]_autoVars => InstructIInv'
  <2> SUFFICES ASSUME AutoIInv, InstructIInv, [AutoNext]_autoVars PROVE InstructIInv'
    OBVIOUS
  <2>1. CASE UNCHANGED autoVars
    BY <2>1 DEF autoVars, InstructIInv, SteadyTyped, Instructed, Copied, Commanded
  <2>2. CASE PassNext
    BY <2>2, ReadPartInstructed, DecideAllInstructed, OrderExcludesInstructed,
       OrderIncludesInstructed, PassRestInstructed DEF PassNext
  <2>3. CASE AutoNext /\ ~PassNext
    BY <2>3, CronBeginsInstructed, ManagerSetsModeInstructed, ManagerReviewsInstructed,
       ManagerListsInstructed, ReviewDoneInstructed, WorldInstructed DEF AutoNext, Role
  <2> QED
    BY <2>1, <2>2, <2>3
<1> QED
  BY <1>1, <1>2, AutoInvariant, PTL DEF AutoSpec

\* Every table of the automation keeps its types, for any clusters and events.
THEOREM AutoTypeCorrect == AutoSpec => []AutoTypeOK
<1>1. AutoIInv /\ InstructIInv => AutoTypeOK
  BY DEF AutoIInv, AutoTyped, TablesTyped, HeldTyped, PassTyped, PassShape, EventsTyped,
         AutoTypeOK, PassRecord, PassStep, Role, SteadyTyped, InstructIInv
<1> QED
  BY <1>1, InstructionsInvariant, PTL

\* No pass, however stale its reads and whatever runs beside it, commands a
\* cluster that is new since the baseline before somebody reviewed it.
THEOREM QuarantineCorrect == AutoSpec => []QuarantineKept
<1>1. AutoIInv => QuarantineKept
  BY DEF AutoIInv, Quarantined, QuarantineKept
<1> QED
  BY <1>1, AutoInvariant, PTL

\* When a pass that acts has given its commands, a reviewed cluster is where the
\* manager's lists and the regulator want it, whatever ran beside the pass, unless
\* it got another instruction or was moved after the pass began
\* (InstructionsObeyed), in whatever order its queries are answered.
THEOREM InstructionsCorrect == AutoSpec => []InstructionsObeyed
<1>1. AutoIInv /\ InstructIInv => InstructionsObeyed
  <2> SUFFICES ASSUME AutoIInv, InstructIInv, NEW p \in Pass, NEW x \in Cluster,
                      pass[p].step = "storing", x \in steady[p],
                      pass[p].rows[x].review = "approved"
               PROVE  /\ role[x] = "black" => view[x].out
                      /\ role[x] = "white" => ~view[x].out
                      /\ role[x] = "none" /\ x \in held /\ "live" \in V2 => view[x].out
    BY DEF InstructionsObeyed
  <2>1. pass[p].exclude = {} /\ pass[p].include = {}
    BY DEF AutoIInv, AutoTyped, PassShape
  <2> QED
    BY <2>1 DEF InstructIInv, Instructed, Commanded
<1> QED
  BY <1>1, InstructionsInvariant, PTL

-----------------------------------------------------------------------------
(* The bid engine. *)

\* Rounding to rubles.
LEMMA RoundingTyped ==
  ASSUME NEW money \in Nat
  PROVE  /\ DownToRuble(money) \in Nat /\ DownToRuble(money) <= money
         /\ UpToRuble(money) \in Nat /\ money <= UpToRuble(money)
<1>1. \A n \in Nat : 100 * (n \div 100) \in Nat /\ 100 * (n \div 100) <= n
                     /\ n < 100 * (n \div 100) + 100
  OBVIOUS
<1>2. money + 99 \in Nat
  OBVIOUS
<1> QED
  BY <1>1, <1>2 DEF DownToRuble, UpToRuble

\* A step is at least one ruble.
LEMMA StepTyped ==
  ASSUME NEW minBid \in Nat, NEW percent \in Nat
  PROVE  StepOf(minBid, percent) \in Nat /\ StepOf(minBid, percent) >= 100
<1>1. minBid * percent \in Nat
  OBVIOUS
<1>2. \A n \in Nat : (n + 5000) \div 10000 \in Int
  OBVIOUS
<1>3. (minBid * percent + 5000) \div 10000 \in Int
  BY <1>1, <1>2
<1> QED
  BY <1>3 DEF StepOf, Larger

\* A cap is an amount, unless there is none.
LEMMA CapTyped ==
  ASSUME NEW maxCpo \in Nat, NEW orders \in Nat, NEW views \in Nat
  PROVE  BidCap(maxCpo, orders, views) \in Nat \union {NoCap}
<1>1. maxCpo * 100000 * orders \in Nat /\ Larger(views, ViewsFloor) \in Nat
      /\ Larger(views, ViewsFloor) > 0
  BY DEF Larger, ViewsFloor
<1>2. \A m, n \in Nat : n > 0 => m \div n \in Nat
  OBVIOUS
<1>3. (maxCpo * 100000 * orders) \div Larger(views, ViewsFloor) \in Nat
  BY <1>1, <1>2
<1> QED
  BY <1>3, RoundingTyped DEF BidCap

\* The highest bid is between the lowest and WB's highest.
LEMMA HighestTyped ==
  ASSUME NEW minBid \in Nat, NEW c \in Nat \union {NoCap}, NEW maxBid \in Nat,
         Lowest(minBid) <= maxBid
  PROVE  /\ Lowest(minBid) \in Nat
         /\ Highest(minBid, c, maxBid) \in Nat
         /\ Lowest(minBid) <= Highest(minBid, c, maxBid)
         /\ Highest(minBid, c, maxBid) <= maxBid
<1> DEFINE least == Smaller(IF c > 0 THEN c ELSE minBid, maxBid)
<1>1. least \in Nat /\ least <= maxBid
  BY DEF Smaller, NoCap
<1>2. Lowest(minBid) \in Nat /\ DownToRuble(least) \in Nat /\ DownToRuble(least) <= least
  BY <1>1, RoundingTyped DEF Lowest
<1>3. Highest(minBid, c, maxBid) = Larger(Lowest(minBid), DownToRuble(least))
  BY DEF Highest
<1> HIDE DEF least
<1> QED
  BY <1>1, <1>2, <1>3 DEF Larger

\* computeDesiredBid: within the bounds, and one step in the direction the
\* position asks for, or back into the bounds.
LEMMA DesiredMoves ==
  ASSUME NEW position \in Nat, NEW current \in Nat, NEW minBid \in Nat,
         NEW c \in Nat \union {NoCap}, NEW maxBid \in Nat, Lowest(minBid) <= maxBid,
         NEW coarse \in Nat, NEW fine \in Nat
  PROVE  LET desired == DesiredBid(position, current, minBid, c, maxBid, coarse, fine)
             lo == Lowest(minBid)
             hi == Highest(minBid, c, maxBid)
         IN  /\ desired \in lo..hi
             /\ desired > current =>
                  \/ desired = lo
                  \/ position > TargetPosition /\ desired <= Larger(current, lo) + StepOf(minBid, coarse)
             /\ desired < DownToRuble(current) =>
                  \/ desired = hi
                  \/ /\ position \in 1..TargetPosition
                     /\ desired >= Smaller(DownToRuble(current), hi) - StepOf(minBid, fine)
<1> DEFINE lo == Lowest(minBid)
           hi == Highest(minBid, c, maxBid)
           whole == DownToRuble(current)
           up == StepOf(minBid, coarse)
           down == StepOf(minBid, fine)
           now == Within(whole, lo, hi)
           desired == DesiredBid(position, current, minBid, c, maxBid, coarse, fine)
<1>1. lo \in Nat /\ hi \in Nat /\ lo <= hi /\ whole \in Nat /\ whole <= current
  BY HighestTyped, RoundingTyped
<1>0. up \in Nat /\ up >= 100 /\ down \in Nat /\ down >= 100
  BY StepTyped, Zenon
<1>2. up \in Nat /\ up >= 1 /\ down \in Nat /\ down >= 1
  <2> HIDE DEF up, down
  <2> QED
    BY <1>0
<1>3. desired = CASE position = NoPosition -> now
                  [] position # NoPosition /\ position <= TargetPosition ->
                       Within(now - down, lo, hi)
                  [] position > TargetPosition -> Within(now + up, lo, hi)
  BY DEF DesiredBid
<1> DEFINE Goal ==
  /\ desired \in lo..hi
  /\ desired > current => \/ desired = lo
                          \/ position > TargetPosition /\ desired <= Larger(current, lo) + up
  /\ desired < whole => \/ desired = hi
                        \/ position \in 1..TargetPosition /\ desired >= Smaller(whole, hi) - down
<1> SUFFICES Goal
  OBVIOUS
<1> HIDE DEF lo, hi, whole, up, down, desired
<1>4. CASE position = NoPosition
  <2>1. desired = now
    BY <1>3, <1>4 DEF NoPosition, TargetPosition
  <2> QED
    BY <1>1, <1>4, <2>1 DEF Within, Larger, Smaller
<1>5. CASE position # NoPosition /\ position <= TargetPosition
  <2>1. desired = Within(now - down, lo, hi)
    BY <1>3, <1>5 DEF NoPosition, TargetPosition
  <2> QED
    BY <1>1, <1>2, <1>5, <2>1 DEF Within, Larger, Smaller, NoPosition, TargetPosition
<1>6. CASE position > TargetPosition
  <2>1. desired = Within(now + up, lo, hi)
    BY <1>3, <1>6 DEF NoPosition, TargetPosition
  <2> QED
    BY <1>1, <1>2, <1>6, <2>1 DEF Within, Larger, Smaller, NoPosition, TargetPosition
<1> QED
  BY <1>4, <1>5, <1>6 DEF NoPosition, TargetPosition

-----------------------------------------------------------------------------
EngineRecord == [step : {"idle", "asking", "capping", "reading", "probing"},
                 got : SUBSET RoundParts, todo : SUBSET Cluster, maxCpo : Nat,
                 reached : SUBSET Cluster, cap : [Cluster -> Nat \union {NoCap}],
                 read : [Cluster -> Nat], seen : [Cluster -> Nat],
                 apply : [Cluster -> Nat \union {NoBid}], touched : SUBSET Cluster]

Wish == Lowest(MinBid)..MaxWbBid

BidsTyped ==
  /\ bid \in [Cluster -> Wish \union Offers \union {NoBid}]
  /\ threshold \in Thresholds /\ accrued \in [Cluster -> Accruals]
  /\ active \subseteq Cluster
  /\ note \in [Cluster -> [wish : Wish \union {NoBid}, reached : BOOLEAN]]
  /\ engine \in EngineRecord
  /\ offers \in 0..MaxOffers

\* A wish of the round is what the position seen and the bid read call for.
WishesHaveReasons ==
  \A x \in Cluster : engine.apply[x] # NoBid =>
    LET lo == Lowest(MinBid)
        hi == Highest(MinBid, engine.cap[x], MaxWbBid)
        read == engine.read[x]
    IN  /\ engine.apply[x] \in lo..hi
        /\ engine.apply[x] > read =>
             \/ engine.apply[x] = lo
             \/ engine.seen[x] > TargetPosition
                /\ engine.apply[x] <= Larger(read, lo) + StepOf(MinBid, Coarse)
        /\ engine.apply[x] < DownToRuble(read) =>
             \/ engine.apply[x] = hi
             \/ engine.seen[x] \in 1..TargetPosition
                /\ engine.apply[x] >= Smaller(DownToRuble(read), hi) - StepOf(MinBid, Fine)

\* There are wishes only while positions are measured; a bid nobody touched
\* since it was read is still in force then.
ReadsInForce ==
  /\ engine.step # "probing" => \A x \in Cluster : engine.apply[x] = NoBid
  /\ engine.step = "probing" => \A x \in Cluster \ engine.touched : engine.read[x] = InForce(x)

BidIInv == BidsTyped /\ WishesHaveReasons /\ ReadsInForce

\* The engine at rest has no wishes.
LEMMA RestingTyped ==
  /\ Resting \in EngineRecord
  /\ Resting.step = "idle"
  /\ \A x \in Cluster : Resting.apply[x] = NoBid
BY EngineAssumption DEF Resting, EngineRecord, NoPosition

\* What the constants are.
LEMMA BoundsTyped ==
  /\ {MinBid, MaxWbBid, MinDelta, BaseBid, Coarse, Fine, MaxOffers} \subseteq Nat
  /\ Lowest(MinBid) \in Nat /\ Lowest(MinBid) <= MaxWbBid
  /\ \A b \in Wish : b \in Nat
  /\ NoBid \notin Nat
<1>1. Lowest(MinBid) \in Nat
  BY EngineAssumption, RoundingTyped DEF Lowest
<1> QED
  BY <1>1, EngineAssumption DEF Wish

\* The bid in force is an amount.
LEMMA InForceTyped == ASSUME BidsTyped, NEW x \in Cluster PROVE InForce(x) \in Nat
BY BoundsTyped, EngineAssumption DEF BidsTyped, InForce

LEMMA OfferCounted == offers \in 0..MaxOffers /\ Offer => offers' \in 0..MaxOffers
BY EngineAssumption DEF Offer

\* A round that has collected nothing yet.
LEMMA ReadingKeeps ==
  ASSUME BidIInv, UNCHANGED <<bid, threshold, accrued, active, note, offers>>,
         engine' \in EngineRecord, engine'.step # "probing",
         \A x \in Cluster : engine'.apply[x] = NoBid
  PROVE  BidIInv'
BY DEF BidIInv, BidsTyped, WishesHaveReasons, ReadsInForce

\* What happens in the world while the bids stay leaves a round as it is.
LEMMA WorldKeeps ==
  ASSUME BidIInv, UNCHANGED <<bid, note, engine>>,
         threshold' \in Thresholds, accrued' \in [Cluster -> Accruals], active' \subseteq Cluster,
         offers' \in 0..MaxOffers
  PROVE  BidIInv'
BY DEF BidIInv, BidsTyped, WishesHaveReasons, ReadsInForce, InForce

-----------------------------------------------------------------------------
LEMMA ProbeKeeps ==
  ASSUME BidIInv, NEW x \in Cluster, NEW position \in Positions, Probe(x, position)
  PROVE  BidIInv'
<1> DEFINE read == engine.read[x]
           desired == DesiredBid(position, read, MinBid, engine.cap[x], MaxWbBid, Coarse, Fine)
           lo == Lowest(MinBid)
           hi == Highest(MinBid, engine.cap[x], MaxWbBid)
           wish == IF Distance(desired, read) >= MinDelta THEN desired ELSE NoBid
           top == position # NoPosition /\ position <= TargetPosition
<1>1. /\ MinBid \in Nat /\ MaxWbBid \in Nat /\ lo <= MaxWbBid /\ Coarse \in Nat
      /\ Fine \in Nat /\ position \in Nat /\ NoBid \notin Nat /\ lo \in Nat
  BY EngineAssumption, BoundsTyped
<1>2. engine \in EngineRecord /\ read \in Nat /\ engine.cap[x] \in Nat \union {NoCap}
  BY DEF BidIInv, BidsTyped, EngineRecord
<1>3. /\ desired \in lo..hi
      /\ desired > read =>
           \/ desired = lo
           \/ position > TargetPosition /\ desired <= Larger(read, lo) + StepOf(MinBid, Coarse)
      /\ desired < DownToRuble(read) =>
           \/ desired = hi
           \/ /\ position \in 1..TargetPosition
              /\ desired >= Smaller(DownToRuble(read), hi) - StepOf(MinBid, Fine)
  BY <1>1, <1>2, DesiredMoves
<1>4. hi \in Nat /\ hi <= MaxWbBid
  BY <1>1, <1>2, HighestTyped
<1>5. /\ engine' = [engine EXCEPT !.todo = @ \ {x}, !.seen[x] = position, !.apply[x] = wish]
      /\ note' = [note EXCEPT ![x] = [wish |-> desired, reached |-> top \/ x \in engine.reached]]
      /\ engine.step = "probing"
      /\ UNCHANGED <<bid, threshold, accrued, active, offers>>
  BY DEF Probe, world
<1> HIDE DEF desired, hi, read, lo
<1>6. wish \in Nat \union {NoBid} /\ (wish # NoBid => wish = desired)
  BY <1>1, <1>3, <1>4
<1>7. [wish |-> desired, reached |-> top \/ x \in engine.reached]
        \in [wish : Wish \union {NoBid}, reached : BOOLEAN]
  <2>1. desired \in Wish
    BY <1>1, <1>3, <1>4 DEF Wish, lo
  <2> QED
    BY <2>1
<1> HIDE DEF wish, top
<1>8. /\ engine' \in EngineRecord
      /\ engine'.step = engine.step /\ engine'.touched = engine.touched
      /\ engine'.read = engine.read /\ engine'.cap = engine.cap
      /\ engine'.seen[x] = position /\ engine'.apply[x] = wish
      /\ \A y \in Cluster \ {x} : /\ engine'.seen[y] = engine.seen[y]
                                  /\ engine'.apply[y] = engine.apply[y]
  BY <1>1, <1>2, <1>5, <1>6 DEF EngineRecord
<1>9. BidsTyped'
  BY <1>5, <1>7, <1>8 DEF BidIInv, BidsTyped
<1>10. WishesHaveReasons'
  BY <1>3, <1>6, <1>8 DEF BidIInv, WishesHaveReasons, hi, lo, read
<1>11. ReadsInForce'
  BY <1>5, <1>8 DEF BidIInv, ReadsInForce, InForce
<1> QED
  BY <1>9, <1>10, <1>11 DEF BidIInv

\* The queries of a round, and the caps.
LEMMA RoundReadsKeeps == ASSUME BidIInv, NEW part \in RoundParts, RoundReads(part) PROVE BidIInv'
<1> DEFINE q == [engine EXCEPT
             !.got = @ \union {part},
             !.step = IF engine.got \union {part} = RoundParts THEN "capping" ELSE @]
<1>1. engine \in EngineRecord /\ engine.step = "asking"
      /\ \A x \in Cluster : engine.apply[x] = NoBid
  BY DEF BidIInv, BidsTyped, ReadsInForce, RoundReads
<1>2. /\ q \in EngineRecord /\ q.step \in {"asking", "capping"}
      /\ \A x \in Cluster : q.apply[x] = NoBid
  BY <1>1 DEF EngineRecord, RoundParts
<1>3. \/ engine' = [q EXCEPT !.todo = active]
      \/ engine' = [q EXCEPT !.maxCpo = threshold]
      \/ engine' = [q EXCEPT !.reached = {x \in Cluster : note[x].reached}]
  BY DEF RoundReads, RoundParts
<1>4. active \in SUBSET Cluster /\ threshold \in Nat
  BY EngineAssumption DEF BidIInv, BidsTyped
<1> HIDE DEF q
<1>5. /\ engine' \in EngineRecord /\ engine'.step # "probing"
      /\ \A x \in Cluster : engine'.apply[x] = NoBid
  BY <1>2, <1>3, <1>4 DEF EngineRecord
<1> QED
  BY <1>5, ReadingKeeps DEF RoundReads, world

LEMMA RoundCapsKeeps == BidIInv /\ RoundCaps => BidIInv'
<1> SUFFICES ASSUME BidIInv, RoundCaps PROVE BidIInv'
  OBVIOUS
<1> DEFINE sold == {x \in engine.todo : accrued[x].orders > 0}
           caps == [x \in Cluster |-> BidCap(engine.maxCpo, accrued[x].orders, accrued[x].views)]
<1>1. engine \in EngineRecord /\ engine.step = "capping"
      /\ \A x \in Cluster : engine.apply[x] = NoBid
  BY DEF BidIInv, BidsTyped, ReadsInForce, RoundCaps
<1>2. caps \in [Cluster -> Nat \union {NoCap}]
  <2>1. engine.maxCpo \in Nat
    BY <1>1 DEF EngineRecord
  <2>2. \A x \in Cluster : accrued[x].orders \in Nat /\ accrued[x].views \in Nat
    BY EngineAssumption DEF BidIInv, BidsTyped
  <2>3. \A x \in Cluster : BidCap(engine.maxCpo, accrued[x].orders, accrued[x].views)
                             \in Nat \union {NoCap}
    BY <2>1, <2>2, CapTyped
  <2> QED
    BY <2>3
<1>3. sold \in SUBSET Cluster
  BY <1>1 DEF EngineRecord
<1>4. \/ engine' = Resting
      \/ engine' = [engine EXCEPT !.step = "reading", !.got = {}, !.todo = sold, !.cap = caps]
  BY DEF RoundCaps
<1> HIDE DEF sold, caps
<1>5. /\ engine' \in EngineRecord /\ engine'.step # "probing"
      /\ \A x \in Cluster : engine'.apply[x] = NoBid
  <2>1. CASE engine' = Resting
    BY <2>1, RestingTyped
  <2>2. CASE engine' = [engine EXCEPT !.step = "reading", !.got = {}, !.todo = sold, !.cap = caps]
    BY <1>1, <1>2, <1>3, <2>2 DEF EngineRecord
  <2> QED
    BY <1>4, <2>1, <2>2
<1> QED
  BY <1>5, ReadingKeeps DEF RoundCaps, world

LEMMA RoundBidsKeeps == BidIInv /\ RoundBids => BidIInv'
<1> SUFFICES ASSUME BidIInv, RoundBids PROVE BidIInv'
  OBVIOUS
<1> DEFINE now == [x \in Cluster |-> InForce(x)]
<1>1. now \in [Cluster -> Nat]
  BY InForceTyped DEF BidIInv
<1>2. engine \in EngineRecord /\ \A x \in Cluster : engine.apply[x] = NoBid
  BY DEF BidIInv, BidsTyped, ReadsInForce, RoundBids
<1>3. engine' = [engine EXCEPT !.step = "probing", !.read = now]
      /\ UNCHANGED <<bid, threshold, accrued, active, note, offers>>
  BY DEF RoundBids, world
<1>4. \A x \in Cluster : now[x] = InForce(x) /\ InForce(x)' = InForce(x)
  BY <1>3 DEF InForce
<1> HIDE DEF now
<1>5. engine' \in EngineRecord /\ engine'.read = now
      /\ \A x \in Cluster : engine'.apply[x] = NoBid
  BY <1>1, <1>2, <1>3 DEF EngineRecord
<1>6. ReadsInForce'
  BY <1>3, <1>4, <1>5 DEF ReadsInForce, EngineRecord
<1> QED
  BY <1>3, <1>5, <1>6 DEF BidIInv, BidsTyped, WishesHaveReasons

LEMMA ApplyBidsKeeps == BidIInv /\ ApplyBids => BidIInv'
<1> SUFFICES ASSUME BidIInv, ApplyBids PROVE BidIInv'
  OBVIOUS
<1>1. \A x \in Cluster : engine.apply[x] # NoBid => engine.apply[x] \in Wish
  <2> SUFFICES ASSUME NEW x \in Cluster, engine.apply[x] # NoBid PROVE engine.apply[x] \in Wish
    OBVIOUS
  <2>1. engine.cap[x] \in Nat \union {NoCap}
    BY DEF BidIInv, BidsTyped, EngineRecord
  <2>2. Highest(MinBid, engine.cap[x], MaxWbBid) \in Nat
        /\ Highest(MinBid, engine.cap[x], MaxWbBid) <= MaxWbBid
    BY <2>1, BoundsTyped, HighestTyped
  <2>3. engine.apply[x] \in Lowest(MinBid)..Highest(MinBid, engine.cap[x], MaxWbBid)
    BY DEF BidIInv, WishesHaveReasons
  <2> QED
    BY <2>2, <2>3, BoundsTyped DEF Wish
<1>2. bid' \in [Cluster -> Wish \union Offers \union {NoBid}]
  BY <1>1 DEF ApplyBids, BidIInv, BidsTyped
<1>3. engine' = Resting /\ UNCHANGED <<threshold, accrued, active, note, offers>>
  BY DEF ApplyBids
<1> QED
  BY <1>2, <1>3, RestingTyped DEF BidIInv, BidsTyped, WishesHaveReasons, ReadsInForce

LEMMA ManagerBidsKeeps ==
  ASSUME BidIInv, NEW x \in Cluster, NEW b \in Offers, ManagerBids(x, b) PROVE BidIInv'
<1>1. offers' \in 0..MaxOffers
  BY OfferCounted DEF ManagerBids, BidIInv, BidsTyped
<1>2. /\ bid' = [bid EXCEPT ![x] = b]
      /\ engine' = IF engine.step = "probing" THEN [engine EXCEPT !.touched = @ \union {x}]
                                              ELSE engine
      /\ UNCHANGED <<threshold, accrued, active, note>>
  BY DEF ManagerBids
<1>3. engine \in EngineRecord /\ bid \in [Cluster -> Wish \union Offers \union {NoBid}]
  BY DEF BidIInv, BidsTyped
<1>4. /\ engine' \in EngineRecord
      /\ engine'.step = engine.step /\ engine'.apply = engine.apply /\ engine'.read = engine.read
      /\ engine'.cap = engine.cap /\ engine'.seen = engine.seen
      /\ engine.step = "probing" => engine'.touched = engine.touched \union {x}
  BY <1>2, <1>3 DEF EngineRecord
<1>5. BidsTyped'
  BY <1>1, <1>2, <1>3, <1>4 DEF BidIInv, BidsTyped
<1>6. WishesHaveReasons'
  BY <1>4 DEF BidIInv, WishesHaveReasons
<1>7. ReadsInForce'
  <2>1. \A y \in Cluster : y # x => InForce(y)' = InForce(y)
    BY <1>2, <1>3 DEF InForce
  <2> QED
    BY <1>4, <2>1 DEF BidIInv, ReadsInForce
<1> QED
  BY <1>5, <1>6, <1>7 DEF BidIInv

LEMMA SkipKeeps == ASSUME BidIInv, NEW x \in Cluster, Skip(x) PROVE BidIInv'
<1>1. /\ engine' = [engine EXCEPT !.todo = @ \ {x}] /\ engine.step = "probing"
      /\ note' = [note EXCEPT ![x] = [wish |-> NoBid, reached |-> x \in engine.reached]]
      /\ UNCHANGED <<bid, threshold, accrued, active, offers>>
  BY DEF Skip, world
<1>2. engine \in EngineRecord
  BY DEF BidIInv, BidsTyped
<1>3. /\ engine' \in EngineRecord
      /\ engine'.step = engine.step /\ engine'.apply = engine.apply /\ engine'.read = engine.read
      /\ engine'.cap = engine.cap /\ engine'.seen = engine.seen
      /\ engine'.touched = engine.touched
  BY <1>1, <1>2 DEF EngineRecord
<1>4. note' \in [Cluster -> [wish : Wish \union {NoBid}, reached : BOOLEAN]]
  BY <1>1 DEF BidIInv, BidsTyped
<1> QED
  BY <1>1, <1>3, <1>4 DEF BidIInv, BidsTyped, WishesHaveReasons, ReadsInForce, InForce

\* Every step keeps the invariant.
LEMMA NextKeeps == BidIInv /\ [BidNext]_engineVars => BidIInv'
<1> SUFFICES ASSUME BidIInv, [BidNext]_engineVars PROVE BidIInv'
  OBVIOUS
<1>1. CASE RoundBegins
  <2>1. engine' = [Resting EXCEPT !.step = "asking"]
    BY <1>1 DEF RoundBegins
  <2>2. /\ engine' \in EngineRecord /\ engine'.step # "probing"
        /\ \A x \in Cluster : engine'.apply[x] = NoBid
    BY <2>1, RestingTyped DEF EngineRecord
  <2> QED
    BY <1>1, <2>2, ReadingKeeps DEF RoundBegins, world
<1>2. CASE RoundCaps \/ RoundBids \/ ApplyBids
  BY <1>2, RoundCapsKeeps, RoundBidsKeeps, ApplyBidsKeeps
<1>3. CASE RoundEnds
  BY <1>3, RestingTyped, ReadingKeeps DEF RoundEnds, world
<1>4. ASSUME NEW x \in Cluster, Skip(x) PROVE BidIInv'
  BY <1>4, SkipKeeps
<1>5. ASSUME NEW x \in Cluster, Excluded(x) PROVE BidIInv'
  <2>1. offers' \in 0..MaxOffers
    BY <1>5, OfferCounted DEF Excluded, BidIInv, BidsTyped
  <2> QED
    BY <1>5, <2>1, WorldKeeps DEF Excluded, BidIInv, BidsTyped
<1>6. ASSUME NEW x \in Cluster, NEW position \in Positions, Probe(x, position) PROVE BidIInv'
  BY <1>6, ProbeKeeps
<1>7. ASSUME NEW x \in Cluster, NEW b \in Offers, ManagerBids(x, b) PROVE BidIInv'
  BY <1>7, ManagerBidsKeeps
<1>8. ASSUME NEW x \in Cluster, NEW a \in Accruals, OrdersMove(x, a) PROVE BidIInv'
  <2>1. offers' \in 0..MaxOffers
    BY <1>8, OfferCounted DEF OrdersMove, BidIInv, BidsTyped
  <2> QED
    BY <1>8, <2>1, WorldKeeps DEF OrdersMove, BidIInv, BidsTyped
<1>9. ASSUME NEW c \in Thresholds, ThresholdMoves(c) PROVE BidIInv'
  <2>1. offers' \in 0..MaxOffers
    BY <1>9, OfferCounted DEF ThresholdMoves, BidIInv, BidsTyped
  <2> QED
    BY <1>9, <2>1, WorldKeeps DEF ThresholdMoves, BidIInv, BidsTyped
<1>10. ASSUME NEW part \in RoundParts, RoundReads(part) PROVE BidIInv'
  BY <1>10, RoundReadsKeeps
<1>11. CASE UNCHANGED engineVars
  BY <1>11, WorldKeeps DEF engineVars, BidIInv, BidsTyped
<1> QED
  BY <1>1, <1>2, <1>3, <1>4, <1>5, <1>6, <1>7, <1>8, <1>9, <1>10, <1>11 DEF BidNext

LEMMA BidInvariant == BidSpec => []BidIInv
<1>1. BidInit => BidIInv
  <2> SUFFICES ASSUME BidInit PROVE BidIInv
    OBVIOUS
  <2>1. offers \in 0..MaxOffers
    BY EngineAssumption DEF BidInit
  <2> QED
    BY <2>1, RestingTyped DEF BidInit, BidIInv, BidsTyped, WishesHaveReasons, ReadsInForce
<1> QED
  BY <1>1, NextKeeps, PTL DEF BidSpec

-----------------------------------------------------------------------------
\* Bids of the engine stay within WB's bounds, in whole rubles, for any
\* thresholds, orders, bounds and steps.
THEOREM BidTypeCorrect == BidSpec => []BidTypeOK
<1>1. BidIInv => BidTypeOK
  BY DEF BidIInv, BidsTyped, EngineRecord, BidTypeOK, Wish
<1> QED
  BY <1>1, BidInvariant, PTL

\* A round moves the bid in force by one step in the direction the position it
\* saw calls for, or back into the bounds it read, however long it took, unless
\* somebody set the bid meanwhile.
THEOREM MovesCorrect == BidSpec => MovesForPosition
<1> DEFINE Reason(x) ==
       LET now == InForce(x)
           hi == Highest(MinBid, engine.cap[x], MaxWbBid)
       IN  (engine.step = "probing" /\ engine' = Resting /\ bid'[x] # bid[x]) =>
             /\ bid'[x] <= hi
             /\ bid'[x] > now =>
                  \/ bid'[x] = Lowest(MinBid)
                  \/ engine.seen[x] > TargetPosition
                     /\ bid'[x] <= Larger(now, Lowest(MinBid)) + StepOf(MinBid, Coarse)
             /\ bid'[x] < DownToRuble(now) =>
                  \/ bid'[x] = hi
                  \/ engine.seen[x] \in 1..TargetPosition
                     /\ bid'[x] >= Smaller(DownToRuble(now), hi) - StepOf(MinBid, Fine)
<1>1. BidIInv /\ [BidNext]_engineVars =>
        [\A x \in Cluster \ engine.touched : Reason(x)]_engineVars
  <2> SUFFICES ASSUME BidIInv, BidNext, NEW x \in Cluster \ engine.touched,
                      engine.step = "probing", engine' = Resting, bid'[x] # bid[x]
               PROVE  Reason(x)
    OBVIOUS
  <2>1. CASE ApplyBids
    <3>1. bid'[x] = engine.apply[x] /\ engine.apply[x] # NoBid
      BY <2>1 DEF ApplyBids
    <3>2. engine.read[x] = InForce(x)
      BY DEF BidIInv, ReadsInForce
    <3>3. engine.apply[x] <= Highest(MinBid, engine.cap[x], MaxWbBid)
      <4>1. engine.cap[x] \in Nat \union {NoCap}
        BY DEF BidIInv, BidsTyped, EngineRecord
      <4>2. Highest(MinBid, engine.cap[x], MaxWbBid) \in Nat /\ Lowest(MinBid) \in Nat
        BY <4>1, BoundsTyped, HighestTyped
      <4>3. engine.apply[x] \in Lowest(MinBid)..Highest(MinBid, engine.cap[x], MaxWbBid)
        BY <3>1 DEF BidIInv, WishesHaveReasons
      <4> QED
        BY <4>2, <4>3
    <3> QED
      BY <3>1, <3>2, <3>3 DEF BidIInv, WishesHaveReasons
  <2>2. CASE ~ApplyBids
    <3>1. engine' = engine \/ bid' = bid \/ engine'.step = "probing"
      <4>1. ASSUME NEW y \in Cluster, NEW b \in Offers, ManagerBids(y, b)
            PROVE  engine'.step = engine.step
        BY <4>1 DEF ManagerBids, BidIInv, BidsTyped, EngineRecord
      <4> QED
        BY <2>2, <4>1 DEF BidNext, RoundBegins, RoundReads, RoundCaps, RoundBids, RoundEnds, Skip,
           Excluded, Probe, ThresholdMoves, OrdersMove, world
    <3>2. engine # Resting /\ engine'.step = "idle"
      BY RestingTyped
    <3> QED
      BY <3>1, <3>2
  <2> QED
    BY <2>1, <2>2
<1> QED
  BY <1>1, BidInvariant, PTL DEF BidSpec, MovesForPosition

-----------------------------------------------------------------------------
(* The page of a product: the table belongs to the selected campaign.      *)

Answers == [step : {"answered"}, table : [of : Tab, bid : Nat, mark : Status, built : BOOLEAN]]
Rows == [of : Tab, bid : Nat, mark : Status, built : BOOLEAN]

\* The types the arguments need; how high a bid counts is left open.
PageTyped ==
  /\ stored \in [Tab -> Nat] /\ bidSync \in [Tab -> Status] /\ built \in [Tab -> BOOLEAN]
  /\ selected \in Tab
  /\ shown \in Rows \union {NoTable}
  /\ memory \in [Tab -> Rows \union {NoTable}]
  /\ asking \in [Tab -> {NotAsked, Asked} \union Answers]
  /\ retrying \in BOOLEAN
  /\ save \in [Save -> [step : {"idle", "sent", "stored", "over"}, tab : Tab \union {NoTab}]]
  /\ \A s \in Save : save[s].step \in {"sent", "stored"} => save[s].tab \in Tab
  /\ returned \in [Tab -> Nat] /\ behind \in BOOLEAN

\* What is cached or answered for a campaign is its own, and so is what is shown.
OwnRows ==
  /\ \A t \in Tab : memory[t] # NoTable => memory[t].of = t
  /\ \A t \in Tab : asking[t].step = "answered" => asking[t].table.of = t

\* A bid that returned was stored, so a request sent after the return reads it.
ReturnedStored == \A t \in Tab : returned[t] <= stored[t]

\* Unless the page is behind: an answer the page waits for has the bids that
\* returned, and a page that waits for nothing shows them.
AnswerHasSaves ==
  ~behind /\ asking[selected].step = "answered"
    => asking[selected].table.bid >= returned[selected]

PageInv == PageTyped /\ OwnTable /\ OwnRows /\ ReturnedStored /\ AnswerHasSaves /\ SavedIsShown

LEMMA InitialPage == TableInit => PageInv
<1> SUFFICES ASSUME TableInit PROVE PageInv
  OBVIOUS
<1>1. PageTyped
  BY TableAssumption DEF TableInit, PageTyped, Asked, NotAsked, NoTable, Unsaved, Status
<1>2. OwnTable /\ OwnRows
  BY DEF TableInit, OwnTable, OwnRows, Asked, NotAsked
<1>3. ReturnedStored
  BY DEF TableInit, ReturnedStored
<1>4. asking[selected] = Asked
  BY DEF TableInit
<1>5. AnswerHasSaves /\ SavedIsShown
  BY <1>4 DEF AnswerHasSaves, SavedIsShown, Settled, Asked, NotAsked
<1> QED
  BY <1>1, <1>2, <1>3, <1>5 DEF PageInv

\* A run of the effect, over a cache of campaigns' own tables.
LEMMA EffectKeeps ==
  ASSUME PageInv, NEW t \in Tab, NEW cache \in [Tab -> Rows \union {NoTable}],
         \A u \in Tab : cache[u] # NoTable => cache[u].of = u,
         Effect(t, cache)
  PROVE  /\ selected' \in Tab /\ retrying' \in BOOLEAN /\ behind' \in BOOLEAN
         /\ shown' \in Rows \union {NoTable}
         /\ memory' \in [Tab -> Rows \union {NoTable}]
         /\ asking' \in [Tab -> {NotAsked, Asked} \union Answers]
         /\ OwnTable' /\ OwnRows'
         /\ ~behind' => asking'[selected'] = Asked
         /\ asking'[selected'] # NotAsked
<1>1. selected' = t /\ retrying' = FALSE /\ behind' = (asking[t] # NotAsked) /\ memory' = cache
  BY DEF Effect
<1>2. shown' = IF cache[t] # NoTable THEN cache[t]
               ELSE IF t = selected THEN shown ELSE NoTable
  BY DEF Effect
<1>3. asking' = IF asking[t] = NotAsked THEN [asking EXCEPT ![t] = Asked] ELSE asking
  BY DEF Effect, Fetched
<1>4. asking \in [Tab -> {NotAsked, Asked} \union Answers]
  BY DEF PageInv, PageTyped
<1>5. /\ asking' \in [Tab -> {NotAsked, Asked} \union Answers]
      /\ asking[t] = NotAsked => asking'[t] = Asked
      /\ asking[t] # NotAsked => asking'[t] = asking[t]
      /\ \A u \in Tab : asking'[u] = asking[u] \/ asking'[u] = Asked
  BY <1>3, <1>4
<1>6. shown' \in Rows \union {NoTable}
  BY <1>2 DEF PageInv, PageTyped
<1>7. OwnTable'
  BY <1>1, <1>2 DEF PageInv, OwnTable
<1>8. OwnRows'
  BY <1>1, <1>5 DEF PageInv, OwnRows, Asked
<1>9. asking'[t] # NotAsked
  BY <1>5 DEF Asked, NotAsked
<1> QED
  BY <1>1, <1>5, <1>6, <1>7, <1>8, <1>9

\* The effect waits: whatever follows it, the page is not settled.
LEMMA AfterEffect ==
  ASSUME ~behind' => asking'[selected'] = Asked, asking'[selected'] # NotAsked
  PROVE  AnswerHasSaves' /\ SavedIsShown'
BY DEF AnswerHasSaves, SavedIsShown, Settled, Asked

-----------------------------------------------------------------------------
(* The steps of the screen. *)

LEMMA SelectKeeps ==
  ASSUME PageInv, NEW t \in Tab, Select(t)
  PROVE  PageInv'
<1>1. memory \in [Tab -> Rows \union {NoTable}] /\ \A u \in Tab : memory[u] # NoTable => memory[u].of = u
  BY DEF PageInv, PageTyped, OwnRows
<1>2. Effect(t, memory)
  BY DEF Select
<1>3. UNCHANGED <<stored, bidSync, built, save, returned>>
  BY DEF Select, serverVars, editorVars
<1>4. ReturnedStored'
  BY <1>3 DEF PageInv, ReturnedStored
<1>5. AnswerHasSaves' /\ SavedIsShown' /\ OwnTable' /\ OwnRows'
  BY <1>1, <1>2, EffectKeeps, AfterEffect
<1>6. PageTyped'
  BY <1>1, <1>2, <1>3, EffectKeeps DEF PageInv, PageTyped
<1> QED
  BY <1>4, <1>5, <1>6 DEF PageInv

\* The rows are read after every save that has returned so far.
LEMMA ReadRowsKeeps ==
  ASSUME PageInv, NEW t \in Tab, ReadRows(t)
  PROVE  PageInv'
<1> DEFINE table == [of |-> t, bid |-> stored[t], mark |-> bidSync[t], built |-> built[t]]
           answer == [step |-> "answered", table |-> table]
<1>1. /\ asking' = [asking EXCEPT ![t] = answer]
      /\ UNCHANGED <<stored, bidSync, built, selected, shown, memory, retrying, save,
                     returned, behind>>
  BY DEF ReadRows, serverVars, editorVars
<1>2. table \in Rows /\ answer \in Answers
  BY DEF PageInv, PageTyped, Rows, Answers
<1>3. answer.step = "answered" /\ answer.table = table /\ table.of = t /\ table.bid = stored[t]
  OBVIOUS
<1> HIDE DEF answer, table
<1>4. /\ asking'[t] = answer
      /\ \A u \in Tab \ {t} : asking'[u] = asking[u]
      /\ asking' \in [Tab -> {NotAsked, Asked} \union Answers]
  BY <1>1, <1>2 DEF PageInv, PageTyped
<1>5. PageTyped'
  BY <1>1, <1>4 DEF PageInv, PageTyped
<1>6. OwnTable' /\ OwnRows' /\ ReturnedStored'
  BY <1>1, <1>3, <1>4 DEF PageInv, OwnTable, OwnRows, ReturnedStored
<1>7. AnswerHasSaves'
  BY <1>1, <1>3, <1>4 DEF PageInv, PageTyped, AnswerHasSaves, ReturnedStored
<1>8. SavedIsShown'
  BY <1>1, <1>3, <1>4 DEF PageInv, PageTyped, SavedIsShown, Settled, NotAsked
<1> QED
  BY <1>5, <1>6, <1>7, <1>8 DEF PageInv

LEMMA TableArrivesKeeps ==
  ASSUME PageInv, NEW t \in Tab, TableArrives(t)
  PROVE  PageInv'
<1> DEFINE table == asking[t].table
<1>1. /\ memory' = [memory EXCEPT ![t] = table]
      /\ shown' = IF t = selected /\ table.built THEN table ELSE shown
      /\ retrying' = (retrying \/ (t = selected /\ ~table.built))
      /\ asking' = [asking EXCEPT ![t] = NotAsked]
      /\ UNCHANGED <<stored, bidSync, built, selected, save, returned, behind>>
  BY DEF TableArrives, Awaited, serverVars, editorVars
<1>2. asking[t].step = "answered" /\ asking[t] \in Answers
  BY DEF TableArrives, PageInv, PageTyped, Asked, NotAsked
<1>3. table \in Rows /\ table.of = t
  BY <1>2 DEF Answers, Rows, PageInv, OwnRows
<1>4. table # NoTable
  BY <1>3, TableAssumption DEF NoTable
<1> HIDE DEF table
<1>5. /\ asking'[t] = NotAsked
      /\ \A u \in Tab \ {t} : asking'[u] = asking[u]
      /\ asking' \in [Tab -> {NotAsked, Asked} \union Answers]
      /\ memory'[t] = table /\ \A u \in Tab \ {t} : memory'[u] = memory[u]
      /\ memory' \in [Tab -> Rows \union {NoTable}]
  BY <1>1, <1>3 DEF PageInv, PageTyped
<1>6. PageTyped'
  BY <1>1, <1>3, <1>5 DEF PageInv, PageTyped
<1>7. OwnTable' /\ OwnRows' /\ ReturnedStored'
  BY <1>1, <1>3, <1>5 DEF PageInv, OwnTable, OwnRows, ReturnedStored, NotAsked
<1>8. AnswerHasSaves'
  BY <1>1, <1>5 DEF PageInv, PageTyped, AnswerHasSaves, NotAsked
<1>9. CASE t = selected /\ table.built
  <2>1. ~behind => table.bid >= returned[t]
    BY <1>2, <1>9 DEF PageInv, AnswerHasSaves, table
  <2>2. SavedIsShown'
    BY <1>1, <1>4, <1>9, <2>1 DEF SavedIsShown
  <2> QED
    BY <2>2, <1>6, <1>7, <1>8 DEF PageInv
<1>10. CASE t = selected /\ ~table.built
  BY <1>1, <1>10, <1>6, <1>7, <1>8 DEF PageInv, SavedIsShown, Settled
<1>11. CASE t # selected
  <2>1. SavedIsShown'
    BY <1>1, <1>5, <1>11 DEF PageInv, PageTyped, SavedIsShown, Settled
  <2> QED
    BY <2>1, <1>6, <1>7, <1>8 DEF PageInv
<1> QED
  BY <1>9, <1>10, <1>11

LEMMA RetryTableKeeps ==
  ASSUME PageInv, RetryTable
  PROVE  PageInv'
<1>1. /\ asking' = [asking EXCEPT ![selected] = Asked] /\ retrying' = FALSE
      /\ UNCHANGED <<stored, bidSync, built, selected, shown, memory, save, returned, behind>>
  BY DEF RetryTable, serverVars, editorVars
<1>2. /\ asking'[selected] = Asked
      /\ \A u \in Tab : asking'[u] = Asked \/ asking'[u] = asking[u]
      /\ asking' \in [Tab -> {NotAsked, Asked} \union Answers]
  BY <1>1 DEF PageInv, PageTyped
<1>3. PageTyped'
  BY <1>1, <1>2 DEF PageInv, PageTyped
<1>4. OwnTable' /\ OwnRows' /\ ReturnedStored'
  BY <1>1, <1>2 DEF PageInv, OwnTable, OwnRows, ReturnedStored, Asked
<1>5. AnswerHasSaves' /\ SavedIsShown'
  BY <1>1, <1>2 DEF AnswerHasSaves, SavedIsShown, Settled, Asked, NotAsked
<1> QED
  BY <1>3, <1>4, <1>5 DEF PageInv

LEMMA TableFailsKeeps ==
  ASSUME PageInv, NEW t \in Tab, TableFails(t)
  PROVE  PageInv'
<1>1. /\ asking' = [asking EXCEPT ![t] = NotAsked] /\ behind' = (behind \/ t = selected)
      /\ UNCHANGED <<stored, bidSync, built, selected, shown, memory, retrying, save, returned>>
  BY DEF TableFails, serverVars, editorVars
<1>2. /\ \A u \in Tab \ {t} : asking'[u] = asking[u]
      /\ \A u \in Tab : asking'[u] = NotAsked \/ asking'[u] = asking[u]
      /\ asking' \in [Tab -> {NotAsked, Asked} \union Answers]
  BY <1>1 DEF PageInv, PageTyped
<1>3. PageTyped'
  BY <1>1, <1>2 DEF PageInv, PageTyped
<1>4. OwnTable' /\ OwnRows' /\ ReturnedStored'
  BY <1>1, <1>2 DEF PageInv, OwnTable, OwnRows, ReturnedStored, NotAsked
<1>5. AnswerHasSaves' /\ SavedIsShown'
  BY <1>1, <1>2 DEF PageInv, PageTyped, AnswerHasSaves, SavedIsShown, Settled
<1> QED
  BY <1>3, <1>4, <1>5 DEF PageInv

-----------------------------------------------------------------------------
(* The steps of saves. *)

\* A save is written; what the page shows and waits for stays as it is.
LEMMA CommitBidKeeps ==
  ASSUME PageInv, NEW s \in Save, CommitBid(s)
  PROVE  PageInv'
<1>1. /\ save' = [save EXCEPT ![s] = [step |-> "sent", tab |-> shown.of]]
      /\ shown # NoTable
      /\ UNCHANGED <<stored, bidSync, built, selected, shown, memory, asking, retrying,
                     returned, behind>>
  BY DEF CommitBid, serverVars
<1>2. shown.of \in Tab
  BY <1>1 DEF PageInv, PageTyped, OwnTable
<1>3. PageTyped'
  BY <1>1, <1>2 DEF PageInv, PageTyped
<1>4. OwnTable' /\ OwnRows' /\ ReturnedStored' /\ AnswerHasSaves' /\ SavedIsShown'
  BY <1>1 DEF PageInv, OwnTable, OwnRows, ReturnedStored, AnswerHasSaves, SavedIsShown, Settled
<1> QED
  BY <1>3, <1>4 DEF PageInv

LEMMA StoreBidKeeps ==
  ASSUME PageInv, NEW s \in Save, StoreBid(s)
  PROVE  PageInv'
<1> DEFINE t == save[s].tab
<1>1. /\ save' = [save EXCEPT ![s].step = "stored"]
      /\ stored' = [stored EXCEPT ![t] = @ + 1]
      /\ bidSync' = [bidSync EXCEPT ![t] = "queued"]
      /\ UNCHANGED <<built, selected, shown, memory, asking, retrying, returned, behind>>
  BY DEF StoreBid
<1>2. t \in Tab
  BY DEF StoreBid, PageInv, PageTyped
<1> HIDE DEF t
<1>3. stored' \in [Tab -> Nat] /\ \A u \in Tab : stored'[u] >= stored[u]
  BY <1>1, <1>2 DEF PageInv, PageTyped
<1>4. bidSync' \in [Tab -> Status]
  BY <1>1 DEF PageInv, PageTyped, Status
<1>5. /\ save' \in [Save -> [step : {"idle", "sent", "stored", "over"}, tab : Tab \union {NoTab}]]
      /\ \A u \in Save : save'[u].step \in {"sent", "stored"} => save'[u].tab \in Tab
  BY <1>1, <1>2 DEF PageInv, PageTyped, t
<1>6. PageTyped'
  BY <1>1, <1>3, <1>4, <1>5 DEF PageInv, PageTyped
<1>7. ReturnedStored'
  BY <1>1, <1>3 DEF PageInv, PageTyped, ReturnedStored
<1>8. OwnTable' /\ OwnRows' /\ AnswerHasSaves' /\ SavedIsShown'
  BY <1>1 DEF PageInv, OwnTable, OwnRows, AnswerHasSaves, SavedIsShown, Settled
<1> QED
  BY <1>6, <1>7, <1>8 DEF PageInv

\* The reload: an effect over the cache without the table of the save.
LEMMA SavedKeeps ==
  ASSUME PageInv, NEW s \in Save, Saved(s)
  PROVE  PageInv'
<1> DEFINE t == save[s].tab
           cache == Dropped(t)
<1>1. /\ save' = [save EXCEPT ![s].step = "over"]
      /\ returned' = [returned EXCEPT ![t] = stored[t]]
      /\ Effect(selected, cache)
      /\ UNCHANGED <<stored, bidSync, built>>
  BY DEF Saved, serverVars
<1>2. t \in Tab
  BY DEF Saved, PageInv, PageTyped
<1>3. /\ cache \in [Tab -> Rows \union {NoTable}]
      /\ \A u \in Tab : cache[u] # NoTable => cache[u].of = u
  BY DEF PageInv, PageTyped, OwnRows, Dropped
<1> HIDE DEF t, cache
<1>4. selected \in Tab
  BY DEF PageInv, PageTyped
<1>5. returned' \in [Tab -> Nat] /\ ReturnedStored'
  BY <1>1, <1>2 DEF PageInv, PageTyped, ReturnedStored
<1>6. AnswerHasSaves' /\ SavedIsShown' /\ OwnTable' /\ OwnRows'
  BY <1>1, <1>3, <1>4, EffectKeeps, AfterEffect
<1>7. /\ save' \in [Save -> [step : {"idle", "sent", "stored", "over"}, tab : Tab \union {NoTab}]]
      /\ \A u \in Save : save'[u].step \in {"sent", "stored"} => save'[u].tab \in Tab
  BY <1>1 DEF PageInv, PageTyped
<1>8. PageTyped'
  BY <1>1, <1>3, <1>4, <1>5, <1>7, EffectKeeps DEF PageInv, PageTyped
<1> QED
  BY <1>5, <1>6, <1>8 DEF PageInv

LEMMA SaveFailsKeeps ==
  ASSUME PageInv, NEW s \in Save, SaveFails(s)
  PROVE  PageInv'
<1>1. /\ save' = [save EXCEPT ![s].step = "over"]
      /\ UNCHANGED <<stored, bidSync, built, selected, shown, memory, asking, retrying,
                     returned, behind>>
  BY DEF SaveFails, serverVars
<1>2. PageTyped'
  BY <1>1 DEF PageInv, PageTyped
<1>3. OwnTable' /\ OwnRows' /\ ReturnedStored' /\ AnswerHasSaves' /\ SavedIsShown'
  BY <1>1 DEF PageInv, OwnTable, OwnRows, ReturnedStored, AnswerHasSaves, SavedIsShown, Settled
<1> QED
  BY <1>2, <1>3 DEF PageInv

-----------------------------------------------------------------------------
(* The workspace, WB and the rest. *)

\* The flag falls: an effect over the cache as it is.
LEMMA WorkspaceArrivesKeeps ==
  ASSUME PageInv, WorkspaceArrives
  PROVE  PageInv'
<1>1. UNCHANGED <<stored, bidSync, built, save, returned>>
  BY DEF WorkspaceArrives, serverVars, editorVars
<1>2. CASE Effect(selected, memory)
  <2>1. /\ memory \in [Tab -> Rows \union {NoTable}] /\ selected \in Tab
        /\ \A u \in Tab : memory[u] # NoTable => memory[u].of = u
    BY DEF PageInv, PageTyped, OwnRows
  <2>2. AnswerHasSaves' /\ SavedIsShown' /\ OwnTable' /\ OwnRows'
    BY <1>2, <2>1, EffectKeeps, AfterEffect
  <2>3. PageTyped'
    BY <1>1, <1>2, <2>1, EffectKeeps DEF PageInv, PageTyped
  <2>4. ReturnedStored'
    BY <1>1 DEF PageInv, ReturnedStored
  <2> QED
    BY <2>2, <2>3, <2>4 DEF PageInv
<1>3. CASE UNCHANGED <<selected, shown, memory, asking, retrying, behind>>
  BY <1>1, <1>3 DEF PageInv, PageTyped, OwnTable, OwnRows, ReturnedStored, AnswerHasSaves,
                    SavedIsShown, Settled
<1> QED
  BY <1>2, <1>3 DEF WorkspaceArrives

\* WB answers or rows are built: nothing the page holds changes.
LEMMA ServerKeeps ==
  ASSUME PageInv, NEW t \in Tab, WbAnswers(t) \/ Materialized(t)
  PROVE  PageInv'
<1>1. UNCHANGED <<stored, selected, shown, memory, asking, retrying, save, returned, behind>>
  BY DEF WbAnswers, Materialized, editorVars
<1>2. bidSync' \in [Tab -> Status] /\ built' \in [Tab -> BOOLEAN]
  BY DEF WbAnswers, Materialized, PageInv, PageTyped, Status
<1>3. PageTyped'
  BY <1>1, <1>2 DEF PageInv, PageTyped
<1>4. OwnTable' /\ OwnRows' /\ ReturnedStored' /\ AnswerHasSaves' /\ SavedIsShown'
  BY <1>1 DEF PageInv, OwnTable, OwnRows, ReturnedStored, AnswerHasSaves, SavedIsShown, Settled
<1> QED
  BY <1>3, <1>4 DEF PageInv

\* Steps of the workspace's request alone.
LEMMA PageRestKeeps ==
  ASSUME PageInv,
         UNCHANGED <<stored, bidSync, built, selected, shown, memory, asking, retrying, save,
                     returned, behind>>
  PROVE  PageInv'
BY DEF PageInv, PageTyped, OwnTable, OwnRows, ReturnedStored, AnswerHasSaves, SavedIsShown, Settled

LEMMA PageStep == PageInv /\ [TableNext]_tableVars => PageInv'
<1> SUFFICES ASSUME PageInv, [TableNext]_tableVars PROVE PageInv'
  OBVIOUS
<1>1. ASSUME NEW t \in Tab, Select(t) \/ ReadRows(t) \/ TableArrives(t) \/ TableFails(t)
      PROVE  PageInv'
  BY <1>1, SelectKeeps, ReadRowsKeeps, TableArrivesKeeps, TableFailsKeeps
<1>2. CASE RetryTable
  BY <1>2, RetryTableKeeps
<1>3. ASSUME NEW s \in Save, CommitBid(s) \/ StoreBid(s) \/ Saved(s) \/ SaveFails(s)
      PROVE  PageInv'
  BY <1>3, CommitBidKeeps, StoreBidKeeps, SavedKeeps, SaveFailsKeeps
<1>4. CASE WorkspaceArrives
  BY <1>4, WorkspaceArrivesKeeps
<1>5. CASE ReadWorkspace \/ WorkspaceFails \/ PollPending
  BY <1>5, PageRestKeeps DEF ReadWorkspace, WorkspaceFails, PollPending, serverVars, editorVars
<1>6. ASSUME NEW t \in Tab, WbAnswers(t) \/ Materialized(t)
      PROVE  PageInv'
  BY <1>6, ServerKeeps
<1>7. CASE UNCHANGED tableVars
  BY <1>7, PageRestKeeps DEF tableVars
<1> QED
  BY <1>1, <1>2, <1>3, <1>4, <1>5, <1>6, <1>7 DEF TableNext

LEMMA PageAlways == TableSpec => []PageInv
BY InitialPage, PageStep, PTL DEF TableSpec

-----------------------------------------------------------------------------
\* The table on the screen is the selected campaign's, whatever answers are on
\* their way, for any campaigns, saves and failures.
THEOREM OwnTableCorrect == TableSpec => []OwnTable
<1>1. PageInv => OwnTable
  BY DEF PageInv
<1> QED
  BY <1>1, PageAlways, PTL

\* A save that returned is on the screen once nothing is waited for, unless the
\* page's last request was sent before it or failed.
THEOREM SavedShownCorrect == TableSpec => []SavedIsShown
<1>1. PageInv => SavedIsShown
  BY DEF PageInv
<1> QED
  BY <1>1, PageAlways, PTL
-----------------------------------------------------------------------------
(* The types. *)

\* A bid was stored at most once for each save of its campaign.
Storing(t) == {s \in Save : save[s].tab = t /\ save[s].step \in {"stored", "over"}}
StoredOnce == \A t \in Tab : stored[t] <= Cardinality(Storing(t))

\* No table counts a bid that was not stored.
RowsStored ==
  /\ \A t \in Tab : memory[t] # NoTable => memory[t].bid <= stored[t]
  /\ \A t \in Tab : asking[t].step = "answered" => asking[t].table.bid <= stored[t]
  /\ shown # NoTable => shown.bid <= stored[shown.of]

TimerWaits == retrying => asking[selected] = NotAsked

SavingShown ==
  /\ optimistic \in Tab \union {NoTab}
  /\ optimistic # NoTab =>
       \E s \in Save : save[s].tab = optimistic /\ save[s].step \in {"sent", "stored"}

PageFlags ==
  /\ pending \in BOOLEAN /\ workspace \in {"none", "sent", "pending", "settled"}
  /\ trials \in 0..MaxTrials

TableInv == StoredOnce /\ RowsStored /\ TimerWaits /\ SavingShown /\ PageFlags

LEMMA StoringFinite ==
  ASSUME NEW t
  PROVE  /\ Storing(t) \subseteq Save /\ IsFiniteSet(Storing(t))
         /\ Cardinality(Storing(t)) \in Nat /\ Cardinality(Save) \in Nat
         /\ Cardinality(Storing(t)) <= Cardinality(Save)
<1>1. Storing(t) \subseteq Save
  BY DEF Storing
<1>2. IsFiniteSet(Storing(t)) /\ Cardinality(Storing(t)) <= Cardinality(Save)
  BY <1>1, TableAssumption, FS_Subset
<1> QED
  BY <1>1, <1>2, TableAssumption, FS_CardinalityType

LEMMA InitialTable == TableInit => TableInv
<1> SUFFICES ASSUME TableInit PROVE TableInv
  OBVIOUS
<1>1. StoredOnce
  BY StoringFinite DEF TableInit, StoredOnce
<1>2. RowsStored /\ TimerWaits
  BY DEF TableInit, RowsStored, TimerWaits, Asked, NotAsked
<1>3. SavingShown
  BY DEF TableInit, SavingShown
<1>4. PageFlags
  <2>1. 0 \in 0..MaxTrials
    BY TableAssumption
  <2> QED
    BY <2>1, Zenon DEF TableInit, PageFlags
<1> QED
  BY <1>1, <1>2, <1>3, <1>4 DEF TableInv

\* A step that stores nothing, and takes no save back.
LEMMA StoringGrows ==
  ASSUME StoredOnce, PageTyped, stored' = stored, \A t \in Tab : Storing(t) \subseteq Storing(t)'
  PROVE  StoredOnce'
<1> SUFFICES ASSUME NEW t \in Tab PROVE stored[t] <= Cardinality(Storing(t)')
  BY DEF StoredOnce
<1>1. Storing(t)' \subseteq Save
  BY DEF Storing
<1>2. IsFiniteSet(Storing(t)')
  BY <1>1, TableAssumption, FS_Subset
<1>3. Cardinality(Storing(t)) <= Cardinality(Storing(t)') /\ Cardinality(Storing(t)') \in Nat
  BY <1>2, FS_Subset, FS_CardinalityType
<1>4. stored[t] \in Nat /\ stored[t] <= Cardinality(Storing(t)) /\ Cardinality(Storing(t)) \in Nat
  BY StoringFinite DEF StoredOnce, PageTyped
<1> QED
  BY <1>3, <1>4

LEMMA StoredOnceKept == PageTyped /\ StoredOnce /\ [TableNext]_tableVars => StoredOnce'
<1> SUFFICES ASSUME PageTyped, StoredOnce, [TableNext]_tableVars PROVE StoredOnce'
  OBVIOUS
<1>1. CASE UNCHANGED <<stored, save>>
  BY <1>1, StoringGrows DEF Storing
<1>2. ASSUME NEW s \in Save, CommitBid(s) PROVE StoredOnce'
  <2>1. \A t \in Tab : Storing(t) \subseteq Storing(t)'
    BY <1>2 DEF CommitBid, Storing, PageTyped, Unsaved
  <2> QED
    BY <1>2, <2>1, StoringGrows DEF CommitBid, serverVars
<1>3. ASSUME NEW s \in Save, Saved(s) \/ SaveFails(s) PROVE StoredOnce'
  <2>1. \A t \in Tab : Storing(t) \subseteq Storing(t)'
    BY <1>3 DEF Saved, SaveFails, Storing, PageTyped
  <2> QED
    BY <1>3, <2>1, StoringGrows DEF Saved, SaveFails, serverVars
<1>4. ASSUME NEW s \in Save, StoreBid(s) PROVE StoredOnce'
  <2> SUFFICES ASSUME NEW t \in Tab PROVE stored'[t] <= Cardinality(Storing(t)')
    BY DEF StoredOnce
  <2>1. /\ save[s].step = "sent" /\ save' = [save EXCEPT ![s].step = "stored"]
        /\ stored' = [stored EXCEPT ![save[s].tab] = @ + 1]
    BY <1>4 DEF StoreBid
  <2>2. stored[t] \in Nat /\ stored[t] <= Cardinality(Storing(t)) /\ Cardinality(Storing(t)) \in Nat
    BY StoringFinite DEF StoredOnce, PageTyped
  <2>3. CASE save[s].tab = t
    <3>1. Storing(t)' = Storing(t) \union {s} /\ s \notin Storing(t)
      BY <2>1, <2>3 DEF Storing, PageTyped
    <3>2. Cardinality(Storing(t)') = Cardinality(Storing(t)) + 1
      BY <3>1, StoringFinite, FS_AddElement
    <3>3. stored'[t] = stored[t] + 1
      BY <2>1, <2>3 DEF PageTyped
    <3> QED
      BY <2>2, <3>2, <3>3
  <2>4. CASE save[s].tab # t
    <3>1. Storing(t)' = Storing(t)
      BY <2>1, <2>4 DEF Storing, PageTyped
    <3>2. stored'[t] = stored[t]
      BY <2>1, <2>4 DEF PageTyped
    <3> QED
      BY <2>2, <3>1, <3>2
  <2> QED
    BY <2>3, <2>4
<1>5. UNCHANGED <<stored, save>> \/ \E s \in Save : CommitBid(s) \/ StoreBid(s) \/ Saved(s) \/ SaveFails(s)
  BY DEF TableNext, tableVars, serverVars, editorVars, Select, ReadRows, TableArrives,
         TableFails, RetryTable, ReadWorkspace, WorkspaceArrives, WorkspaceFails, PollPending,
         WbAnswers, Materialized
<1> QED
  BY <1>1, <1>2, <1>3, <1>4, <1>5

\* The effect takes what it shows from the cache or the screen.
LEMMA EffectRows ==
  ASSUME PageInv, RowsStored, NEW t \in Tab, NEW cache, UNCHANGED stored,
         \A u \in Tab : cache[u] = memory[u] \/ cache[u] = NoTable,
         Effect(t, cache)
  PROVE  RowsStored'
<1>1. /\ memory' = cache
      /\ shown' = IF cache[t] # NoTable THEN cache[t] ELSE IF t = selected THEN shown ELSE NoTable
      /\ asking' = IF asking[t] = NotAsked THEN [asking EXCEPT ![t] = Asked] ELSE asking
  BY DEF Effect, Fetched
<1>2. \A u \in Tab : asking'[u] = asking[u] \/ asking'[u] = Asked
  BY <1>1 DEF PageInv, PageTyped
<1>3. cache[t] # NoTable => cache[t].of = t /\ cache[t].bid <= stored[t]
  BY DEF PageInv, OwnRows, RowsStored
<1>4. shown' # NoTable => shown'.bid <= stored[shown'.of]
  BY <1>1, <1>3 DEF RowsStored
<1> QED
  BY <1>1, <1>2, <1>4 DEF RowsStored, Asked

LEMMA RowsStoredKept == PageInv /\ RowsStored /\ [TableNext]_tableVars => RowsStored'
<1> SUFFICES ASSUME PageInv, RowsStored, [TableNext]_tableVars PROVE RowsStored'
  OBVIOUS
<1> USE DEF PageInv
<1>1. ASSUME NEW t \in Tab, Select(t) PROVE RowsStored'
  BY <1>1, EffectRows DEF Select, serverVars
<1>2. ASSUME NEW t \in Tab, ReadRows(t) PROVE RowsStored'
  <2>1. /\ asking'[t].table.bid = stored[t]
        /\ \A u \in Tab \ {t} : asking'[u] = asking[u]
        /\ UNCHANGED <<stored, memory, shown>>
    BY <1>2 DEF ReadRows, serverVars, PageTyped
  <2>2. stored[t] \in Nat
    BY DEF PageTyped
  <2> QED
    BY <2>1, <2>2 DEF RowsStored
<1>3. ASSUME NEW t \in Tab, TableArrives(t) PROVE RowsStored'
  <2> DEFINE table == asking[t].table
  <2>1. /\ memory'[t] = table /\ \A u \in Tab \ {t} : memory'[u] = memory[u]
        /\ asking'[t] = NotAsked /\ \A u \in Tab \ {t} : asking'[u] = asking[u]
        /\ shown' = table \/ shown' = shown
        /\ UNCHANGED stored
    BY <1>3 DEF TableArrives, serverVars, PageTyped
  <2>2. table.of = t /\ table.bid <= stored[t]
    BY <1>3 DEF TableArrives, OwnRows, RowsStored
  <2> HIDE DEF table
  <2> QED
    BY <2>1, <2>2 DEF RowsStored, NotAsked
<1>4. ASSUME NEW t \in Tab, TableFails(t) PROVE RowsStored'
  <2>1. /\ \A u \in Tab : asking'[u] = NotAsked \/ asking'[u] = asking[u]
        /\ UNCHANGED <<stored, memory, shown>>
    BY <1>4 DEF TableFails, serverVars, PageTyped
  <2> QED
    BY <2>1 DEF RowsStored, NotAsked
<1>5. CASE RetryTable
  <2>1. /\ \A u \in Tab : asking'[u] = Asked \/ asking'[u] = asking[u]
        /\ UNCHANGED <<stored, memory, shown>>
    BY <1>5 DEF RetryTable, serverVars, PageTyped
  <2> QED
    BY <2>1 DEF RowsStored, Asked
<1>6. ASSUME NEW s \in Save, StoreBid(s) PROVE RowsStored'
  <2>1. UNCHANGED <<memory, shown, asking>> /\ stored' = [stored EXCEPT ![save[s].tab] = @ + 1]
    BY <1>6 DEF StoreBid
  <2>2. \A u \in Tab : stored[u] \in Nat /\ stored'[u] \in Nat /\ stored[u] <= stored'[u]
    BY <2>1 DEF PageTyped
  <2>3. /\ \A u \in Tab : memory[u] # NoTable => memory[u].bid \in Nat
        /\ \A u \in Tab : asking[u].step = "answered" => asking[u].table.bid \in Nat
        /\ shown # NoTable => shown.bid \in Nat /\ shown.of \in Tab
    BY DEF PageTyped, Rows, Answers, Asked, NotAsked
  <2> QED
    BY <2>1, <2>2, <2>3 DEF RowsStored
<1>7. ASSUME NEW s \in Save, Saved(s) PROVE RowsStored'
  <2>1. Effect(selected, Dropped(save[s].tab)) /\ UNCHANGED stored
    BY <1>7 DEF Saved, serverVars
  <2>2. \A u \in Tab : Dropped(save[s].tab)[u] = memory[u] \/ Dropped(save[s].tab)[u] = NoTable
    BY DEF Dropped, PageTyped
  <2> QED
    BY <2>1, <2>2, EffectRows DEF PageTyped
<1>8. CASE WorkspaceArrives
  <2>1. CASE Effect(selected, memory)
    BY <1>8, <2>1, EffectRows DEF WorkspaceArrives, serverVars, PageTyped
  <2>2. CASE UNCHANGED <<shown, memory, asking>>
    BY <1>8, <2>2 DEF WorkspaceArrives, serverVars, RowsStored
  <2> QED
    BY <1>8, <2>1, <2>2 DEF WorkspaceArrives
<1>9. CASE UNCHANGED <<stored, memory, shown, asking>>
  BY <1>9 DEF RowsStored
<1> QED
  BY <1>1, <1>2, <1>3, <1>4, <1>5, <1>6, <1>7, <1>8, <1>9
     DEF TableNext, tableVars, serverVars, editorVars, CommitBid, SaveFails, ReadWorkspace,
         WorkspaceFails, PollPending, WbAnswers, Materialized

LEMMA TimerWaitsKept == PageTyped /\ TimerWaits /\ [TableNext]_tableVars => TimerWaits'
<1> SUFFICES ASSUME PageTyped, TimerWaits, [TableNext]_tableVars PROVE TimerWaits'
  OBVIOUS
<1>1. ASSUME NEW t \in Tab, NEW cache, Effect(t, cache) PROVE TimerWaits'
  BY <1>1 DEF Effect, TimerWaits
<1>2. ASSUME NEW t \in Tab, ReadRows(t) PROVE TimerWaits'
  BY <1>2 DEF ReadRows, TimerWaits, PageTyped, Asked, NotAsked
<1>3. ASSUME NEW t \in Tab, TableArrives(t) \/ TableFails(t) PROVE TimerWaits'
  BY <1>3 DEF TableArrives, TableFails, TimerWaits, PageTyped
<1>4. CASE RetryTable
  BY <1>4 DEF RetryTable, TimerWaits
<1>5. CASE UNCHANGED <<selected, asking, retrying>>
  BY <1>5 DEF TimerWaits
<1>6. CASE WorkspaceArrives
  BY <1>1, <1>5, <1>6 DEF WorkspaceArrives, PageTyped
<1>7. ASSUME NEW t \in Tab, Select(t) PROVE TimerWaits'
  BY <1>1, <1>7 DEF Select
<1>8. ASSUME NEW s \in Save, Saved(s) PROVE TimerWaits'
  BY <1>1, <1>8 DEF Saved, PageTyped
<1> QED
  BY <1>2, <1>3, <1>4, <1>5, <1>6, <1>7, <1>8
     DEF TableNext, tableVars, CommitBid, StoreBid, SaveFails, ReadWorkspace,
         WorkspaceFails, PollPending, WbAnswers, Materialized

LEMMA SavingShownKept == PageInv /\ SavingShown /\ [TableNext]_tableVars => SavingShown'
<1> SUFFICES ASSUME PageInv, SavingShown, [TableNext]_tableVars PROVE SavingShown'
  OBVIOUS
<1> USE DEF PageInv
<1>1. ASSUME NEW s \in Save, CommitBid(s) PROVE SavingShown'
  <2>1. /\ save' = [save EXCEPT ![s] = [step |-> "sent", tab |-> shown.of]]
        /\ optimistic' = shown.of /\ shown # NoTable
    BY <1>1 DEF CommitBid
  <2>2. shown.of \in Tab
    BY <2>1 DEF PageTyped, OwnTable
  <2>3. save'[s].tab = optimistic' /\ save'[s].step = "sent"
    BY <2>1 DEF PageTyped
  <2> QED
    BY <2>1, <2>2, <2>3 DEF SavingShown
<1>2. ASSUME NEW s \in Save, StoreBid(s) PROVE SavingShown'
  BY <1>2 DEF StoreBid, SavingShown, PageTyped
<1>3. ASSUME NEW s \in Save, Saved(s) \/ SaveFails(s) PROVE SavingShown'
  BY <1>3 DEF Saved, SaveFails, SavingShown
<1>4. CASE UNCHANGED <<save, optimistic>>
  BY <1>4 DEF SavingShown
<1> QED
  BY <1>1, <1>2, <1>3, <1>4
     DEF TableNext, tableVars, serverVars, editorVars, Select, ReadRows, TableArrives,
         TableFails, RetryTable, ReadWorkspace, WorkspaceArrives, WorkspaceFails, PollPending,
         WbAnswers, Materialized

LEMMA PageFlagsKept == PageFlags /\ [TableNext]_tableVars => PageFlags'
<1> SUFFICES ASSUME PageFlags, [TableNext]_tableVars PROVE PageFlags'
  OBVIOUS
<1>1. Trial => trials' \in 0..MaxTrials
  BY TableAssumption DEF Trial, PageFlags
<1>2. trials' \in 0..MaxTrials
  BY <1>1
     DEF PageFlags, TableNext, tableVars, serverVars, editorVars, Select, ReadRows, TableArrives,
         TableFails, RetryTable, ReadWorkspace, WorkspaceArrives, WorkspaceFails, PollPending,
         WbAnswers, Materialized, CommitBid, StoreBid, Saved, SaveFails
<1>3. pending' \in BOOLEAN /\ workspace' \in {"none", "sent", "pending", "settled"}
  BY DEF PageFlags, TableNext, tableVars, serverVars, editorVars, Select, ReadRows, TableArrives,
         TableFails, RetryTable, ReadWorkspace, WorkspaceArrives, WorkspaceFails, PollPending,
         WbAnswers, Materialized, CommitBid, StoreBid, Saved, SaveFails, Refreshed
<1> QED
  BY <1>2, <1>3 DEF PageFlags

LEMMA TableAlways == TableSpec => [](PageInv /\ TableInv)
<1>1. PageInv /\ TableInv /\ [TableNext]_tableVars => TableInv'
  BY StoredOnceKept, RowsStoredKept, TimerWaitsKept, SavingShownKept, PageFlagsKept
     DEF PageInv, TableInv
<1> QED
  BY <1>1, InitialTable, PageAlways, PTL DEF TableSpec

\* The types of the page (TableTypeOK): a campaign's bid is stored no more often
\* than it is saved, the timer waits only while nothing is asked, and the cell
\* that shows a bid not yet saved has a save under way.
THEOREM TableTypeCorrect == TableSpec => []TableTypeOK
<1>1. PageInv /\ TableInv => TableTypeOK
  <2> SUFFICES ASSUME PageInv, TableInv PROVE TableTypeOK
    OBVIOUS
  <2>1. \A t \in Tab : \A n \in Nat : n <= stored[t] => n \in Saves
    <3>1. \A t \in Tab : stored[t] \in Nat /\ stored[t] <= Cardinality(Save)
      BY StoringFinite DEF PageInv, PageTyped, TableInv, StoredOnce
    <3> QED
      BY <3>1, StoringFinite DEF Saves
  <2>2. stored \in [Tab -> Saves] /\ returned \in [Tab -> Saves]
    BY <2>1 DEF PageInv, PageTyped, ReturnedStored
  <2>3. shown \in Table \union {NoTable}
    BY <2>1 DEF PageInv, PageTyped, TableInv, RowsStored, Rows, Table
  <2>4. memory \in [Tab -> Table \union {NoTable}]
    BY <2>1 DEF PageInv, PageTyped, TableInv, RowsStored, Rows, Table
  <2>5. asking \in [Tab -> {NotAsked, Asked} \union [step : {"answered"}, table : Table]]
    BY <2>1 DEF PageInv, PageTyped, TableInv, RowsStored, Answers, Table
  <2> QED
    BY <2>2, <2>3, <2>4, <2>5
       DEF PageInv, PageTyped, TableInv, TimerWaits, SavingShown, PageFlags, TableTypeOK
<1> QED
  BY <1>1, TableAlways, PTL

-----------------------------------------------------------------------------
(* The four together: what each of them does, with the others at rest, is  *)
(* what its own specification allows.                                      *)

\* A step of whoever has the turn, seen from each of the four.
LEMMA EngineSteps ==
  [EngineNext]_EngineVars =>
    /\ [AutoNext]_autoVars /\ [AccrualNext]_accrualVars
    /\ [BidNext]_engineVars /\ [TableNext]_tableVars
<1> SUFFICES ASSUME [EngineNext]_EngineVars
             PROVE  /\ [AutoNext]_autoVars /\ [AccrualNext]_accrualVars
                    /\ [BidNext]_engineVars /\ [TableNext]_tableVars
  OBVIOUS
<1>1. \/ UNCHANGED <<autoVars, accrualVars, engineVars, tableVars>>
      \/ AutoNext /\ UNCHANGED <<accrualVars, engineVars, tableVars>>
      \/ AccrualNext /\ UNCHANGED <<autoVars, engineVars, tableVars>>
      \/ BidNext /\ UNCHANGED <<autoVars, accrualVars, tableVars>>
      \/ TableNext /\ UNCHANGED <<autoVars, accrualVars, engineVars>>
  BY DEF EngineNext, EngineVars
<1> QED
  BY <1>1

\* The engines and the page, as they run side by side over columns of their own,
\* implement each of the four specifications: what is proved of one of them alone
\* holds of it there.
THEOREM EnginesCompose == EngineSpec => AutoSpec /\ AccrualSpec /\ BidSpec /\ TableSpec
<1>1. EngineInit => AutoInit /\ AccrualInit /\ BidInit /\ TableInit
  BY DEF EngineInit
<1> QED
  BY <1>1, EngineSteps, PTL DEF EngineSpec, AutoSpec, AccrualSpec, BidSpec, TableSpec

\* Side by side, each keeps its types: a bid the engine sets stays within WB's
\* bounds, an account settles only days that are over, a pass never
\* excludes and includes the same cluster, and a cell of the page shows a bid that is not
\* stored only while a save is under way.
THEOREM EnginesTypeCorrect == EngineSpec => []EnginesTypeOK
<1>1. AutoTypeOK /\ AccrualTypeOK /\ BidTypeOK /\ TableTypeOK => EnginesTypeOK
  BY DEF EnginesTypeOK
<1> QED
  BY <1>1, EnginesCompose, AutoTypeCorrect, AccrualTypeCorrect, BidTypeCorrect, TableTypeCorrect, PTL

=============================================================================
