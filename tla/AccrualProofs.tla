---------------------------- MODULE AccrualProofs ----------------------------
(***************************************************************************)
(* Proofs about the nightly account of a cluster, for any number of days,  *)
(* buckets, orders and re-runs: each day a job found is in it once. The    *)
(* account is compared with sums over sets of days. A sum is a function    *)
(* that recurs over the subsets of its set; what holds of every sum is     *)
(* proved by a smallest set it would fail for (Smallest).                  *)
(***************************************************************************)
EXTENDS ClusterAccrual, FiniteSetTheorems, WellFoundedInduction, TLAPS

-----------------------------------------------------------------------------
(* Sums over finite sets. *)

Pick(D) == CHOOSE d \in D : TRUE

\* h adds v up over every subset of U, one element after the other.
Adds(h, v, U) ==
  h = [D \in SUBSET U |-> IF D = {} THEN 0 ELSE v[Pick(D)] + h[D \ {Pick(D)}]]

Adder(v, U) == CHOOSE h : Adds(h, v, U)

Sum(v, U) == Adder(v, U)[U]

LEMMA PickIn == ASSUME NEW D, D # {} PROVE Pick(D) \in D
BY DEF Pick

LEMMA AddsAt ==
  ASSUME NEW v, NEW U, NEW h, Adds(h, v, U), NEW D \in SUBSET U
  PROVE  h[D] = IF D = {} THEN 0 ELSE v[Pick(D)] + h[D \ {Pick(D)}]
BY DEF Adds

\* In a family of finite sets one contains no other of them.
LEMMA Smallest ==
  ASSUME NEW U, IsFiniteSet(U), NEW Family, Family \subseteq SUBSET U, Family # {}
  PROVE  \E D \in Family : \A E \in SUBSET D : E # D => E \notin Family
<1>1. IsWellFoundedOn(StrictSubsetOrdering(U), SUBSET U)
  BY FS_StrictSubsetOrderingWellFounded, FS_FiniteSubsetsOfFinite
<1>2. PICK D \in Family : \A E \in Family : ~(<<E, D>> \in StrictSubsetOrdering(U))
  BY <1>1, WFMin, Zenon
<1>3. ASSUME NEW E \in SUBSET D, E # D, E \in Family PROVE FALSE
  BY <1>2, <1>3 DEF StrictSubsetOrdering
<1> QED
  BY <1>3

\* Two that add the same up agree where both are defined.
LEMMA AddsAgree ==
  ASSUME NEW v, NEW U, NEW W, IsFiniteSet(U), NEW g, NEW h, Adds(g, v, U), Adds(h, v, W)
  PROVE  \A D : D \subseteq U /\ D \subseteq W => g[D] = h[D]
<1> DEFINE Bad == {D \in SUBSET U : D \subseteq W /\ g[D] # h[D]}
<1> SUFFICES ASSUME Bad # {} PROVE FALSE
  OBVIOUS
<1>1. PICK D \in Bad : \A E \in SUBSET D : E # D => E \notin Bad
  <2>1. Bad \subseteq SUBSET U
    OBVIOUS
  <2> HIDE DEF Bad
  <2> QED
    BY <2>1, Smallest
<1>2. D \in SUBSET U /\ D \in SUBSET W /\ g[D] # h[D]
  BY <1>1
<1>3. g[D] = IF D = {} THEN 0 ELSE v[Pick(D)] + g[D \ {Pick(D)}]
  BY <1>2, AddsAt
<1>4. h[D] = IF D = {} THEN 0 ELSE v[Pick(D)] + h[D \ {Pick(D)}]
  BY <1>2, AddsAt
<1>5. CASE D = {}
  BY <1>2, <1>3, <1>4, <1>5
<1>6. CASE D # {}
  <2>1. D \ {Pick(D)} \in SUBSET D /\ D \ {Pick(D)} # D
    BY <1>6, PickIn
  <2>2. g[D \ {Pick(D)}] = h[D \ {Pick(D)}]
    BY <1>1, <1>2, <2>1
  <2> QED
    BY <1>2, <1>3, <1>4, <1>6, <2>2
<1> QED
  BY <1>5, <1>6

\* Over a finite set there is one.
LEMMA AdderExists ==
  ASSUME NEW v, NEW U, IsFiniteSet(U)
  PROVE  Adds(Adder(v, U), v, U)
<1> DEFINE Bad == {D \in SUBSET U : ~\E h : Adds(h, v, D)}
<1>1. ASSUME Bad # {} PROVE FALSE
  <2>1. PICK D \in Bad : \A E \in SUBSET D : E # D => E \notin Bad
    <3>1. Bad \subseteq SUBSET U
      OBVIOUS
    <3> HIDE DEF Bad
    <3> QED
      BY <1>1, <3>1, Smallest
  <2>2. D \in SUBSET U /\ ~\E h : Adds(h, v, D)
    BY <2>1
  <2>3. \A E \in SUBSET D : E # D => Adds(Adder(v, E), v, E) /\ IsFiniteSet(E)
    BY <2>1, <2>2, FS_Subset DEF Adder
  <2> DEFINE Rest(E) == E \ {Pick(E)}
             h == [E \in SUBSET D |->
                     IF E = {} THEN 0 ELSE v[Pick(E)] + Adder(v, Rest(E))[Rest(E)]]
  <2>4. ASSUME NEW E \in SUBSET D, E # {} PROVE h[Rest(E)] = Adder(v, Rest(E))[Rest(E)]
    <3> DEFINE F == Rest(E)
    <3>1. F \in SUBSET D /\ F # D
      BY <2>4, PickIn
    <3>2. Adds(Adder(v, F), v, F) /\ F \in SUBSET F
      BY <2>3, <3>1
    <3>3. Adder(v, F)[F] = IF F = {} THEN 0 ELSE v[Pick(F)] + Adder(v, F)[Rest(F)]
      BY <3>2 DEF Adds
    <3>4. h[F] = IF F = {} THEN 0 ELSE v[Pick(F)] + Adder(v, Rest(F))[Rest(F)]
      BY <3>1
    <3>5. CASE F = {}
      BY <3>3, <3>4, <3>5
    <3>6. CASE F # {}
      <4>1. Rest(F) \in SUBSET D /\ Rest(F) # D /\ Rest(F) \in SUBSET F
        BY <3>1, <3>6, PickIn
      <4>2. Adds(Adder(v, Rest(F)), v, Rest(F)) /\ IsFiniteSet(F)
        BY <2>3, <3>1, <4>1
      <4> HIDE DEF F, Rest, h
      <4>3. Adder(v, F)[Rest(F)] = Adder(v, Rest(F))[Rest(F)]
        BY <3>2, <4>1, <4>2, AddsAgree
      <4> QED
        BY <3>3, <3>4, <3>6, <4>3 DEF F
    <3> QED
      BY <3>5, <3>6
  <2>5. Adds(h, v, D)
    <3>1. \A E \in SUBSET D : h[E] = IF E = {} THEN 0 ELSE v[Pick(E)] + h[E \ {Pick(E)}]
      BY <2>4
    <3>2. h = [E \in SUBSET D |-> h[E]]
      OBVIOUS
    <3> HIDE DEF h
    <3> QED
      BY <3>1, <3>2 DEF Adds
  <2> QED
    BY <2>2, <2>5
<1>2. \E h : Adds(h, v, U)
  BY <1>1
<1> QED
  BY <1>2 DEF Adder

LEMMA SumEmpty == ASSUME NEW v PROVE Sum(v, {}) = 0
<1>1. Adds(Adder(v, {}), v, {}) /\ {} \in SUBSET {}
  BY AdderExists, FS_EmptySet
<1> QED
  BY <1>1, AddsAt DEF Sum

\* The adder of a set gives the sum of each of its subsets.
LEMMA AdderSums ==
  ASSUME NEW v, NEW U, IsFiniteSet(U), NEW D \in SUBSET U
  PROVE  Adder(v, U)[D] = Sum(v, D)
<1>1. IsFiniteSet(D)
  BY FS_Subset
<1>2. Adds(Adder(v, U), v, U) /\ Adds(Adder(v, D), v, D)
  BY <1>1, AdderExists
<1>3. Adder(v, U)[D] = Adder(v, D)[D]
  BY <1>2, AddsAgree
<1> QED
  BY <1>3 DEF Sum

LEMMA SumPick ==
  ASSUME NEW v, NEW U, IsFiniteSet(U), U # {}
  PROVE  Sum(v, U) = v[Pick(U)] + Sum(v, U \ {Pick(U)})
<1>1. Adds(Adder(v, U), v, U)
  BY AdderExists
<1>2. U \in SUBSET U /\ U \ {Pick(U)} \in SUBSET U
  OBVIOUS
<1>3. Adder(v, U)[U] = v[Pick(U)] + Adder(v, U)[U \ {Pick(U)}]
  BY <1>1, <1>2, AddsAt
<1> QED
  BY <1>2, <1>3, AdderSums

LEMMA SumNat ==
  ASSUME NEW v, NEW U, IsFiniteSet(U), \A d \in U : v[d] \in Nat
  PROVE  Sum(v, U) \in Nat
<1> DEFINE Bad == {D \in SUBSET U : Sum(v, D) \notin Nat}
<1> SUFFICES ASSUME Bad # {} PROVE FALSE
  OBVIOUS
<1>1. PICK D \in Bad : \A E \in SUBSET D : E # D => E \notin Bad
  <2>1. Bad \subseteq SUBSET U
    OBVIOUS
  <2> HIDE DEF Bad
  <2> QED
    BY <2>1, Smallest
<1>2. D \in SUBSET U /\ Sum(v, D) \notin Nat /\ IsFiniteSet(D)
  BY <1>1, FS_Subset
<1>3. D # {}
  BY <1>2, SumEmpty
<1>4. Pick(D) \in D
  BY <1>3, PickIn
<1>5. Sum(v, D \ {Pick(D)}) \in Nat
  BY <1>1, <1>2, <1>4
<1>6. Sum(v, D) = v[Pick(D)] + Sum(v, D \ {Pick(D)})
  BY <1>2, <1>3, SumPick
<1> QED
  BY <1>2, <1>4, <1>5, <1>6

\* Whatever element is taken out first.
LEMMA SumWithout ==
  ASSUME NEW v, NEW U, IsFiniteSet(U), \A d \in U : v[d] \in Nat, NEW c \in U
  PROVE  Sum(v, U) = v[c] + Sum(v, U \ {c})
<1> DEFINE Bad == {D \in SUBSET U : \E d \in D : Sum(v, D) # v[d] + Sum(v, D \ {d})}
<1> SUFFICES ASSUME Bad # {} PROVE FALSE
  OBVIOUS
<1>1. PICK D \in Bad : \A E \in SUBSET D : E # D => E \notin Bad
  <2>1. Bad \subseteq SUBSET U
    OBVIOUS
  <2> HIDE DEF Bad
  <2> QED
    BY <2>1, Smallest
<1>2. PICK d \in D : Sum(v, D) # v[d] + Sum(v, D \ {d})
  BY <1>1
<1>3. D \in SUBSET U /\ IsFiniteSet(D) /\ Pick(D) \in D
  BY <1>1, <1>2, FS_Subset, PickIn
<1> DEFINE p == Pick(D)
           Rest == D \ {d, p}
<1>4. p \in D /\ Sum(v, D) = v[p] + Sum(v, D \ {p})
  BY <1>2, <1>3, SumPick
<1> HIDE DEF p
<1>5. d # p
  BY <1>2, <1>4
<1>6. Sum(v, D \ {p}) = v[d] + Sum(v, Rest)
  <2>1. D \ {p} \in SUBSET D /\ D \ {p} # D /\ d \in D \ {p} /\ D \ {p} \in SUBSET U
    BY <1>3, <1>4, <1>5
  <2>2. Sum(v, D \ {p}) = v[d] + Sum(v, (D \ {p}) \ {d})
    BY <1>1, <2>1
  <2>3. (D \ {p}) \ {d} = Rest
    OBVIOUS
  <2> QED
    BY <2>2, <2>3
<1>7. Sum(v, D \ {d}) = v[p] + Sum(v, Rest)
  <2>1. D \ {d} \in SUBSET D /\ D \ {d} # D /\ p \in D \ {d} /\ D \ {d} \in SUBSET U
    BY <1>2, <1>3, <1>4, <1>5
  <2>2. Sum(v, D \ {d}) = v[p] + Sum(v, (D \ {d}) \ {p})
    BY <1>1, <2>1
  <2>3. (D \ {d}) \ {p} = Rest
    OBVIOUS
  <2> QED
    BY <2>2, <2>3
<1>8. v[d] \in Nat /\ v[p] \in Nat /\ Sum(v, Rest) \in Nat
  <2>1. Rest \subseteq U /\ IsFiniteSet(Rest)
    BY <1>3, FS_Subset
  <2> QED
    BY <1>3, <1>4, <2>1, SumNat
<1> HIDE DEF Rest
<1> QED
  BY <1>2, <1>4, <1>6, <1>7, <1>8

\* A sum grows with what is summed up.
LEMMA SumGrows ==
  ASSUME NEW v, NEW w, NEW U, IsFiniteSet(U),
         \A d \in U : v[d] \in Nat /\ w[d] \in Nat /\ v[d] <= w[d]
  PROVE  Sum(v, U) <= Sum(w, U)
<1> DEFINE Bad == {D \in SUBSET U : ~(Sum(v, D) <= Sum(w, D))}
<1> SUFFICES ASSUME Bad # {} PROVE FALSE
  OBVIOUS
<1>1. PICK D \in Bad : \A E \in SUBSET D : E # D => E \notin Bad
  <2>1. Bad \subseteq SUBSET U
    OBVIOUS
  <2> HIDE DEF Bad
  <2> QED
    BY <2>1, Smallest
<1>2. D \in SUBSET U /\ ~(Sum(v, D) <= Sum(w, D)) /\ IsFiniteSet(D)
  BY <1>1, FS_Subset
<1>3. D # {}
  BY <1>2, SumEmpty
<1> DEFINE p == Pick(D)
           Rest == D \ {p}
<1>4. p \in D
  BY <1>3, PickIn
<1>5. Sum(v, D) = v[p] + Sum(v, Rest) /\ Sum(w, D) = w[p] + Sum(w, Rest)
  BY <1>2, <1>3, SumPick
<1>6. Rest \in SUBSET D /\ Rest # D /\ Rest \in SUBSET U /\ IsFiniteSet(Rest)
  BY <1>2, <1>4, FS_Subset
<1>7. Sum(v, Rest) <= Sum(w, Rest)
  BY <1>1, <1>6
<1>8. Sum(v, Rest) \in Nat /\ Sum(w, Rest) \in Nat
  BY <1>6, SumNat
<1>9. v[p] \in Nat /\ w[p] \in Nat /\ v[p] <= w[p]
  BY <1>2, <1>4
<1> HIDE DEF p, Rest
<1> QED
  BY <1>2, <1>5, <1>7, <1>8, <1>9

LEMMA SumSame ==
  ASSUME NEW v, NEW w, NEW U, IsFiniteSet(U), \A d \in U : v[d] \in Nat /\ v[d] = w[d]
  PROVE  Sum(v, U) = Sum(w, U)
<1>1. Sum(v, U) <= Sum(w, U) /\ Sum(w, U) <= Sum(v, U)
  BY SumGrows
<1>2. Sum(v, U) \in Nat /\ Sum(w, U) \in Nat
  BY SumNat
<1> QED
  BY <1>1, <1>2

-----------------------------------------------------------------------------
(* The totals of the statistics are such sums. *)

Field == {"spend", "rk", "jam"}

Column(s, field) == [d \in Day |-> s[d][field]]

LEMMA SomeDays == ASSUME NEW D \in SUBSET Day PROVE IsFiniteSet(D)
<1>1. 1 \in Int /\ LastDay \in Int
  BY AccrualAssumption
<1>2. IsFiniteSet(Day)
  BY <1>1, FS_Interval DEF Day
<1> QED
  BY <1>2, FS_Subset

LEMMA TotalIsSum ==
  ASSUME NEW s, NEW field, NEW D \in SUBSET Day
  PROVE  MapThenSumSet(LAMBDA d : s[d][field], D) = Sum(Column(s, field), D)
<1> DEFINE total == MapThenSumSet(LAMBDA d : s[d][field], D)
           v == Column(s, field)
           Eq(h) == h = [E \in SUBSET D |->
                     IF E = {} THEN 0
                     ELSE s[CHOOSE d \in E : TRUE][field] + h[E \ {CHOOSE d \in E : TRUE}]]
           iter == CHOOSE h : Eq(h)
<1>1. total = iter[D]
  BY DEF MapThenSumSet, MapThenFoldSet
<1>2. ASSUME NEW h PROVE Eq(h) <=> Adds(h, v, D)
  <2>1. \A E \in SUBSET D : E # {} => v[Pick(E)] = s[CHOOSE d \in E : TRUE][field]
    BY PickIn DEF Column, Pick
  <2>2. \A E \in SUBSET D :
           (IF E = {} THEN 0
            ELSE s[CHOOSE d \in E : TRUE][field] + h[E \ {CHOOSE d \in E : TRUE}])
         = (IF E = {} THEN 0 ELSE v[Pick(E)] + h[E \ {Pick(E)}])
    BY <2>1 DEF Pick
  <2> HIDE DEF v
  <2>3. [E \in SUBSET D |->
           IF E = {} THEN 0
           ELSE s[CHOOSE d \in E : TRUE][field] + h[E \ {CHOOSE d \in E : TRUE}]]
         = [E \in SUBSET D |-> IF E = {} THEN 0 ELSE v[Pick(E)] + h[E \ {Pick(E)}]]
    BY <2>2, Zenon
  <2> QED
    BY <2>3 DEF Adds
<1>3. IsFiniteSet(D)
  BY SomeDays
<1> HIDE DEF v, Eq
<1>4. Adds(Adder(v, D), v, D)
  BY <1>3, AdderExists
<1>5. Eq(iter)
  BY <1>2, <1>4
<1>6. Adds(iter, v, D)
  BY <1>2, <1>5
<1>7. iter[D] = Adder(v, D)[D]
  BY <1>3, <1>4, <1>6, AddsAgree
<1> QED
  BY <1>1, <1>7 DEF Sum, v

-----------------------------------------------------------------------------
(* The account. *)

AccountRow == [spend : Nat, rk : Nat, jam : Nat, last : Nat]

AccrualTyped ==
  /\ day \in Day /\ morning \in BOOLEAN
  /\ stats \in [Day -> Stats]
  /\ price \in [Day -> Bucket]
  /\ account \in [Bucket -> AccountRow]
  /\ running \in BOOLEAN
  /\ booked \in [Day -> Stats]
  /\ reruns \in 0..MaxReruns

\* The last day a job can have run for.
Nightly == IF morning THEN day - 1 ELSE day - 2

\* A day the job has not reached is not booked, and in no account; yesterday is
\* booked exactly when the account of its price says so.
Nights ==
  /\ ~morning => day > 1
  /\ \A b \in Bucket : account[b].last <= Nightly
  /\ \A d \in Day : d > Nightly => booked[d] = NoStats
  /\ morning /\ day > 1 =>
       (booked[day - 1] # NoStats <=> account[price[day - 1]].last = day - 1)

\* The past days with the price of a bucket.
Past(b) == {d \in 1..(day - 1) : price[d] = b}

AccountIsBooked ==
  \A b \in Bucket, field \in Field : account[b][field] = Sum(Column(booked, field), Past(b))

AccrualInv == AccrualTyped /\ Nights /\ AccountIsBooked

LEMMA ColumnIs ==
  ASSUME NEW s \in [Day -> Stats], NEW field \in Field
  PROVE  \A d \in Day : Column(s, field)[d] = s[d][field] /\ s[d][field] \in Nat
BY AccrualAssumption DEF Column, Stats, Field

LEMMA NoStatsTyped == NoStats \in Stats /\ \A field \in Field : NoStats[field] = 0
BY AccrualAssumption DEF NoStats, Stats, Field

\* Days are numbers, and the past is made of days.
LEMMA PastDays ==
  ASSUME AccrualTyped, NEW b \in Bucket
  PROVE  /\ day \in Nat /\ day >= 1 /\ day <= LastDay /\ LastDay \in Nat
         /\ Past(b) \in SUBSET Day /\ IsFiniteSet(Past(b))
<1>1. day \in Nat /\ day >= 1 /\ day <= LastDay /\ LastDay \in Nat
  BY AccrualAssumption DEF AccrualTyped, Day
<1>2. Past(b) \in SUBSET Day
  BY <1>1 DEF Past, Day
<1> QED
  BY <1>1, <1>2, SomeDays

-----------------------------------------------------------------------------
(* The account, step by step. *)

LEMMA AccrualInitInv == AccrualInit => AccrualInv
<1> SUFFICES ASSUME AccrualInit PROVE AccrualInv
  OBVIOUS
<1>1. 1 \in Day /\ 0 \in 0..MaxReruns
  BY AccrualAssumption DEF Day
<1>2. AccrualTyped
  BY <1>1, NoStatsTyped, Zenon DEF AccrualInit, AccrualTyped, AccountRow, NoDay
<1>3. Nights
  BY <1>1 DEF AccrualInit, Nights, Nightly, NoDay
<1>4. \A b \in Bucket : Past(b) = {}
  BY DEF AccrualInit, Past
<1>5. AccountIsBooked
  BY <1>4, SumEmpty DEF AccrualInit, AccountIsBooked, Field
<1> QED
  BY <1>2, <1>3, <1>5 DEF AccrualInv

\* What becomes known of a day changes no account.
LEMMA StatsKeepAccount ==
  ASSUME AccrualInv, stats' \in [Day -> Stats],
         UNCHANGED <<day, morning, price, account, running, booked, reruns>>
  PROVE  AccrualInv'
<1>1. \A b \in Bucket : Past(b)' = Past(b)
  BY DEF Past
<1> QED
  BY <1>1 DEF AccrualInv, AccrualTyped, Nights, Nightly, AccountIsBooked

LEMMA SpendsKeep == ASSUME AccrualInv, NEW d \in Day, Spends(d) PROVE AccrualInv'
<1>1. stats \in [Day -> Stats]
  BY DEF AccrualInv, AccrualTyped
<1>2. stats' = [stats EXCEPT ![d].spend = @ + 1] /\ stats[d].spend < MaxSpend
  BY DEF Spends
<1>3. stats' \in [Day -> Stats]
  BY <1>1, <1>2, AccrualAssumption DEF Stats
<1> QED
  BY <1>3, StatsKeepAccount DEF Spends

LEMMA SellsKeep ==
  ASSUME AccrualInv, NEW d \in Day, NEW field \in {"rk", "jam"}, Sells(d, field)
  PROVE  AccrualInv'
<1>1. stats \in [Day -> Stats] /\ MaxOrders \in Nat
  BY AccrualAssumption DEF AccrualInv, AccrualTyped
<1>2. stats' = [stats EXCEPT ![d][field] = @ + 1] /\ TotalOf(Day, field) < MaxOrders
  BY DEF Sells
<1>3. stats[d][field] < MaxOrders
  <2>1. TotalOf(Day, field) = Sum(Column(stats, field), Day)
    BY TotalIsSum DEF TotalOf
  <2>2. IsFiniteSet(Day) /\ IsFiniteSet(Day \ {d})
    BY SomeDays
  <2>3. \A e \in Day : Column(stats, field)[e] = stats[e][field] /\ stats[e][field] \in Nat
    BY <1>1, ColumnIs DEF Field
  <2>4. Sum(Column(stats, field), Day)
        = Column(stats, field)[d] + Sum(Column(stats, field), Day \ {d})
    BY <2>2, <2>3, SumWithout
  <2>5. Sum(Column(stats, field), Day \ {d}) \in Nat
    BY <2>2, <2>3, SumNat
  <2> QED
    BY <1>1, <1>2, <2>1, <2>3, <2>4, <2>5
<1>4. stats' \in [Day -> Stats]
  BY <1>1, <1>2, <1>3, AccrualAssumption DEF Stats
<1> QED
  BY <1>4, StatsKeepAccount DEF Sells

\* A new price changes no past day.
LEMMA RepricesKeep ==
  ASSUME AccrualInv, NEW b \in Bucket, Reprices(b)
  PROVE  AccrualInv'
<1> USE DEF AccrualInv
<1>1. price' = [d \in Day |-> IF d >= day THEN b ELSE price[d]] /\ ~morning
      /\ UNCHANGED <<day, morning, stats, account, running, booked, reruns>>
  BY DEF Reprices
<1>2. AccrualTyped'
  BY <1>1 DEF AccrualTyped
<1>3. Nights'
  BY <1>1 DEF Nights, Nightly
<1>4. \A c \in Bucket : Past(c)' = Past(c)
  <2>1. \A d \in 1..(day - 1) : price'[d] = price[d]
    BY <1>1, AccrualAssumption DEF AccrualTyped, Day
  <2> QED
    BY <1>1, <2>1 DEF Past
<1>5. AccountIsBooked'
  BY <1>1, <1>4 DEF AccountIsBooked
<1> QED
  BY <1>2, <1>3, <1>5

\* One more day in the sum.
LEMMA SumWith ==
  ASSUME NEW s \in [Day -> Stats], NEW field \in Field, NEW D \in SUBSET Day,
         NEW d \in Day, d \notin D
  PROVE  Sum(Column(s, field), D \union {d}) = Sum(Column(s, field), D) + s[d][field]
<1> DEFINE E == D \union {d}
<1>1. IsFiniteSet(E) /\ IsFiniteSet(D)
  BY SomeDays
<1>2. \A e \in E : Column(s, field)[e] \in Nat
  BY ColumnIs
<1>3. Sum(Column(s, field), E) = Column(s, field)[d] + Sum(Column(s, field), E \ {d})
  BY <1>1, <1>2, SumWithout
<1>4. E \ {d} = D
  OBVIOUS
<1>5. Column(s, field)[d] = s[d][field] /\ s[d][field] \in Nat
  BY ColumnIs
<1>6. Sum(Column(s, field), D) \in Nat
  BY <1>1, <1>2, SumNat
<1> HIDE DEF E
<1>7. Sum(Column(s, field), E) = s[d][field] + Sum(Column(s, field), D)
  BY <1>3, <1>4, <1>5
<1>8. Sum(Column(s, field), E) = Sum(Column(s, field), D) + s[d][field]
  BY <1>5, <1>6, <1>7
<1> QED
  BY <1>8 DEF E

\* Today becomes a past day nobody has booked.
LEMMA MidnightKeeps == AccrualInv /\ Midnight => AccrualInv'
<1> SUFFICES ASSUME AccrualInv, Midnight PROVE AccrualInv'
  OBVIOUS
<1> USE DEF AccrualInv
<1>1. /\ morning /\ day < LastDay /\ day' = day + 1 /\ morning' = FALSE
      /\ UNCHANGED <<stats, price, account, running, booked, reruns>>
  BY DEF Midnight
<1>2. day \in Nat /\ day >= 1 /\ LastDay \in Nat /\ day \in Day /\ day + 1 \in Day
  BY <1>1, AccrualAssumption DEF AccrualTyped, Day
<1>3. AccrualTyped'
  BY <1>1, <1>2 DEF AccrualTyped
<1>4. Nights'
  BY <1>1, <1>2 DEF Nights, Nightly
<1>5. ASSUME NEW b \in Bucket, NEW field \in Field
      PROVE  account'[b][field] = Sum(Column(booked', field), Past(b)')
  <2>1. account[b][field] = Sum(Column(booked, field), Past(b)) /\ Past(b) \in SUBSET Day
    BY PastDays DEF AccountIsBooked
  <2>2. booked[day] = NoStats /\ booked \in [Day -> Stats]
    BY <1>1, <1>2 DEF Nights, Nightly, AccrualTyped
  <2>3. CASE price[day] # b
    <3>1. Past(b)' = Past(b)
      BY <1>1, <1>2, <2>3 DEF Past
    <3> QED
      BY <1>1, <2>1, <3>1
  <2>4. CASE price[day] = b
    <3>1. Past(b)' = Past(b) \union {day} /\ day \notin Past(b)
      BY <1>1, <1>2, <2>4 DEF Past
    <3>2. Sum(Column(booked, field), Past(b) \union {day})
          = Sum(Column(booked, field), Past(b)) + booked[day][field]
      BY <1>2, <2>1, <2>2, <3>1, SumWith
    <3>3. Sum(Column(booked, field), Past(b)) \in Nat
      BY <2>1, <2>2, ColumnIs, SomeDays, SumNat
    <3>4. booked[day][field] = 0
      BY <2>2, NoStatsTyped
    <3>5. Sum(Column(booked, field), Past(b) \union {day}) = account[b][field]
      BY <2>1, <3>2, <3>3, <3>4
    <3> QED
      BY <1>1, <3>1, <3>5
  <2> QED
    BY <2>3, <2>4
<1>6. AccountIsBooked'
  BY <1>5 DEF AccountIsBooked
<1> QED
  BY <1>3, <1>4, <1>6

\* A day is added to the account of its price, unless it is in it already or
\* has no statistics.
LEMMA AccrueDayKeeps ==
  ASSUME AccrualInv, AccrueDay, morning' = TRUE, UNCHANGED <<day, stats, price>>
  PROVE  /\ Nights' /\ AccountIsBooked'
         /\ account' \in [Bucket -> AccountRow] /\ booked' \in [Day -> Stats]
<1> USE DEF AccrualInv
<1> DEFINE d == day - 1
           b == price[d]
           row == account[b]
<1>1. /\ day \in Nat /\ day >= 1 /\ stats \in [Day -> Stats] /\ booked \in [Day -> Stats]
      /\ account \in [Bucket -> AccountRow]
  BY AccrualAssumption DEF AccrualTyped, Day
<1>2. \A c \in Bucket : /\ account[c].last \in Nat /\ account[c].last <= d
                        /\ \A field \in Field : account[c][field] \in Nat
  BY <1>1 DEF Nights, Nightly, AccountRow, Field
<1>3. \A c \in Bucket : Past(c)' = Past(c)
  BY DEF Past
<1>4. CASE UNCHANGED <<account, booked>> /\ (morning \/ day = 1 \/ stats[d] = NoStats)
  <2>1. Nights'
    <3>1. CASE day = 1
      BY <1>1, <1>2, <1>4, <3>1 DEF Nights, Nightly
    <3>2. CASE day > 1 /\ morning
      BY <1>1, <1>2, <1>4, <3>2 DEF Nights, Nightly
    <3>3. CASE day > 1 /\ ~morning
      <4>1. d \in Day /\ b \in Bucket
        BY <1>1, <3>3, AccrualAssumption DEF AccrualTyped, Day
      <4>2. booked[d] = NoStats /\ row.last <= day - 2 /\ row.last \in Nat
        BY <1>1, <1>2, <3>3, <4>1 DEF Nights, Nightly
      <4>3. \A e \in Day : e > d => booked[e] = NoStats
        BY <1>1, <3>3, AccrualAssumption DEF Nights, Nightly, Day
      <4>4. \A c \in Bucket : account'[c].last <= d
        BY <1>2, <1>4
      <4>5. account'[price'[d]].last # d /\ booked'[d] = NoStats
        BY <1>1, <1>4, <4>2
      <4> HIDE DEF b, row
      <4> QED
        BY <1>1, <1>4, <3>3, <4>3, <4>4, <4>5 DEF Nights, Nightly
    <3> QED
      BY <1>1, <3>1, <3>2, <3>3
  <2>2. AccountIsBooked'
    BY <1>3, <1>4 DEF AccountIsBooked
  <2> QED
    BY <1>1, <1>4, <2>1, <2>2
<1>5. CASE /\ day > 1 /\ stats[d] # NoStats
           /\ account' = [account EXCEPT ![b] = Accrued(@, d)]
           /\ booked' = [booked EXCEPT ![d] = IF @ = NoStats THEN stats[d] ELSE @]
  <2>1. d \in Day /\ b \in Bucket /\ stats[d] \in Stats /\ booked[d] \in Stats
    <3>1. d \in Day /\ b \in Bucket
      BY <1>1, <1>5, AccrualAssumption DEF AccrualTyped, Day
    <3> QED
      BY <1>1, <3>1
  <2>2. \A field \in Field : stats[d][field] \in Nat
    BY <1>1, <2>1, ColumnIs
  <2>3. booked[d] = NoStats <=> row.last < d
    <3>1. CASE morning
      BY <1>1, <1>2, <1>5, <2>1, <3>1 DEF Nights
    <3>2. CASE ~morning
      BY <1>1, <1>2, <1>5, <2>1, <3>2 DEF Nights, Nightly
    <3> QED
      BY <3>1, <3>2 DEF AccrualTyped
  <2>4. CASE booked[d] # NoStats
    <3>1. Accrued(row, d) = row
      BY <2>3, <2>4 DEF Accrued
    <3>2. UNCHANGED <<account, booked>> /\ row.last = d
      BY <1>1, <1>2, <1>5, <2>1, <2>3, <2>4, <3>1
    <3>3. Nights'
      BY <1>1, <1>2, <1>5, <2>1, <2>4, <3>2 DEF Nights, Nightly
    <3>4. AccountIsBooked'
      BY <1>3, <3>2 DEF AccountIsBooked
    <3> QED
      BY <1>1, <3>2, <3>3, <3>4
  <2>5. CASE booked[d] = NoStats
    <3> DEFINE new == [spend |-> row.spend + stats[d].spend, rk |-> row.rk + stats[d].rk,
                       jam |-> row.jam + stats[d].jam, last |-> d]
    <3>1. account' = [account EXCEPT ![b] = new] /\ booked' = [booked EXCEPT ![d] = stats[d]]
      BY <1>1, <1>5, <2>1, <2>3, <2>5 DEF Accrued
    <3>2. /\ new \in AccountRow /\ new.last = d
          /\ \A field \in Field : new[field] = row[field] + stats[d][field]
      BY <1>1, <1>2, <1>5, <2>1, <2>2 DEF AccountRow, Field
    <3> HIDE DEF new
    <3>3. account' \in [Bucket -> AccountRow] /\ booked' \in [Day -> Stats]
      BY <1>1, <2>1, <3>1, <3>2
    <3>4. account'[b] = new /\ booked'[d] = stats[d]
          /\ (\A c \in Bucket : c # b => account'[c] = account[c])
          /\ (\A e \in Day : e # d => booked'[e] = booked[e])
      BY <1>1, <2>1, <3>1
    <3>5. Nights'
      <4>1. \A c \in Bucket : account'[c].last <= d
        BY <1>1, <1>2, <3>2, <3>4
      <4>2. \A e \in Day : e > d => booked'[e] = NoStats
        <5>1. \A e \in Day : e > d => booked[e] = NoStats
          BY <1>1, AccrualAssumption DEF Nights, Nightly, AccrualTyped, Day
        <5> QED
          BY <1>1, <3>4, <5>1
      <4> QED
        BY <1>1, <1>5, <2>1, <3>2, <3>4, <4>1, <4>2 DEF Nights, Nightly
    <3>6. ASSUME NEW c \in Bucket, NEW field \in Field
          PROVE  account'[c][field] = Sum(Column(booked', field), Past(c)')
      <4> DEFINE P == Past(c)
      <4>1. P \in SUBSET Day /\ account[c][field] = Sum(Column(booked, field), P)
        BY PastDays DEF AccountIsBooked
      <4>2. \A e \in Day : /\ Column(booked, field)[e] = booked[e][field] /\ booked[e][field] \in Nat
                           /\ Column(booked', field)[e] = booked'[e][field] /\ booked'[e][field] \in Nat
        BY <1>1, <3>3, ColumnIs
      <4>3. CASE c # b
        <5>1. d \notin P
          BY <4>3 DEF Past
        <5> HIDE DEF P
        <5>2. Sum(Column(booked', field), P) = Sum(Column(booked, field), P)
          BY <3>4, <4>1, <4>2, <5>1, SomeDays, SumSame
        <5> QED
          BY <1>3, <3>4, <4>1, <4>3, <5>2 DEF P
      <4>4. CASE c = b
        <5>1. d \in P
          BY <1>1, <1>5, <4>4 DEF Past
        <5> HIDE DEF P
        <5> DEFINE R == P \ {d}
        <5>2. R \in SUBSET Day /\ d \notin R /\ P = R \union {d}
          BY <4>1, <5>1
        <5> HIDE DEF R
        <5>3. /\ Sum(Column(booked, field), P) = Sum(Column(booked, field), R) + booked[d][field]
              /\ Sum(Column(booked', field), P) = Sum(Column(booked', field), R) + booked'[d][field]
          BY <1>1, <2>1, <3>3, <5>2, SumWith
        <5>4. Sum(Column(booked', field), R) = Sum(Column(booked, field), R)
          BY <3>4, <4>2, <5>2, SomeDays, SumSame
        <5>5. Sum(Column(booked, field), R) \in Nat
          BY <4>2, <5>2, SomeDays, SumNat
        <5>6. booked[d][field] = 0 /\ booked'[d][field] = stats[d][field]
          BY <2>5, <3>4, NoStatsTyped
        <5>7. account'[c][field] = account[c][field] + stats[d][field]
          BY <3>2, <3>4, <4>4
        <5>8. Sum(Column(booked', field), P) = account[c][field] + stats[d][field]
          BY <4>1, <5>3, <5>4, <5>5, <5>6
        <5> QED
          BY <1>3, <5>7, <5>8 DEF P
      <4> QED
        BY <4>3, <4>4
    <3>7. AccountIsBooked'
      BY <3>6 DEF AccountIsBooked
    <3> QED
      BY <3>3, <3>5, <3>7
  <2> QED
    BY <2>4, <2>5
<1>6. \/ UNCHANGED <<account, booked>> /\ (day = 1 \/ stats[d] = NoStats)
      \/ /\ day > 1 /\ stats[d] # NoStats
         /\ account' = [account EXCEPT ![b] = Accrued(@, d)]
         /\ booked' = [booked EXCEPT ![d] = IF @ = NoStats THEN stats[d] ELSE @]
  BY <1>1 DEF AccrueDay, Accruable, NoDay
<1> QED
  BY <1>4, <1>5, <1>6

LEMMA AccrueYesterdayKeeps == AccrualInv /\ AccrueYesterday => AccrualInv'
<1> SUFFICES ASSUME AccrualInv, AccrueYesterday PROVE AccrualInv'
  OBVIOUS
<1>1. /\ Nights' /\ AccountIsBooked'
      /\ account' \in [Bucket -> AccountRow] /\ booked' \in [Day -> Stats]
  BY AccrueDayKeeps DEF AccrueYesterday
<1>2. AccrualTyped'
  BY <1>1 DEF AccrueYesterday, AccrualInv, AccrualTyped
<1> QED
  BY <1>1, <1>2 DEF AccrualInv

LEMMA AccrueRerunKeeps == AccrualInv /\ AccrueRerun => AccrualInv'
<1> SUFFICES ASSUME AccrualInv, AccrueRerun PROVE AccrualInv'
  OBVIOUS
<1>1. /\ Nights' /\ AccountIsBooked'
      /\ account' \in [Bucket -> AccountRow] /\ booked' \in [Day -> Stats]
  BY AccrueDayKeeps DEF AccrueRerun, AccrualInv, AccrualTyped
<1>2. reruns' \in 0..MaxReruns
  BY AccrualAssumption DEF AccrueRerun, AccrualInv, AccrualTyped
<1>3. AccrualTyped'
  BY <1>1, <1>2 DEF AccrueRerun, AccrualInv, AccrualTyped
<1> QED
  BY <1>1, <1>3 DEF AccrualInv

\* A day that is missed is in no account.
LEMMA AccrualMissedKeeps == AccrualInv /\ AccrualMissed => AccrualInv'
<1> SUFFICES ASSUME AccrualInv, AccrualMissed PROVE AccrualInv'
  OBVIOUS
<1> USE DEF AccrualInv
<1>1. /\ ~morning /\ morning' = TRUE
      /\ UNCHANGED <<day, stats, price, account, running, booked, reruns>>
  BY DEF AccrualMissed
<1>2. /\ day \in Nat /\ day > 1 /\ day - 1 \in Day /\ price[day - 1] \in Bucket
      /\ \A b \in Bucket : account[b].last \in Nat /\ account[b].last <= day - 2
  <2>1. day \in Nat /\ day > 1 /\ day - 1 \in Day
    BY <1>1, AccrualAssumption DEF AccrualTyped, Nights, Day
  <2> QED
    BY <1>1, <2>1 DEF AccrualTyped, Nights, Nightly, AccountRow
<1>3. AccrualTyped'
  BY <1>1 DEF AccrualTyped
<1>4. Nights'
  <2>1. \A e \in Day : e > day - 2 => booked[e] = NoStats
    BY <1>1 DEF Nights, Nightly
  <2>2. booked[day - 1] = NoStats /\ account[price[day - 1]].last # day - 1
    BY <1>2, <2>1
  <2>3. \A e \in Day : e > day - 1 => booked[e] = NoStats
    BY <1>2, <2>1, AccrualAssumption DEF Day
  <2>4. \A b \in Bucket : account[b].last <= day - 1
    BY <1>2
  <2> QED
    BY <1>1, <1>2, <2>2, <2>3, <2>4 DEF Nights, Nightly
<1>5. \A b \in Bucket : Past(b)' = Past(b)
  BY <1>1 DEF Past
<1>6. AccountIsBooked'
  BY <1>1, <1>5 DEF AccountIsBooked
<1> QED
  BY <1>3, <1>4, <1>6

LEMMA RestKeepsAccrual ==
  ASSUME AccrualInv, UNCHANGED <<day, morning, stats, price, account, booked, reruns>>,
         running' \in BOOLEAN
  PROVE  AccrualInv'
<1>1. \A b \in Bucket : Past(b)' = Past(b)
  BY DEF Past
<1> QED
  BY <1>1 DEF AccrualInv, AccrualTyped, Nights, Nightly, AccountIsBooked

LEMMA AccrualNextKeeps == AccrualInv /\ [AccrualNext]_accrualVars => AccrualInv'
<1> SUFFICES ASSUME AccrualInv, [AccrualNext]_accrualVars PROVE AccrualInv'
  OBVIOUS
<1>1. CASE \E d \in Day : Spends(d)
  BY <1>1, SpendsKeep
<1>2. CASE \E d \in Day, field \in {"rk", "jam"} : Sells(d, field)
  BY <1>2, SellsKeep
<1>3. CASE \E b \in Bucket : Reprices(b)
  BY <1>3, RepricesKeep
<1>4. CASE Midnight
  BY <1>4, MidnightKeeps
<1>5. CASE AccrueYesterday
  BY <1>5, AccrueYesterdayKeeps
<1>6. CASE AccrualMissed
  BY <1>6, AccrualMissedKeeps
<1>7. CASE AccrueRerun
  BY <1>7, AccrueRerunKeeps
<1>8. CASE Judge
  BY <1>8, RestKeepsAccrual DEF Judge
<1>9. CASE UNCHANGED accrualVars
  BY <1>9, RestKeepsAccrual DEF accrualVars, AccrualInv, AccrualTyped
<1> QED
  BY <1>1, <1>2, <1>3, <1>4, <1>5, <1>6, <1>7, <1>8, <1>9 DEF AccrualNext

LEMMA AccrualInvariant == AccrualSpec => []AccrualInv
<1> QED
  BY AccrualInitInv, AccrualNextKeeps, PTL DEF AccrualSpec

-----------------------------------------------------------------------------
\* The types, with the accounts settling only days that are over (AccrualTypeOK).
THEOREM AccrualTypeCorrect == AccrualSpec => []AccrualTypeOK
<1>1. AccrualInv => AccrualTypeOK
  BY AccrualAssumption
     DEF AccrualInv, AccrualTyped, Nights, Nightly, AccrualTypeOK, Day, AccountRow
<1> QED
  BY <1>1, AccrualInvariant, PTL

LEMMA AccountIsSettled == AccrualInv => EachDayOnce
<1> SUFFICES ASSUME AccrualInv, NEW b \in Bucket, NEW field \in Field
             PROVE  account[b][field] =
                      MapThenSumSet(LAMBDA d : booked[d][field], Past(b))
  BY DEF EachDayOnce, Past, Field
<1>1. Past(b) \in SUBSET Day
  BY PastDays DEF AccrualInv
<1>2. MapThenSumSet(LAMBDA d : booked[d][field], Past(b)) = Sum(Column(booked, field), Past(b))
  BY <1>1, TotalIsSum
<1> QED
  BY <1>2 DEF AccrualInv, AccountIsBooked

\* Every day a job found statistics of is in the account of its price exactly
\* once, as it was then, however often the job runs, whatever night the server
\* is down, whatever is found out later and whenever the price changes
\* (EachDayOnce: the guard of accrueDailyDeltas).
THEOREM DaysCorrect == AccrualSpec => []EachDayOnce
BY AccountIsSettled, AccrualInvariant, PTL
=============================================================================
