------------------------- MODULE SpendLedgerProofs -------------------------
(***************************************************************************)
(* Proofs about the LLM spend ledger for every number of calls, every cost *)
(* and every cap: first about its books (SpendLedger), then about the file *)
(* behind them (LedgerFile), whatever befalls it and however often.        *)
(*                                                                         *)
(* Both rest on the laws of Total (module Tally) for every weight function *)
(* and every number of items.  No induction theorem can be used for those  *)
(* (they take an operator), so each is proved by its least counterexample: *)
(* the initial segments of the naturals are finite sets, and strict        *)
(* inclusion of those is well-founded.                                     *)
(***************************************************************************)
EXTENDS
  SpendLedger, LedgerFile, FiniteSetTheorems, WellFoundedInduction, SequenceTheorems, TLAPS

-----------------------------------------------------------------------------
(* sums                                                                    *)

\* Every nonempty set of naturals has a least element.
LEMMA LeastElement ==
  ASSUME NEW T \in SUBSET Nat, T # {}
  PROVE  \E m \in T : \A k \in T : m <= k
<1> DEFINE Segments == {1..k : k \in T}
<1>1. Segments \subseteq FiniteSubsetsOf(Nat)
  <2> SUFFICES ASSUME NEW k \in T PROVE 1..k \in FiniteSubsetsOf(Nat)
    OBVIOUS
  <2>1. IsFiniteSet(1..k)
    BY FS_Interval
  <2> QED BY <2>1 DEF FiniteSubsetsOf
<1>2. PICK s \in Segments : \A t \in Segments : ~ (<<t, s>> \in StrictSubsetOrdering(Nat))
  <2>1. IsWellFoundedOn(StrictSubsetOrdering(Nat), FiniteSubsetsOf(Nat))
    BY FS_StrictSubsetOrderingWellFounded
  <2>2. Segments # {}
    OBVIOUS
  <2> HIDE DEF Segments
  <2> QED BY <1>1, <2>1, <2>2, WFMin
<1>3. PICK m \in T : s = 1..m
  OBVIOUS
<1>4. ASSUME NEW k \in T, k < m PROVE FALSE
  <2>1. 1..k \subseteq 1..m /\ m \in 1..m /\ m \notin 1..k
    BY <1>4
  <2>2. <<1..k, 1..m>> \in StrictSubsetOrdering(Nat)
    BY <2>1 DEF StrictSubsetOrdering
  <2> QED BY <1>2, <1>3, <2>2
<1> QED BY <1>4

IsPartial(f, w, n) == f = [i \in 0..n |-> IF i = 0 THEN 0 ELSE f[i - 1] + w[i]]

\* The recursive definition of Partial has a solution, so Partial satisfies it.
LEMMA PartialDefined ==
  ASSUME NEW n \in Nat, NEW w
  PROVE  IsPartial(Partial(w, n), w, n)
<1> DEFINE Bad == {k \in Nat : \A f : ~ IsPartial(f, w, k)}
<1>1. ASSUME Bad # {} PROVE FALSE
  <2>1. PICK m \in Bad : \A k \in Bad : m <= k
    BY <1>1, LeastElement
  <2>2. m # 0
    <3>1. IsPartial([i \in 0..0 |-> 0], w, 0)
      BY DEF IsPartial
    <3> QED BY <2>1, <3>1
  <2>3. m - 1 \in Nat /\ m - 1 \notin Bad
    BY <2>1, <2>2
  <2>4. PICK f : IsPartial(f, w, m - 1)
    BY <2>3
  <2> DEFINE g == [i \in 0..m |-> IF i = m THEN f[m - 1] + w[m] ELSE f[i]]
  <2>5. \A i \in 0..m : g[i] = IF i = 0 THEN 0 ELSE g[i - 1] + w[i]
    <3> SUFFICES ASSUME NEW i \in 0..m PROVE g[i] = IF i = 0 THEN 0 ELSE g[i - 1] + w[i]
      OBVIOUS
    <3>1. CASE i = m
      BY <3>1, <2>2, <2>3
    <3>2. CASE i # m
      <4>1. i \in 0..(m - 1)
        BY <3>2, <2>3
      <4>2. f[i] = IF i = 0 THEN 0 ELSE f[i - 1] + w[i]
        BY <2>4, <4>1 DEF IsPartial
      <4> QED BY <3>2, <4>1, <4>2
    <3> QED BY <3>1, <3>2
  <2>6. IsPartial(g, w, m)
    BY <2>5 DEF IsPartial
  <2> QED BY <2>1, <2>6
<1>2. \E f : IsPartial(f, w, n)
  BY <1>1
<1>3. Partial(w, n) = CHOOSE f : IsPartial(f, w, n)
  BY DEF Partial, IsPartial
<1> QED BY <1>2, <1>3

LEMMA PartialSteps ==
  ASSUME NEW n \in Nat, NEW w
  PROVE  /\ Partial(w, n)[0] = 0
         /\ \A i \in 1..n : Partial(w, n)[i] = Partial(w, n)[i - 1] + w[i]
<1>1. IsPartial(Partial(w, n), w, n)
  BY PartialDefined
<1> HIDE DEF Partial
<1>2. \A i \in 0..n : Partial(w, n)[i] = IF i = 0 THEN 0 ELSE Partial(w, n)[i - 1] + w[i]
  BY <1>1 DEF IsPartial
<1> QED BY <1>2

\* A sum of naturals is a natural.
LEMMA TotalNat ==
  ASSUME NEW n \in Nat, NEW w, \A i \in 1..n : w[i] \in Nat
  PROVE  Total(w, n) \in Nat
<1> DEFINE P == Partial(w, n)
           Bad == {k \in 0..n : P[k] \notin Nat}
<1>0. P[0] = 0 /\ \A i \in 1..n : P[i] = P[i - 1] + w[i]
  BY PartialSteps
<1> HIDE DEF P
<1>1. ASSUME Bad # {} PROVE FALSE
  <2>1. PICK m \in Bad : \A k \in Bad : m <= k
    <3>1. Bad \in SUBSET Nat
      OBVIOUS
    <3> HIDE DEF Bad
    <3> QED BY <1>1, <3>1, LeastElement
  <2>2. m # 0
    BY <2>1, <1>0
  <2>3. P[m - 1] \in Nat /\ w[m] \in Nat /\ P[m] = P[m - 1] + w[m]
    BY <2>1, <2>2, <1>0
  <2> QED BY <2>1, <2>3
<1>2. P[n] \in Nat
  BY <1>1
<1> QED BY <1>2 DEF Total, P

\* Larger items, larger sum.
LEMMA TotalMonotone ==
  ASSUME NEW n \in Nat, NEW v, NEW w,
         \A i \in 1..n : v[i] \in Int /\ w[i] \in Int /\ v[i] <= w[i]
  PROVE  Total(v, n) <= Total(w, n)
<1> DEFINE P == Partial(v, n)
           Q == Partial(w, n)
           Good(k) == P[k] \in Int /\ Q[k] \in Int /\ P[k] <= Q[k]
           Bad == {k \in 0..n : ~ Good(k)}
<1>0. /\ P[0] = 0 /\ \A i \in 1..n : P[i] = P[i - 1] + v[i]
      /\ Q[0] = 0 /\ \A i \in 1..n : Q[i] = Q[i - 1] + w[i]
  BY PartialSteps
<1> HIDE DEF P, Q
<1>1. ASSUME Bad # {} PROVE FALSE
  <2>1. PICK m \in Bad : \A k \in Bad : m <= k
    <3>1. Bad \in SUBSET Nat
      OBVIOUS
    <3> HIDE DEF Bad
    <3> QED BY <1>1, <3>1, LeastElement
  <2>2. m # 0
    BY <2>1, <1>0
  <2>3. Good(m - 1)
    BY <2>1, <2>2
  <2>4. P[m] = P[m - 1] + v[m] /\ Q[m] = Q[m - 1] + w[m]
    BY <2>1, <2>2, <1>0
  <2> QED BY <2>1, <2>2, <2>3, <2>4
<1>2. Good(n)
  BY <1>1
<1> QED BY <1>2 DEF Total, P, Q

\* Changing one item changes the sum by as much.
LEMMA TotalChange ==
  ASSUME NEW n \in Nat, NEW v, NEW w, NEW j \in 1..n,
         \A i \in 1..n : v[i] \in Int /\ w[i] \in Int,
         \A i \in 1..n : i # j => v[i] = w[i]
  PROVE  Total(v, n) = Total(w, n) + v[j] - w[j]
<1> DEFINE P == Partial(v, n)
           Q == Partial(w, n)
           Good(k) == /\ P[k] \in Int /\ Q[k] \in Int
                      /\ P[k] = IF k < j THEN Q[k] ELSE Q[k] + v[j] - w[j]
           Bad == {k \in 0..n : ~ Good(k)}
<1>0. /\ P[0] = 0 /\ \A i \in 1..n : P[i] = P[i - 1] + v[i]
      /\ Q[0] = 0 /\ \A i \in 1..n : Q[i] = Q[i - 1] + w[i]
  BY PartialSteps
<1> HIDE DEF P, Q
<1>1. ASSUME Bad # {} PROVE FALSE
  <2>1. PICK m \in Bad : \A k \in Bad : m <= k
    <3>1. Bad \in SUBSET Nat
      OBVIOUS
    <3> HIDE DEF Bad
    <3> QED BY <1>1, <3>1, LeastElement
  <2>2. m # 0
    BY <2>1, <1>0
  <2>3. Good(m - 1)
    BY <2>1, <2>2
  <2>4. P[m] = P[m - 1] + v[m] /\ Q[m] = Q[m - 1] + w[m]
    BY <2>1, <2>2, <1>0
  <2>5. m \in 1..n /\ m - 1 \in Int
    BY <2>1, <2>2
  <2>6. CASE m < j
    BY <2>1, <2>3, <2>4, <2>5, <2>6
  <2>7. CASE m = j
    BY <2>1, <2>3, <2>4, <2>5, <2>7
  <2>8. CASE m > j
    BY <2>1, <2>3, <2>4, <2>5, <2>8
  <2> QED BY <2>5, <2>6, <2>7, <2>8
<1>2. Good(n)
  BY <1>1
<1> QED BY <1>2 DEF Total, P, Q

LEMMA TotalSame ==
  ASSUME NEW n \in Nat, NEW v, NEW w, \A i \in 1..n : v[i] \in Nat /\ w[i] = v[i]
  PROVE  Total(v, n) = Total(w, n)
<1>1. Total(v, n) <= Total(w, n) /\ Total(w, n) <= Total(v, n)
  BY TotalMonotone
<1>2. Total(v, n) \in Nat /\ Total(w, n) \in Nat
  BY TotalNat
<1> QED BY <1>1, <1>2

LEMMA TotalZero ==
  ASSUME NEW n \in Nat, NEW w, \A i \in 1..n : w[i] = 0
  PROVE  Total(w, n) = 0
<1> DEFINE P == Partial(w, n)
           Bad == {k \in 0..n : P[k] # 0}
<1>0. P[0] = 0 /\ \A i \in 1..n : P[i] = P[i - 1] + w[i]
  BY PartialSteps
<1> HIDE DEF P
<1>1. ASSUME Bad # {} PROVE FALSE
  <2>1. PICK m \in Bad : \A k \in Bad : m <= k
    <3>1. Bad \in SUBSET Nat
      OBVIOUS
    <3> HIDE DEF Bad
    <3> QED BY <1>1, <3>1, LeastElement
  <2>2. m # 0
    BY <2>1, <1>0
  <2>3. P[m - 1] = 0 /\ P[m] = P[m - 1] + w[m] /\ w[m] = 0
    BY <2>1, <2>2, <1>0
  <2> QED BY <2>1, <2>3
<1>2. P[n] = 0
  BY <1>1
<1> QED BY <1>2 DEF Total, P

LEMMA TotalPlus ==
  ASSUME NEW n \in Nat, NEW u, NEW v, NEW w,
         \A i \in 1..n : v[i] \in Nat /\ w[i] \in Nat /\ u[i] = v[i] + w[i]
  PROVE  Total(u, n) = Total(v, n) + Total(w, n)
<1> DEFINE O == Partial(u, n)
           P == Partial(v, n)
           Q == Partial(w, n)
           Good(k) == P[k] \in Nat /\ Q[k] \in Nat /\ O[k] = P[k] + Q[k]
           Bad == {k \in 0..n : ~ Good(k)}
<1>0. /\ O[0] = 0 /\ \A i \in 1..n : O[i] = O[i - 1] + u[i]
      /\ P[0] = 0 /\ \A i \in 1..n : P[i] = P[i - 1] + v[i]
      /\ Q[0] = 0 /\ \A i \in 1..n : Q[i] = Q[i - 1] + w[i]
  BY PartialSteps
<1> HIDE DEF O, P, Q
<1>1. ASSUME Bad # {} PROVE FALSE
  <2>1. PICK m \in Bad : \A k \in Bad : m <= k
    <3>1. Bad \in SUBSET Nat
      OBVIOUS
    <3> HIDE DEF Bad
    <3> QED BY <1>1, <3>1, LeastElement
  <2>2. m # 0
    BY <2>1, <1>0
  <2>3. Good(m - 1)
    BY <2>1, <2>2
  <2>4. O[m] = O[m - 1] + u[m] /\ P[m] = P[m - 1] + v[m] /\ Q[m] = Q[m - 1] + w[m]
    BY <2>1, <2>2, <1>0
  <2> QED BY <2>1, <2>2, <2>3, <2>4
<1>2. Good(n)
  BY <1>1
<1> QED BY <1>2 DEF Total, O, P, Q

-----------------------------------------------------------------------------
(* reading one event                                                       *)

LEMMA WorstNat ==
  ASSUME call \in [Attempts -> Calls], NEW a \in Attempts
  PROVE  Worst(a) \in Nat /\ call[a].run \in Runs /\ call[a].day \in Days
BY CallsAssumption DEF Worst

LEMMA SumNat ==
  ASSUME NEW f \in [Attempts -> Nat], NEW S
  PROVE  SumIn(f, S) \in Nat
<1> DEFINE w == [a \in Attempts |-> IF a \in S THEN f[a] ELSE 0]
<1>1. \A i \in 1..N : w[i] \in Nat
  BY DEF Attempts
<1> HIDE DEF w
<1>2. Total(w, N) \in Nat
  BY <1>1, NAssumption, TotalNat
<1> QED BY <1>2 DEF SumIn, w

\* Changing one item changes the sums of the scopes it lies in.
LEMMA SumChange ==
  ASSUME NEW f \in [Attempts -> Nat], NEW g \in [Attempts -> Nat], NEW S, NEW T, NEW a \in Attempts,
         \A b \in Attempts : b # a => (b \in S <=> b \in T) /\ (b \in S => f[b] = g[b])
  PROVE  SumIn(f, S) = SumIn(g, T) + (IF a \in S THEN f[a] ELSE 0) - (IF a \in T THEN g[a] ELSE 0)
<1> DEFINE v == [b \in Attempts |-> IF b \in S THEN f[b] ELSE 0]
           w == [b \in Attempts |-> IF b \in T THEN g[b] ELSE 0]
<1>1. \A i \in 1..N : v[i] \in Int /\ w[i] \in Int
  BY DEF Attempts
<1>2. \A i \in 1..N : i # a => v[i] = w[i]
  BY DEF Attempts
<1>3. a \in 1..N
  BY DEF Attempts
<1>4. v[a] = (IF a \in S THEN f[a] ELSE 0) /\ w[a] = (IF a \in T THEN g[a] ELSE 0)
  OBVIOUS
<1>5. SumIn(f, S) = Total(v, N) /\ SumIn(g, T) = Total(w, N)
  BY DEF SumIn
<1> HIDE DEF v, w
<1>6. Total(v, N) = Total(w, N) + v[a] - w[a]
  BY <1>1, <1>2, <1>3, NAssumption, TotalChange
<1> QED BY <1>4, <1>5, <1>6

LEMMA SumMonotone ==
  ASSUME NEW f \in [Attempts -> Nat], NEW g \in [Attempts -> Nat], NEW S, NEW T,
         \A b \in Attempts : b \in S => f[b] <= IF b \in T THEN g[b] ELSE 0
  PROVE  SumIn(f, S) <= SumIn(g, T)
<1> DEFINE v == [b \in Attempts |-> IF b \in S THEN f[b] ELSE 0]
           w == [b \in Attempts |-> IF b \in T THEN g[b] ELSE 0]
<1>1. \A i \in 1..N : v[i] \in Int /\ w[i] \in Int /\ v[i] <= w[i]
  BY DEF Attempts
<1>2. SumIn(f, S) = Total(v, N) /\ SumIn(g, T) = Total(w, N)
  BY DEF SumIn
<1> HIDE DEF v, w
<1>3. Total(v, N) <= Total(w, N)
  BY <1>1, NAssumption, TotalMonotone
<1> QED BY <1>2, <1>3

LEMMA SumZero ==
  ASSUME NEW f \in [Attempts -> Nat], NEW S, \A b \in Attempts : b \in S => f[b] = 0
  PROVE  SumIn(f, S) = 0
<1> DEFINE w == [b \in Attempts |-> IF b \in S THEN f[b] ELSE 0]
<1>1. \A i \in 1..N : w[i] = 0
  BY DEF Attempts
<1>2. SumIn(f, S) = Total(w, N)
  BY DEF SumIn
<1> HIDE DEF w
<1>3. Total(w, N) = 0
  BY <1>1, NAssumption, TotalZero
<1> QED BY <1>2, <1>3

\* A sum bounded item by item by two others is bounded by theirs together.
LEMMA SumPlus ==
  ASSUME NEW f \in [Attempts -> Nat], NEW g \in [Attempts -> Nat], NEW h \in [Attempts -> Nat],
         NEW S, NEW T, NEW U,
         \A b \in S \cap Attempts :
            f[b] <= (IF b \in T THEN g[b] ELSE 0) + (IF b \in U THEN h[b] ELSE 0)
  PROVE  SumIn(f, S) <= SumIn(g, T) + SumIn(h, U)
<1> DEFINE u == [b \in Attempts |-> IF b \in S THEN f[b] ELSE 0]
           v == [b \in Attempts |-> IF b \in T THEN g[b] ELSE 0]
           w == [b \in Attempts |-> IF b \in U THEN h[b] ELSE 0]
           x == [b \in Attempts |-> v[b] + w[b]]
<1>1. \A i \in 1..N : v[i] \in Nat /\ w[i] \in Nat /\ x[i] = v[i] + w[i]
  BY DEF Attempts
<1>2. \A i \in 1..N : u[i] \in Int /\ x[i] \in Int /\ u[i] <= x[i]
  BY DEF Attempts
<1>3. SumIn(f, S) = Total(u, N) /\ SumIn(g, T) = Total(v, N) /\ SumIn(h, U) = Total(w, N)
  BY DEF SumIn
<1> HIDE DEF u, v, w, x
<1>4. Total(u, N) <= Total(x, N)
  BY <1>2, NAssumption, TotalMonotone
<1>5. Total(x, N) = Total(v, N) + Total(w, N)
  BY <1>1, NAssumption, TotalPlus
<1> QED BY <1>3, <1>4, <1>5

\* What _settle does to every table.
LEMMA SettleFields ==
  ASSUME NEW l \in States, NEW a \in Attempts, NEW n \in Nat, call \in [Attempts -> Calls]
  PROVE  LET m == Settle(l, a, n) IN
         /\ Extra(l, a, n) \in Nat
         /\ m \in States
         /\ m.settled = [l.settled EXCEPT ![a] = @ + Extra(l, a, n)]
         /\ n <= m.settled[a]
         /\ m.total = l.total + Extra(l, a, n)
         /\ m.byRun = [l.byRun EXCEPT ![call[a].run] = @ + Extra(l, a, n)]
         /\ m.byDay = [l.byDay EXCEPT ![call[a].day] = @ + Extra(l, a, n)]
         /\ m.open = l.open \ {a}
         /\ m.closed = l.closed \cup {a}
<1> DEFINE x == Extra(l, a, n)
           m == Settle(l, a, n)
<1>1. l.settled[a] \in Nat /\ x \in Nat /\ n <= l.settled[a] + x
  BY DEF States, Extra
<1>2. call[a].run \in Runs /\ call[a].day \in Days
  BY WorstNat
<1>3. m = [open |-> l.open \ {a}, closed |-> l.closed \cup {a},
           settled |-> [l.settled EXCEPT ![a] = @ + x], total |-> l.total + x,
           byRun |-> [l.byRun EXCEPT ![call[a].run] = @ + x],
           byDay |-> [l.byDay EXCEPT ![call[a].day] = @ + x]]
  BY DEF Settle, CloseAt, Raised
<1> HIDE DEF x, m
<1>4. m \in States
  BY <1>1, <1>2, <1>3 DEF States
<1>5. m.settled[a] = l.settled[a] + x
  BY <1>3 DEF States
<1> QED BY <1>1, <1>3, <1>4, <1>5 DEF x, m

\* What the proofs below need of it, without the tables of days and runs.
LEMMA SettleMoves ==
  ASSUME NEW l \in States, NEW a \in Attempts, NEW n \in Nat, call \in [Attempts -> Calls]
  PROVE  /\ Settle(l, a, n) \in States /\ n <= Settle(l, a, n).settled[a]
         /\ Settle(l, a, n).open = l.open \ {a}
<1> DEFINE m == Settle(l, a, n)
<1>1. m \in States
  BY SettleFields, Zenon
<1>2. n <= m.settled[a]
  BY SettleFields, Zenon
<1>3. m.open = l.open \ {a}
  BY DEF Settle, CloseAt, Raised
<1> QED BY <1>1, <1>2, <1>3

LEMMA EventCases ==
  ASSUME NEW e \in Events
  PROVE  \/ e.ev = "reserve" /\ e.id \in Attempts
         \/ e.ev \in {"expire", "commit"} /\ e.id \in Attempts /\ e.nusd \in Nat
         \/ e.ev = "reset_day" /\ e.day \in Days
         \/ e.ev = "refuse"
BY DEF Events, Inert

\* What reading one event does to the tables, in terms the proofs below use.
LEMMA ApplyReserve ==
  ASSUME NEW l \in States, NEW e \in Events, e.ev = "reserve"
  PROVE  /\ Apply(l, e) \in States
         /\ Apply(l, e).open = IF e.id \in l.closed THEN l.open ELSE l.open \cup {e.id}
         /\ Apply(l, e).closed = l.closed /\ Apply(l, e).settled = l.settled
         /\ Apply(l, e).total = l.total /\ Apply(l, e).byRun = l.byRun /\ Apply(l, e).byDay = l.byDay
<1>1. e.id \in Attempts
  BY EventCases
<1>2. Apply(l, e) = IF e.id \in l.closed THEN l ELSE [l EXCEPT !.open = @ \cup {e.id}]
  BY DEF Apply
<1> QED BY <1>1, <1>2 DEF States

LEMMA ApplyReset ==
  ASSUME NEW l \in States, NEW e \in Events, e.ev = "reset_day"
  PROVE  /\ Apply(l, e) \in States
         /\ Apply(l, e).byDay = [l.byDay EXCEPT ![e.day] = 0]
         /\ Apply(l, e).open = l.open /\ Apply(l, e).closed = l.closed
         /\ Apply(l, e).settled = l.settled
         /\ Apply(l, e).total = l.total /\ Apply(l, e).byRun = l.byRun
<1>1. e.day \in Days
  BY EventCases
<1>2. Apply(l, e) = [l EXCEPT !.byDay = [l.byDay EXCEPT ![e.day] = 0]]
  BY DEF Apply
<1> QED BY <1>1, <1>2 DEF States

LEMMA ApplyInert ==
  ASSUME NEW l, NEW e \in Events, e.ev = "refuse"
  PROVE  Apply(l, e) = l
BY DEF Apply

LEMMA ApplySettle ==
  ASSUME NEW l \in States, NEW e \in Events, e.ev \in {"expire", "commit"}
  PROVE  \E a \in Attempts, n \in Nat : /\ a = e.id /\ n = e.nusd
                                        /\ Apply(l, e) = Settle(l, a, n)
<1>1. Apply(l, e) = Settle(l, e.id, e.nusd)
  BY DEF Apply
<1>2. e.id \in Attempts /\ e.nusd \in Nat
  BY EventCases
<1> QED BY <1>1, <1>2

\* What a settlement of a for x more does to the tables and to their sums.
LEMMA SettleBooks ==
  ASSUME call \in [Attempts -> Calls], NEW l \in States, Books(l), NEW a \in Attempts, NEW n \in Nat
  PROVE  /\ Settle(l, a, n) \in States
         /\ Books(Settle(l, a, n))
         /\ \A d \in Days : Forgiven(Settle(l, a, n), d) = Forgiven(l, d)
<1>0. l \in States
  OBVIOUS
<1> DEFINE x == Extra(l, a, n)
           m == Settle(l, a, n)
<1>1. /\ x \in Nat /\ m \in States
      /\ m.settled = [l.settled EXCEPT ![a] = @ + x]
      /\ m.total = l.total + x
      /\ m.byRun = [l.byRun EXCEPT ![call[a].run] = @ + x]
      /\ m.byDay = [l.byDay EXCEPT ![call[a].day] = @ + x]
      /\ m.open = l.open \ {a}
      /\ m.closed = l.closed \cup {a}
  BY <1>0, SettleFields
<1> HIDE DEF x, m
<1>2. /\ l.settled \in [Attempts -> Nat] /\ m.settled \in [Attempts -> Nat]
      /\ m.settled[a] = l.settled[a] + x
      /\ \A b \in Attempts : b # a => m.settled[b] = l.settled[b]
  BY <1>0, <1>1 DEF States
<1>3. \A S : SettledIn(m, S) = SettledIn(l, S) + (IF a \in S THEN x ELSE 0)
  <2> TAKE S
  <2>1. SumIn(m.settled, S) = SumIn(l.settled, S) + (IF a \in S THEN m.settled[a] ELSE 0)
                                - (IF a \in S THEN l.settled[a] ELSE 0)
    BY <1>2, SumChange
  <2>2. SumIn(l.settled, S) \in Nat /\ l.settled[a] \in Nat
    BY <1>2, SumNat
  <2> QED BY <1>1, <1>2, <2>1, <2>2 DEF SettledIn
<1>4. \A S : SettledIn(l, S) \in Nat
  BY <1>2, SumNat DEF SettledIn
<1>5. call[a].run \in Runs /\ call[a].day \in Days
  BY WorstNat
<1>6. m.open \cap m.closed = {}
  BY <1>1 DEF Books
<1>7. m.total = SettledIn(m, Attempts)
  BY <1>1, <1>3 DEF Books
<1>8. \A r \in Runs : m.byRun[r] = SettledIn(m, OfRun(r))
  <2> TAKE r \in Runs
  <2>1. m.byRun[r] = l.byRun[r] + (IF r = call[a].run THEN x ELSE 0)
    BY <1>0, <1>1 DEF States
  <2>2. SettledIn(m, OfRun(r)) = SettledIn(l, OfRun(r)) + (IF r = call[a].run THEN x ELSE 0)
    BY <1>3 DEF OfRun
  <2>3. l.byRun[r] = SettledIn(l, OfRun(r))
    BY DEF Books
  <2> QED BY <2>1, <2>2, <2>3
<1>9. \A d \in Days : /\ m.byDay[d] = l.byDay[d] + (IF d = call[a].day THEN x ELSE 0)
                      /\ SettledIn(m, OfDay(d)) = SettledIn(l, OfDay(d)) + (IF d = call[a].day THEN x ELSE 0)
  <2> TAKE d \in Days
  <2>1. m.byDay[d] = l.byDay[d] + (IF d = call[a].day THEN x ELSE 0)
    BY <1>0, <1>1 DEF States
  <2>2. SettledIn(m, OfDay(d)) = SettledIn(l, OfDay(d)) + (IF d = call[a].day THEN x ELSE 0)
    BY <1>3 DEF OfDay
  <2> QED BY <2>1, <2>2
<1>10. \A d \in Days : l.byDay[d] <= SettledIn(l, OfDay(d)) /\ l.byDay[d] \in Nat
  BY <1>0 DEF States, Books
<1>11. \A d \in Days : m.byDay[d] <= SettledIn(m, OfDay(d))
  BY <1>1, <1>4, <1>9, <1>10
<1>12. \A d \in Days : Forgiven(m, d) = Forgiven(l, d)
  BY <1>1, <1>4, <1>9, <1>10 DEF Forgiven
<1>13. Books(m)
  BY <1>1, <1>6, <1>7, <1>8, <1>11 DEF Books
<1> QED BY <1>1, <1>12, <1>13 DEF m

\* Reading an event keeps the tables in agreement.  Only reset_day changes what
\* is forgiven, and only upwards.
LEMMA ApplyBooks ==
  ASSUME call \in [Attempts -> Calls], NEW l \in States, Books(l), NEW e \in Events
  PROVE  /\ Apply(l, e) \in States
         /\ Books(Apply(l, e))
         /\ \A d \in Days : Forgiven(l, d) <= Forgiven(Apply(l, e), d)
<1> DEFINE m == Apply(l, e)
<1>0. l \in States
  OBVIOUS
<1>1. \A S : SettledIn(l, S) \in Nat
  BY <1>0, SumNat DEF SettledIn, States
<1>2. \A d \in Days : l.byDay[d] \in Nat /\ Forgiven(l, d) \in Int
  BY <1>0, <1>1 DEF States, Forgiven
<1>3. CASE e.ev = "reserve"
  <2>1. /\ m \in States /\ m.open \subseteq l.open \cup {e.id} /\ (e.id \in l.closed => m.open = l.open)
        /\ m.closed = l.closed /\ m.settled = l.settled
        /\ m.total = l.total /\ m.byRun = l.byRun /\ m.byDay = l.byDay
    BY <1>0, <1>3, ApplyReserve
  <2> HIDE DEF m
  <2>2. \A S : SettledIn(m, S) = SettledIn(l, S)
    BY <2>1 DEF SettledIn
  <2>3. Books(m) /\ \A d \in Days : Forgiven(m, d) = Forgiven(l, d)
    BY <2>1, <2>2 DEF Books, Forgiven
  <2> QED BY <1>2, <2>1, <2>3 DEF m
<1>4. CASE e.ev \in {"expire", "commit"}
  <2>1. PICK a \in Attempts, n \in Nat : m = Settle(l, a, n)
    BY <1>0, <1>4, ApplySettle
  <2>2. Settle(l, a, n) \in States /\ Books(Settle(l, a, n)) /\ \A d \in Days : Forgiven(Settle(l, a, n), d) = Forgiven(l, d)
    BY SettleBooks
  <2> HIDE DEF m
  <2> QED BY <1>2, <2>1, <2>2 DEF m
<1>5. CASE e.ev = "reset_day"
  <2>1. /\ m \in States /\ m.byDay = [l.byDay EXCEPT ![e.day] = 0] /\ e.day \in Days
        /\ m.open = l.open /\ m.closed = l.closed /\ m.settled = l.settled
        /\ m.total = l.total /\ m.byRun = l.byRun
    BY <1>0, <1>5, ApplyReset, EventCases
  <2> HIDE DEF m
  <2>2. \A S : SettledIn(m, S) = SettledIn(l, S)
    BY <2>1 DEF SettledIn
  <2>3. \A d \in Days : m.byDay[d] = IF d = e.day THEN 0 ELSE l.byDay[d]
    BY <1>0, <2>1 DEF States
  <2>4. \A d \in Days : m.byDay[d] <= SettledIn(m, OfDay(d)) /\ Forgiven(l, d) <= Forgiven(m, d)
    BY <1>1, <1>2, <2>2, <2>3 DEF Books, Forgiven
  <2>5. Books(m)
    BY <2>1, <2>2, <2>4 DEF Books
  <2> QED BY <2>1, <2>4, <2>5 DEF m
<1>6. CASE e.ev = "refuse"
  BY <1>2, <1>6, ApplyInert
<1> QED BY <1>3, <1>4, <1>5, <1>6, EventCases

-----------------------------------------------------------------------------
(* what the granted attempts are covered by                                *)

LEMMA SettleRaises ==
  ASSUME call \in [Attempts -> Calls], NEW l \in States, NEW b \in Attempts, NEW n \in Nat
  PROVE  /\ \A a \in Attempts : l.settled[a] <= Settle(l, b, n).settled[a]
         /\ Settle(l, b, n).open = l.open \ {b} /\ Settle(l, b, n).closed = l.closed \cup {b}
<1> DEFINE x == Extra(l, b, n)
           m == Settle(l, b, n)
<1>1. /\ x \in Nat /\ m \in States
      /\ m.settled = [l.settled EXCEPT ![b] = @ + x]
      /\ m.total = l.total + x
      /\ m.byRun = [l.byRun EXCEPT ![call[b].run] = @ + x]
      /\ m.byDay = [l.byDay EXCEPT ![call[b].day] = @ + x]
      /\ m.open = l.open \ {b}
      /\ m.closed = l.closed \cup {b}
  BY SettleFields
<1> HIDE DEF x, m
<1>2. \A a \in Attempts : l.settled[a] \in Nat
  BY DEF States
<1>3. \A a \in Attempts : m.settled[a] = IF a = b THEN l.settled[a] + x ELSE l.settled[a]
  BY <1>1 DEF States
<1>4. \A a \in Attempts : l.settled[a] <= m.settled[a]
  BY <1>1, <1>2, <1>3
<1> QED BY <1>1, <1>4 DEF m

\* No event lowers a settled amount, drops a reservation, or uncovers a claim.
LEMMA ApplyRaises ==
  ASSUME call \in [Attempts -> Calls], NEW l \in States, NEW e \in Events
  PROVE  /\ \A a \in Attempts : l.settled[a] <= Apply(l, e).settled[a]
         /\ l.closed \subseteq Apply(l, e).closed
         /\ l.open \cup l.closed \subseteq Apply(l, e).open \cup Apply(l, e).closed
<1> DEFINE m == Apply(l, e)
<1>0. \A a \in Attempts : l.settled[a] \in Nat
  BY DEF States
<1>1. CASE e.ev = "reserve"
  <2>1. m.settled = l.settled /\ m.closed = l.closed /\ l.open \subseteq m.open
    BY <1>1, ApplyReserve
  <2> HIDE DEF m
  <2>2. \A a \in Attempts : l.settled[a] <= m.settled[a]
    BY <1>0, <2>1
  <2> QED BY <2>1, <2>2 DEF m
<1>2. CASE e.ev \in {"expire", "commit"}
  <2>1. PICK b \in Attempts, n \in Nat : m = Settle(l, b, n)
    BY <1>2, ApplySettle
  <2>2. /\ \A a \in Attempts : l.settled[a] <= Settle(l, b, n).settled[a]
        /\ Settle(l, b, n).open = l.open \ {b} /\ Settle(l, b, n).closed = l.closed \cup {b}
    BY SettleRaises
  <2> HIDE DEF m
  <2> QED BY <2>1, <2>2 DEF m
<1>3. CASE e.ev = "reset_day"
  <2>1. m.settled = l.settled /\ m.closed = l.closed /\ l.open = m.open
    BY <1>3, ApplyReset
  <2> HIDE DEF m
  <2>2. \A a \in Attempts : l.settled[a] <= m.settled[a]
    BY <1>0, <2>1
  <2> QED BY <2>1, <2>2 DEF m
<1>4. CASE e.ev = "refuse"
  <2>1. m = l
    BY <1>4, ApplyInert
  <2> QED BY <1>0, <2>1
<1> QED BY <1>1, <1>2, <1>3, <1>4, EventCases

LEMMA ClaimNat ==
  ASSUME call \in [Attempts -> Calls], claim \in [Attempts -> Nat], NEW a \in Attempts
  PROVE  Claim(a) \in Nat /\ Claim(a) <= Worst(a) /\ Claim(a) <= claim[a]
<1>1. Worst(a) \in Nat /\ claim[a] \in Nat
  BY WorstNat
<1> QED BY <1>1 DEF Claim, Lesser

LEMMA ApplyCovers ==
  ASSUME call \in [Attempts -> Calls], claim \in [Attempts -> Nat], granted \subseteq Attempts,
         NEW l \in States, Books(l), Covered(l), NEW e \in Events, Honest(e)
  PROVE  Covered(Apply(l, e))
<1> DEFINE m == Apply(l, e)
<1>0. l \in States /\ l.open \cap l.closed = {}
  BY DEF Books
<1> SUFFICES ASSUME NEW a \in granted
             PROVE  a \in m.open \cup m.closed /\ Claim(a) <= Booked(m, a)
  BY DEF Covered, Unheard
<1>1. a \in Attempts /\ a \in l.open \cup l.closed /\ Claim(a) <= Booked(l, a)
  BY DEF Covered, Unheard
<1>2. a \in m.open \cup m.closed /\ l.settled[a] <= m.settled[a]
  BY <1>0, <1>1, ApplyRaises
<1>3. Claim(a) \in Nat /\ Claim(a) <= Worst(a) /\ Worst(a) \in Nat
  BY <1>1, ClaimNat, WorstNat
<1>4. l.settled[a] \in Nat
  BY <1>0, <1>1 DEF States
<1>5. CASE a \in m.open
  BY <1>2, <1>3, <1>5 DEF Booked
<1>6. CASE a \notin m.open /\ a \notin l.open
  <2>1. m.settled[a] \in Int
    <3>1. m \in States
      BY ApplyBooks
    <3> HIDE DEF m
    <3> QED BY <1>1, <3>1 DEF States
  <2> HIDE DEF m
  <2> QED BY <1>1, <1>2, <1>3, <1>4, <1>6, <2>1 DEF Booked
<1>7. CASE a \notin m.open /\ a \in l.open
  <2>1. e.ev \in {"expire", "commit"}
    <3>1. e.ev = "reserve" => l.open \subseteq m.open
      BY <1>0, ApplyReserve
    <3>2. e.ev = "reset_day" => l.open = m.open
      BY <1>0, ApplyReset
    <3>3. e.ev = "refuse" => l.open = m.open
      BY ApplyInert
    <3> HIDE DEF m
    <3> QED BY <1>7, <3>1, <3>2, <3>3, EventCases
  <2>2. PICK b \in Attempts, n \in Nat : b = e.id /\ n = e.nusd /\ m = Settle(l, b, n)
    BY <1>0, <2>1, ApplySettle
  <2> HIDE DEF m
  <2>3. m \in States /\ n <= m.settled[b] /\ m.open = l.open \ {b}
    <3> DEFINE s == Settle(l, b, n)
    <3>1. s \in States /\ n <= s.settled[b] /\ s.open = l.open \ {b}
      BY <1>0, <2>2, SettleMoves
    <3>2. m = s
      BY <2>2
    <3> HIDE DEF s
    <3> QED BY <3>1, <3>2
  <2>4. a = b
    BY <1>7, <2>3
  <2>5. Claim(a) <= n
    BY <2>1, <2>2, <2>4 DEF Honest
  <2>6. m.settled[a] \in Nat
    BY <1>1, <2>3 DEF States
  <2> QED BY <1>2, <1>3, <1>7, <2>2, <2>3, <2>4, <2>5, <2>6 DEF Booked, m
<1> QED BY <1>5, <1>6, <1>7
\* A line about others leaves an attempt the ledger has not heard of unheard.
LEMMA ApplyUnheard ==
  ASSUME call \in [Attempts -> Calls], NEW l \in States, NEW e \in Events, NEW a \in Attempts,
         Unheard(l, a), OfNobody(e, a)
  PROVE  Unheard(Apply(l, e), a)
<1> DEFINE m == Apply(l, e)
<1>1. a \notin l.open \cup l.closed
  BY DEF Unheard
<1>2. CASE e.ev = "reserve"
  <2>1. m.closed = l.closed /\ m.open = IF e.id \in l.closed THEN l.open ELSE l.open \cup {e.id}
    BY <1>2, ApplyReserve
  <2> HIDE DEF m
  <2> QED BY <1>1, <1>2, <2>1 DEF Unheard, OfNobody, m
<1>3. CASE e.ev \in {"expire", "commit"}
  <2>1. PICK b \in Attempts, n \in Nat : b = e.id /\ m = Settle(l, b, n)
    BY <1>3, ApplySettle
  <2>2. Settle(l, b, n).open = l.open \ {b} /\ Settle(l, b, n).closed = l.closed \cup {b}
    BY SettleRaises
  <2> HIDE DEF m
  <2> QED BY <1>1, <1>3, <2>1, <2>2 DEF Unheard, OfNobody, m
<1>4. CASE e.ev = "reset_day"
  <2>1. m.closed = l.closed /\ m.open = l.open
    BY <1>4, ApplyReset
  <2> HIDE DEF m
  <2> QED BY <1>1, <2>1 DEF Unheard, m
<1>5. CASE e.ev = "refuse"
  BY <1>5, ApplyInert
<1> QED BY <1>2, <1>3, <1>4, <1>5, EventCases

LEMMA SomeEvents ==
  ASSUME call \in [Attempts -> Calls], NEW a \in Attempts
  PROVE  /\ Inert \in Events /\ Honest(Inert)
         /\ ReserveOf(a) \in Events /\ Honest(ReserveOf(a))
         /\ ExpireOf(a) \in Events
         /\ \A n \in Nat : CommitOf(a, n) \in Events
         /\ \A d \in Days : ResetOf(d) \in Events /\ Honest(ResetOf(d))
<1>1. Worst(a) \in Nat
  BY WorstNat
<1> QED BY <1>1 DEF Events, Inert, ReserveOf, ExpireOf, CommitOf, ResetOf, Honest

-----------------------------------------------------------------------------
(* a write, complete or cut                                                *)

\* What a step that writes e, or part of it, keeps.
FileKept(e) ==
  /\ led' \in States /\ tail' \in Events
  /\ Books(led') /\ Covered(led') /\ Honest(tail')
  /\ \A a \in Attempts : led.settled[a] <= led'.settled[a]
  /\ led.closed \subseteq led'.closed
  /\ \A d \in Days : Forgiven(led, d) <= Forgiven(led', d)
  /\ \A a \in Attempts : Unheard(led, a) /\ OfNobody(tail, a) /\ OfNobody(e, a)
                            => Unheard(led', a) /\ OfNobody(tail', a)

LEMMA ForgivenInt ==
  ASSUME NEW l \in States, NEW d \in Days
  PROVE  Forgiven(l, d) \in Int
<1>1. SettledIn(l, OfDay(d)) \in Nat
  BY SumNat DEF SettledIn, States
<1> QED BY <1>1 DEF States, Forgiven

LEMMA AppendKeeps ==
  ASSUME Inductive, NEW e \in Events, Honest(e), Write(e)
  PROVE  FileKept(e)
<1> DEFINE k == Apply(led, tail)
           m == Apply(k, e)
<1>0. /\ call \in [Attempts -> Calls] /\ claim \in [Attempts -> Nat] /\ granted \subseteq Attempts
      /\ led \in States /\ tail \in Events /\ Books(led) /\ Covered(led) /\ Honest(tail)
  BY DEF Inductive, TypeOK
<1>1. /\ k \in States /\ Books(k) /\ Covered(k)
      /\ \A d \in Days : Forgiven(led, d) <= Forgiven(k, d)
  BY <1>0, ApplyBooks, ApplyCovers
<1>2. /\ \A a \in Attempts : led.settled[a] <= k.settled[a]
      /\ led.closed \subseteq k.closed
  BY <1>0, ApplyRaises
<1>3. \A a \in Attempts : Unheard(led, a) /\ OfNobody(tail, a) => Unheard(k, a)
  BY <1>0, ApplyUnheard
<1> HIDE DEF k
<1>4. /\ m \in States /\ Books(m) /\ Covered(m)
      /\ \A d \in Days : Forgiven(k, d) <= Forgiven(m, d)
  BY <1>0, <1>1, ApplyBooks, ApplyCovers
<1>5. /\ \A a \in Attempts : k.settled[a] <= m.settled[a]
      /\ k.closed \subseteq m.closed
  BY <1>0, <1>1, ApplyRaises
<1>6. \A a \in Attempts : Unheard(k, a) /\ OfNobody(e, a) => Unheard(m, a)
  BY <1>0, <1>1, ApplyUnheard
<1>7. led' = m /\ tail' = Inert
  BY DEF Write, Appended, k
<1> HIDE DEF m
<1>8. \A d \in Days : Forgiven(led, d) <= Forgiven(m, d)
  BY <1>0, <1>1, <1>4, ForgivenInt
<1>9. \A a \in Attempts : led.settled[a] <= m.settled[a]
  <2>1. \A a \in Attempts : led.settled[a] \in Nat /\ k.settled[a] \in Nat /\ m.settled[a] \in Nat
    BY <1>0, <1>1, <1>4 DEF States
  <2> QED BY <2>1, <1>2, <1>5
<1>10. tail' \in Events /\ Honest(tail') /\ \A a \in Attempts : OfNobody(tail', a)
  BY <1>7 DEF Events, Inert, Honest, OfNobody
<1> QED BY <1>2, <1>3, <1>4, <1>5, <1>6, <1>7, <1>8, <1>9, <1>10 DEF FileKept

LEMMA CutKeeps ==
  ASSUME Inductive, NEW e \in Events, Honest(e), CutWrite(e)
  PROVE  FileKept(e)
<1> DEFINE k == Apply(led, tail)
<1>0. /\ call \in [Attempts -> Calls] /\ claim \in [Attempts -> Nat] /\ granted \subseteq Attempts
      /\ led \in States /\ tail \in Events /\ Books(led) /\ Covered(led) /\ Honest(tail)
  BY DEF Inductive, TypeOK
<1>1. \A a \in Attempts : led.settled[a] \in Nat
  BY <1>0 DEF States
<1>2. \A d \in Days : Forgiven(led, d) \in Int
  BY <1>0, ForgivenInt
<1>3. CASE led' = led /\ tail' = tail
  BY <1>0, <1>1, <1>2, <1>3 DEF FileKept
<1>4. CASE led' = k /\ tail' \in {Inert, e}
  <2>1. /\ k \in States /\ Books(k) /\ Covered(k)
        /\ \A d \in Days : Forgiven(led, d) <= Forgiven(k, d)
    BY <1>0, ApplyBooks, ApplyCovers
  <2>2. /\ \A a \in Attempts : led.settled[a] <= k.settled[a]
        /\ led.closed \subseteq k.closed
    BY <1>0, ApplyRaises
  <2>3. \A a \in Attempts : Unheard(led, a) /\ OfNobody(tail, a) => Unheard(k, a)
    BY <1>0, ApplyUnheard
  <2>4. /\ tail' \in Events /\ Honest(tail')
        /\ \A a \in Attempts : OfNobody(e, a) => OfNobody(tail', a)
    BY <1>4 DEF Events, Inert, Honest, OfNobody
  <2> HIDE DEF k
  <2> QED BY <1>4, <2>1, <2>2, <2>3, <2>4 DEF FileKept
<1> QED BY <1>3, <1>4 DEF CutWrite

-----------------------------------------------------------------------------
(* the steps                                                               *)

LEMMA ClaimsNat ==
  ASSUME TypeOK
  PROVE  /\ [a \in Attempts |-> Claim(a)] \in [Attempts -> Nat]
         /\ WorstOf \in [Attempts -> Nat]
         /\ \A l \in States : l.settled \in [Attempts -> Nat]
         /\ \A S : ClaimedIn(S) \in Nat
<1>1. \A a \in Attempts : Claim(a) \in Nat /\ Worst(a) \in Nat
  BY ClaimNat, WorstNat DEF TypeOK
<1>2. [a \in Attempts |-> Claim(a)] \in [Attempts -> Nat] /\ WorstOf \in [Attempts -> Nat]
  BY <1>1 DEF WorstOf
<1>3. \A S : ClaimedIn(S) \in Nat
  BY <1>2, SumNat DEF ClaimedIn
<1>4. \A l \in States : l.settled \in [Attempts -> Nat]
  BY DEF States
<1> QED BY <1>2, <1>3, <1>4

\* A step that grants nothing, raises no claim and forgives no less.
LEMMA CapsKept ==
  ASSUME TypeOK, TypeOK', ClaimsWithinCaps, call' = call, granted' = granted,
         \A a \in Attempts : Claim(a)' <= Claim(a),
         \A d \in Days : Forgiven(led, d) <= Forgiven(led', d)
  PROVE  ClaimsWithinCaps'
<1> DEFINE f == [a \in Attempts |-> Claim(a)']
           g == [a \in Attempts |-> Claim(a)]
<1>1. f \in [Attempts -> Nat] /\ g \in [Attempts -> Nat] /\ \A S : ClaimedIn(S) \in Nat
  <2>1. \A a \in Attempts : Claim(a)' \in Nat
    <3>1. \A a \in Attempts : claim'[a] \in Nat /\ Worst(a) \in Nat
      BY WorstNat DEF TypeOK
    <3>2. \A a \in Attempts : Claim(a)' = Lesser(claim'[a], Worst(a))
      BY DEF Claim, Worst, Lesser
    <3> QED BY <3>1, <3>2 DEF Lesser
  <2> QED BY <2>1, ClaimsNat
<1>2. \A S : SumIn(f, granted \cap S) <= SumIn(g, granted \cap S) /\ SumIn(f, granted \cap S) \in Nat
  <2>1. \A a \in Attempts : f[a] <= g[a]
    OBVIOUS
  <2> HIDE DEF f, g
  <2> TAKE S
  <2>2. \A b \in Attempts : b \in granted \cap S => f[b] <= IF b \in granted \cap S THEN g[b] ELSE 0
    BY <2>1
  <2>3. SumIn(f, granted \cap S) <= SumIn(g, granted \cap S)
    BY <1>1, <2>2, SumMonotone
  <2> QED BY <1>1, <2>3, SumNat
<1>3. \A S : SumIn(f, granted \cap S) <= ClaimedIn(S)
  BY <1>2 DEF ClaimedIn
<1>4. /\ ClaimedIn(Attempts)' = SumIn(f, granted \cap Attempts)
      /\ \A r \in Runs : ClaimedIn(OfRun(r))' = SumIn(f, granted \cap OfRun(r))
      /\ \A d \in Days : ClaimedIn(OfDay(d))' = SumIn(f, granted \cap OfDay(d))
  BY DEF ClaimedIn, OfRun, OfDay, SumIn
<1>5. \A d \in Days : Forgiven(led, d)' = Forgiven(led', d) /\ Forgiven(led, d) \in Int /\ Forgiven(led', d) \in Int
  <2>1. \A d \in Days : Forgiven(led, d)' = Forgiven(led', d)
    BY DEF Forgiven, SettledIn, OfDay, SumIn
  <2>2. led \in States /\ led' \in States
    BY DEF TypeOK
  <2> QED BY <2>1, <2>2, ForgivenInt
<1> HIDE DEF f, g
<1>6. ClaimedIn(Attempts)' <= TotalCap
  <2>1. ClaimedIn(Attempts) <= TotalCap /\ ClaimedIn(Attempts) \in Nat
    BY <1>1 DEF ClaimsWithinCaps
  <2>2. /\ SumIn(f, granted \cap Attempts) <= ClaimedIn(Attempts)
        /\ SumIn(f, granted \cap Attempts) \in Nat
    BY <1>2, <1>3
  <2>3. ClaimedIn(Attempts)' = SumIn(f, granted \cap Attempts)
    BY <1>4
  <2> QED BY <2>1, <2>2, <2>3, CapsAssumption
<1>7. \A r \in Runs : ClaimedIn(OfRun(r))' <= RunCap
  <2> TAKE r \in Runs
  <2>1. ClaimedIn(OfRun(r)) <= RunCap /\ ClaimedIn(OfRun(r)) \in Nat
    BY <1>1 DEF ClaimsWithinCaps
  <2>2. /\ SumIn(f, granted \cap OfRun(r)) <= ClaimedIn(OfRun(r))
        /\ SumIn(f, granted \cap OfRun(r)) \in Nat
    BY <1>2, <1>3
  <2>3. ClaimedIn(OfRun(r))' = SumIn(f, granted \cap OfRun(r))
    BY <1>4
  <2> QED BY <2>1, <2>2, <2>3, CapsAssumption
<1>8. \A d \in Days : ClaimedIn(OfDay(d))' <= DayCap + Forgiven(led, d)'
  <2> TAKE d \in Days
  <2>1. ClaimedIn(OfDay(d)) <= DayCap + Forgiven(led, d) /\ Forgiven(led, d) <= Forgiven(led', d)
    BY DEF ClaimsWithinCaps
  <2>2. SumIn(f, granted \cap OfDay(d)) <= ClaimedIn(OfDay(d)) /\ SumIn(f, granted \cap OfDay(d)) \in Nat
    BY <1>2, <1>3
  <2>3. ClaimedIn(OfDay(d)) \in Nat
    BY <1>1
  <2>4. Forgiven(led, d)' = Forgiven(led', d) /\ Forgiven(led, d) \in Int /\ Forgiven(led', d) \in Int
    BY <1>5
  <2>5. ClaimedIn(OfDay(d))' = SumIn(f, granted \cap OfDay(d))
    BY <1>4
  <2> QED BY <2>1, <2>2, <2>3, <2>4, <2>5, CapsAssumption
<1> QED BY <1>6, <1>7, <1>8 DEF ClaimsWithinCaps

\* A write that changes no grant and no claim keeps the books and the caps.
LEMMA KeepsBooks ==
  ASSUME Inductive, TypeOK', UNCHANGED <<call, granted, claim>>, NEW e, FileKept(e)
  PROVE  Books(led)' /\ Covered(led)' /\ Honest(tail)' /\ ClaimsWithinCaps'
<1>1. call \in [Attempts -> Calls] /\ claim \in [Attempts -> Nat] /\ TypeOK /\ ClaimsWithinCaps
  BY DEF Inductive, TypeOK
<1>2. Books(led)'
  BY DEF FileKept, Books, SettledIn, OfRun, OfDay, SumIn
<1>3. Covered(led)' /\ Honest(tail)'
  BY DEF FileKept, Covered, Unheard, Claim, Booked, Honest, Worst
<1>4. ClaimsWithinCaps'
  <2>1. \A b \in Attempts : Claim(b)' = Claim(b) /\ Claim(b) \in Nat
    BY <1>1, ClaimNat DEF Claim, Worst
  <2>2. \A b \in Attempts : Claim(b)' <= Claim(b)
    BY <2>1
  <2>3. \A d \in Days : Forgiven(led, d) <= Forgiven(led', d)
    BY DEF FileKept
  <2>4. call' = call /\ granted' = granted
    OBVIOUS
  <2> QED BY <1>1, <2>2, <2>3, <2>4, CapsKept
<1> QED BY <1>2, <1>3, <1>4

\* A step with which a leaves the file alone or for good, and grants nothing.
LEMMA Finishes ==
  ASSUME Inductive, NEW a \in Attempts, NEW s \in PC, s \notin {"new", "reserving", "settling"},
         Goto(a, s), Unlock(a), UNCHANGED <<call, granted, billed, claim>>,
         NEW e, FileKept(e), (led' = led /\ tail' = tail) \/ holder = a,
         \A b \in Attempts : b # a /\ pc[b] \in {"new", "reserving"} => OfNobody(e, b),
         s = "refused" => a \notin granted,
         s \in {"granted", "sent", "answered", "done", "unsettled"} => a \in granted,
         s \notin {"answered", "done", "unsettled", "dead"} => claim[a] = Worst(a),
         s = "done" => claim[a] <= led'.settled[a]
  PROVE  Inductive'
<1>1. /\ call \in [Attempts -> Calls] /\ pc \in [Attempts -> PC] /\ claim \in [Attempts -> Nat]
      /\ view \in [Attempts -> States] /\ led \in States /\ holder \in Attempts \cup {Nobody}
      /\ Standing /\ Locked /\ Fresh /\ ClaimsWithinCaps /\ TypeOK
  BY DEF Inductive, TypeOK
<1>2. /\ pc' \in [Attempts -> PC] /\ pc'[a] = s /\ \A b \in Attempts : b # a => pc'[b] = pc[b]
  BY <1>1 DEF Goto
<1>3. /\ view' \in [Attempts -> States] /\ \A b \in Attempts : b # a => view'[b] = view[b]
  <2>1. EmptyLedger \in States
    BY DEF EmptyLedger, States
  <2> QED BY <1>1, <2>1 DEF Unlock
<1>4. TypeOK'
  BY <1>1, <1>2, <1>3 DEF TypeOK, FileKept, Unlock
<1>5. Standing'
  <2> SUFFICES ASSUME NEW b \in Attempts
               PROVE  (/\ pc[b] \in {"new", "reserving", "refused"} => b \notin granted
                       /\ pc[b] \in {"granted", "sent", "answered", "settling", "done", "unsettled"} => b \in granted
                       /\ pc[b] \notin {"answered", "settling", "done", "unsettled", "dead"} => claim[b] = Worst(b)
                       /\ b \notin granted => billed[b] = 0
                       /\ Lesser(billed[b], Worst(b)) <= Claim(b)
                       /\ pc[b] = "done" => claim[b] <= led.settled[b])'
    BY DEF Standing
  <2>1. Worst(b)' = Worst(b) /\ Claim(b)' = Claim(b) /\ Lesser(billed[b], Worst(b))' = Lesser(billed[b], Worst(b))
    BY DEF Worst, Claim, Lesser
  <2>2. claim[b] \in Nat /\ led.settled[b] \in Nat /\ led'.settled[b] \in Nat /\ led.settled[b] <= led'.settled[b]
    BY <1>1 DEF States, FileKept
  <2>3. CASE b = a
    BY <1>1, <1>2, <2>1, <2>2, <2>3 DEF Standing
  <2>4. CASE b # a
    BY <1>1, <1>2, <2>1, <2>2, <2>4 DEF Standing
  <2> QED BY <2>3, <2>4
<1>6. Locked'
  <2> SUFFICES ASSUME NEW b \in Attempts
               PROVE  (pc'[b] \in InLock => holder' = b) /\ (pc'[b] = "reserving" => view'[b] = led')
    BY DEF Locked
  <2>1. CASE b = a
    BY <1>2, <2>1 DEF InLock
  <2>2. CASE b # a
    BY <1>1, <1>2, <1>3, <2>2 DEF Locked, InLock, Unlock
  <2> QED BY <2>1, <2>2
<1>7. Fresh'
  <2> SUFFICES ASSUME NEW b \in Attempts, pc'[b] \in {"new", "reserving"}
               PROVE  Unheard(led', b) /\ OfNobody(tail', b)
    BY DEF Fresh, Unheard, OfNobody
  <2>1. b # a /\ pc[b] \in {"new", "reserving"}
    BY <1>2
  <2>2. Unheard(led, b) /\ OfNobody(tail, b) /\ OfNobody(e, b)
    BY <1>1, <2>1 DEF Fresh
  <2> QED BY <2>2 DEF FileKept
<1>8. Books(led)' /\ Covered(led)' /\ Honest(tail)' /\ ClaimsWithinCaps'
  BY <1>4, KeepsBooks
<1> QED BY <1>4, <1>5, <1>6, <1>7, <1>8 DEF Inductive

\* A write that leaves every attempt where it stands.
LEMMA Writes ==
  ASSUME Inductive, NEW e, FileKept(e), UNCHANGED <<call, pc, holder, granted, billed, claim>>,
         view' \in [Attempts -> States],
         \A b \in Attempts : pc[b] = "reserving" => view'[b] = led',
         \A b \in Attempts : pc[b] \in {"new", "reserving"} => OfNobody(e, b)
  PROVE  Inductive'
<1>1. led \in States /\ Standing /\ Locked /\ Fresh /\ TypeOK
  BY DEF Inductive, TypeOK
<1>2. TypeOK'
  BY <1>1 DEF TypeOK, FileKept
<1>3. Standing'
  <2> SUFFICES ASSUME NEW b \in Attempts, pc[b] = "done"
               PROVE  claim[b] <= led'.settled[b]
    BY <1>1 DEF Standing, Lesser, Claim, Worst
  <2>1. claim[b] \in Nat /\ led.settled[b] \in Nat /\ led'.settled[b] \in Nat /\ led.settled[b] <= led'.settled[b]
    BY <1>1 DEF States, FileKept, TypeOK
  <2>2. claim[b] <= led.settled[b]
    BY <1>1 DEF Standing
  <2> QED BY <2>1, <2>2
<1>4. Locked' /\ Fresh'
  BY <1>1 DEF Locked, Fresh, FileKept, Unheard, OfNobody
<1>5. Books(led)' /\ Covered(led)' /\ Honest(tail)' /\ ClaimsWithinCaps'
  BY <1>2, KeepsBooks
<1> QED BY <1>2, <1>3, <1>4, <1>5 DEF Inductive

LEMMA Unwritten ==
  ASSUME Inductive, UNCHANGED <<led, tail>>
  PROVE  FileKept(Inert)
<1>1. CutWrite(Inert)
  BY DEF CutWrite
<1>2. Inert \in Events /\ Honest(Inert)
  BY DEF Events, Inert, Honest
<1> QED BY <1>1, <1>2, CutKeeps

\* The lines an attempt writes are about what the ledger already holds, or
\* about itself, and never understate a claim.
LEMMA WrittenLines ==
  ASSUME Inductive, NEW a \in Attempts
  PROVE  /\ Inert \in Events /\ Honest(Inert)
         /\ ReserveOf(a) \in Events /\ Honest(ReserveOf(a))
         /\ \A b \in Attempts : ExpireOf(b) \in Events /\ Honest(ExpireOf(b))
         /\ CommitOf(a, claim[a]) \in Events /\ Honest(CommitOf(a, claim[a]))
         /\ \A d \in Days : ResetOf(d) \in Events /\ Honest(ResetOf(d))
<1>1. call \in [Attempts -> Calls] /\ claim \in [Attempts -> Nat]
  BY DEF Inductive, TypeOK
<1>2. \A b \in Attempts : Claim(b) <= Worst(b) /\ Claim(b) <= claim[b]
  BY <1>1, ClaimNat
<1>3. \A b \in Attempts : Honest(ExpireOf(b)) /\ Honest(CommitOf(b, claim[b]))
  BY <1>2 DEF Honest, ExpireOf, CommitOf
<1> QED BY <1>1, <1>3, SomeEvents

LEMMA AboutOthers ==
  ASSUME Inductive, NEW a \in Attempts, NEW b \in Attempts, b # a, pc[b] \in {"new", "reserving"}
  PROVE  /\ OfNobody(Inert, b) /\ OfNobody(ReserveOf(a), b) /\ OfNobody(CommitOf(a, claim[a]), b)
BY DEF OfNobody, Inert, ReserveOf, CommitOf

\* Only what is open expires, and nothing unheard of is.
LEMMA ExpiryOfKnown ==
  ASSUME Inductive, NEW a \in Attempts, pc[a] = "reserving", NEW c \in Attempts, c \in view[a].open,
         NEW b \in Attempts, pc[b] \in {"new", "reserving"}
  PROVE  OfNobody(ExpireOf(c), b)
<1>1. c \in led.open
  BY DEF Inductive, Locked
<1>2. b # c
  BY <1>1 DEF Inductive, Fresh, Unheard
<1> QED BY <1>2 DEF OfNobody, ExpireOf

\* A commit line that was written counts in full.
LEMMA CommitCounts ==
  ASSUME Inductive, NEW a \in Attempts, Write(CommitOf(a, claim[a]))
  PROVE  claim[a] <= led'.settled[a]
<1>1. call \in [Attempts -> Calls] /\ led \in States /\ tail \in Events /\ Books(led) /\ claim[a] \in Nat
  BY DEF Inductive, TypeOK
<1> DEFINE k == Apply(led, tail)
           e == CommitOf(a, claim[a])
<1>2. k \in States
  BY <1>1, ApplyBooks
<1>3. led' = Apply(k, e)
  BY DEF Write, Appended
<1>4. e \in Events /\ e.ev = "commit" /\ e.id = a /\ e.nusd = claim[a]
  BY <1>1, SomeEvents DEF CommitOf
<1> HIDE DEF k, e
<1>5. PICK c \in Attempts, n \in Nat : c = a /\ n = claim[a] /\ led' = Settle(k, c, n)
  BY <1>2, <1>3, <1>4, ApplySettle
<1>6. n <= Settle(k, c, n).settled[c]
  BY <1>1, <1>2, SettleFields
<1> QED BY <1>5, <1>6

LEMMA StepUnavailable ==
  ASSUME Inductive, NEW a \in Attempts, Unavailable(a)
  PROVE  Inductive'
<1>1. FileKept(Inert)
  BY Unwritten DEF Unavailable
<1>2. a \notin granted /\ claim[a] = Worst(a)
  BY DEF Inductive, Standing, Unavailable
<1>3. \A b \in Attempts : OfNobody(Inert, b)
  BY DEF OfNobody, Inert
<1> QED BY <1>1, <1>2, <1>3, Finishes DEF Unavailable, PC

LEMMA StepExpireFails ==
  ASSUME Inductive, NEW a \in Attempts, NEW c \in Attempts, ExpireFails(a, c)
  PROVE  Inductive'
<1>1. FileKept(ExpireOf(c))
  BY WrittenLines, CutKeeps, AppendKeeps DEF ExpireFails
<1>2. a \notin granted /\ claim[a] = Worst(a) /\ holder = a
  BY DEF Inductive, Standing, Locked, InLock, ExpireFails
<1>3. \A b \in Attempts : pc[b] \in {"new", "reserving"} => OfNobody(ExpireOf(c), b)
  BY ExpiryOfKnown DEF ExpireFails
<1> QED BY <1>1, <1>2, <1>3, Finishes DEF ExpireFails, PC

LEMMA StepReserveFails ==
  ASSUME Inductive, NEW a \in Attempts, ReserveFails(a)
  PROVE  Inductive'
<1>1. FileKept(ReserveOf(a))
  BY WrittenLines, CutKeeps, AppendKeeps DEF ReserveFails
<1>2. a \notin granted /\ claim[a] = Worst(a) /\ holder = a
  BY DEF Inductive, Standing, Locked, InLock, ReserveFails
<1> QED BY <1>1, <1>2, AboutOthers, Finishes DEF ReserveFails, PC

LEMMA StepRefuse ==
  ASSUME Inductive, NEW a \in Attempts, Refuse(a)
  PROVE  Inductive'
<1>1. FileKept(Inert)
  BY WrittenLines, CutKeeps, AppendKeeps DEF Refuse
<1>2. a \notin granted /\ claim[a] = Worst(a) /\ holder = a
  BY DEF Inductive, Standing, Locked, InLock, Refuse
<1> QED BY <1>1, <1>2, AboutOthers, Finishes DEF Refuse, PC

LEMMA StepSettleAttempt ==
  ASSUME Inductive, NEW a \in Attempts, SettleAttempt(a)
  PROVE  Inductive'
<1>1. FileKept(CommitOf(a, claim[a])) /\ claim[a] <= led'.settled[a]
  BY WrittenLines, AppendKeeps, CommitCounts DEF SettleAttempt
<1>2. a \in granted /\ holder = a
  BY DEF Inductive, Standing, Locked, InLock, SettleAttempt
<1> QED BY <1>1, <1>2, AboutOthers, Finishes DEF SettleAttempt, PC

LEMMA StepSettleFails ==
  ASSUME Inductive, NEW a \in Attempts, SettleFails(a)
  PROVE  Inductive'
<1>1. a \in granted /\ (pc[a] = "settling" => holder = a)
  BY DEF Inductive, Standing, Locked, InLock, SettleFails
<1>2. CASE UNCHANGED <<led, tail>>
  <2>1. FileKept(Inert)
    BY <1>2, Unwritten
  <2> QED BY <1>1, <1>2, <2>1, AboutOthers, Finishes DEF SettleFails, PC
<1>3. CASE pc[a] = "settling" /\ (CutWrite(CommitOf(a, claim[a])) \/ Write(CommitOf(a, claim[a])))
  <2>1. FileKept(CommitOf(a, claim[a]))
    BY <1>3, WrittenLines, CutKeeps, AppendKeeps
  <2> QED BY <1>1, <1>3, <2>1, AboutOthers, Finishes DEF SettleFails, PC
<1> QED BY <1>2, <1>3 DEF SettleFails

LEMMA StepCrash ==
  ASSUME Inductive, NEW a \in Attempts, Crash(a)
  PROVE  Inductive'
<1>1. FileKept(Inert)
  BY Unwritten DEF Crash
<1> QED BY <1>1, AboutOthers, Finishes DEF Crash, PC

LEMMA StepExpire ==
  ASSUME Inductive, NEW a \in Attempts, NEW c \in Attempts, Expire(a, c)
  PROVE  Inductive'
<1>1. FileKept(ExpireOf(c))
  BY WrittenLines, AppendKeeps DEF Expire
<1>2. \A b \in Attempts : pc[b] \in {"new", "reserving"} => OfNobody(ExpireOf(c), b)
  BY ExpiryOfKnown DEF Expire
<1>3. \A b \in Attempts : pc[b] = "reserving" => b = a
  BY DEF Inductive, Locked, InLock, Expire
<1>4. view \in [Attempts -> States] /\ led' \in States
  BY <1>1 DEF Inductive, TypeOK, FileKept
<1>5. view' \in [Attempts -> States] /\ view'[a] = led'
  BY <1>4 DEF Expire
<1> QED BY <1>1, <1>2, <1>3, <1>5, Writes DEF Expire

LEMMA StepResetDay ==
  ASSUME Inductive, NEW d \in Days, ResetDay(d)
  PROVE  Inductive'
<1>1. ResetOf(d) \in Events /\ Honest(ResetOf(d)) /\ \A b \in Attempts : OfNobody(ResetOf(d), b)
  BY DEF ResetOf, Events, Honest, OfNobody
<1>2. FileKept(ResetOf(d))
  BY <1>1, AppendKeeps DEF ResetDay
<1>3. \A b \in Attempts : pc[b] # "reserving"
  BY DEF Inductive, Locked, InLock, ResetDay, Attempts, Nobody
<1>4. view \in [Attempts -> States]
  BY DEF Inductive, TypeOK
<1> QED BY <1>1, <1>2, <1>3, <1>4, Writes DEF ResetDay

LEMMA StepAcquire ==
  ASSUME Inductive, NEW a \in Attempts, Acquire(a)
  PROVE  Inductive'
<1>1. /\ pc \in [Attempts -> PC] /\ view \in [Attempts -> States] /\ led \in States
      /\ Standing /\ Locked /\ Fresh /\ TypeOK
  BY DEF Inductive, TypeOK
<1>2. FileKept(Inert)
  BY Unwritten DEF Acquire
<1>3. /\ pc' \in [Attempts -> PC]
      /\ pc'[a] = IF pc[a] = "new" THEN "reserving" ELSE "settling"
      /\ \A b \in Attempts : b # a => pc'[b] = pc[b]
  BY <1>1 DEF Acquire, Goto, PC
<1>4. view' \in [Attempts -> States] /\ view'[a] = led /\ \A b \in Attempts : b # a => view'[b] = view[b]
  BY <1>1 DEF Acquire
<1>5. TypeOK'
  BY <1>1, <1>3, <1>4 DEF TypeOK, Acquire
<1>6. Standing'
  <2> SUFFICES ASSUME NEW b \in Attempts
               PROVE  (/\ pc[b] \in {"new", "reserving", "refused"} => b \notin granted
                       /\ pc[b] \in {"granted", "sent", "answered", "settling", "done", "unsettled"} => b \in granted
                       /\ pc[b] \notin {"answered", "settling", "done", "unsettled", "dead"} => claim[b] = Worst(b)
                       /\ b \notin granted => billed[b] = 0
                       /\ Lesser(billed[b], Worst(b)) <= Claim(b)
                       /\ pc[b] = "done" => claim[b] <= led.settled[b])'
    BY DEF Standing
  <2>1. Worst(b)' = Worst(b) /\ Claim(b)' = Claim(b) /\ Lesser(billed[b], Worst(b))' = Lesser(billed[b], Worst(b))
    BY DEF Worst, Claim, Lesser, Acquire
  <2> QED BY <1>1, <1>3, <2>1 DEF Standing, Acquire
<1>7. Locked'
  <2>1. \A b \in Attempts : pc[b] \notin InLock
    BY <1>1 DEF Locked, Acquire, Attempts, Nobody
  <2> QED BY <1>3, <1>4, <2>1 DEF Locked, InLock, Acquire
<1>8. Fresh'
  BY <1>1, <1>3 DEF Fresh, Unheard, OfNobody, Acquire
<1>9. Books(led)' /\ Covered(led)' /\ Honest(tail)' /\ ClaimsWithinCaps'
  BY <1>2, <1>5, KeepsBooks DEF Acquire
<1> QED BY <1>5, <1>6, <1>7, <1>8, <1>9 DEF Inductive

\* Where pc[a] moves outside the lock and the file is not touched.
LEMMA Moves ==
  ASSUME Inductive, NEW a \in Attempts, NEW t \in {"sent", "answered"}, pc[a] \notin InLock,
         Goto(a, t), UNCHANGED <<holder, led, tail, view>>
  PROVE  /\ pc' \in [Attempts -> PC] /\ pc'[a] = t /\ \A b \in Attempts : b # a => pc'[b] = pc[b]
         /\ Locked' /\ Fresh'
<1>1. pc \in [Attempts -> PC] /\ Locked /\ Fresh
  BY DEF Inductive, TypeOK
<1>2. pc' \in [Attempts -> PC] /\ pc'[a] = t /\ \A b \in Attempts : b # a => pc'[b] = pc[b]
  BY <1>1 DEF Goto, PC
<1>3. Locked'
  BY <1>1, <1>2 DEF Locked, InLock
<1>4. Fresh'
  BY <1>1, <1>2 DEF Fresh, Unheard, OfNobody
<1> QED BY <1>2, <1>3, <1>4

LEMMA StepSend ==
  ASSUME Inductive, NEW a \in Attempts, Send(a)
  PROVE  Inductive'
<1>1. TypeOK /\ Standing /\ a \in granted /\ claim[a] = Worst(a) /\ Worst(a) \in Nat
  BY WorstNat DEF Inductive, TypeOK, Standing, Send
<1>2. /\ pc' \in [Attempts -> PC] /\ pc'[a] = "sent" /\ \A b \in Attempts : b # a => pc'[b] = pc[b]
      /\ Locked' /\ Fresh'
  BY Moves DEF Send, InLock
<1>3. PICK n \in 0..(Worst(a) + Overrun) : billed' = [billed EXCEPT ![a] = n]
  BY DEF Send
<1>4. /\ billed' \in [Attempts -> Nat] /\ billed'[a] = n /\ n \in Nat
      /\ \A b \in Attempts : b # a => billed'[b] = billed[b]
  BY <1>1, <1>3, OverrunAssumption DEF TypeOK
<1>5. TypeOK'
  BY <1>1, <1>2, <1>4 DEF TypeOK, Send
<1>6. Standing'
  <2> SUFFICES ASSUME NEW b \in Attempts
               PROVE  (/\ pc[b] \in {"new", "reserving", "refused"} => b \notin granted
                       /\ pc[b] \in {"granted", "sent", "answered", "settling", "done", "unsettled"} => b \in granted
                       /\ pc[b] \notin {"answered", "settling", "done", "unsettled", "dead"} => claim[b] = Worst(b)
                       /\ b \notin granted => billed[b] = 0
                       /\ Lesser(billed[b], Worst(b)) <= Claim(b)
                       /\ pc[b] = "done" => claim[b] <= led.settled[b])'
    BY DEF Standing
  <2>1. Worst(b)' = Worst(b) /\ Claim(b)' = Claim(b) /\ Lesser(billed[b], Worst(b))' = Lesser(billed'[b], Worst(b))
    BY DEF Worst, Claim, Lesser, Send
  <2>2. CASE b = a
    <3>1. Lesser(n, Worst(a)) <= Claim(a)
      BY <1>1, <1>4 DEF Claim, Lesser
    <3> QED BY <1>1, <1>2, <1>4, <2>1, <2>2, <3>1 DEF Send
  <2>3. CASE b # a
    BY <1>1, <1>2, <1>4, <2>1, <2>3 DEF Standing, Send
  <2> QED BY <2>2, <2>3
<1>7. FileKept(Inert)
  BY Unwritten DEF Send
<1>8. Books(led)' /\ Covered(led)' /\ Honest(tail)' /\ ClaimsWithinCaps'
  BY <1>5, <1>7, KeepsBooks DEF Send
<1> QED BY <1>2, <1>5, <1>6, <1>8 DEF Inductive

LEMMA StepAnswer ==
  ASSUME Inductive, NEW a \in Attempts, Answer(a)
  PROVE  Inductive'
<1>1. /\ TypeOK /\ Standing /\ a \in granted /\ claim[a] = Worst(a) /\ Worst(a) \in Nat
      /\ billed[a] \in Nat /\ Claim(a) = Worst(a)
  BY WorstNat DEF Inductive, TypeOK, Standing, Answer, Claim, Lesser
<1>2. /\ pc' \in [Attempts -> PC] /\ pc'[a] = "answered" /\ \A b \in Attempts : b # a => pc'[b] = pc[b]
      /\ Locked' /\ Fresh'
  BY Moves DEF Answer, InLock
<1>3. \E n \in Nat : claim' = [claim EXCEPT ![a] = n] /\ (n >= billed[a] \/ n >= Worst(a))
  <2>1. PICK o \in Outcomes, usage \in billed[a]..(Worst(a) + Overrun) :
          /\ o = "http_error" /\ ErrorsAreFree => billed[a] = 0
          /\ claim' = [claim EXCEPT ![a] = IF Basis(o) = "actual" THEN usage
                                           ELSE IF Basis(o) = "not_billed" THEN 0 ELSE Worst(a)]
    BY DEF Answer
  <2>2. usage \in Nat /\ usage >= billed[a]
    BY <1>1, OverrunAssumption
  <2>3. Basis(o) = "not_billed" => billed[a] = 0
    BY <2>1 DEF Basis
  <2> DEFINE c == IF Basis(o) = "actual" THEN usage ELSE IF Basis(o) = "not_billed" THEN 0 ELSE Worst(a)
  <2>4. claim' = [claim EXCEPT ![a] = c]
    BY <2>1
  <2>5. c \in Nat /\ (c >= billed[a] \/ c >= Worst(a))
    <3>1. CASE Basis(o) = "actual"
      BY <2>2, <3>1
    <3>2. CASE Basis(o) = "not_billed"
      BY <1>1, <2>3, <3>2
    <3>3. CASE Basis(o) # "actual" /\ Basis(o) # "not_billed"
      BY <1>1, <3>3
    <3> QED BY <3>1, <3>2, <3>3
  <2> HIDE DEF c
  <2> QED BY <2>4, <2>5
<1>4. PICK n \in Nat : claim' = [claim EXCEPT ![a] = n] /\ (n >= billed[a] \/ n >= Worst(a))
  BY <1>3
<1>5. /\ claim' \in [Attempts -> Nat] /\ claim'[a] = n
      /\ \A b \in Attempts : b # a => claim'[b] = claim[b]
  BY <1>1, <1>4 DEF TypeOK
<1>6. TypeOK'
  BY <1>1, <1>2, <1>5 DEF TypeOK, Answer
<1>7. \A b \in Attempts : /\ Worst(b)' = Worst(b) /\ Claim(b)' = Lesser(claim'[b], Worst(b))
                          /\ Lesser(billed[b], Worst(b))' = Lesser(billed[b], Worst(b))
  BY DEF Worst, Claim, Lesser, Answer
<1>8. \A b \in Attempts : Claim(b) \in Nat /\ Claim(b)' \in Nat /\ Claim(b)' <= Claim(b)
  <2> TAKE b \in Attempts
  <2>1. Claim(b) \in Nat /\ Worst(b) \in Nat
    BY <1>1, ClaimNat, WorstNat DEF TypeOK
  <2>2. CASE b = a
    BY <1>1, <1>5, <1>7, <2>1, <2>2 DEF Lesser
  <2>3. CASE b # a
    BY <1>5, <1>7, <2>1, <2>3 DEF Claim
  <2> QED BY <2>2, <2>3
<1>9. Standing'
  <2> SUFFICES ASSUME NEW b \in Attempts
               PROVE  (/\ pc[b] \in {"new", "reserving", "refused"} => b \notin granted
                       /\ pc[b] \in {"granted", "sent", "answered", "settling", "done", "unsettled"} => b \in granted
                       /\ pc[b] \notin {"answered", "settling", "done", "unsettled", "dead"} => claim[b] = Worst(b)
                       /\ b \notin granted => billed[b] = 0
                       /\ Lesser(billed[b], Worst(b)) <= Claim(b)
                       /\ pc[b] = "done" => claim[b] <= led.settled[b])'
    BY DEF Standing
  <2>1. CASE b = a
    <3>1. Lesser(billed[a], Worst(a)) <= Lesser(n, Worst(a))
      BY <1>1, <1>4 DEF Lesser
    <3> QED BY <1>1, <1>2, <1>5, <1>7, <2>1, <3>1 DEF Answer
  <2>2. CASE b # a
    <3>1. Claim(b)' = Claim(b)
      BY <1>5, <1>7, <2>2 DEF Claim
    <3> QED BY <1>1, <1>2, <1>5, <1>7, <2>2, <3>1 DEF Standing, Answer
  <2> QED BY <2>1, <2>2
<1>10. Books(led)'
  BY DEF Inductive, Books, SettledIn, OfRun, OfDay, SumIn, Answer
<1>11. Covered(led)'
  <2> SUFFICES ASSUME NEW b \in granted
               PROVE  ~ Unheard(led, b) /\ Claim(b)' <= Booked(led, b)
    BY DEF Covered, Unheard, Booked, Worst, Answer
  <2>1. b \in Attempts /\ ~ Unheard(led, b) /\ Claim(b) <= Booked(led, b)
    BY DEF Inductive, TypeOK, Covered
  <2>2. Booked(led, b) \in Nat
    BY <1>1, <2>1, WorstNat DEF TypeOK, States, Booked
  <2> QED BY <1>8, <2>1, <2>2
<1>12. Honest(tail)'
  <2> SUFFICES ASSUME tail.ev \in {"expire", "commit"}, tail.id \in granted
               PROVE  Claim(tail.id)' <= tail.nusd
    BY DEF Honest, Claim, Worst, Answer
  <2>1. tail.id \in Attempts /\ tail.nusd \in Nat /\ Claim(tail.id) <= tail.nusd
    BY EventCases DEF Inductive, TypeOK, Honest
  <2>2. PICK b \in Attempts : b = tail.id
    BY <2>1
  <2>3. Claim(b)' = Claim(tail.id)' /\ Claim(b) = Claim(tail.id)
    BY <2>2 DEF Claim, Worst, Answer
  <2>4. Claim(b) <= tail.nusd /\ Claim(b)' <= Claim(b) /\ Claim(b) \in Nat /\ Claim(b)' \in Nat
    BY <1>8, <2>1, <2>3
  <2> QED BY <2>1, <2>3, <2>4
<1>13. ClaimsWithinCaps'
  <2>1. \A d \in Days : Forgiven(led, d) <= Forgiven(led', d)
    <3>1. FileKept(Inert)
      BY Unwritten DEF Answer
    <3> QED BY <3>1 DEF FileKept
  <2>2. \A b \in Attempts : Claim(b)' <= Claim(b)
    BY <1>8
  <2>3. call' = call /\ granted' = granted
    BY DEF Answer
  <2> QED BY <1>1, <1>6, <2>1, <2>2, <2>3, CapsKept DEF Inductive
<1> QED BY <1>2, <1>6, <1>9, <1>10, <1>11, <1>12, <1>13 DEF Inductive

\* What the granted attempts may still cost is on the ledger, as settled
\* spending or as open reservations.
LEMMA ClaimsOnLedger ==
  ASSUME Inductive, NEW S \in SUBSET Attempts
  PROVE  ClaimedIn(S) <= SettledIn(led, S) + OpenIn(led, S)
<1> DEFINE f == [a \in Attempts |-> Claim(a)]
<1>1. /\ f \in [Attempts -> Nat] /\ WorstOf \in [Attempts -> Nat] /\ led.settled \in [Attempts -> Nat]
      /\ TypeOK /\ call \in [Attempts -> Calls] /\ claim \in [Attempts -> Nat]
  BY ClaimsNat DEF Inductive, TypeOK
<1>2. \A b \in (granted \cap S) \cap Attempts :
         f[b] <= (IF b \in S THEN led.settled[b] ELSE 0) + (IF b \in led.open \cap S THEN WorstOf[b] ELSE 0)
  <2> TAKE b \in (granted \cap S) \cap Attempts
  <2>1. f[b] = Claim(b) /\ WorstOf[b] = Worst(b)
    BY DEF WorstOf
  <2>2. Claim(b) \in Nat /\ Worst(b) \in Nat /\ led.settled[b] \in Nat
    BY <1>1, ClaimNat, WorstNat
  <2>3. Claim(b) <= Booked(led, b)
    BY DEF Inductive, Covered
  <2> QED BY <2>1, <2>2, <2>3 DEF Booked
<1> HIDE DEF f
<1>3. SumIn(f, granted \cap S) <= SumIn(led.settled, S) + SumIn(WorstOf, led.open \cap S)
  BY <1>1, <1>2, SumPlus
<1> QED BY <1>3 DEF ClaimedIn, SettledIn, OpenIn, f

LEMMA ReserveIsOpen ==
  ASSUME Inductive, NEW a \in Attempts, Reserve(a)
  PROVE  a \in led'.open
<1>1. /\ call \in [Attempts -> Calls] /\ led \in States /\ tail \in Events /\ Books(led)
      /\ Unheard(led, a) /\ OfNobody(tail, a)
  BY DEF Inductive, TypeOK, Fresh, Reserve
<1> DEFINE k == Apply(led, tail)
           e == ReserveOf(a)
<1>2. k \in States /\ Unheard(k, a)
  BY <1>1, ApplyBooks, ApplyUnheard
<1>3. led' = Apply(k, e)
  BY DEF Reserve, Write, Appended
<1>4. e \in Events /\ e.ev = "reserve" /\ e.id = a
  BY <1>1, SomeEvents DEF ReserveOf
<1> HIDE DEF k, e
<1>5. Apply(k, e).open = IF e.id \in k.closed THEN k.open ELSE k.open \cup {e.id}
  BY <1>2, <1>4, ApplyReserve
<1> QED BY <1>2, <1>3, <1>4, <1>5 DEF Unheard

\* The request that is granted fits under every cap with everything granted
\* before it.
LEMMA ReserveWithinCaps ==
  ASSUME Inductive, NEW a \in Attempts, Reserve(a), FileKept(ReserveOf(a))
  PROVE  ClaimsWithinCaps'
<1> DEFINE f == [b \in Attempts |-> Claim(b)]
<1>1. /\ TypeOK /\ call \in [Attempts -> Calls] /\ led \in States /\ Books(led) /\ ClaimsWithinCaps
      /\ a \notin granted /\ claim[a] = Worst(a) /\ WithinCaps(led, a)
  BY DEF Inductive, TypeOK, Standing, Locked, Reserve
<1>2. /\ f \in [Attempts -> Nat] /\ WorstOf \in [Attempts -> Nat] /\ led.settled \in [Attempts -> Nat]
      /\ f[a] = Worst(a) /\ Worst(a) \in Nat /\ call[a].run \in Runs /\ call[a].day \in Days
  BY <1>1, ClaimsNat, WorstNat DEF Claim, Lesser
<1>3. \A S \in SUBSET Attempts :
        /\ SumIn(f, granted' \cap S) = ClaimedIn(S) + (IF a \in S THEN Worst(a) ELSE 0)
        /\ ClaimedIn(S) \in Nat /\ SettledIn(led, S) \in Nat /\ OpenIn(led, S) \in Nat
        /\ ClaimedIn(S) <= SettledIn(led, S) + OpenIn(led, S)
  <2> TAKE S \in SUBSET Attempts
  <2>1. SumIn(f, granted \cap S) \in Nat /\ SettledIn(led, S) \in Nat /\ OpenIn(led, S) \in Nat
    BY <1>2, SumNat DEF SettledIn, OpenIn
  <2>2. \A b \in Attempts : b # a => (b \in granted' \cap S <=> b \in granted \cap S)
    BY DEF Reserve
  <2>3. a \notin granted \cap S /\ (a \in granted' \cap S <=> a \in S)
    BY <1>1 DEF Reserve
  <2>4. ClaimedIn(S) = SumIn(f, granted \cap S)
    BY DEF ClaimedIn
  <2> HIDE DEF f
  <2> DEFINE U == granted' \cap S
             V == granted \cap S
  <2>5. SumIn(f, U) = SumIn(f, V) + (IF a \in U THEN f[a] ELSE 0) - (IF a \in V THEN f[a] ELSE 0)
    <3>1. \A b \in Attempts : b # a => (b \in U <=> b \in V) /\ (b \in U => f[b] = f[b])
      BY <2>2
    <3> HIDE DEF U, V
    <3> QED BY <1>2, <3>1, SumChange
  <2> QED BY <1>2, <2>1, <2>3, <2>4, <2>5, ClaimsOnLedger
<1>4. /\ ClaimedIn(Attempts)' = SumIn(f, granted' \cap Attempts)
      /\ \A r \in Runs : ClaimedIn(OfRun(r))' = SumIn(f, granted' \cap OfRun(r)) /\ OfRun(r) \in SUBSET Attempts
      /\ \A d \in Days : ClaimedIn(OfDay(d))' = SumIn(f, granted' \cap OfDay(d)) /\ OfDay(d) \in SUBSET Attempts
  BY DEF ClaimedIn, OfRun, OfDay, SumIn, Reserve, Claim, Worst
<1> HIDE DEF f
<1>5. ClaimedIn(Attempts)' <= TotalCap
  <2>1. /\ SumIn(f, granted' \cap Attempts) = ClaimedIn(Attempts) + Worst(a)
        /\ ClaimedIn(Attempts) \in Nat /\ SettledIn(led, Attempts) \in Nat /\ OpenIn(led, Attempts) \in Nat
        /\ ClaimedIn(Attempts) <= SettledIn(led, Attempts) + OpenIn(led, Attempts)
    BY <1>3
  <2>2. SettledIn(led, Attempts) + OpenIn(led, Attempts) + Worst(a) <= TotalCap
    BY <1>1 DEF WithinCaps, Books
  <2>3. ClaimedIn(Attempts)' = SumIn(f, granted' \cap Attempts)
    BY <1>4
  <2> QED BY <1>2, <2>1, <2>2, <2>3, CapsAssumption
<1>6. \A r \in Runs : ClaimedIn(OfRun(r))' <= RunCap
  <2> TAKE r \in Runs
  <2>1. ClaimedIn(OfRun(r))' = SumIn(f, granted' \cap OfRun(r)) /\ OfRun(r) \in SUBSET Attempts
    BY <1>4
  <2>2. /\ SumIn(f, granted' \cap OfRun(r)) = ClaimedIn(OfRun(r)) + (IF a \in OfRun(r) THEN Worst(a) ELSE 0)
        /\ ClaimedIn(OfRun(r)) \in Nat /\ SettledIn(led, OfRun(r)) \in Nat /\ OpenIn(led, OfRun(r)) \in Nat
        /\ ClaimedIn(OfRun(r)) <= SettledIn(led, OfRun(r)) + OpenIn(led, OfRun(r))
    BY <1>3, <2>1
  <2>3. ClaimedIn(OfRun(r)) <= RunCap
    BY <1>1 DEF ClaimsWithinCaps
  <2>4. a \in OfRun(r) => SettledIn(led, OfRun(r)) + OpenIn(led, OfRun(r)) + Worst(a) <= RunCap
    BY <1>1 DEF WithinCaps, Books, OfRun
  <2> QED BY <1>2, <2>1, <2>2, <2>3, <2>4, CapsAssumption
<1>7. \A d \in Days : ClaimedIn(OfDay(d))' <= DayCap + Forgiven(led, d)'
  <2> TAKE d \in Days
  <2>1. ClaimedIn(OfDay(d))' = SumIn(f, granted' \cap OfDay(d)) /\ OfDay(d) \in SUBSET Attempts
    BY <1>4
  <2>2. /\ SumIn(f, granted' \cap OfDay(d)) = ClaimedIn(OfDay(d)) + (IF a \in OfDay(d) THEN Worst(a) ELSE 0)
        /\ ClaimedIn(OfDay(d)) \in Nat /\ SettledIn(led, OfDay(d)) \in Nat /\ OpenIn(led, OfDay(d)) \in Nat
        /\ ClaimedIn(OfDay(d)) <= SettledIn(led, OfDay(d)) + OpenIn(led, OfDay(d))
    BY <1>3, <2>1
  <2>3. ClaimedIn(OfDay(d)) <= DayCap + Forgiven(led, d)
    BY <1>1 DEF ClaimsWithinCaps
  <2>4. a \in OfDay(d) => led.byDay[d] + OpenIn(led, OfDay(d)) + Worst(a) <= DayCap
    BY <1>1 DEF WithinCaps, OfDay
  <2>5. led.byDay[d] \in Nat /\ Forgiven(led, d) = SettledIn(led, OfDay(d)) - led.byDay[d]
    BY <1>1 DEF States, Forgiven
  <2>6. Forgiven(led, d)' = Forgiven(led', d) /\ Forgiven(led, d) <= Forgiven(led', d) /\ Forgiven(led', d) \in Int
    BY ForgivenInt DEF FileKept, Forgiven, SettledIn, OfDay, SumIn, Reserve
  <2>7. SumIn(f, granted' \cap OfDay(d)) <= DayCap + Forgiven(led, d)
    BY <1>2, <2>2, <2>3, <2>4, <2>5, CapsAssumption
  <2> QED BY <1>2, <2>1, <2>2, <2>5, <2>6, <2>7, CapsAssumption
<1> QED BY <1>5, <1>6, <1>7 DEF ClaimsWithinCaps

LEMMA StepReserve ==
  ASSUME Inductive, NEW a \in Attempts, Reserve(a)
  PROVE  Inductive'
<1>1. /\ TypeOK /\ Standing /\ Locked /\ Fresh /\ pc \in [Attempts -> PC] /\ view \in [Attempts -> States]
      /\ claim[a] = Worst(a) /\ a \notin granted /\ holder = a /\ Worst(a) \in Nat
  BY WorstNat DEF Inductive, TypeOK, Standing, Locked, InLock, Reserve
<1>2. FileKept(ReserveOf(a))
  BY WrittenLines, AppendKeeps DEF Reserve
<1>3. /\ pc' \in [Attempts -> PC] /\ pc'[a] = "granted" /\ \A b \in Attempts : b # a => pc'[b] = pc[b]
  BY <1>1 DEF Reserve, Goto, PC
<1>4. /\ view' \in [Attempts -> States] /\ \A b \in Attempts : b # a => view'[b] = view[b]
  <2>1. EmptyLedger \in States
    BY DEF EmptyLedger, States
  <2> QED BY <1>1, <2>1 DEF Reserve, Unlock
<1>5. TypeOK'
  BY <1>1, <1>2, <1>3, <1>4 DEF TypeOK, Reserve, Unlock, FileKept
<1>6. Standing'
  <2> SUFFICES ASSUME NEW b \in Attempts
               PROVE  (/\ pc[b] \in {"new", "reserving", "refused"} => b \notin granted
                       /\ pc[b] \in {"granted", "sent", "answered", "settling", "done", "unsettled"} => b \in granted
                       /\ pc[b] \notin {"answered", "settling", "done", "unsettled", "dead"} => claim[b] = Worst(b)
                       /\ b \notin granted => billed[b] = 0
                       /\ Lesser(billed[b], Worst(b)) <= Claim(b)
                       /\ pc[b] = "done" => claim[b] <= led.settled[b])'
    BY DEF Standing
  <2>1. /\ Worst(b)' = Worst(b) /\ Claim(b)' = Claim(b) /\ Lesser(billed[b], Worst(b))' = Lesser(billed[b], Worst(b))
        /\ granted' = granted \cup {a} /\ billed' = billed /\ claim' = claim
    BY DEF Worst, Claim, Lesser, Reserve
  <2>2. claim[b] \in Nat /\ led.settled[b] \in Nat /\ led'.settled[b] \in Nat /\ led.settled[b] <= led'.settled[b]
    BY <1>1, <1>2 DEF TypeOK, States, FileKept
  <2>3. CASE b = a
    BY <1>1, <1>3, <2>1, <2>3 DEF Standing
  <2>4. CASE b # a
    BY <1>1, <1>3, <2>1, <2>2, <2>4 DEF Standing
  <2> QED BY <2>3, <2>4
<1>7. Locked'
  <2>1. \A b \in Attempts : b # a => pc[b] \notin InLock
    BY <1>1 DEF Locked
  <2> QED BY <1>3, <2>1 DEF Locked, InLock
<1>8. Fresh'
  <2> SUFFICES ASSUME NEW b \in Attempts, pc'[b] \in {"new", "reserving"}
               PROVE  Unheard(led', b) /\ OfNobody(tail', b)
    BY DEF Fresh, Unheard, OfNobody
  <2>1. b # a /\ pc[b] \in {"new", "reserving"}
    BY <1>3
  <2>2. Unheard(led, b) /\ OfNobody(tail, b) /\ OfNobody(ReserveOf(a), b)
    BY <1>1, <2>1, AboutOthers DEF Fresh
  <2> QED BY <1>2, <2>2 DEF FileKept
<1>9. Books(led)'
  BY <1>2 DEF FileKept, Books, SettledIn, OfRun, OfDay, SumIn, Reserve
<1>10. Covered(led)'
  <2> SUFFICES ASSUME NEW b \in granted'
               PROVE  ~ Unheard(led', b) /\ Claim(b) <= Booked(led', b)
    BY DEF Covered, Unheard, Booked, Worst, Claim, Reserve
  <2>1. CASE b = a
    <3>1. a \in led'.open
      BY ReserveIsOpen
    <3>2. Claim(a) <= Worst(a)
      BY <1>1 DEF Claim, Lesser
    <3> QED BY <2>1, <3>1, <3>2 DEF Unheard, Booked
  <2>2. CASE b # a
    BY <1>2, <2>2 DEF FileKept, Covered, Reserve
  <2> QED BY <2>1, <2>2
<1>11. Honest(tail)'
  BY DEF Honest, Reserve, Write, Inert
<1>12. ClaimsWithinCaps'
  BY <1>2, ReserveWithinCaps
<1> QED BY <1>5, <1>6, <1>7, <1>8, <1>9, <1>10, <1>11, <1>12 DEF Inductive

LEMMA InductiveInit ==
  Init => Inductive
<1> SUFFICES ASSUME Init PROVE Inductive
  OBVIOUS
<1>1. \A a \in Attempts : Worst(a) \in Nat
  BY WorstNat DEF Init
<1>2. EmptyLedger \in States /\ Inert \in Events
  BY DEF EmptyLedger, States, Inert, Events
<1>3. claim \in [Attempts -> Nat] /\ \A a \in Attempts : claim[a] = Worst(a) /\ billed[a] = 0
  BY <1>1 DEF Init
<1>4. TypeOK
  BY <1>2, <1>3 DEF TypeOK, Init, PC
<1>5. Standing
  <2> SUFFICES ASSUME NEW a \in Attempts PROVE Lesser(billed[a], Worst(a)) <= Claim(a)
    BY <1>3 DEF Standing, Init
  <2> QED BY <1>1, <1>3 DEF Lesser, Claim
<1>6. Locked /\ Fresh /\ Covered(led) /\ Honest(tail)
  BY DEF Init, Locked, InLock, Fresh, Covered, Honest, Unheard, OfNobody, EmptyLedger, Inert
<1>7. \A S : SettledIn(led, S) = 0
  <2>1. led.settled \in [Attempts -> Nat] /\ \A a \in Attempts : led.settled[a] = 0
    BY DEF Init, EmptyLedger
  <2> QED BY <2>1, SumZero DEF SettledIn
<1>8. /\ led.open = {} /\ led.closed = {} /\ led.total = 0
      /\ \A r \in Runs : led.byRun[r] = 0
      /\ \A d \in Days : led.byDay[d] = 0
  BY DEF Init, EmptyLedger
<1>9. Books(led)
  <2>1. \A d \in Days : led.byDay[d] <= SettledIn(led, OfDay(d))
    <3> TAKE d \in Days
    <3>1. led.byDay[d] = 0 /\ SettledIn(led, OfDay(d)) = 0
      BY <1>7, <1>8
    <3> QED BY <3>1
  <2>2. \A r \in Runs : led.byRun[r] = SettledIn(led, OfRun(r))
    BY <1>7, <1>8
  <2>3. led.total = SettledIn(led, Attempts)
    BY <1>7, <1>8
  <2> QED BY <1>8, <2>1, <2>2, <2>3 DEF Books
<1>10. \A S : ClaimedIn(S) = 0
  <2>1. [a \in Attempts |-> Claim(a)] \in [Attempts -> Nat]
    BY <1>4, ClaimsNat
  <2> DEFINE f == [a \in Attempts |-> Claim(a)]
  <2>2. \A S : \A b \in Attempts : b \in granted \cap S => f[b] = 0
    BY DEF Init
  <2> HIDE DEF f
  <2>3. \A S : SumIn(f, granted \cap S) = 0
    BY <2>1, <2>2, SumZero DEF f
  <2> QED BY <2>3 DEF ClaimedIn, f
<1>11. \A d \in Days : Forgiven(led, d) = 0
  <2> TAKE d \in Days
  <2>1. led.byDay[d] = 0 /\ SettledIn(led, OfDay(d)) = 0
    BY <1>7, <1>8
  <2> QED BY <2>1 DEF Forgiven
<1>12. ClaimsWithinCaps
  BY <1>10, <1>11, CapsAssumption DEF ClaimsWithinCaps
<1> QED BY <1>4, <1>5, <1>6, <1>9, <1>12 DEF Inductive

LEMMA InductiveNext ==
  Inductive /\ [Next]_vars => Inductive'
<1> SUFFICES ASSUME Inductive, [Next]_vars PROVE Inductive'
  OBVIOUS
<1>1. ASSUME NEW a \in Attempts, Advance(a) PROVE Inductive'
  BY <1>1, StepAcquire, StepUnavailable, StepReserve, StepReserveFails, StepRefuse, StepSend,
     StepAnswer, StepSettleAttempt, StepSettleFails DEF Advance
<1>2. ASSUME NEW a \in Attempts, Crash(a) PROVE Inductive'
  BY <1>2, StepCrash
<1>3. ASSUME NEW a \in Attempts, NEW c \in Attempts, Expire(a, c) \/ ExpireFails(a, c) PROVE Inductive'
  BY <1>3, StepExpire, StepExpireFails
<1>4. ASSUME NEW d \in Days, ResetDay(d) PROVE Inductive'
  BY <1>4, StepResetDay
<1>5. CASE UNCHANGED vars
  <2>1. UNCHANGED <<call, pc, holder, led, tail, view, granted, billed, claim>>
    BY <1>5 DEF vars
  <2>2. FileKept(Inert)
    BY <2>1, Unwritten
  <2>3. view' \in [Attempts -> States] /\ \A b \in Attempts : pc[b] = "reserving" => view'[b] = led'
    BY <2>1 DEF Inductive, TypeOK, Locked
  <2>4. \A b \in Attempts : OfNobody(Inert, b)
    BY DEF OfNobody, Inert
  <2> QED BY <2>1, <2>2, <2>3, <2>4, Writes
<1> QED BY <1>1, <1>2, <1>3, <1>4, <1>5 DEF Next

\* The invariant the results below follow from.
THEOREM InductiveHolds == Spec => []Inductive
BY InductiveInit, InductiveNext, PTL DEF Spec

-----------------------------------------------------------------------------
(* results                                                                 *)

\* Every variable keeps its type: the sums of the ledger stay natural numbers.
THEOREM TypeCorrect == Spec => []TypeOK
<1>1. Inductive => TypeOK
  BY DEF Inductive
<1> QED BY <1>1, InductiveHolds, PTL

\* Late, repeated and torn settlements are counted once in every table.
THEOREM BooksBalanceHolds == Spec => []BooksBalance
<1>1. Inductive => BooksBalance
  BY DEF Inductive, BooksBalance
<1> QED BY <1>1, InductiveHolds, PTL

\* No request that was sent is ever missing from the ledger.
THEOREM SentIsBookedHolds == Spec => []SentIsBooked
<1>1. ASSUME Inductive PROVE SentIsBooked
  <2> SUFFICES ASSUME NEW a \in Attempts
               PROVE  /\ billed[a] > 0 => a \in led.open \cup led.closed
                      /\ Lesser(billed[a], Worst(a)) <= Booked(led, a)
                      /\ pc[a] = "done" => claim[a] <= led.settled[a]
    BY DEF SentIsBooked
  <2>1. /\ call \in [Attempts -> Calls] /\ claim \in [Attempts -> Nat] /\ led \in States
        /\ billed[a] \in Nat /\ led.settled[a] \in Nat
    BY <1>1 DEF Inductive, TypeOK, States
  <2>2. Worst(a) \in Nat /\ Claim(a) \in Nat
    BY <2>1, WorstNat, ClaimNat
  <2>3. /\ a \notin granted => billed[a] = 0
        /\ Lesser(billed[a], Worst(a)) <= Claim(a)
        /\ pc[a] = "done" => claim[a] <= led.settled[a]
    BY <1>1 DEF Inductive, Standing
  <2>4. a \in granted => ~ Unheard(led, a) /\ Claim(a) <= Booked(led, a)
    BY <1>1 DEF Inductive, Covered
  <2>5. Booked(led, a) \in Nat /\ Lesser(billed[a], Worst(a)) \in Nat
    BY <2>1, <2>2 DEF Booked, Lesser
  <2>6. a \notin granted => Lesser(billed[a], Worst(a)) = 0
    BY <2>2, <2>3 DEF Lesser
  <2>7. billed[a] > 0 => a \in led.open \cup led.closed
    BY <2>1, <2>3, <2>4 DEF Unheard
  <2>8. Lesser(billed[a], Worst(a)) <= Booked(led, a)
    BY <2>2, <2>3, <2>4, <2>5, <2>6
  <2> QED BY <2>3, <2>7, <2>8
<1> QED BY <1>1, InductiveHolds, PTL

LEMMA BilledIsClaimed ==
  ASSUME Inductive, NEW S \in SUBSET Attempts
  PROVE  BilledIn(S) \in Nat /\ ClaimedIn(S) \in Nat /\ BilledIn(S) <= ClaimedIn(S)
<1> DEFINE f == [a \in Attempts |-> Lesser(billed[a], Worst(a))]
           g == [a \in Attempts |-> Claim(a)]
<1>1. TypeOK /\ Standing
  BY DEF Inductive
<1>2. \A a \in Attempts : /\ billed[a] \in Nat /\ Worst(a) \in Nat /\ Claim(a) \in Nat
                          /\ Lesser(billed[a], Worst(a)) \in Nat
  BY <1>1, WorstNat, ClaimNat DEF TypeOK, Lesser
<1>3. f \in [Attempts -> Nat] /\ g \in [Attempts -> Nat]
  BY <1>2
<1>4. \A b \in Attempts : b \in S => f[b] <= IF b \in granted \cap S THEN g[b] ELSE 0
  <2> SUFFICES ASSUME NEW b \in S
               PROVE  f[b] <= IF b \in granted THEN g[b] ELSE 0
    OBVIOUS
  <2>1. f[b] <= g[b] /\ (b \notin granted => billed[b] = 0)
    BY <1>1 DEF Standing
  <2>2. b \notin granted => f[b] = 0
    BY <1>2, <2>1 DEF Lesser
  <2> QED BY <1>2, <2>1, <2>2
<1>5. BilledIn(S) = SumIn(f, S) /\ ClaimedIn(S) = SumIn(g, granted \cap S)
  BY DEF BilledIn, ClaimedIn
<1> HIDE DEF f, g
<1> QED BY <1>3, <1>4, <1>5, SumNat, SumMonotone

\* Whatever crashes, times out or is retried, the provider never bills more
\* than the total cap and the run caps, short of overruns of single requests.
THEOREM BilledWithinCapsHolds == Spec => []BilledWithinCaps
<1>1. ASSUME Inductive PROVE BilledWithinCaps
  <2>1. BilledIn(Attempts) <= TotalCap
    <3>1. BilledIn(Attempts) \in Nat /\ ClaimedIn(Attempts) \in Nat /\ BilledIn(Attempts) <= ClaimedIn(Attempts)
      BY <1>1, BilledIsClaimed
    <3>2. ClaimedIn(Attempts) <= TotalCap
      BY <1>1 DEF Inductive, ClaimsWithinCaps
    <3> QED BY <3>1, <3>2, CapsAssumption
  <2>2. ASSUME NEW r \in Runs PROVE BilledIn(OfRun(r)) <= RunCap
    <3>0. OfRun(r) \in SUBSET Attempts
      BY DEF OfRun
    <3>1. BilledIn(OfRun(r)) \in Nat /\ ClaimedIn(OfRun(r)) \in Nat /\ BilledIn(OfRun(r)) <= ClaimedIn(OfRun(r))
      BY <1>1, <3>0, BilledIsClaimed
    <3>2. ClaimedIn(OfRun(r)) <= RunCap
      BY <1>1 DEF Inductive, ClaimsWithinCaps
    <3> QED BY <3>1, <3>2, CapsAssumption
  <2> QED BY <2>1, <2>2 DEF BilledWithinCaps
<1> QED BY <1>1, InductiveHolds, PTL

\* On a day, only what reset_day forgave may be billed beyond the cap.
THEOREM BilledWithinDayHolds == Spec => []BilledWithinDay
<1>1. ASSUME Inductive PROVE BilledWithinDay
  <2> SUFFICES ASSUME NEW d \in Days PROVE BilledIn(OfDay(d)) <= DayCap + Forgiven(led, d)
    BY DEF BilledWithinDay
  <2>0. OfDay(d) \in SUBSET Attempts
    BY DEF OfDay
  <2>1. BilledIn(OfDay(d)) \in Nat /\ ClaimedIn(OfDay(d)) \in Nat /\ BilledIn(OfDay(d)) <= ClaimedIn(OfDay(d))
    BY <1>1, <2>0, BilledIsClaimed
  <2>2. ClaimedIn(OfDay(d)) <= DayCap + Forgiven(led, d)
    BY <1>1 DEF Inductive, ClaimsWithinCaps
  <2>3. Forgiven(led, d) \in Int
    BY <1>1, ForgivenInt DEF Inductive, TypeOK
  <2> QED BY <2>1, <2>2, <2>3, CapsAssumption
<1> QED BY <1>1, InductiveHolds, PTL

LEMMA StepsKeepFile ==
  ASSUME Inductive, [Next]_vars
  PROVE  \E e \in Events : FileKept(e)
<1>0. Inert \in Events
  BY DEF Inert, Events
<1>1. CASE UNCHANGED <<led, tail>>
  BY <1>0, <1>1, Unwritten
<1>2. ASSUME NEW e \in Events, Honest(e), CutWrite(e) \/ Write(e)
      PROVE  \E f \in Events : FileKept(f)
  BY <1>2, CutKeeps, AppendKeeps
<1>3. ASSUME NEW a \in Attempts, Advance(a) PROVE \E e \in Events : FileKept(e)
  <2>1. /\ Inert \in Events /\ Honest(Inert)
        /\ ReserveOf(a) \in Events /\ Honest(ReserveOf(a))
        /\ CommitOf(a, claim[a]) \in Events /\ Honest(CommitOf(a, claim[a]))
    BY WrittenLines
  <2>2. \/ UNCHANGED <<led, tail>>
        \/ CutWrite(Inert) \/ Write(Inert)
        \/ CutWrite(ReserveOf(a)) \/ Write(ReserveOf(a))
        \/ CutWrite(CommitOf(a, claim[a])) \/ Write(CommitOf(a, claim[a]))
    BY <1>3 DEF Advance, Acquire, Unavailable, Reserve, ReserveFails, Refuse, Send, Answer,
                SettleAttempt, SettleFails
  <2> QED BY <1>1, <1>2, <2>1, <2>2
<1>4. ASSUME NEW a \in Attempts, NEW c \in Attempts, Expire(a, c) \/ ExpireFails(a, c)
      PROVE  \E e \in Events : FileKept(e)
  BY <1>2, <1>4, WrittenLines DEF Expire, ExpireFails
<1>5. ASSUME NEW d \in Days, ResetDay(d) PROVE \E e \in Events : FileKept(e)
  <2>1. ResetOf(d) \in Events /\ Honest(ResetOf(d))
    BY DEF ResetOf, Events, Honest
  <2> QED BY <1>2, <1>5, <2>1 DEF ResetDay
<1>6. ASSUME NEW a \in Attempts, Crash(a) PROVE \E e \in Events : FileKept(e)
  BY <1>1, <1>6 DEF Crash
<1>7. CASE UNCHANGED vars
  BY <1>1, <1>7 DEF vars
<1> QED BY <1>3, <1>4, <1>5, <1>6, <1>7 DEF Next

\* No crash, torn line or late settlement takes a settled amount back.
THEOREM SettledNeverFallsHolds == Spec => SettledNeverFalls
<1>1. ASSUME Inductive, [Next]_vars
      PROVE  [/\ \A a \in Attempts : led.settled[a] <= led'.settled[a]
              /\ led.closed \subseteq led'.closed]_vars
  BY <1>1, StepsKeepFile DEF FileKept
<1> QED BY <1>1, InductiveHolds, PTL DEF Spec, SettledNeverFalls
-----------------------------------------------------------------------------
(* one line more in the file                                               *)

LEMMA FileNumbers ==
  Count \in Nat /\ WorstCost \in Nat /\ Cap \in Nat /\ MaxFiles \in Nat /\ MaxDamages \in Nat
BY FileAssumption

LEMMA LineFields ==
  ASSUME NEW e \in Line
  PROVE  /\ e.ev \in {"init", "refuse", "bad", "reserve", "commit", "expire", "adopt", "seen"}
         /\ e.ev = "reserve" => e.id \in Ids
         /\ e.ev \in {"commit", "expire"} => e.id \in Ids /\ e.nusd \in 0..WorstCost
         /\ e.ev = "adopt" => e.carried \in Nat
BY DEF Line

LEMMA LinesAreLines ==
  /\ InitLine \in Line /\ RefuseLine \in Line /\ BadLine \in Line
  /\ InitLine.ev = "init" /\ RefuseLine.ev = "refuse" /\ BadLine.ev = "bad"
  /\ \A a \in Ids : ReserveLine(a) \in Line /\ ReserveLine(a).ev = "reserve" /\ ReserveLine(a).id = a
  /\ \A a \in Ids, n \in 0..WorstCost :
       CommitLine(a, n) \in Line /\ CommitLine(a, n).ev = "commit" /\ CommitLine(a, n).id = a
       /\ CommitLine(a, n).nusd = n
  /\ \A a \in Ids :
       ExpireLine(a) \in Line /\ ExpireLine(a).ev = "expire" /\ ExpireLine(a).id = a
       /\ ExpireLine(a).nusd = WorstCost
  /\ \A n \in Nat : AdoptLine(n) \in Line /\ AdoptLine(n).ev = "adopt" /\ AdoptLine(n).carried = n
  /\ \A at \in SUBSET Nat :
       SeenLine(at) \in Line /\ SeenLine(at).ev = "seen" /\ SeenLine(at).offsets = at
<1>1. WorstCost \in 0..WorstCost
  BY FileNumbers
<1> QED
  BY <1>1 DEF Line, InitLine, RefuseLine, BadLine, ReserveLine, CommitLine, ExpireLine, AdoptLine,
              SeenLine

\* What a call has settled is the greatest amount a line gives it.
LEMMA SettledIs ==
  ASSUME NEW s \in Seq(Line), NEW a
  PROVE  /\ Settled(s, a) \in SettledAt(s, a)
         /\ \A m \in SettledAt(s, a) : m <= Settled(s, a)
         /\ SettledAt(s, a) \in SUBSET (0..WorstCost)
         /\ Settled(s, a) \in 0..WorstCost
<1>0. WorstCost \in Nat
  BY FileNumbers
<1>1. SettledAt(s, a) \in SUBSET (0..WorstCost)
  <2>1. \A i \in DOMAIN s : s[i] \in Line
    OBVIOUS
  <2> QED BY <1>0, <2>1, LineFields DEF SettledAt
<1>2. 0 \in SettledAt(s, a)
  BY DEF SettledAt
<1> DEFINE Left == {WorstCost - m : m \in SettledAt(s, a)}
<1>3. PICK l \in Left : \A k \in Left : l <= k
  <2>1. Left \in SUBSET Nat
    BY <1>0, <1>1
  <2>2. Left # {}
    BY <1>2
  <2> HIDE DEF Left
  <2> QED BY <2>1, <2>2, LeastElement
<1>4. PICK n \in SettledAt(s, a) : l = WorstCost - n
  BY <1>3
<1>5. \A m \in SettledAt(s, a) : m <= n
  <2> SUFFICES ASSUME NEW m \in SettledAt(s, a) PROVE m <= n
    OBVIOUS
  <2>1. WorstCost - n <= WorstCost - m
    BY <1>3, <1>4
  <2> QED BY <1>0, <1>1, <2>1
<1>6. Settled(s, a) \in SettledAt(s, a) /\ \A m \in SettledAt(s, a) : m <= Settled(s, a)
  <2> DEFINE Greatest(x) == \A m \in SettledAt(s, a) : m <= x
  <2>1. n \in SettledAt(s, a) /\ Greatest(n)
    BY <1>5
  <2>2. Settled(s, a) = CHOOSE x \in SettledAt(s, a) : Greatest(x)
    BY DEF Settled
  <2> HIDE DEF Greatest
  <2>3. Settled(s, a) \in SettledAt(s, a) /\ Greatest(Settled(s, a))
    BY <2>1, <2>2
  <2> QED BY <2>3 DEF Greatest
<1> QED BY <1>1, <1>6

\* Append and its elements.
LEMMA OneMore ==
  ASSUME NEW s \in Seq(Line), NEW e \in Line
  PROVE  /\ Append(s, e) \in Seq(Line) /\ Len(s) \in Nat /\ Len(Append(s, e)) = Len(s) + 1
         /\ DOMAIN s = 1..Len(s) /\ DOMAIN Append(s, e) = 1..(Len(s) + 1)
         /\ \A i \in 1..Len(s) : Append(s, e)[i] = s[i] /\ s[i] \in Line
         /\ Append(s, e)[Len(s) + 1] = e
BY AppendProperties

LEMMA ReservedMore ==
  ASSUME NEW s \in Seq(Line), NEW e \in Line, NEW a
  PROVE  Reserved(Append(s, e), a) <=> Reserved(s, a) \/ (e.ev = "reserve" /\ e.id = a)
<1> DEFINE t == Append(s, e)
<1>1. /\ Len(s) \in Nat /\ DOMAIN s = 1..Len(s) /\ DOMAIN t = 1..(Len(s) + 1)
      /\ \A i \in 1..Len(s) : t[i] = s[i]
      /\ t[Len(s) + 1] = e
  BY OneMore
<1> HIDE DEF t
<1>2. DOMAIN t = DOMAIN s \cup {Len(s) + 1}
  BY <1>1
<1>3. Reserved(t, a) <=> Reserved(s, a) \/ (e.ev = "reserve" /\ e.id = a)
  BY <1>1, <1>2 DEF Reserved
<1> QED BY <1>3 DEF t

LEMMA SettledMore ==
  ASSUME NEW s \in Seq(Line), NEW e \in Line, NEW a
  PROVE  Settled(Append(s, e), a) =
           IF e.ev \in {"commit", "expire"} /\ e.id = a /\ e.nusd > Settled(s, a) THEN e.nusd
           ELSE Settled(s, a)
<1> DEFINE t == Append(s, e)
           adds == e.ev \in {"commit", "expire"} /\ e.id = a
<1>1. /\ Len(s) \in Nat /\ DOMAIN s = 1..Len(s) /\ DOMAIN t = 1..(Len(s) + 1)
      /\ \A i \in 1..Len(s) : t[i] = s[i]
      /\ t[Len(s) + 1] = e /\ t \in Seq(Line)
  BY OneMore
<1> HIDE DEF t
<1>2. DOMAIN t = DOMAIN s \cup {Len(s) + 1}
  BY <1>1
<1>3. SettledAt(t, a) = IF adds THEN SettledAt(s, a) \cup {e.nusd} ELSE SettledAt(s, a)
  BY <1>1, <1>2 DEF SettledAt
<1>4. /\ Settled(s, a) \in SettledAt(s, a) /\ \A m \in SettledAt(s, a) : m <= Settled(s, a)
      /\ Settled(s, a) \in Int
  BY SettledIs, FileNumbers
<1>5. /\ Settled(t, a) \in SettledAt(t, a) /\ \A m \in SettledAt(t, a) : m <= Settled(t, a)
      /\ Settled(t, a) \in Int /\ \A m \in SettledAt(t, a) : m \in Int
  BY <1>1, SettledIs, FileNumbers
<1>6. CASE adds
  <2>1. e.nusd \in SettledAt(t, a) /\ Settled(s, a) \in SettledAt(t, a)
    BY <1>3, <1>4, <1>6
  <2>2. Settled(t, a) \in SettledAt(s, a) \/ Settled(t, a) = e.nusd
    BY <1>3, <1>5, <1>6
  <2> HIDE DEF adds
  <2>3. Settled(t, a) = IF e.nusd > Settled(s, a) THEN e.nusd ELSE Settled(s, a)
    BY <2>1, <2>2, <1>4, <1>5
  <2> QED BY <2>3, <1>6 DEF t, adds
<1>7. CASE ~ adds
  <2>1. Settled(t, a) = Settled(s, a)
    BY <1>3, <1>4, <1>5, <1>7
  <2> QED BY <2>1, <1>7 DEF t
<1> QED BY <1>6, <1>7

LEMMA CarriedMore ==
  ASSUME NEW s \in Seq(Line), NEW e \in Line
  PROVE  /\ Carried(s) \in Nat
         /\ Carried(Append(s, e)) = Carried(s) + IF e.ev = "adopt" THEN e.carried ELSE 0
<1> DEFINE t == Append(s, e)
           v == [i \in DOMAIN s |-> IF s[i].ev = "adopt" THEN s[i].carried ELSE 0]
           w == [i \in DOMAIN t |-> IF t[i].ev = "adopt" THEN t[i].carried ELSE 0]
           u == [i \in 1..(Len(s) + 1) |-> IF i = Len(s) + 1 THEN 0 ELSE v[i]]
           n == Len(s)
<1>1. /\ n \in Nat /\ DOMAIN s = 1..n /\ DOMAIN t = 1..(n + 1)
      /\ \A i \in 1..n : t[i] = s[i] /\ s[i] \in Line
      /\ t[n + 1] = e
  BY OneMore
<1>2. Carried(s) = Total(v, n)
  BY DEF Carried
<1>3. Carried(t) = Total(w, n + 1)
  <2>1. Len(t) = n + 1
    BY OneMore
  <2> QED BY <2>1 DEF Carried
<1>4. \A i \in 1..n : v[i] \in Nat
  <2>1. \A i \in 1..n : s[i].ev = "adopt" => s[i].carried \in Nat
    BY <1>1, LineFields
  <2> HIDE DEF n, t
  <2> QED BY <1>1, <2>1
<1>5. (IF e.ev = "adopt" THEN e.carried ELSE 0) \in Nat
  BY LineFields
<1>6. \A i \in 1..n : w[i] = v[i]
  <2> HIDE DEF n, t
  <2> QED BY <1>1
<1>7. w[n + 1] = IF e.ev = "adopt" THEN e.carried ELSE 0
  <2> HIDE DEF n, t
  <2> QED BY <1>1
<1> HIDE DEF v, w, t, n
<1>8. Total(w, n + 1) = Total(v, n) + w[n + 1]
  <2> DEFINE P == Partial(v, n)
             Q == Partial(w, n + 1)
             Apart == {k \in 0..n : P[k] # Q[k]}
  <2>1. /\ P[0] = 0 /\ \A i \in 1..n : P[i] = P[i - 1] + v[i]
        /\ Q[0] = 0 /\ \A i \in 1..(n + 1) : Q[i] = Q[i - 1] + w[i]
    BY <1>1, PartialSteps
  <2> HIDE DEF P, Q
  <2>2. Apart = {}
    <3> SUFFICES ASSUME Apart # {} PROVE FALSE
      OBVIOUS
    <3>1. PICK m \in Apart : \A k \in Apart : m <= k
      <4>1. Apart \in SUBSET Nat
        OBVIOUS
      <4> HIDE DEF Apart
      <4> QED BY <4>1, LeastElement
    <3>2. m # 0
      BY <3>1, <2>1
    <3>3. m \in 1..n /\ m - 1 \in 0..n /\ m \in 1..(n + 1)
      BY <3>1, <3>2, <1>1
    <3>4. P[m - 1] = Q[m - 1]
      BY <3>1, <3>3
    <3>5. P[m] = Q[m]
      BY <3>3, <3>4, <2>1, <1>6
    <3> QED BY <3>1, <3>5
  <2>3. P[n] = Q[n]
    BY <2>2, <1>1
  <2>4. Q[n + 1] = Q[n] + w[n + 1]
    BY <2>1, <1>1
  <2> QED BY <2>3, <2>4 DEF Total, P, Q
<1>9. Total(v, n) \in Nat
  BY <1>1, <1>4, TotalNat
<1> QED BY <1>2, <1>3, <1>8, <1>9, <1>7 DEF t
-----------------------------------------------------------------------------
(* what a file accounts for                                                *)

Claims(s) ==
  [a \in Ids |-> Settled(s, a) + IF Reserved(s, a) /\ Settled(s, a) = 0 THEN WorstCost ELSE 0]

LEMMA UsedIsClaims ==
  ASSUME NEW s \in Seq(Line)
  PROVE  /\ Used(s) = Carried(s) + Total(Claims(s), Count)
         /\ Carried(s) \in Nat /\ Total(Claims(s), Count) \in Nat
         /\ \A a \in 1..Count : Claims(s)[a] \in Nat
         /\ Committed(s) \in Nat /\ OpenSum(s) \in Nat /\ Used(s) \in Nat
<1> DEFINE v == [a \in Ids |-> Settled(s, a)]
           w == [a \in Ids |-> IF a \in Open(s) THEN WorstCost ELSE 0]
<1>0. Count \in Nat /\ WorstCost \in Nat /\ Ids = 1..Count
  BY FileNumbers DEF Ids
<1>1. \A a \in 1..Count : Settled(s, a) \in Nat
  BY <1>0, SettledIs
<1>2. \A a \in 1..Count : v[a] \in Nat /\ w[a] \in Nat /\ Claims(s)[a] = v[a] + w[a]
  BY <1>0, <1>1 DEF Claims, Open
<1>3. Committed(s) = Carried(s) + Total(v, Count) /\ OpenSum(s) = Total(w, Count)
  BY DEF Committed, OpenSum
<1> HIDE DEF v, w
<1>4. Total(Claims(s), Count) = Total(v, Count) + Total(w, Count)
  BY <1>0, <1>2, TotalPlus
<1>5. Total(v, Count) \in Nat /\ Total(w, Count) \in Nat
  BY <1>0, <1>2, TotalNat
<1>6. Carried(s) \in Nat
  BY LinesAreLines, CarriedMore
<1>7. \A a \in 1..Count : Claims(s)[a] \in Nat
  BY <1>2
<1> QED BY <1>3, <1>4, <1>5, <1>6, <1>7 DEF Used

\* A line that is about no call and carries nothing changes nothing.
LEMMA QuietLine ==
  ASSUME NEW s \in Seq(Line), NEW e \in Line, e.ev \in {"init", "refuse", "bad", "seen"}
  PROVE  /\ Used(Append(s, e)) = Used(s) /\ Committed(Append(s, e)) = Committed(s)
         /\ \A a : Reserved(Append(s, e), a) <=> Reserved(s, a)
         /\ \A a : Settled(Append(s, e), a) = Settled(s, a)
<1> DEFINE t == Append(s, e)
<1>1. \A a : Reserved(t, a) <=> Reserved(s, a)
  BY ReservedMore
<1>2. \A a : Settled(t, a) = Settled(s, a)
  BY SettledMore
<1>3. Carried(t) = Carried(s)
  BY CarriedMore
<1> HIDE DEF t
<1>4. Open(t) = Open(s)
  BY <1>1, <1>2 DEF Open
<1>5. [a \in Ids |-> Settled(t, a)] = [a \in Ids |-> Settled(s, a)]
  BY <1>2
<1>6. Committed(t) = Committed(s) /\ OpenSum(t) = OpenSum(s)
  BY <1>3, <1>4, <1>5 DEF Committed, OpenSum
<1> QED BY <1>1, <1>2, <1>6 DEF t, Used

LEMMA AdoptMore ==
  ASSUME NEW s \in Seq(Line), NEW n \in Nat
  PROVE  /\ Used(Append(s, AdoptLine(n))) = Used(s) + n
         /\ \A a : Reserved(Append(s, AdoptLine(n)), a) <=> Reserved(s, a)
         /\ \A a : Settled(Append(s, AdoptLine(n)), a) = Settled(s, a)
<1> DEFINE e == AdoptLine(n)
           t == Append(s, e)
<1>0. e \in Line /\ e.ev = "adopt" /\ e.carried = n
  BY LinesAreLines
<1> HIDE DEF e
<1>1. \A a : Reserved(t, a) <=> Reserved(s, a)
  BY <1>0, ReservedMore
<1>2. \A a : Settled(t, a) = Settled(s, a)
  BY <1>0, SettledMore
<1>3. Carried(t) = Carried(s) + n
  BY <1>0, CarriedMore
<1>4. t \in Seq(Line)
  BY <1>0, OneMore
<1> HIDE DEF t
<1>5. Claims(t) = Claims(s)
  BY <1>1, <1>2 DEF Claims
<1>6. Used(t) = Carried(t) + Total(Claims(t), Count) /\ Used(s) = Carried(s) + Total(Claims(s), Count)
      /\ Carried(s) \in Nat /\ Total(Claims(s), Count) \in Nat
  BY <1>4, UsedIsClaims
<1>7. Used(t) = Used(s) + n
  BY <1>3, <1>5, <1>6
<1> QED BY <1>1, <1>2, <1>7 DEF t, e

\* A line about the call a changes the claim of that call only.
LEMMA OneClaim ==
  ASSUME NEW s \in Seq(Line), NEW e \in Line, NEW a \in Ids,
         e.ev \in {"reserve", "commit", "expire"}, e.id = a
  PROVE  /\ Used(Append(s, e)) = Used(s) + Claims(Append(s, e))[a] - Claims(s)[a]
         /\ Claims(Append(s, e))[a] \in Nat /\ Claims(s)[a] \in Nat
<1> DEFINE t == Append(s, e)
<1>0. Count \in Nat /\ Ids = 1..Count
  BY FileNumbers DEF Ids
<1>1. t \in Seq(Line)
  BY OneMore
<1>2. Carried(t) = Carried(s)
  BY CarriedMore
<1>3. \A b \in 1..Count : b # a => Claims(t)[b] = Claims(s)[b]
  <2> SUFFICES ASSUME NEW b \in 1..Count, b # a PROVE Claims(t)[b] = Claims(s)[b]
    OBVIOUS
  <2>1. (Reserved(t, b) <=> Reserved(s, b)) /\ Settled(t, b) = Settled(s, b)
    BY ReservedMore, SettledMore
  <2> HIDE DEF t
  <2> QED BY <2>1, <1>0 DEF Claims
<1>4. /\ Used(s) = Carried(s) + Total(Claims(s), Count)
      /\ Carried(s) \in Nat /\ Total(Claims(s), Count) \in Nat
      /\ \A b \in 1..Count : Claims(s)[b] \in Nat
  BY UsedIsClaims
<1>5. /\ Used(t) = Carried(t) + Total(Claims(t), Count)
      /\ \A b \in 1..Count : Claims(t)[b] \in Nat
  BY <1>1, UsedIsClaims
<1> HIDE DEF t
<1>6. Total(Claims(t), Count) = Total(Claims(s), Count) + Claims(t)[a] - Claims(s)[a]
  <2> DEFINE v == Claims(t)
             w == Claims(s)
  <2>1. \A i \in 1..Count : v[i] \in Int /\ w[i] \in Int
    BY <1>4, <1>5
  <2>2. \A i \in 1..Count : i # a => v[i] = w[i]
    BY <1>3
  <2>3. a \in 1..Count
    BY <1>0
  <2> HIDE DEF v, w
  <2>4. Total(v, Count) = Total(w, Count) + v[a] - w[a]
    <3>1. Count \in Nat
      BY <1>0
    <3> QED BY <2>1, <2>2, <2>3, <3>1, TotalChange
  <2> QED BY <2>4 DEF v, w
<1>7. Claims(t)[a] \in Nat /\ Claims(s)[a] \in Nat
  BY <1>0, <1>4, <1>5
<1> QED BY <1>2, <1>4, <1>5, <1>6, <1>7 DEF t

LEMMA ReserveMore ==
  ASSUME NEW s \in Seq(Line), NEW a \in Ids, ~ Reserved(s, a), Settled(s, a) = 0
  PROVE  /\ Used(Append(s, ReserveLine(a))) = Used(s) + WorstCost
         /\ Committed(Append(s, ReserveLine(a))) = Committed(s)
<1> DEFINE e == ReserveLine(a)
           t == Append(s, e)
<1>0. e \in Line /\ e.ev = "reserve" /\ e.id = a
  BY LinesAreLines
<1> HIDE DEF e
<1>1. Used(t) = Used(s) + Claims(t)[a] - Claims(s)[a]
  BY <1>0, OneClaim
<1>2. Reserved(t, a) /\ \A b : Settled(t, b) = Settled(s, b)
  BY <1>0, ReservedMore, SettledMore
<1>3. Carried(t) = Carried(s)
  BY <1>0, CarriedMore
<1>4. Used(s) \in Nat /\ WorstCost \in Nat
  BY UsedIsClaims, FileNumbers
<1> HIDE DEF t
<1>5. Claims(t)[a] = WorstCost /\ Claims(s)[a] = 0
  BY <1>2, <1>4 DEF Claims
<1>6. [b \in Ids |-> Settled(t, b)] = [b \in Ids |-> Settled(s, b)]
  BY <1>2
<1>7. Committed(t) = Committed(s)
  BY <1>3, <1>6 DEF Committed
<1>8. Used(t) = Used(s) + WorstCost
  BY <1>1, <1>4, <1>5
<1> QED BY <1>7, <1>8 DEF t, e

\* An expired reservation keeps its claim.
LEMMA ExpireMore ==
  ASSUME NEW s \in Seq(Line), NEW b \in Open(s)
  PROVE  Used(Append(s, ExpireLine(b))) = Used(s)
<1> DEFINE e == ExpireLine(b)
           t == Append(s, e)
<1>0. b \in Ids /\ Reserved(s, b) /\ Settled(s, b) = 0 /\ WorstCost \in Nat
  BY FileNumbers DEF Open
<1>1. e \in Line /\ e.ev = "expire" /\ e.id = b /\ e.nusd = WorstCost
  BY <1>0, LinesAreLines
<1> HIDE DEF e
<1>2. Used(t) = Used(s) + Claims(t)[b] - Claims(s)[b]
  BY <1>0, <1>1, OneClaim
<1>3. Reserved(t, b) /\ Settled(t, b) = WorstCost
  BY <1>0, <1>1, ReservedMore, SettledMore
<1> HIDE DEF t
<1>4. Claims(t)[b] = WorstCost /\ Claims(s)[b] = WorstCost
  BY <1>0, <1>3 DEF Claims
<1>5. Used(s) \in Nat
  BY UsedIsClaims
<1> QED BY <1>0, <1>2, <1>4, <1>5 DEF t, e

\* A settlement takes at most what the worst case had more.
LEMMA CommitMore ==
  ASSUME NEW s \in Seq(Line), NEW a \in Ids, NEW n \in 0..WorstCost
  PROVE  Used(Append(s, CommitLine(a, n))) >= Used(s) - (WorstCost - n)
<1> DEFINE e == CommitLine(a, n)
           t == Append(s, e)
<1>0. Settled(s, a) \in 0..WorstCost /\ WorstCost \in Nat
  BY FileNumbers, SettledIs
<1>1. e \in Line /\ e.ev = "commit" /\ e.id = a /\ e.nusd = n
  BY LinesAreLines
<1> HIDE DEF e
<1>2. Used(t) = Used(s) + Claims(t)[a] - Claims(s)[a]
  BY <1>1, OneClaim
<1>3. /\ Reserved(t, a) <=> Reserved(s, a)
      /\ Settled(t, a) = IF n > Settled(s, a) THEN n ELSE Settled(s, a)
  BY <1>1, ReservedMore, SettledMore
<1> HIDE DEF t
<1>4. Claims(t)[a] = Settled(t, a) + (IF Reserved(t, a) /\ Settled(t, a) = 0 THEN WorstCost ELSE 0)
      /\ Claims(s)[a] = Settled(s, a) + (IF Reserved(s, a) /\ Settled(s, a) = 0 THEN WorstCost ELSE 0)
  BY DEF Claims
<1>5. Claims(t)[a] >= Claims(s)[a] - (WorstCost - n)
  <2>1. CASE Settled(s, a) = 0 /\ Reserved(s, a)
    BY <1>0, <1>3, <1>4, <2>1
  <2>2. CASE ~ (Settled(s, a) = 0 /\ Reserved(s, a))
    BY <1>0, <1>3, <1>4, <2>2
  <2> QED BY <2>1, <2>2
<1>6. Used(s) \in Nat /\ Claims(t)[a] \in Nat /\ Claims(s)[a] \in Nat
  <2>1. Claims(t)[a] \in Nat /\ Claims(s)[a] \in Nat
    BY <1>0, <1>3, <1>4
  <2> QED BY <2>1, UsedIsClaims
<1>7. Used(t) >= Used(s) - (WorstCost - n)
  BY <1>0, <1>2, <1>5, <1>6
<1> QED BY <1>7 DEF t, e

-----------------------------------------------------------------------------
(* the size of a file                                                      *)

\* The lines that are longer than the others.
LongLines(s) == {i \in DOMAIN s : s[i].ev = "commit"}

LEMMA SizeNat ==
  ASSUME NEW s \in Seq(Line)
  PROVE  /\ Size(s, FALSE) \in Nat /\ Size(s, TRUE) \in Nat /\ Size(s, TRUE) = Size(s, FALSE) + 1
         /\ Size(s, FALSE) = 2 * Len(s) + Cardinality(LongLines(s)) /\ IsFiniteSet(LongLines(s))
         /\ Cardinality(LongLines(s)) \in Nat /\ Len(s) \in Nat
<1>1. Len(s) \in Nat /\ DOMAIN s = 1..Len(s)
  OBVIOUS
<1>2. IsFiniteSet(1..Len(s)) /\ LongLines(s) \subseteq 1..Len(s)
  BY <1>1, FS_Interval DEF LongLines
<1>3. IsFiniteSet(LongLines(s)) /\ Cardinality(LongLines(s)) \in Nat
  BY <1>2, FS_Subset, FS_CardinalityType
<1> QED BY <1>1, <1>3 DEF Size, LongLines

\* Every line less makes the file shorter by two at least.
LEMMA ShorterPrefix ==
  ASSUME NEW s \in Seq(Line), NEW n \in 0..Len(s)
  PROVE  /\ SubSeq(s, 1, n) \in Seq(Line) /\ Len(SubSeq(s, 1, n)) = n
         /\ Size(SubSeq(s, 1, n), FALSE) <= Size(s, FALSE) - 2 * (Len(s) - n)
<1> DEFINE p == SubSeq(s, 1, n)
<1>1. Len(s) \in Nat /\ DOMAIN s = 1..Len(s)
  OBVIOUS
<1>2. \A i \in 1..n : s[i] \in Line
  BY <1>1
<1>3. p \in Seq(Line) /\ Len(p) = n /\ \A i \in 1..n : p[i] = s[i]
  BY <1>1, <1>2, SubSeqProperties
<1>4. DOMAIN p = 1..n
  BY <1>3
<1> HIDE DEF p
<1>5. LongLines(p) \subseteq LongLines(s)
  BY <1>1, <1>3, <1>4 DEF LongLines
<1>6. Cardinality(LongLines(p)) <= Cardinality(LongLines(s))
  BY <1>5, SizeNat, FS_Subset
<1>7. /\ Size(p, FALSE) = 2 * n + Cardinality(LongLines(p)) /\ Cardinality(LongLines(p)) \in Nat
      /\ Size(s, FALSE) = 2 * Len(s) + Cardinality(LongLines(s)) /\ Cardinality(LongLines(s)) \in Nat
  BY <1>3, SizeNat
<1>8. Size(p, FALSE) <= Size(s, FALSE) - 2 * (Len(s) - n)
  <2>1. PICK x \in Nat, y \in Nat : x = Cardinality(LongLines(p)) /\ y = Cardinality(LongLines(s))
    BY <1>7
  <2>2. PICK l \in Nat, m \in Nat : l = Len(s) /\ m = n
    <3>1. Len(s) \in Nat /\ n \in Nat
      BY <1>1
    <3> QED BY <3>1
  <2>3. x <= y
    BY <1>6, <2>1
  <2>4. 2 * m + x <= (2 * l + y) - 2 * (l - m)
    BY <2>3
  <2> QED BY <1>7, <2>1, <2>2, <2>4
<1> QED BY <1>3, <1>8 DEF p

LEMMA PrefixOfMore ==
  ASSUME NEW s \in Seq(Line), NEW e \in Line
  PROVE  /\ \A n \in 0..Len(s) : SubSeq(Append(s, e), 1, n) = SubSeq(s, 1, n)
         /\ SubSeq(Append(s, e), 1, Len(s) + 1) = Append(s, e)
         /\ SubSeq(s, 1, Len(s)) = s
         /\ Size(Append(s, e), FALSE) >= Size(s, FALSE) + 2
<1> DEFINE t == Append(s, e)
<1>1. /\ t \in Seq(Line) /\ Len(s) \in Nat /\ Len(t) = Len(s) + 1
      /\ \A i \in 1..Len(s) : t[i] = s[i] /\ s[i] \in Line
  BY OneMore
<1> HIDE DEF t
<1>2. ASSUME NEW n \in 0..Len(s) PROVE SubSeq(t, 1, n) = SubSeq(s, 1, n)
  <2> DEFINE p == SubSeq(t, 1, n)
             q == SubSeq(s, 1, n)
  <2>1. \A i \in 1..n : s[i] \in Line /\ t[i] \in Line /\ t[i] = s[i]
    BY <1>1
  <2>2. /\ p \in Seq(Line) /\ Len(p) = n /\ \A i \in 1..n : p[i] = t[i]
        /\ q \in Seq(Line) /\ Len(q) = n /\ \A i \in 1..n : q[i] = s[i]
    BY <2>1, <1>1, SubSeqProperties
  <2> HIDE DEF p, q
  <2>3. p = q
    BY <2>1, <2>2, SeqEqual
  <2> QED BY <2>3 DEF p, q
<1>3. SubSeq(t, 1, Len(t)) = t /\ SubSeq(s, 1, Len(s)) = s
  BY <1>1, SubSeqFull
<1>4. Size(s, FALSE) <= Size(t, FALSE) - 2
  <2>1. Len(s) \in 0..Len(t)
    BY <1>1
  <2>2. Size(SubSeq(t, 1, Len(s)), FALSE) <= Size(t, FALSE) - 2 * (Len(t) - Len(s))
    BY <1>1, <2>1, ShorterPrefix
  <2>3. SubSeq(t, 1, Len(s)) = s
    <3>1. Len(s) \in 0..Len(s)
      BY <1>1
    <3> QED BY <1>2, <1>3, <3>1
  <2>4. 2 * (Len(t) - Len(s)) = 2
    BY <1>1
  <2> QED BY <2>2, <2>3, <2>4
<1>5. Size(s, FALSE) \in Nat /\ Size(t, FALSE) \in Nat
  BY <1>1, SizeNat
<1>6. Size(t, FALSE) >= Size(s, FALSE) + 2
  <2>1. PICK x \in Nat, y \in Nat : x = Size(s, FALSE) /\ y = Size(t, FALSE)
    BY <1>5
  <2>2. x <= y - 2
    BY <1>4, <2>1
  <2>3. y >= x + 2
    BY <2>2
  <2> QED BY <2>1, <2>3
<1>7. SubSeq(t, 1, Len(s) + 1) = t
  BY <1>1, <1>3
<1> QED BY <1>2, <1>3, <1>6, <1>7 DEF t
-----------------------------------------------------------------------------
(* the end of a cut line, and the prefixes of a file                       *)

\* A line that is not scrambled leaves no line unacknowledged that was not.
LEMMA UnackedMore ==
  ASSUME NEW s \in Seq(Line), NEW e \in Line
  PROVE  /\ e.ev # "bad" => Unacked(Append(s, e)) \subseteq Unacked(s)
         /\ Unacked(Append(s, e)) \subseteq Unacked(s) \cup {Len(s) + 1}
         /\ e.ev = "seen" /\ Len(s) \in e.offsets => Len(s) \notin Unacked(Append(s, e))
         /\ HasHeader(s) => HasHeader(Append(s, e))
<1> DEFINE t == Append(s, e)
<1>1. /\ t \in Seq(Line) /\ Len(s) \in Nat /\ Len(t) = Len(s) + 1
      /\ DOMAIN s = 1..Len(s) /\ DOMAIN t = 1..(Len(s) + 1)
      /\ \A i \in 1..Len(s) : t[i] = s[i]
      /\ t[Len(s) + 1] = e
  BY OneMore
<1> HIDE DEF t
<1>2. DOMAIN t = DOMAIN s \cup {Len(s) + 1} /\ Len(s) + 1 \notin DOMAIN s
  BY <1>1
<1>3. Unacked(t) \subseteq Unacked(s) \cup {Len(s) + 1}
  BY <1>1, <1>2 DEF Unacked
<1>4. e.ev # "bad" => Len(s) + 1 \notin Unacked(t)
  BY <1>1, <1>2 DEF Unacked
<1>5. e.ev = "seen" /\ Len(s) \in e.offsets => Len(s) \notin Unacked(t)
  BY <1>1, <1>2 DEF Unacked
<1>6. HasHeader(s) => HasHeader(t)
  <2> HAVE HasHeader(s)
  <2>1. Len(s) > 0
    BY <1>1 DEF HasHeader
  <2>2. 1 \in 1..Len(s) /\ t # <<>>
    BY <2>1, <1>1
  <2>3. t[1] = s[1]
    BY <2>2, <1>1
  <2> QED BY <2>2, <2>3 DEF HasHeader
<1> QED BY <1>3, <1>4, <1>5, <1>6 DEF t

\* Ending and acknowledging the cut line changes nothing but the size.
LEMMA EndedFacts ==
  ASSUME lines \in Seq(Line), dangling \in BOOLEAN
  PROVE  /\ Ended \in Seq(Line)
         /\ Used(Ended) = Used(lines) /\ Committed(Ended) = Committed(lines)
         /\ \A a : Reserved(Ended, a) <=> Reserved(lines, a)
         /\ \A a : Settled(Ended, a) = Settled(lines, a)
         /\ Size(Ended, FALSE) >= Size(lines, dangling)
         /\ HasHeader(lines) => HasHeader(Ended)
         /\ Unacked(Ended) \subseteq Unacked(lines)
<1>0. Size(lines, FALSE) \in Nat /\ Len(lines) \in Nat
  BY SizeNat
<1>1. CASE ~ dangling
  BY <1>0, <1>1 DEF Ended, Size
<1>2. CASE dangling
  <2> DEFINE at == {Len(lines) + 1}
             s == Append(lines, BadLine)
             t == Append(s, SeenLine(at))
  <2>1. /\ BadLine \in Line /\ BadLine.ev = "bad" /\ at \in SUBSET Nat
        /\ SeenLine(at) \in Line /\ SeenLine(at).ev = "seen" /\ SeenLine(at).offsets = at
    BY <1>0, LinesAreLines
  <2> HIDE DEF at
  <2>2. s \in Seq(Line) /\ t \in Seq(Line) /\ Len(s) = Len(lines) + 1
    BY <2>1, OneMore
  <2>3. /\ Used(s) = Used(lines) /\ Committed(s) = Committed(lines)
        /\ \A a : Reserved(s, a) <=> Reserved(lines, a)
        /\ \A a : Settled(s, a) = Settled(lines, a)
    BY <2>1, QuietLine
  <2>4. /\ Size(s, FALSE) >= Size(lines, FALSE) + 2
        /\ Unacked(s) \subseteq Unacked(lines) \cup {Len(s)}
        /\ HasHeader(lines) => HasHeader(s)
    BY <2>1, <2>2, PrefixOfMore, UnackedMore
  <2> HIDE DEF s
  <2>5. /\ Used(t) = Used(s) /\ Committed(t) = Committed(s)
        /\ \A a : Reserved(t, a) <=> Reserved(s, a)
        /\ \A a : Settled(t, a) = Settled(s, a)
    BY <2>1, <2>2, QuietLine
  <2>6. Size(t, FALSE) >= Size(s, FALSE) + 2
    BY <2>1, <2>2, PrefixOfMore
  <2>7. /\ Unacked(t) \subseteq Unacked(s)
        /\ HasHeader(s) => HasHeader(t)
        /\ Len(s) \notin Unacked(t)
    <3>1. Len(s) \in SeenLine(at).offsets
      BY <2>1, <2>2 DEF at
    <3> QED BY <2>1, <2>2, <3>1, UnackedMore
  <2> HIDE DEF t
  <2>8. Size(t, FALSE) >= Size(lines, dangling)
    <3>1. Size(s, FALSE) \in Nat /\ Size(t, FALSE) \in Nat /\ Size(lines, TRUE) = Size(lines, FALSE) + 1
      BY <2>2, SizeNat
    <3>2. PICK x \in Nat, y \in Nat, z \in Nat :
            x = Size(lines, FALSE) /\ y = Size(s, FALSE) /\ z = Size(t, FALSE)
      BY <1>0, <3>1
    <3>3. y >= x + 2 /\ z >= y + 2
      BY <2>4, <2>6, <3>2
    <3>4. z >= x + 1
      BY <3>3
    <3>5. dangling = TRUE
      BY <1>2
    <3> QED BY <3>1, <3>2, <3>4, <3>5
  <2>9. Unacked(t) \subseteq Unacked(lines)
    BY <2>4, <2>7
  <2>10. Ended = t
    BY <1>2 DEF Ended, t, s, at
  <2> QED BY <2>2, <2>3, <2>4, <2>5, <2>7, <2>8, <2>9, <2>10
<1> QED BY <1>1, <1>2

\* A prefix that the watermark does not find too short accounts for need; of
\* a ledger with an adopt that the watermark does not know, only the whole.
GoodPrefixes(s, size, need, whole) ==
  \A n \in 0..Len(s) :
    (whole => n = Len(s)) /\ Size(SubSeq(s, 1, n), TRUE) >= size => Used(SubSeq(s, 1, n)) >= need

LEMMA WholeIsGood ==
  ASSUME NEW s \in Seq(Line), NEW size, NEW need, NEW whole,
         GoodPrefixes(s, size, need, whole), Size(s, TRUE) >= size
  PROVE  Used(s) >= need
<1>1. Len(s) \in 0..Len(s) /\ SubSeq(s, 1, Len(s)) = s
  <2>1. Len(s) \in Nat
    OBVIOUS
  <2> QED BY <2>1, SubSeqFull
<1> QED BY <1>1 DEF GoodPrefixes

LEMMA PrefixesMore ==
  ASSUME NEW s \in Seq(Line), NEW e \in Line, NEW size, NEW whole,
         NEW need \in Nat, NEW less \in Nat, less <= need,
         GoodPrefixes(s, size, need, whole), Used(Append(s, e)) >= less
  PROVE  GoodPrefixes(Append(s, e), size, less, whole)
<1> DEFINE t == Append(s, e)
<1>1. /\ t \in Seq(Line) /\ Len(s) \in Nat /\ Len(t) = Len(s) + 1
      /\ \A n \in 0..Len(s) : SubSeq(t, 1, n) = SubSeq(s, 1, n)
      /\ SubSeq(t, 1, Len(s) + 1) = t
  BY OneMore, PrefixOfMore
<1> HIDE DEF t
<1> SUFFICES ASSUME NEW n \in 0..Len(t), whole => n = Len(t), Size(SubSeq(t, 1, n), TRUE) >= size
             PROVE  Used(SubSeq(t, 1, n)) >= less
  BY DEF GoodPrefixes, t
<1>2. CASE n = Len(s) + 1
  BY <1>1, <1>2 DEF t
<1>3. CASE n # Len(s) + 1
  <2>1. n \in 0..Len(s) /\ ~ whole
    BY <1>1, <1>3
  <2>2. SubSeq(t, 1, n) = SubSeq(s, 1, n)
    BY <1>1, <2>1
  <2>3. Used(SubSeq(s, 1, n)) >= need
    BY <2>1, <2>2 DEF GoodPrefixes
  <2>4. Used(SubSeq(s, 1, n)) \in Nat
    BY <2>1, ShorterPrefix, UsedIsClaims
  <2>5. Used(SubSeq(s, 1, n)) >= less
    BY <2>3, <2>4
  <2> QED BY <2>2, <2>5
<1> QED BY <1>2, <1>3

LEMMA EndedIsGood ==
  ASSUME lines \in Seq(Line), dangling \in BOOLEAN, NEW size, NEW whole, NEW need \in Nat,
         GoodPrefixes(lines, size, need, whole), Used(lines) >= need
  PROVE  GoodPrefixes(Append(lines, BadLine), size, need, whole) /\ GoodPrefixes(Ended, size, need, whole)
<1> DEFINE at == {Len(lines) + 1}
           s == Append(lines, BadLine)
           t == Append(s, SeenLine(at))
<1>1. /\ BadLine \in Line /\ BadLine.ev = "bad" /\ at \in SUBSET Nat
      /\ SeenLine(at) \in Line /\ SeenLine(at).ev = "seen"
  <2>1. at \in SUBSET Nat
    OBVIOUS
  <2> QED BY <2>1, LinesAreLines
<1> HIDE DEF at
<1>2. s \in Seq(Line) /\ Used(s) >= need
  BY <1>1, OneMore, QuietLine
<1>3. need <= need
  OBVIOUS
<1>4. GoodPrefixes(s, size, need, whole)
  BY <1>1, <1>2, <1>3, PrefixesMore
<1> HIDE DEF s
<1>5. Used(t) >= need
  BY <1>1, <1>2, QuietLine
<1>6. GoodPrefixes(t, size, need, whole)
  BY <1>1, <1>2, <1>3, <1>4, <1>5, PrefixesMore
<1> HIDE DEF t
<1>7. Ended = IF dangling THEN t ELSE lines
  BY DEF Ended, t, s, at
<1> QED BY <1>4, <1>6, <1>7 DEF s
-----------------------------------------------------------------------------
(* the inductive invariant of the file                                     *)

\* A request that may still be settled by its call.
InFlight(a) == stage[a] \in {"granted", "sent"} /\ writer.who # a
\* What a ledger in use must account for: the worst case as long as a
\* settlement may still come, the bill afterwards.
Need == [a \in Ids |-> IF InFlight(a) THEN WorstCost ELSE bill[a]]
Needed == Total(Need, Count)

UnsentInv == \A a \in Ids : stage[a] \in {"new", "refused", "granted"} => bill[a] = 0

\* The ledger has nothing of a call that did not reserve.
NewInv ==
  \A a \in Ids : stage[a] = "new" /\ ~ (writer.who = a /\ writer.then = "granted") =>
                   ~ Reserved(lines, a) /\ Settled(lines, a) = 0

\* The writer remembers what it wrote.
WriterInv ==
  ~ Idle =>
    /\ \/ writer.who = Operator /\ writer.then = "done"
       \/ writer.who \in Ids /\ writer.then \in {"granted", "refused", "new"} /\ stage[writer.who] = "new"
       \/ writer.who \in Ids /\ writer.then = "settled" /\ stage[writer.who] = "sent"
    /\ writer.mark \in [id : 1..made, size : Nat, committed : Nat, open : Nat]
    /\ path # NoFile => writer.mark = Snapshot(path, lines)

FileShape == FileTypeOK /\ UnsentInv /\ NewInv /\ WriterInv

\* The watermark, the one to come, and the ledger account for what is needed.
MarkInv ==
  /\ mark # BadMark
  /\ Known(mark) => mark.committed + mark.open >= Needed
  /\ ~ Known(mark) => Needed = 0
PendingInv ==
  ~ Idle => writer.mark.committed + writer.mark.open >=
              Needed + IF writer.then = "granted" THEN WorstCost ELSE 0
LedgerInv ==
  path # NoFile /\ Known(mark) /\ mark.id = path => GoodPrefixes(lines, mark.size, Needed, adopting)
Backed == MarkInv /\ PendingInv /\ LedgerInv

FileInv == FileShape /\ (~ regrown /\ ~ forgotten => Backed)

-----------------------------------------------------------------------------
(* shape                                                                   *)

LEMMA NobodyWrites ==
  ASSUME FileTypeOK
  PROVE  /\ Idle <=> writer.who = -1
         /\ Idle => \A a : a \in Ids => writer.who # a
         /\ ~ Idle => /\ writer.who \in {Operator} \cup Ids
                      /\ writer.then \in {"done"} \cup Stages
                      /\ writer.mark \in Mark(made)
         /\ \A a \in Ids : a # Operator /\ a # -1
         /\ Count \in Nat /\ Ids = 1..Count /\ Operator = 0
<1>1. Count \in Nat /\ Ids = 1..Count
  BY FileNumbers DEF Ids
<1>2. NoWriter.who = -1
  BY DEF NoWriter
<1>3. ASSUME NEW w \in [who : {Operator} \cup Ids, then : {"done"} \cup Stages, mark : Mark(made)]
      PROVE  w.who \in {Operator} \cup Ids /\ w.who # -1 /\ w # NoWriter
             /\ w.then \in {"done"} \cup Stages /\ w.mark \in Mark(made)
  BY <1>1, <1>2 DEF Operator
<1>4. writer \in {NoWriter} \cup [who : {Operator} \cup Ids, then : {"done"} \cup Stages, mark : Mark(made)]
  BY DEF FileTypeOK
<1>5. Idle <=> writer.who = -1
  BY <1>2, <1>3, <1>4 DEF Idle
<1>6. ~ Idle => /\ writer.who \in {Operator} \cup Ids
                /\ writer.then \in {"done"} \cup Stages
                /\ writer.mark \in Mark(made)
  BY <1>3, <1>4 DEF Idle
<1>7. \A a \in Ids : a # Operator /\ a # -1
  BY <1>1 DEF Operator
<1> QED BY <1>1, <1>5, <1>6, <1>7 DEF Operator

LEMMA KnownMark ==
  ASSUME NEW n \in Nat, NEW m \in Mark(n)
  PROVE  /\ Known(m) <=> m \in [id : 1..n, size : Nat, committed : Nat, open : Nat]
         /\ Known(m) => m.id \in 1..n /\ m.size \in Nat /\ m.committed \in Nat /\ m.open \in Nat
         /\ \A k \in Nat : k >= n => m \in Mark(k)
<1>1. NoMark.id = 0 /\ BadMark.id = -1
  BY DEF NoMark, BadMark, NoFile
<1>2. ASSUME NEW r \in [id : 1..n, size : Nat, committed : Nat, open : Nat]
      PROVE  r # NoMark /\ r # BadMark
  BY <1>1
<1>3. ASSUME NEW k \in Nat, k >= n PROVE m \in Mark(k)
  <2>1. 1..n \subseteq 1..k
    BY <1>3
  <2> QED BY <2>1 DEF Mark
<1> QED BY <1>2, <1>3 DEF Known, Mark

LEMMA SnapshotIsMark ==
  ASSUME NEW s \in Seq(Line), NEW n \in Nat, NEW k \in 1..n
  PROVE  /\ Snapshot(k, s) \in [id : 1..n, size : Nat, committed : Nat, open : Nat]
         /\ Snapshot(k, s).id = k /\ Snapshot(k, s).size = Size(s, FALSE)
         /\ Snapshot(k, s).committed + Snapshot(k, s).open = Used(s)
<1>1. Size(s, FALSE) \in Nat /\ Committed(s) \in Nat /\ OpenSum(s) \in Nat
  BY SizeNat, UsedIsClaims
<1> QED BY <1>1 DEF Snapshot, Used

\* Fewer or scrambled lines have nothing of a call that the lines did not have.
LEMMA FewerLines ==
  ASSUME NEW s \in Seq(Line), NEW p \in Seq(Line), NEW a \in Ids,
         \A i \in DOMAIN p : p[i].ev = "bad" \/ \E j \in DOMAIN s : p[i] = s[j],
         ~ Reserved(s, a), Settled(s, a) = 0
  PROVE  ~ Reserved(p, a) /\ Settled(p, a) = 0
<1>1. ~ Reserved(p, a)
  BY DEF Reserved
<1>2. SettledAt(p, a) \subseteq SettledAt(s, a)
  <2> SUFFICES ASSUME NEW i \in DOMAIN p, p[i].ev \in {"commit", "expire"}, p[i].id = a
               PROVE  p[i].nusd \in SettledAt(s, a)
    BY DEF SettledAt
  <2>1. PICK j \in DOMAIN s : p[i] = s[j]
    OBVIOUS
  <2> QED BY <2>1 DEF SettledAt
<1>3. Settled(p, a) \in SettledAt(s, a) /\ Settled(p, a) \in 0..WorstCost
  BY <1>2, SettledIs
<1>4. Settled(p, a) <= 0
  BY <1>3, SettledIs
<1> QED BY <1>1, <1>3, <1>4, FileNumbers

LEMMA WriteTypes ==
  ASSUME FileShape, NEW e \in Line, NEW who \in {Operator} \cup Ids, NEW then, NEW always,
         WriteLine(who, e, then, always)
  PROVE  /\ Ended \in Seq(Line) /\ lines' = Append(Ended, e) /\ lines' \in Seq(Line)
         /\ path' = path /\ path \in 1..made /\ made \in Nat /\ made' = made /\ mark' = mark
         /\ bill' = bill /\ forgotten' = forgotten /\ dangling' = FALSE /\ damages' = damages
         /\ Used(Ended) = Used(lines)
<1>1. path \in 0..made /\ made \in 0..MaxFiles /\ path # 0 /\ MaxFiles \in Nat
  BY FileNumbers DEF FileShape, FileTypeOK, WriteLine, NoFile
<1>2. path \in 1..made /\ made \in Nat
  BY <1>1
<1>3. Ended \in Seq(Line) /\ Used(Ended) = Used(lines)
  BY EndedFacts DEF FileShape, FileTypeOK
<1>4. lines' = Append(Ended, e)
  BY DEF WriteLine, Extended
<1>5. lines' \in Seq(Line)
  BY <1>3, <1>4, OneMore
<1> QED BY <1>2, <1>3, <1>4, <1>5 DEF WriteLine

\* Who writes what keeps the shape.
Proper(who, then) ==
  \/ who = Operator /\ then = "done"
  \/ who \in Ids /\ then \in {"granted", "refused", "new"} /\ stage[who] = "new"
  \/ who \in Ids /\ then = "settled" /\ stage[who] = "sent"
AboutKnown(who, e, then) ==
  \A a \in Ids : e.ev \in {"reserve", "commit", "expire"} /\ e.id = a /\ stage[a] = "new" =>
                   who = a /\ then = "granted"

LEMMA WriteShape ==
  ASSUME FileShape, NEW e \in Line, NEW who \in {Operator} \cup Ids, NEW then, NEW always,
         WriteLine(who, e, then, always), Proper(who, then), AboutKnown(who, e, then),
         adopting' \in BOOLEAN, regrown' \in BOOLEAN
  PROVE  FileShape'
<1>1. /\ Ended \in Seq(Line) /\ lines' = Append(Ended, e) /\ lines' \in Seq(Line)
      /\ path' = path /\ path \in 1..made /\ made \in Nat /\ made' = made /\ mark' = mark
      /\ bill' = bill /\ forgotten' = forgotten /\ dangling' = FALSE /\ damages' = damages
  BY WriteTypes
<1>2. /\ \A a : Reserved(Ended, a) <=> Reserved(lines, a)
      /\ \A a : Settled(Ended, a) = Settled(lines, a)
  BY EndedFacts DEF FileShape, FileTypeOK
<1>3. /\ Idle <=> writer.who = -1
      /\ \A a \in Ids : a # Operator /\ a # -1
      /\ Idle /\ stage \in [Ids -> Stages]
  BY NobodyWrites DEF WriteLine, FileShape, FileTypeOK
<1>4. \/ /\ writer' = [who |-> who, then |-> then, mark |-> Snapshot(path, lines')]
         /\ stage' = stage
      \/ /\ stage' = IF who = Operator THEN stage ELSE [stage EXCEPT ![who] = then]
         /\ writer' = writer
  BY DEF WriteLine
<1>5. Snapshot(path, lines') \in [id : 1..made, size : Nat, committed : Nat, open : Nat]
  BY <1>1, SnapshotIsMark
<1>6. then \in {"done"} \cup Stages /\ (who \in Ids => then \in Stages)
  BY <1>3 DEF Proper, Stages
<1>7. stage' \in [Ids -> Stages]
  BY <1>3, <1>4, <1>6
<1>8. FileTypeOK'
  <2>1. Snapshot(path, lines') \in Mark(made)
    BY <1>5 DEF Mark
  <2>2. writer' \in {NoWriter} \cup [who : {Operator} \cup Ids, then : {"done"} \cup Stages, mark : Mark(made)]
    BY <2>1, <1>4, <1>6 DEF FileShape, FileTypeOK
  <2>3. {adopting', regrown', forgotten'} \subseteq BOOLEAN
    BY <1>1 DEF FileShape, FileTypeOK
  <2> QED BY <1>1, <1>7, <2>2, <2>3 DEF FileShape, FileTypeOK
<1>9. UnsentInv'
  <2> SUFFICES ASSUME NEW a \in Ids, stage'[a] \in {"new", "refused", "granted"} PROVE bill'[a] = 0
    BY DEF UnsentInv
  <2>1. stage[a] \in {"new", "refused", "granted"}
    BY <1>3, <1>4 DEF Proper
  <2> QED BY <2>1, <1>1 DEF FileShape, UnsentInv
<1>10. NewInv'
  <2> SUFFICES ASSUME NEW a \in Ids, stage'[a] = "new", ~ (writer'.who = a /\ writer'.then = "granted")
               PROVE  ~ Reserved(lines', a) /\ Settled(lines', a) = 0
    BY DEF NewInv
  <2>1. stage[a] = "new" /\ ~ (who = a /\ then = "granted")
    BY <1>3, <1>4 DEF Proper
  <2>2. ~ Reserved(Ended, a) /\ Settled(Ended, a) = 0
    BY <2>1, <1>2, <1>3 DEF FileShape, NewInv
  <2>3. ~ (e.ev \in {"reserve", "commit", "expire"} /\ e.id = a)
    BY <2>1 DEF AboutKnown
  <2>4. ~ Reserved(lines', a)
    BY <2>2, <2>3, <1>1, ReservedMore
  <2>5. Settled(lines', a) = 0
    BY <2>2, <2>3, <1>1, SettledMore
  <2> QED BY <2>4, <2>5
<1>11. WriterInv'
  <2>1. CASE writer' = writer
    BY <2>1, <1>3 DEF WriterInv, Idle
  <2>2. CASE writer' = [who |-> who, then |-> then, mark |-> Snapshot(path, lines')] /\ stage' = stage
    <3>1. writer'.who = who /\ writer'.then = then /\ writer'.mark = Snapshot(path, lines')
      BY <2>2
    <3>2. writer'.mark \in [id : 1..made', size : Nat, committed : Nat, open : Nat]
      BY <3>1, <1>1, <1>5
    <3>3. writer'.mark = Snapshot(path', lines')
      BY <3>1, <1>1
    <3>4. \/ writer'.who = Operator /\ writer'.then = "done"
          \/ writer'.who \in Ids /\ writer'.then \in {"granted", "refused", "new"} /\ stage'[writer'.who] = "new"
          \/ writer'.who \in Ids /\ writer'.then = "settled" /\ stage'[writer'.who] = "sent"
      BY <3>1, <2>2 DEF Proper
    <3> QED BY <3>2, <3>3, <3>4 DEF WriterInv
  <2> QED BY <2>1, <2>2, <1>4
<1> QED BY <1>8, <1>9, <1>10, <1>11 DEF FileShape
LEMMA WritersShape ==
  ASSUME FileShape, NEW a \in Ids,
         \/ ReserveCall(a) \/ RefuseCall(a) \/ SettleCall(a) \/ (\E b \in Ids : ExpireCall(a, b))
  PROVE  FileShape'
<1>0. /\ adopting \in BOOLEAN /\ regrown \in BOOLEAN /\ a \in {Operator} \cup Ids
      /\ lines \in Seq(Line) /\ FileTypeOK
  BY DEF FileShape, FileTypeOK
<1>1. CASE ReserveCall(a)
  <2>1. WriteLine(a, ReserveLine(a), "granted", FALSE) /\ stage[a] = "new"
        /\ adopting' = adopting /\ regrown' = regrown
    BY <1>1 DEF ReserveCall, Turn
  <2>2. ReserveLine(a) \in Line /\ ReserveLine(a).id = a
    BY LinesAreLines
  <2>3. Proper(a, "granted") /\ AboutKnown(a, ReserveLine(a), "granted")
    BY <2>1, <2>2 DEF Proper, AboutKnown
  <2> QED BY <2>1, <2>2, <2>3, <1>0, WriteShape
<1>2. CASE RefuseCall(a)
  <2>1. WriteLine(a, RefuseLine, "refused", FALSE) /\ stage[a] = "new"
        /\ adopting' = adopting /\ regrown' = regrown
    BY <1>2 DEF RefuseCall, Turn
  <2>2. RefuseLine \in Line /\ RefuseLine.ev = "refuse"
    BY LinesAreLines
  <2>3. Proper(a, "refused") /\ AboutKnown(a, RefuseLine, "refused")
    BY <2>1, <2>2 DEF Proper, AboutKnown
  <2> QED BY <2>1, <2>2, <2>3, <1>0, WriteShape
<1>3. CASE SettleCall(a)
  <2>1. WriteLine(a, CommitLine(a, bill[a]), "settled", FALSE) /\ stage[a] = "sent"
        /\ adopting' = adopting /\ regrown' \in BOOLEAN
    BY <1>0, <1>3 DEF SettleCall
  <2>2. CommitLine(a, bill[a]) \in Line /\ CommitLine(a, bill[a]).id = a
    <3>1. bill[a] \in 0..WorstCost
      BY DEF FileShape, FileTypeOK
    <3> QED BY <3>1, LinesAreLines
  <2>3. Proper(a, "settled") /\ AboutKnown(a, CommitLine(a, bill[a]), "settled")
    BY <2>1, <2>2 DEF Proper, AboutKnown
  <2> QED BY <2>1, <2>2, <2>3, <1>0, WriteShape
<1>4. ASSUME NEW b \in Ids, ExpireCall(a, b) PROVE FileShape'
  <2>1. WriteLine(a, ExpireLine(b), "new", FALSE) /\ stage[a] = "new" /\ b \in Open(lines) /\ Idle
        /\ adopting' = adopting /\ regrown' = regrown
    BY <1>4 DEF ExpireCall, Turn, WriteLine
  <2>2. ExpireLine(b) \in Line /\ ExpireLine(b).id = b
    BY <1>4, LinesAreLines
  <2>3. stage[b] # "new"
    <3>1. Reserved(lines, b) /\ writer.who # b
      BY <1>0, <1>4, <2>1, NobodyWrites DEF Open
    <3> QED BY <3>1, <1>4 DEF FileShape, NewInv
  <2>4. Proper(a, "new") /\ AboutKnown(a, ExpireLine(b), "new")
    BY <2>1, <2>2, <2>3 DEF Proper, AboutKnown
  <2> QED BY <2>1, <2>2, <2>4, <1>0, WriteShape
<1> QED BY <1>1, <1>2, <1>3, <1>4

LEMMA CommandsShape ==
  ASSUME FileShape, Repair \/ Adopt
  PROVE  FileShape'
<1>0. /\ adopting \in BOOLEAN /\ regrown \in BOOLEAN /\ Operator \in {Operator} \cup Ids
      /\ lines \in Seq(Line) /\ FileTypeOK
  BY DEF FileShape, FileTypeOK
<1>1. CASE Repair
  <2> DEFINE e == SeenLine(Unacked(lines))
  <2>1. WriteLine(Operator, e, "done", FALSE) /\ adopting' = adopting /\ regrown' \in BOOLEAN
    BY <1>0, <1>1 DEF Repair
  <2>2. e \in Line /\ e.ev = "seen"
    <3>1. Unacked(lines) \in SUBSET Nat
      BY <1>0 DEF Unacked
    <3> QED BY <3>1, LinesAreLines
  <2> HIDE DEF e
  <2>3. Proper(Operator, "done") /\ AboutKnown(Operator, e, "done")
    BY <2>2 DEF Proper, AboutKnown
  <2> QED BY <2>1, <2>2, <2>3, <1>0, WriteShape
<1>2. CASE Adopt
  <2> DEFINE e == AdoptLine(Missing)
  <2>1. WriteLine(Operator, e, "done", TRUE) /\ adopting' = TRUE /\ regrown' = regrown
    BY <1>2 DEF Adopt
  <2>2. e \in Line /\ e.ev = "adopt"
    <3>1. Used(lines) \in Nat /\ made \in Nat /\ mark \in Mark(made)
      BY <1>0, UsedIsClaims DEF FileTypeOK
    <3>2. Missing \in Nat
      BY <3>1, KnownMark DEF Missing
    <3> QED BY <3>2, LinesAreLines
  <2> HIDE DEF e
  <2>3. Proper(Operator, "done") /\ AboutKnown(Operator, e, "done")
    BY <2>2 DEF Proper, AboutKnown
  <2> QED BY <2>1, <2>2, <2>3, <1>0, WriteShape
<1> QED BY <1>1, <1>2

LEMMA MoveMarkShape ==
  ASSUME FileShape, MoveMark
  PROVE  FileShape'
<1>1. /\ ~ Idle /\ mark' = writer.mark /\ writer' = NoWriter /\ adopting' = FALSE
      /\ stage' = IF writer.who = Operator THEN stage ELSE [stage EXCEPT ![writer.who] = writer.then]
      /\ UNCHANGED <<path, made, lines, dangling, bill, damages, regrown, forgotten>>
  BY DEF MoveMark, fileVars
<1>2. /\ FileTypeOK /\ stage \in [Ids -> Stages]
      /\ \A a \in Ids : a # Operator /\ a # -1
      /\ writer.mark \in Mark(made) /\ writer.who \in {Operator} \cup Ids
  BY <1>1, NobodyWrites DEF FileShape, FileTypeOK
<1>3. \/ writer.who = Operator /\ writer.then = "done"
      \/ writer.who \in Ids /\ writer.then \in {"granted", "refused", "new"} /\ stage[writer.who] = "new"
      \/ writer.who \in Ids /\ writer.then = "settled" /\ stage[writer.who] = "sent"
  BY <1>1 DEF FileShape, WriterInv
<1>4. stage' \in [Ids -> Stages]
  BY <1>1, <1>2, <1>3 DEF Stages
<1>5. FileTypeOK'
  BY <1>1, <1>2, <1>4 DEF FileTypeOK
<1>6. writer'.who = -1
  BY <1>1 DEF NoWriter
<1>7. UnsentInv'
  BY <1>1, <1>2, <1>3 DEF FileShape, UnsentInv
<1>8. NewInv'
  <2> SUFFICES ASSUME NEW a \in Ids, stage'[a] = "new" PROVE ~ Reserved(lines, a) /\ Settled(lines, a) = 0
    BY <1>1 DEF NewInv
  <2>1. stage[a] = "new" /\ ~ (writer.who = a /\ writer.then = "granted")
    BY <1>1, <1>2, <1>3
  <2> QED BY <2>1 DEF FileShape, NewInv
<1>9. WriterInv'
  BY <1>1 DEF WriterInv, Idle
<1> QED BY <1>5, <1>7, <1>8, <1>9 DEF FileShape

LEMMA CallShape ==
  ASSUME FileShape, NEW a \in Ids, SendCall(a) \/ GiveUp(a)
  PROVE  FileShape'
<1>1. /\ stage \in [Ids -> Stages] /\ bill \in [Ids -> 0..WorstCost] /\ WorstCost \in Nat /\ FileTypeOK
  BY FileNumbers DEF FileShape, FileTypeOK
<1>2. UNCHANGED <<path, made, lines, dangling, mark, writer, damages, adopting, regrown, forgotten>>
  BY DEF SendCall, GiveUp, fileVars, harmVars
<1>3. /\ writer.who = a => stage[a] = "sent"
      /\ \/ stage' = [stage EXCEPT ![a] = "sent"] /\ stage[a] = "granted"
         \/ stage' = [stage EXCEPT ![a] = "unsettled"] /\ writer.who # a /\ bill' = bill
  <2>1. writer.who = a => ~ Idle
    BY <1>1, NobodyWrites
  <2>2. writer.who = a => stage[a] \in {"new", "sent"}
    BY <2>1, <1>1, NobodyWrites DEF FileShape, WriterInv
  <2> QED BY <2>2 DEF SendCall, GiveUp
<1>4. bill' \in [Ids -> 0..WorstCost] /\ \A b \in Ids : b # a => bill'[b] = bill[b]
  BY <1>1 DEF SendCall, GiveUp
<1>5. stage' \in [Ids -> Stages] /\ stage'[a] \in {"sent", "unsettled"}
      /\ \A b \in Ids : b # a => stage'[b] = stage[b]
  BY <1>1, <1>3 DEF Stages
<1>6. FileTypeOK'
  BY <1>1, <1>2, <1>4, <1>5 DEF FileTypeOK
<1>7. UnsentInv'
  BY <1>4, <1>5 DEF FileShape, UnsentInv
<1>8. NewInv'
  BY <1>2, <1>5 DEF FileShape, NewInv
<1>9. WriterInv'
  <2>1. ~ Idle /\ writer.who = a => writer'.who # a \/ stage'[a] = stage[a]
    BY <1>2, <1>3 DEF FileShape, WriterInv
  <2>2. (~ Idle)' <=> ~ Idle
    BY <1>2 DEF Idle
  <2>3. ~ Idle /\ writer.who \in Ids => stage'[writer.who] = stage[writer.who]
    BY <2>1, <1>2, <1>5
  <2> QED BY <2>2, <2>3, <1>2 DEF FileShape, WriterInv
<1> QED BY <1>6, <1>7, <1>8, <1>9 DEF FileShape
LEMMA InitFileShape ==
  ASSUME FileShape, InitFile
  PROVE  FileShape'
<1>1. /\ Idle /\ path = 0 /\ made < MaxFiles /\ made' = made + 1 /\ path' = made + 1
      /\ lines' = <<InitLine>> /\ dangling' = FALSE
      /\ writer' = (IF mark = NoMark THEN Writing(Snapshot(path', lines')) ELSE NoWriter)
      /\ UNCHANGED <<mark, stage, bill, damages, adopting, regrown, forgotten>>
  BY DEF InitFile, MakeFile, NoFile, harmVars
<1>2. /\ FileTypeOK /\ made \in Nat /\ made' \in 0..MaxFiles /\ made' \in Nat /\ path' \in 1..made'
      /\ made' >= made
  BY <1>1, FileNumbers DEF FileShape, FileTypeOK
<1>3. lines' \in Seq(Line) /\ DOMAIN lines' = {1} /\ lines'[1].ev = "init"
  BY <1>1, LinesAreLines
<1>4. mark \in Mark(made')
  BY <1>2, KnownMark DEF FileTypeOK
<1>5. Snapshot(path', lines') \in [id : 1..made', size : Nat, committed : Nat, open : Nat]
  BY <1>2, <1>3, SnapshotIsMark
<1>6. \/ writer' = [who |-> Operator, then |-> "done", mark |-> Snapshot(path', lines')]
      \/ writer' = NoWriter
  BY <1>1 DEF Writing
<1>7. writer' \in {NoWriter} \cup [who : {Operator} \cup Ids, then : {"done"} \cup Stages, mark : Mark(made')]
  BY <1>5, <1>6 DEF Mark
<1>8. FileTypeOK'
  <2>1. path' \in 0..made'
    BY <1>2
  <2> QED BY <2>1, <1>1, <1>2, <1>3, <1>4, <1>7 DEF FileTypeOK
<1>9. UnsentInv'
  BY <1>1 DEF FileShape, UnsentInv
<1>10. NewInv'
  <2> SUFFICES ASSUME NEW a \in Ids PROVE ~ Reserved(lines', a) /\ Settled(lines', a) = 0
    BY DEF NewInv
  <2>1. ~ Reserved(lines', a)
    BY <1>3 DEF Reserved
  <2>2. SettledAt(lines', a) = {0}
    BY <1>3 DEF SettledAt
  <2>3. Settled(lines', a) = 0
    BY <2>2, <1>3, SettledIs
  <2> QED BY <2>1, <2>3
<1>11. WriterInv'
  <2>1. CASE writer' = NoWriter
    BY <2>1 DEF WriterInv, Idle
  <2>2. CASE writer' = [who |-> Operator, then |-> "done", mark |-> Snapshot(path', lines')]
    <3>1. writer'.who = Operator /\ writer'.then = "done" /\ writer'.mark = Snapshot(path', lines')
      BY <2>2
    <3> QED BY <3>1, <1>5 DEF WriterInv
  <2> QED BY <2>1, <2>2, <1>6
<1> QED BY <1>8, <1>9, <1>10, <1>11 DEF FileShape

\* Losing, cutting or scrambling the file, or moving it out of the way.
LEMMA HarmedFileShape ==
  ASSUME FileShape, UNCHANGED <<made, mark, writer, stage, bill, adopting, forgotten>>,
         \/ path' = NoFile /\ lines' = <<>>
         \/ /\ Idle /\ path' = path /\ lines' \in Seq(Line)
            /\ \A i \in DOMAIN lines' : lines'[i].ev = "bad" \/ \E j \in DOMAIN lines : lines'[i] = lines[j],
         dangling' \in BOOLEAN, damages' \in 0..MaxDamages, regrown' \in BOOLEAN
  PROVE  FileShape'
<1>1. FileTypeOK /\ made \in Nat /\ lines \in Seq(Line)
  BY DEF FileShape, FileTypeOK
<1>2. lines' \in Seq(Line)
    /\ \A i \in DOMAIN lines' : lines'[i].ev = "bad" \/ \E j \in DOMAIN lines : lines'[i] = lines[j]
  <2>1. <<>> \in Seq(Line) /\ DOMAIN <<>> = {}
    OBVIOUS
  <2> QED BY <2>1
<1>3. path' \in 0..made'
  BY <1>1 DEF FileTypeOK, NoFile
<1>4. FileTypeOK'
  BY <1>1, <1>2, <1>3 DEF FileTypeOK
<1>5. UnsentInv'
  BY DEF FileShape, UnsentInv
<1>6. NewInv'
  <2> SUFFICES ASSUME NEW a \in Ids, stage[a] = "new", ~ (writer.who = a /\ writer.then = "granted")
               PROVE  ~ Reserved(lines', a) /\ Settled(lines', a) = 0
    BY DEF NewInv
  <2>1. ~ Reserved(lines, a) /\ Settled(lines, a) = 0
    BY DEF FileShape, NewInv
  <2> QED BY <2>1, <1>1, <1>2, FewerLines
<1>7. WriterInv'
  BY DEF FileShape, WriterInv, Idle
<1> QED BY <1>4, <1>5, <1>6, <1>7 DEF FileShape

LEMMA HarmsShape ==
  ASSUME FileShape, MoveAside \/ Lose \/ CutFile \/ Scramble
  PROVE  FileShape'
<1>0. /\ lines \in Seq(Line) /\ Len(lines) \in Nat /\ DOMAIN lines = 1..Len(lines)
      /\ adopting \in BOOLEAN /\ regrown \in BOOLEAN /\ dangling \in BOOLEAN
      /\ damages \in 0..MaxDamages /\ MaxDamages \in Nat
  BY FileNumbers DEF FileShape, FileTypeOK
<1>1. CASE MoveAside
  <2>1. /\ path' = NoFile /\ lines' = <<>> /\ dangling' = FALSE
        /\ UNCHANGED <<made, mark, writer, stage, bill, damages, adopting, regrown, forgotten>>
    BY <1>1 DEF MoveAside, harmVars
  <2> QED BY <2>1, <1>0, HarmedFileShape
<1>2. CASE Lose
  <2>1. /\ path' = NoFile /\ lines' = <<>> /\ dangling' = FALSE /\ damages' \in 0..MaxDamages
        /\ UNCHANGED <<made, mark, writer, stage, bill, adopting, regrown, forgotten>>
    BY <1>0, <1>2 DEF Lose, Harm
  <2> QED BY <2>1, <1>0, HarmedFileShape
<1>3. CASE CutFile
  <2>1. /\ Idle /\ damages' \in 0..MaxDamages /\ regrown' \in BOOLEAN
        /\ UNCHANGED <<path, made, mark, writer, stage, bill, adopting, forgotten>>
    BY <1>0, <1>3 DEF CutFile, Harm
  <2>2. PICK n \in 0..(Len(lines) - 1) : lines' = SubSeq(lines, 1, n) /\ dangling' \in BOOLEAN
    BY <1>3 DEF CutFile
  <2>3. n \in Nat /\ n <= Len(lines)
    BY <1>0, <2>2
  <2>4. \A i \in 1..n : lines[i] \in Line /\ i \in DOMAIN lines
    BY <1>0, <2>3
  <2>5. lines' \in Seq(Line) /\ Len(lines') = n /\ \A i \in 1..n : lines'[i] = lines[i]
    BY <2>2, <2>3, <2>4, SubSeqProperties
  <2>6. DOMAIN lines' = 1..n
    BY <2>5
  <2>7. \A i \in DOMAIN lines' : \E j \in DOMAIN lines : lines'[i] = lines[j]
    BY <2>4, <2>5, <2>6
  <2> QED BY <2>1, <2>2, <2>5, <2>7, HarmedFileShape
<1>4. CASE Scramble
  <2>1. /\ Idle /\ damages' \in 0..MaxDamages /\ regrown' = TRUE
        /\ UNCHANGED <<path, made, dangling, mark, writer, stage, bill, adopting, forgotten>>
    BY <1>0, <1>4 DEF Scramble, Harm
  <2>2. PICK k \in DOMAIN lines : lines' = [lines EXCEPT ![k] = BadLine]
    BY <1>4 DEF Scramble
  <2>3. BadLine \in Line /\ BadLine.ev = "bad"
    BY LinesAreLines
  <2>4. lines' \in Seq(Line) /\ DOMAIN lines' = DOMAIN lines
    BY <1>0, <2>2, <2>3, ExceptSeq
  <2>5. \A i \in DOMAIN lines' : lines'[i].ev = "bad" \/ \E j \in DOMAIN lines : lines'[i] = lines[j]
    BY <1>0, <2>2, <2>3, <2>4
  <2> QED BY <2>1, <2>4, <2>5, <1>0, HarmedFileShape
<1> QED BY <1>1, <1>2, <1>3, <1>4

LEMMA LoseMarkShape ==
  ASSUME FileShape, LoseMark
  PROVE  FileShape'
<1>1. /\ damages' = damages + 1 /\ damages < MaxDamages /\ forgotten' = TRUE /\ mark' \in {NoMark, BadMark}
      /\ UNCHANGED <<path, made, lines, dangling, writer, stage, bill, adopting, regrown>>
  BY DEF LoseMark, Harm, fileVars
<1>2. FileTypeOK'
  BY <1>1, FileNumbers DEF FileShape, FileTypeOK, Mark
<1> QED BY <1>1, <1>2 DEF FileShape, UnsentInv, NewInv, WriterInv, Idle

LEMMA CrashShape ==
  ASSUME FileShape, CrashAfterAppend
  PROVE  FileShape'
<1>1. /\ damages' = damages + 1 /\ damages < MaxDamages /\ ~ Idle /\ writer' = NoWriter
      /\ stage' = IF writer.who = Operator THEN stage ELSE [stage EXCEPT ![writer.who] = "dead"]
      /\ UNCHANGED <<path, made, lines, dangling, mark, bill, adopting, regrown, forgotten>>
  BY DEF CrashAfterAppend, Harm, fileVars
<1>2. /\ FileTypeOK /\ stage \in [Ids -> Stages] /\ writer.who \in {Operator} \cup Ids
  BY <1>1, NobodyWrites DEF FileShape, FileTypeOK
<1>3. stage' \in [Ids -> Stages] /\ \A a \in Ids : stage'[a] = stage[a] \/ stage'[a] = "dead"
  BY <1>1, <1>2 DEF Stages
<1>4. writer.who \in Ids => stage'[writer.who] = "dead"
  BY <1>1, <1>2, NobodyWrites
<1>5. FileTypeOK'
  BY <1>1, <1>2, <1>3, FileNumbers DEF FileTypeOK
<1>6. UnsentInv'
  BY <1>1, <1>3 DEF FileShape, UnsentInv
<1>7. NewInv'
  <2> SUFFICES ASSUME NEW a \in Ids, stage'[a] = "new" PROVE ~ Reserved(lines, a) /\ Settled(lines, a) = 0
    BY <1>1 DEF NewInv
  <2>1. stage[a] = "new" /\ writer.who # a
    BY <1>3, <1>4
  <2> QED BY <2>1 DEF FileShape, NewInv
<1>8. WriterInv'
  BY <1>1 DEF WriterInv, Idle
<1> QED BY <1>5, <1>6, <1>7, <1>8 DEF FileShape

\* A process that dies leaves the lines, or a line of it that is cut.
LEMMA DieLines ==
  ASSUME FileShape, NEW a \in Ids, Die(a)
  PROVE  /\ stage[a] \in {"new", "granted", "sent"} /\ writer.who # a
         /\ stage' = [stage EXCEPT ![a] = "dead"]
         /\ UNCHANGED <<path, made, mark, writer, bill, adopting, forgotten>>
         /\ damages' \in 0..MaxDamages /\ dangling' \in BOOLEAN
         /\ \/ lines' = lines /\ regrown' = regrown
            \/ /\ Idle /\ regrown' = (regrown \/ Cut)
               /\ lines' \in {lines, Append(lines, BadLine), Ended}
         /\ regrown' \in BOOLEAN
<1>1. dangling \in BOOLEAN /\ regrown \in BOOLEAN /\ damages \in 0..MaxDamages /\ MaxDamages \in Nat
  BY FileNumbers DEF FileShape, FileTypeOK
<1>2. damages' \in 0..MaxDamages
  BY <1>1 DEF Die, Harm
<1>3. \/ UNCHANGED <<lines, dangling, regrown>>
      \/ /\ Idle /\ dangling' = TRUE /\ regrown' = (regrown \/ Cut)
         /\ lines' \in {lines, Append(lines, BadLine), Ended}
  BY DEF Die
<1>4. dangling' \in BOOLEAN /\ regrown' \in BOOLEAN
  BY <1>1, <1>3
<1>5. /\ stage[a] \in {"new", "granted", "sent"} /\ writer.who # a
      /\ stage' = [stage EXCEPT ![a] = "dead"]
      /\ UNCHANGED <<path, made, mark, writer, bill, adopting, forgotten>>
  BY DEF Die
<1> QED BY <1>2, <1>3, <1>4, <1>5

LEMMA DieShape ==
  ASSUME FileShape, NEW a \in Ids, Die(a)
  PROVE  FileShape'
<1>1. /\ stage[a] \in {"new", "granted", "sent"} /\ writer.who # a
      /\ stage' = [stage EXCEPT ![a] = "dead"]
      /\ UNCHANGED <<path, made, mark, writer, bill, adopting, forgotten>>
      /\ damages' \in 0..MaxDamages /\ dangling' \in BOOLEAN /\ regrown' \in BOOLEAN
      /\ lines' = lines \/ (Idle /\ lines' \in {lines, Append(lines, BadLine), Ended})
  BY DieLines
<1>2. /\ FileTypeOK /\ stage \in [Ids -> Stages] /\ lines \in Seq(Line) /\ dangling \in BOOLEAN
      /\ BadLine \in Line /\ BadLine.ev = "bad"
  BY LinesAreLines DEF FileShape, FileTypeOK
<1>3. /\ lines' \in Seq(Line)
      /\ \A b : Reserved(lines', b) <=> Reserved(lines, b)
      /\ \A b : Settled(lines', b) = Settled(lines, b)
  <2>1. CASE lines' = lines
    BY <2>1, <1>2
  <2>2. CASE lines' = Append(lines, BadLine)
    BY <2>2, <1>2, OneMore, QuietLine
  <2>3. CASE lines' = Ended
    BY <2>3, <1>2, EndedFacts
  <2> QED BY <1>1, <2>1, <2>2, <2>3
<1>4. stage' \in [Ids -> Stages] /\ stage'[a] = "dead" /\ \A b \in Ids : b # a => stage'[b] = stage[b]
  BY <1>1, <1>2 DEF Stages
<1>5. FileTypeOK'
  BY <1>1, <1>2, <1>3, <1>4 DEF FileTypeOK
<1>6. UnsentInv'
  BY <1>1, <1>4 DEF FileShape, UnsentInv
<1>7. NewInv'
  BY <1>1, <1>3, <1>4 DEF FileShape, NewInv
<1>8. WriterInv'
  <2>1. CASE Idle
    BY <2>1, <1>1 DEF WriterInv, Idle
  <2>2. CASE ~ Idle
    <3>1. lines' = lines /\ writer' = writer /\ path' = path /\ made' = made
      BY <2>2, <1>1
    <3>2. writer.who \in Ids => stage'[writer.who] = stage[writer.who]
      BY <1>1, <1>4
    <3> QED BY <2>2, <3>1, <3>2 DEF FileShape, WriterInv
  <2> QED BY <2>1, <2>2
<1> QED BY <1>5, <1>6, <1>7, <1>8 DEF FileShape

LEMMA ShapeInductive ==
  ASSUME FileShape, [FileNext]_ledgerVars
  PROVE  FileShape'
<1>1. CASE UNCHANGED ledgerVars
  BY <1>1 DEF ledgerVars, fileVars, harmVars, FileShape, FileTypeOK, UnsentInv, NewInv, WriterInv, Idle
<1>2. ASSUME NEW a \in Ids, CallSteps(a) PROVE FileShape'
  BY <1>2, WritersShape, CallShape DEF CallSteps
<1>3. CASE Repair \/ Adopt
  BY <1>3, CommandsShape
<1>4. CASE InitFile \/ MoveAside
  BY <1>4, InitFileShape, HarmsShape
<1>5. CASE Harms
  BY <1>5, HarmsShape, LoseMarkShape, CrashShape, DieShape DEF Harms
<1>6. CASE MoveMark
  BY <1>6, MoveMarkShape
<1> QED BY <1>1, <1>2, <1>3, <1>4, <1>5, <1>6 DEF FileNext, Commands
-----------------------------------------------------------------------------
(* what is needed                                                          *)

LEMMA NeedNow ==
  ASSUME FileTypeOK
  PROVE  Needed \in Nat /\ \A a \in 1..Count : Need[a] \in 0..WorstCost /\ bill[a] \in Nat /\ bill[a] <= Need[a]
<1>1. Count \in Nat /\ Ids = 1..Count /\ WorstCost \in Nat /\ bill \in [Ids -> 0..WorstCost]
  BY FileNumbers DEF Ids, FileTypeOK
<1>2. \A a \in 1..Count : Need[a] \in 0..WorstCost /\ bill[a] \in Nat /\ bill[a] <= Need[a]
  BY <1>1 DEF Need
<1>3. \A a \in 1..Count : Need[a] \in Nat
  BY <1>1, <1>2
<1> HIDE DEF Need
<1>4. Needed \in Nat
  BY <1>1, <1>3, TotalNat DEF Needed
<1> QED BY <1>2, <1>4

LEMMA NeedNext ==
  ASSUME FileTypeOK'
  PROVE  Needed' \in Nat /\ \A a \in 1..Count : Need'[a] \in 0..WorstCost
<1>1. Count \in Nat /\ Ids = 1..Count /\ WorstCost \in Nat /\ bill' \in [Ids -> 0..WorstCost]
  BY FileNumbers DEF Ids, FileTypeOK
<1>2. \A a \in 1..Count : Need'[a] \in 0..WorstCost
  BY <1>1 DEF Need
<1>3. \A a \in 1..Count : Need'[a] \in Nat
  BY <1>1, <1>2
<1>4. Total(Need', Count) \in Nat
  <2> DEFINE w == Need'
  <2>1. \A a \in 1..Count : w[a] \in Nat
    BY <1>3
  <2> HIDE DEF w
  <2>2. Total(w, Count) \in Nat
    BY <1>1, <2>1, TotalNat
  <2> QED BY <2>2 DEF w
<1>5. Needed' \in Nat
  BY <1>4 DEF Needed
<1> QED BY <1>2, <1>5

\* A step that changes the need of the call a only.
LEMMA NeedOne ==
  ASSUME FileTypeOK, FileTypeOK', NEW a \in Ids, \A b \in Ids : b # a => Need'[b] = Need[b]
  PROVE  Needed' = Needed + Need'[a] - Need[a]
<1> DEFINE v == Need'
           w == Need
<1>1. Count \in Nat /\ a \in 1..Count /\ Ids = 1..Count /\ WorstCost \in Nat
  BY FileNumbers DEF Ids
<1>2. \A b \in 1..Count : v[b] \in Int /\ w[b] \in Int
  BY <1>1, NeedNow, NeedNext
<1>3. \A b \in 1..Count : b # a => v[b] = w[b]
  BY <1>1
<1> HIDE DEF v, w
<1>4. Total(v, Count) = Total(w, Count) + v[a] - w[a]
  <2>1. Count \in Nat /\ a \in 1..Count
    BY <1>1
  <2> QED BY <2>1, <1>2, <1>3, TotalChange
<1> QED BY <1>4 DEF v, w, Needed

LEMMA NeedSame ==
  ASSUME \A a \in Ids : (InFlight(a)' <=> InFlight(a)) /\ (~ InFlight(a) => bill'[a] = bill[a])
  PROVE  Need' = Need /\ Needed' = Needed
<1>1. Need' = Need
  BY DEF Need
<1> QED BY <1>1 DEF Needed

-----------------------------------------------------------------------------
(* what the ledger accounts for                                            *)

\* A step that leaves the file and the watermark, or loses the file.
LEMMA SameFileBacked ==
  ASSUME FileShape, FileShape', Backed, Needed' <= Needed,
         mark' = mark, adopting' = adopting, writer' = writer \/ writer' = NoWriter,
         (path' = path /\ lines' = lines) \/ path' = NoFile
  PROVE  Backed'
<1>1. Needed \in Nat /\ Needed' \in Nat /\ WorstCost \in Nat /\ made \in Nat /\ mark \in Mark(made)
  BY NeedNow, NeedNext, FileNumbers DEF FileShape, FileTypeOK
<1>2. MarkInv'
  <2>1. Known(mark) => mark.committed \in Nat /\ mark.open \in Nat
    BY <1>1, KnownMark
  <2> QED BY <2>1, <1>1 DEF Backed, MarkInv
<1>3. PendingInv'
  <2>1. CASE writer' = NoWriter
    BY <2>1 DEF PendingInv, Idle
  <2>2. CASE writer' = writer /\ ~ Idle
    <3>1. writer.mark.committed \in Nat /\ writer.mark.open \in Nat
      BY <2>2 DEF FileShape, WriterInv
    <3> DEFINE grant == IF writer.then = "granted" THEN WorstCost ELSE 0
    <3>2. grant \in Nat
      BY <1>1
    <3>3. writer.mark.committed + writer.mark.open >= Needed + grant
      BY <2>2 DEF Backed, PendingInv
    <3> HIDE DEF grant
    <3>4. writer.mark.committed + writer.mark.open >= Needed' + grant
      BY <3>1, <3>2, <3>3, <1>1
    <3> QED BY <2>2, <3>4 DEF PendingInv, grant
  <2>3. CASE writer' = writer /\ Idle
    BY <2>3 DEF PendingInv, Idle
  <2> QED BY <2>1, <2>2, <2>3
<1>4. LedgerInv'
  <2>1. CASE path' = NoFile
    BY <2>1 DEF LedgerInv
  <2>2. CASE path' = path /\ lines' = lines
    <3> SUFFICES ASSUME path # NoFile, Known(mark), mark.id = path
                 PROVE  GoodPrefixes(lines, mark.size, Needed', adopting)
      BY <2>2 DEF LedgerInv
    <3>1. GoodPrefixes(lines, mark.size, Needed, adopting)
      BY DEF Backed, LedgerInv
    <3>2. \A n \in 0..Len(lines) : Used(SubSeq(lines, 1, n)) \in Nat
      <4>1. lines \in Seq(Line)
        BY DEF FileShape, FileTypeOK
      <4> QED BY <4>1, ShorterPrefix, UsedIsClaims
    <3>3. \A n \in 0..Len(lines) : Used(SubSeq(lines, 1, n)) >= Needed => Used(SubSeq(lines, 1, n)) >= Needed'
      BY <3>2, <1>1
    <3> QED BY <3>1, <3>3 DEF GoodPrefixes
  <2> QED BY <2>1, <2>2
<1> QED BY <1>2, <1>3, <1>4 DEF Backed

\* A ledger that a call finds sound, or that is not cut, has what is needed.
LEMMA SoundIsGood ==
  ASSUME FileShape, Backed, path # NoFile, Known(mark), mark.id = path,
         ~ Cut
  PROVE  Used(lines) >= Needed
<1>1. lines \in Seq(Line) /\ dangling \in BOOLEAN /\ made \in Nat /\ mark \in Mark(made)
  BY FileNumbers DEF FileShape, FileTypeOK
<1>2. GoodPrefixes(lines, mark.size, Needed, adopting)
  BY DEF Backed, LedgerInv
<1>3. mark.size \in Nat /\ Size(lines, FALSE) \in Nat /\ Size(lines, TRUE) = Size(lines, FALSE) + 1
  BY <1>1, KnownMark, SizeNat
<1>4. ~ (Size(lines, dangling) < mark.size)
  BY DEF Cut
<1>5. Size(lines, TRUE) >= mark.size
  <2>1. PICK x \in Nat, m \in Nat : x = Size(lines, FALSE) /\ m = mark.size
    BY <1>3
  <2>2. Size(lines, TRUE) = x + 1
    BY <1>3, <2>1
  <2>3. Size(lines, dangling) = x \/ Size(lines, dangling) = x + 1
    <3>1. dangling = TRUE \/ dangling = FALSE
      BY <1>1
    <3> QED BY <2>1, <2>2, <3>1
  <2>4. ~ (x < m) \/ ~ (x + 1 < m)
    BY <1>4, <2>1, <2>3
  <2>5. x + 1 >= m
    BY <2>4
  <2> QED BY <2>1, <2>2, <2>5
<1> QED BY <1>1, <1>2, <1>5, WholeIsGood
LEMMA DiagnosedSound ==
  ASSUME NEW id, NEW s, NEW cut, NEW m
  PROVE  Diagnose(id, s, cut, m) = "none" <=>
           /\ id # NoFile /\ HasHeader(s) /\ Unacked(s) = {} /\ Known(m) /\ m.id = id
           /\ ~ (Size(s, cut) < m.size) /\ ~ (Committed(s) < m.committed)
BY DEF Diagnose

\* A line that takes no more than the need falls by.
LEMMA WriteBacked ==
  ASSUME FileShape, FileShape', Backed, NEW e \in Line, NEW who \in {Operator} \cup Ids, NEW then,
         WriteLine(who, e, then, FALSE), adopting' = adopting, ~ Cut, Needed' <= Needed,
         Used(Append(Ended, e)) >=
           Used(Ended) - (Needed - Needed') + IF then = "granted" THEN WorstCost ELSE 0
  PROVE  Backed'
<1> DEFINE grant == IF then = "granted" THEN WorstCost ELSE 0
<1>1. /\ Ended \in Seq(Line) /\ lines' = Append(Ended, e) /\ lines' \in Seq(Line)
      /\ path' = path /\ path \in 1..made /\ made \in Nat /\ mark' = mark
      /\ Used(Ended) = Used(lines) /\ path # NoFile
  <2>1. path # NoFile
    BY DEF WriteLine
  <2> QED BY <2>1, WriteTypes
<1>2. /\ lines \in Seq(Line) /\ dangling \in BOOLEAN /\ mark \in Mark(made)
      /\ Needed \in Nat /\ Needed' \in Nat /\ grant \in Nat
  BY NeedNow, NeedNext, FileNumbers DEF FileShape, FileTypeOK
<1>3. Used(lines) \in Nat /\ Used(lines') \in Nat
  BY <1>1, <1>2, UsedIsClaims
<1>4. Used(lines') >= Used(lines) - (Needed - Needed') + grant
  BY <1>1
<1> HIDE DEF grant
<1>5. Known(mark) /\ mark.id = path => Used(lines) >= Needed /\ Used(lines') >= Needed' + grant
  <2> HAVE Known(mark) /\ mark.id = path
  <2>1. Used(lines) >= Needed
    BY <1>1, SoundIsGood
  <2>2. Used(lines') >= Needed' + grant
    BY <2>1, <1>2, <1>3, <1>4
  <2> QED BY <2>1, <2>2
<1>6. MarkInv'
  <2>1. Known(mark) => mark.committed \in Nat /\ mark.open \in Nat
    BY <1>1, <1>2, KnownMark
  <2> QED BY <2>1, <1>1, <1>2 DEF Backed, MarkInv
<1>7. PendingInv'
  <2>1. CASE Diagnose(path, lines', FALSE, mark) # "none"
    BY <2>1 DEF WriteLine, PendingInv, Idle
  <2>2. CASE Diagnose(path, lines', FALSE, mark) = "none"
    <3>1. Known(mark) /\ mark.id = path
      BY <2>2, DiagnosedSound
    <3>2. writer' = [who |-> who, then |-> then, mark |-> Snapshot(path, lines')]
      BY <2>2 DEF WriteLine
    <3>3. writer'.mark = Snapshot(path, lines') /\ writer'.then = then
      BY <3>2
    <3>4. Snapshot(path, lines').committed + Snapshot(path, lines').open = Used(lines')
      BY <1>1, SnapshotIsMark
    <3>5. Used(lines') >= Needed' + grant
      BY <1>5, <3>1
    <3> QED BY <3>3, <3>4, <3>5 DEF PendingInv, grant
  <2> QED BY <2>1, <2>2
<1>8. LedgerInv'
  <2> SUFFICES ASSUME Known(mark), mark.id = path
               PROVE  GoodPrefixes(lines', mark.size, Needed', adopting)
    BY <1>1 DEF LedgerInv
  <2>1. GoodPrefixes(lines, mark.size, Needed, adopting)
    BY <1>1 DEF Backed, LedgerInv
  <2>2. Used(lines) >= Needed
    BY <1>5
  <2>3. GoodPrefixes(Ended, mark.size, Needed, adopting)
    BY <2>1, <2>2, <1>2, EndedIsGood
  <2>4. Used(Append(Ended, e)) >= Needed'
    BY <1>1, <1>2, <1>3, <1>5
  <2> DEFINE less == Needed'
  <2>5. less \in Nat /\ less <= Needed /\ Used(Append(Ended, e)) >= less
    BY <1>2, <2>4
  <2> HIDE DEF less
  <2>6. GoodPrefixes(Append(Ended, e), mark.size, less, adopting)
    BY <2>3, <2>5, <1>1, <1>2, PrefixesMore
  <2> QED BY <2>6, <1>1 DEF less
<1> QED BY <1>6, <1>7, <1>8 DEF Backed

\* Whoever writes is not in flight then, nor is anybody else disturbed.
LEMMA WriteNeed ==
  ASSUME FileShape, FileShape', NEW e \in Line, NEW who \in {Operator} \cup Ids, NEW then, NEW always,
         WriteLine(who, e, then, always), Proper(who, then),
         then = "granted" => writer' # writer
  PROVE  /\ \A b \in Ids : b # who => Need'[b] = Need[b]
         /\ who \in Ids => Need'[who] = bill[who]
         /\ who \in Ids /\ then = "settled" => Need[who] = WorstCost
         /\ who \in Ids /\ then # "settled" => Need[who] = bill[who]
<1>1. /\ Idle /\ \A a \in Ids : writer.who # a /\ a # Operator
      /\ stage \in [Ids -> Stages] /\ bill' = bill
  BY NobodyWrites DEF WriteLine, FileShape, FileTypeOK
<1>2. \/ /\ writer' = [who |-> who, then |-> then, mark |-> Snapshot(path, lines')]
         /\ stage' = stage
      \/ /\ stage' = IF who = Operator THEN stage ELSE [stage EXCEPT ![who] = then]
         /\ writer' = writer /\ then # "granted"
  BY DEF WriteLine
<1>3. \A b \in Ids : b # who => (InFlight(b)' <=> InFlight(b))
  BY <1>1, <1>2 DEF InFlight
<1>4. who \in Ids => ~ InFlight(who)' /\ (InFlight(who) <=> then = "settled")
  <2> HAVE who \in Ids
  <2>1. then \in {"granted", "refused", "new", "settled"} /\ (then = "settled" <=> stage[who] = "sent")
        /\ (then # "settled" <=> stage[who] = "new")
    BY <1>1 DEF Proper
  <2>2. InFlight(who) <=> then = "settled"
    BY <1>1, <2>1 DEF InFlight
  <2>3. ~ InFlight(who)'
    <3>1. CASE writer'.who = who
      BY <3>1 DEF InFlight
    <3>2. CASE stage' = [stage EXCEPT ![who] = then] /\ then # "granted"
      BY <3>2, <2>1, <1>1 DEF InFlight
    <3> QED BY <3>1, <3>2, <1>1, <1>2
  <2> QED BY <2>2, <2>3
<1> QED BY <1>1, <1>3, <1>4 DEF Need
\* A grant follows its line: what was sound before the line is sound after it.
LEMMA ReserveKeepsSound ==
  ASSUME FileShape, NEW a \in Ids, ReserveCall(a)
  PROVE  /\ Diagnose(path, lines', FALSE, mark) = "none" /\ ~ Cut
         /\ Used(lines') = Used(lines) + WorstCost /\ Used(lines) \in Nat
<1> DEFINE e == ReserveLine(a)
<1>1. WriteLine(a, e, "granted", FALSE) /\ stage[a] = "new" /\ Problem = "none" /\ Idle
  BY DEF ReserveCall, Turn, WriteLine
<1>2. e \in Line /\ e.ev = "reserve"
  BY LinesAreLines
<1>3. Ended \in Seq(Line) /\ lines' = Append(Ended, e) /\ lines' \in Seq(Line)
  BY <1>1, <1>2, WriteTypes
<1>4. /\ lines \in Seq(Line) /\ dangling \in BOOLEAN /\ made \in Nat /\ mark \in Mark(made)
  BY FileNumbers DEF FileShape, FileTypeOK
<1>5. /\ path # NoFile /\ HasHeader(lines) /\ Unacked(lines) = {} /\ Known(mark) /\ mark.id = path
      /\ ~ (Size(lines, dangling) < mark.size) /\ ~ (Committed(lines) < mark.committed)
  BY <1>1, DiagnosedSound DEF Problem
<1>6. /\ Used(Ended) = Used(lines) /\ Committed(Ended) = Committed(lines)
      /\ Size(Ended, FALSE) >= Size(lines, dangling)
      /\ HasHeader(Ended) /\ Unacked(Ended) = {}
  BY <1>4, <1>5, EndedFacts
<1>7. HasHeader(lines') /\ Unacked(lines') = {}
  BY <1>2, <1>3, <1>6, UnackedMore
<1>8. ~ Reserved(Ended, a) /\ Settled(Ended, a) = 0
  <2>1. ~ Reserved(lines, a) /\ Settled(lines, a) = 0
    <3>1. writer.who # a
      BY <1>1, NobodyWrites DEF FileShape
    <3> QED BY <3>1, <1>1 DEF FileShape, NewInv
  <2> QED BY <2>1, <1>4, EndedFacts
<1>9. Used(lines') = Used(Ended) + WorstCost /\ Committed(lines') = Committed(Ended)
  BY <1>3, <1>8, ReserveMore
<1>10. ~ (Size(lines', FALSE) < mark.size)
  <2>1. Size(lines', FALSE) >= Size(Ended, FALSE) + 2
    BY <1>2, <1>3, PrefixOfMore
  <2>2. /\ Size(Ended, FALSE) \in Nat /\ Size(lines', FALSE) \in Nat /\ mark.size \in Nat
        /\ Size(lines, dangling) \in Nat
    <3>1. Size(lines, TRUE) \in Nat /\ Size(lines, FALSE) \in Nat
      BY <1>4, SizeNat
    <3>2. dangling = TRUE \/ dangling = FALSE
      BY <1>4
    <3> QED BY <3>1, <3>2, <1>3, <1>4, <1>5, SizeNat, KnownMark
  <2>3. PICK x \in Nat, y \in Nat, z \in Nat, m \in Nat :
          /\ x = Size(lines, dangling) /\ y = Size(Ended, FALSE) /\ z = Size(lines', FALSE)
          /\ m = mark.size
    BY <2>2
  <2>4. ~ (x < m) /\ y >= x /\ z >= y + 2
    BY <2>1, <2>3, <1>5, <1>6
  <2>5. ~ (z < m)
    BY <2>4
  <2> QED BY <2>3, <2>5
<1>11. Diagnose(path, lines', FALSE, mark) = "none"
  <2>1. ~ (Committed(lines') < mark.committed)
    BY <1>5, <1>6, <1>9
  <2> DEFINE s == lines'
  <2>2. /\ path # NoFile /\ HasHeader(s) /\ Unacked(s) = {} /\ Known(mark) /\ mark.id = path
        /\ ~ (Size(s, FALSE) < mark.size) /\ ~ (Committed(s) < mark.committed)
    BY <2>1, <1>5, <1>7, <1>10
  <2> HIDE DEF s
  <2>3. Diagnose(path, s, FALSE, mark) = "none"
    BY <2>2 DEF Diagnose
  <2> QED BY <2>3 DEF s
<1> QED BY <1>4, <1>5, <1>6, <1>9, <1>11, UsedIsClaims DEF Cut

LEMMA ReserveBacked ==
  ASSUME FileShape, FileShape', Backed, NEW a \in Ids, ReserveCall(a)
  PROVE  Backed'
<1>1. /\ WriteLine(a, ReserveLine(a), "granted", FALSE) /\ Proper(a, "granted")
      /\ adopting' = adopting /\ a \in {Operator} \cup Ids
  BY DEF ReserveCall, Turn, Proper
<1>2. ReserveLine(a) \in Line
  BY LinesAreLines
<1>3. /\ Diagnose(path, lines', FALSE, mark) = "none" /\ ~ Cut
      /\ Used(lines') = Used(lines) + WorstCost /\ Used(lines) \in Nat
  BY ReserveKeepsSound
<1>4. lines' = Append(Ended, ReserveLine(a)) /\ Used(Ended) = Used(lines)
  BY <1>1, <1>2, WriteTypes
<1>5. Needed' = Needed /\ Needed \in Nat
  <2>0. writer' # writer
    <3>1. writer' = [who |-> a, then |-> "granted", mark |-> Snapshot(path, lines')]
      BY <1>1, <1>3 DEF WriteLine
    <3>2. writer'.who = a /\ writer.who # a
      BY <1>1, <3>1, NobodyWrites DEF WriteLine, FileShape
    <3> QED BY <3>2
  <2>1. Need'[a] = Need[a] /\ Need[a] \in Int /\ \A b \in Ids : b # a => Need'[b] = Need[b]
    <3>1. \A b \in Ids : b # a => Need'[b] = Need[b]
      BY <1>1, <1>2, <2>0, WriteNeed
    <3>2. Need'[a] = bill[a] /\ Need[a] = bill[a]
      <4>1. "granted" # "settled"
        OBVIOUS
      <4>2. /\ a \in Ids => Need'[a] = bill[a]
            /\ a \in Ids /\ "granted" # "settled" => Need[a] = bill[a]
        BY <1>1, <1>2, <2>0, WriteNeed
      <4> QED BY <4>1, <4>2
    <3>3. bill[a] \in Int
      BY FileNumbers DEF FileShape, FileTypeOK
    <3> QED BY <3>1, <3>2, <3>3
  <2>2. Needed' = Needed + Need'[a] - Need[a]
    BY <2>1, NeedOne DEF FileShape
  <2>3. Needed \in Nat
    BY NeedNow DEF FileShape
  <2> QED BY <2>1, <2>2, <2>3
<1>6. Used(Append(Ended, ReserveLine(a))) >= Used(Ended) - (Needed - Needed') + WorstCost
  BY <1>3, <1>4, <1>5, FileNumbers
<1>7. Needed' <= Needed
  BY <1>5
<1> QED BY <1>1, <1>2, <1>3, <1>6, <1>7, WriteBacked

\* The other lines: a refusal, an expiry, an acknowledgement.
LEMMA IdleLineBacked ==
  ASSUME FileShape, FileShape', Backed, NEW e \in Line, NEW who \in {Operator} \cup Ids, NEW then,
         WriteLine(who, e, then, FALSE), Proper(who, then), then \notin {"granted", "settled"},
         adopting' = adopting, ~ Cut, Used(Append(Ended, e)) = Used(Ended)
  PROVE  Backed'
<1>1. Used(Ended) \in Nat /\ Needed \in Nat
  <2>1. Ended \in Seq(Line)
    BY WriteTypes
  <2> QED BY <2>1, UsedIsClaims, NeedNow DEF FileShape
<1>2. Need' = Need
  <2>1. \A b \in Ids : Need'[b] = Need[b]
    BY WriteNeed
  <2> QED BY <2>1 DEF Need
<1>3. Needed' = Needed
  BY <1>2 DEF Needed
<1>4. Needed' <= Needed /\ Used(Append(Ended, e)) >= Used(Ended) - (Needed - Needed') + 0
  BY <1>1, <1>3
<1> QED BY <1>4, WriteBacked

LEMMA QuietBacked ==
  ASSUME FileShape, FileShape', Backed, ~ regrown',
         Repair \/ \E a \in Ids : RefuseCall(a) \/ \E b \in Ids : ExpireCall(a, b)
  PROVE  Backed'
<1>0. lines \in Seq(Line) /\ dangling \in BOOLEAN
  BY DEF FileShape, FileTypeOK
<1>1. Ended \in Seq(Line) /\ \A a : (Reserved(Ended, a) <=> Reserved(lines, a)) /\ Settled(Ended, a) = Settled(lines, a)
  BY <1>0, EndedFacts
<1>2. CASE Repair
  <2> DEFINE e == SeenLine(Unacked(lines))
  <2>1. WriteLine(Operator, e, "done", FALSE) /\ adopting' = adopting /\ ~ Cut
    BY <1>2 DEF Repair
  <2>2. e \in Line /\ e.ev = "seen"
    <3>1. Unacked(lines) \in SUBSET Nat
      BY <1>0 DEF Unacked
    <3> QED BY <3>1, LinesAreLines
  <2> HIDE DEF e
  <2>3. Used(Append(Ended, e)) = Used(Ended)
    BY <1>1, <2>2, QuietLine
  <2>4. Proper(Operator, "done")
    BY DEF Proper
  <2> QED BY <2>1, <2>2, <2>3, <2>4, IdleLineBacked
<1>3. ASSUME NEW a \in Ids, RefuseCall(a) PROVE Backed'
  <2>1. /\ WriteLine(a, RefuseLine, "refused", FALSE) /\ adopting' = adopting /\ Proper(a, "refused")
        /\ Problem = "none"
    BY <1>3 DEF RefuseCall, Turn, Proper
  <2>2. RefuseLine \in Line /\ RefuseLine.ev = "refuse"
    BY LinesAreLines
  <2>3. Used(Append(Ended, RefuseLine)) = Used(Ended)
    BY <1>1, <2>2, QuietLine
  <2>4. ~ Cut
    BY <2>1, DiagnosedSound DEF Problem, Cut
  <2> QED BY <2>1, <2>2, <2>3, <2>4, <1>3, IdleLineBacked
<1>4. ASSUME NEW a \in Ids, NEW b \in Ids, ExpireCall(a, b) PROVE Backed'
  <2>1. /\ WriteLine(a, ExpireLine(b), "new", FALSE) /\ adopting' = adopting /\ Proper(a, "new")
        /\ Problem = "none" /\ b \in Open(lines)
    BY <1>4 DEF ExpireCall, Turn, Proper
  <2>2. ExpireLine(b) \in Line
    BY <1>4, LinesAreLines
  <2>3. Used(Append(Ended, ExpireLine(b))) = Used(Ended)
    <3>1. b \in Open(Ended)
      BY <1>1, <2>1 DEF Open
    <3> QED BY <3>1, <1>1, ExpireMore
  <2>4. ~ Cut
    BY <2>1, DiagnosedSound DEF Problem, Cut
  <2> QED BY <2>1, <2>2, <2>3, <2>4, <1>4, IdleLineBacked
<1> QED BY <1>2, <1>3, <1>4

LEMMA SettleBacked ==
  ASSUME FileShape, FileShape', Backed, NEW a \in Ids, SettleCall(a), ~ regrown'
  PROVE  Backed'
<1> DEFINE e == CommitLine(a, bill[a])
<1>1. /\ WriteLine(a, e, "settled", FALSE) /\ adopting' = adopting /\ ~ Cut /\ Proper(a, "settled")
      /\ a \in {Operator} \cup Ids
  BY DEF SettleCall, Proper
<1>2. bill[a] \in 0..WorstCost /\ WorstCost \in Nat
  BY FileNumbers DEF FileShape, FileTypeOK
<1>3. e \in Line
  BY <1>2, LinesAreLines
<1>4. Ended \in Seq(Line)
  BY <1>1, <1>3, WriteTypes
<1>5. Used(Append(Ended, e)) >= Used(Ended) - (WorstCost - bill[a])
  BY <1>2, <1>4, CommitMore
<1> HIDE DEF e
<1>6. Used(Ended) \in Nat /\ Used(Append(Ended, e)) \in Nat /\ Needed \in Nat
  BY <1>3, <1>4, OneMore, UsedIsClaims, NeedNow DEF FileShape
<1>7. Needed' = Needed + bill[a] - WorstCost
  <2>1. Need'[a] = bill[a] /\ Need[a] = WorstCost /\ \A b \in Ids : b # a => Need'[b] = Need[b]
    <3>1. "settled" # "granted"
      OBVIOUS
    <3> QED BY <3>1, <1>1, <1>3, WriteNeed
  <2>2. Needed' = Needed + Need'[a] - Need[a]
    BY <2>1, NeedOne DEF FileShape
  <2> QED BY <2>1, <2>2
<1>8. Needed' <= Needed /\ Used(Append(Ended, e)) >= Used(Ended) - (Needed - Needed') + 0
  BY <1>2, <1>5, <1>6, <1>7
<1>9. (IF "settled" = "granted" THEN WorstCost ELSE 0) = 0
  OBVIOUS
<1> QED BY <1>1, <1>3, <1>8, <1>9, WriteBacked
\* An adopted ledger has what the watermark remembers, whatever it had lost.
LEMMA AdoptBacked ==
  ASSUME FileShape, FileShape', Backed, Adopt
  PROVE  Backed'
<1> DEFINE e == AdoptLine(Missing)
<1>1. WriteLine(Operator, e, "done", TRUE) /\ adopting' = TRUE /\ Operator \in {Operator} \cup Ids
      /\ Proper(Operator, "done")
  BY DEF Adopt, Proper
<1>2. /\ FileTypeOK /\ lines \in Seq(Line) /\ dangling \in BOOLEAN /\ made \in Nat /\ mark \in Mark(made)
      /\ Used(lines) \in Nat /\ Needed \in Nat
  <2>1. FileTypeOK
    BY DEF FileShape
  <2>2. lines \in Seq(Line) /\ dangling \in BOOLEAN /\ made \in Nat /\ mark \in Mark(made)
    BY <2>1, FileNumbers DEF FileTypeOK
  <2> QED BY <2>1, <2>2, NeedNow, UsedIsClaims
<1>3. Known(mark) => mark.committed \in Nat /\ mark.open \in Nat /\ mark.committed + mark.open >= Needed
  BY <1>2, KnownMark DEF Backed, MarkInv
<1>4. ~ Known(mark) => Needed = 0
  BY DEF Backed, MarkInv
<1>5. Missing \in Nat /\ Used(lines) + Missing >= Needed
  <2>1. CASE ~ Known(mark)
    BY <2>1, <1>2, <1>4 DEF Missing
  <2>2. CASE Known(mark)
    <3>1. PICK c \in Nat : c = mark.committed + mark.open
      BY <2>2, <1>3
    <3>2. Missing = IF mark.id # path THEN c ELSE IF c > Used(lines) THEN c - Used(lines) ELSE 0
      BY <2>2, <3>1 DEF Missing
    <3>3. c >= Needed
      BY <2>2, <3>1, <1>3
    <3> QED BY <3>2, <3>3, <1>2
  <2> QED BY <2>1, <2>2
<1>6. e \in Line
  BY <1>5, LinesAreLines
<1>7. /\ Ended \in Seq(Line) /\ lines' = Append(Ended, e) /\ lines' \in Seq(Line)
      /\ path' = path /\ path \in 1..made /\ mark' = mark /\ Used(Ended) = Used(lines)
  BY <1>1, <1>2, <1>6, WriteTypes
<1>8. Used(lines') = Used(lines) + Missing
  BY <1>5, <1>7, AdoptMore
<1> HIDE DEF e
<1>9. Needed' = Needed
  <2>1. \A b \in Ids : Operator # b
    BY <1>2, NobodyWrites
  <2>2. \A b \in Ids : Need'[b] = Need[b]
    BY <1>1, <1>6, <2>1, WriteNeed
  <2>3. Need' = Need
    BY <2>2 DEF Need
  <2> QED BY <2>3 DEF Needed
<1>10. Used(lines') >= Needed'
  BY <1>5, <1>8, <1>9
<1>11. MarkInv'
  BY <1>7, <1>9 DEF Backed, MarkInv
<1>12. PendingInv'
  <2>1. writer' = [who |-> Operator, then |-> "done", mark |-> Snapshot(path, lines')]
    BY <1>1 DEF WriteLine
  <2>2. writer'.mark = Snapshot(path, lines') /\ writer'.then = "done"
    BY <2>1
  <2>3. Snapshot(path, lines').committed + Snapshot(path, lines').open = Used(lines')
    BY <1>2, <1>7, SnapshotIsMark
  <2>4. Used(lines') >= Needed' + 0
    BY <1>2, <1>9, <1>10
  <2> QED BY <2>2, <2>3, <2>4 DEF PendingInv
<1>13. LedgerInv'
  <2>1. ASSUME NEW n \in 0..Len(lines'), adopting' => n = Len(lines')
        PROVE  Used(SubSeq(lines', 1, n)) >= Needed'
    <3>1. n = Len(lines')
      BY <1>1, <2>1
    <3>2. SubSeq(lines', 1, n) = lines'
      BY <3>1, <1>7, SubSeqFull
    <3> QED BY <3>2, <1>10
  <2> QED BY <2>1 DEF LedgerInv, GoodPrefixes
<1> QED BY <1>11, <1>12, <1>13 DEF Backed

LEMMA MoveMarkBacked ==
  ASSUME FileShape, FileShape', Backed, MoveMark
  PROVE  Backed'
<1>1. /\ ~ Idle /\ mark' = writer.mark /\ writer' = NoWriter /\ adopting' = FALSE
      /\ stage' = IF writer.who = Operator THEN stage ELSE [stage EXCEPT ![writer.who] = writer.then]
      /\ path' = path /\ made' = made /\ lines' = lines /\ bill' = bill
  BY DEF MoveMark, fileVars
<1>2. /\ FileTypeOK /\ FileTypeOK' /\ lines \in Seq(Line) /\ stage \in [Ids -> Stages] /\ made \in Nat
      /\ bill \in [Ids -> 0..WorstCost] /\ WorstCost \in Nat /\ Needed \in Nat
      /\ path \in 0..made /\ writer.who # -1
  <2>1. FileTypeOK /\ FileTypeOK'
    BY DEF FileShape
  <2>2. /\ lines \in Seq(Line) /\ stage \in [Ids -> Stages] /\ made \in Nat
        /\ bill \in [Ids -> 0..WorstCost] /\ WorstCost \in Nat /\ path \in 0..made
    BY <2>1, FileNumbers DEF FileTypeOK
  <2> QED BY <1>1, <2>1, <2>2, NobodyWrites, NeedNow
<1>3. /\ \/ writer.who = Operator /\ writer.then = "done"
         \/ writer.who \in Ids /\ writer.then \in {"granted", "refused", "new"} /\ stage[writer.who] = "new"
         \/ writer.who \in Ids /\ writer.then = "settled" /\ stage[writer.who] = "sent"
      /\ writer.mark \in [id : 1..made, size : Nat, committed : Nat, open : Nat]
      /\ path # NoFile => writer.mark = Snapshot(path, lines)
  BY <1>1 DEF FileShape, WriterInv
<1> DEFINE grant == IF writer.then = "granted" THEN WorstCost ELSE 0
<1>4. writer.mark.committed + writer.mark.open >= Needed + grant
  BY <1>1 DEF Backed, PendingInv
<1>5. Needed' = Needed + grant
  <2>1. writer'.who = -1 /\ \A b \in Ids : b # -1 /\ b # Operator
    BY <1>1, <1>2, NobodyWrites DEF NoWriter
  <2>2. \A b \in Ids : b # writer.who => (InFlight(b)' <=> InFlight(b))
    BY <1>1, <1>2, <2>1 DEF InFlight
  <2>3. CASE writer.who = Operator
    <3>1. Need' = Need
      BY <2>1, <2>2, <2>3, <1>1 DEF Need
    <3>2. writer.then # "granted"
      BY <2>1, <2>3, <1>3
    <3> QED BY <3>1, <3>2, <1>2 DEF Needed
  <2>4. CASE writer.who \in Ids
    <3>0. PICK w \in Ids : w = writer.who
      BY <2>4
    <3>1. stage'[w] = writer.then /\ ~ InFlight(w)
      BY <3>0, <2>1, <1>1, <1>2 DEF InFlight
    <3>2. InFlight(w)' <=> writer.then = "granted"
      BY <3>0, <2>1, <3>1, <1>3 DEF InFlight
    <3>3. \A b \in Ids : b # w => Need'[b] = Need[b]
      BY <3>0, <2>2, <1>1 DEF Need
    <3>4. Need[w] = bill[w] /\ Need'[w] = IF writer.then = "granted" THEN WorstCost ELSE bill[w]
      BY <3>1, <3>2, <1>1 DEF Need
    <3>5. writer.then = "granted" => bill[w] = 0
      BY <3>0, <2>1, <1>3 DEF FileShape, UnsentInv
    <3>6. Needed' = Needed + Need'[w] - Need[w]
      BY <3>3, <1>2, NeedOne
    <3>7. bill[w] \in Nat
      BY <1>2
    <3> QED BY <3>4, <3>5, <3>6, <3>7, <1>2
  <2> QED BY <2>3, <2>4, <1>3
<1> HIDE DEF grant
<1>6. mark'.committed + mark'.open >= Needed'
  BY <1>1, <1>4, <1>5
<1>7. MarkInv'
  <2>1. Known(mark')
    BY <1>1, <1>2, <1>3, KnownMark DEF Mark
  <2>2. mark' # BadMark
    BY <2>1 DEF Known
  <2> QED BY <2>1, <2>2, <1>6 DEF MarkInv
<1>8. PendingInv'
  BY <1>1 DEF PendingInv, Idle
<1>9. LedgerInv'
  <2> SUFFICES ASSUME path # NoFile PROVE GoodPrefixes(lines, mark'.size, Needed', FALSE)
    BY <1>1 DEF LedgerInv
  <2>1. path \in 1..made
    BY <1>2 DEF NoFile
  <2>2. mark' = Snapshot(path, lines)
    BY <1>1, <1>3
  <2>3. mark'.size = Size(lines, FALSE) /\ Used(lines) >= Needed'
    <3>1. Snapshot(path, lines).size = Size(lines, FALSE)
          /\ Snapshot(path, lines).committed + Snapshot(path, lines).open = Used(lines)
      BY <2>1, <1>2, SnapshotIsMark
    <3> QED BY <2>2, <3>1, <1>6
  <2>4. ASSUME NEW n \in 0..Len(lines), Size(SubSeq(lines, 1, n), TRUE) >= mark'.size
        PROVE  Used(SubSeq(lines, 1, n)) >= Needed'
    <3>1. SubSeq(lines, 1, n) \in Seq(Line)
          /\ Size(SubSeq(lines, 1, n), FALSE) <= Size(lines, FALSE) - 2 * (Len(lines) - n)
      BY <1>2, ShorterPrefix
    <3>2. /\ Size(SubSeq(lines, 1, n), FALSE) \in Nat /\ Size(lines, FALSE) \in Nat /\ Len(lines) \in Nat
          /\ Size(SubSeq(lines, 1, n), TRUE) = Size(SubSeq(lines, 1, n), FALSE) + 1
      BY <1>2, <3>1, SizeNat
    <3>3. n \in Nat /\ n <= Len(lines)
      BY <3>2
    <3>4. PICK x \in Nat, y \in Nat, l \in Nat, k \in Nat :
            x = Size(SubSeq(lines, 1, n), FALSE) /\ y = Size(lines, FALSE) /\ l = Len(lines) /\ k = n
      BY <3>2, <3>3
    <3>5. x <= y - 2 * (l - k) /\ x + 1 >= y /\ k <= l
      BY <2>3, <2>4, <3>1, <3>2, <3>3, <3>4
    <3>6. k = l
      BY <3>5
    <3>7. SubSeq(lines, 1, n) = lines
      BY <3>4, <3>6, <1>2, SubSeqFull
    <3> QED BY <3>7, <2>3
  <2> QED BY <2>4 DEF GoodPrefixes
<1> QED BY <1>7, <1>8, <1>9 DEF Backed
LEMMA CallBacked ==
  ASSUME FileShape, FileShape', Backed, NEW a \in Ids, SendCall(a) \/ GiveUp(a)
  PROVE  Backed'
<1>1. UNCHANGED <<path, made, lines, dangling, mark, writer, damages, adopting, regrown, forgotten>>
  BY DEF SendCall, GiveUp, fileVars, harmVars
<1>2. /\ FileTypeOK /\ FileTypeOK' /\ stage \in [Ids -> Stages] /\ bill \in [Ids -> 0..WorstCost]
      /\ WorstCost \in Nat /\ Needed \in Nat
  <2>1. FileTypeOK /\ FileTypeOK'
    BY DEF FileShape
  <2>2. stage \in [Ids -> Stages] /\ bill \in [Ids -> 0..WorstCost]
    BY <2>1 DEF FileTypeOK
  <2> QED BY <2>1, <2>2, NeedNow, FileNumbers
<1>3. writer.who = a => stage[a] # "granted"
  <2>1. writer.who = a => ~ Idle /\ a # Operator
    BY <1>2, NobodyWrites
  <2> QED BY <2>1 DEF FileShape, WriterInv
<1>4. \A b \in Ids : b # a => Need'[b] = Need[b]
  BY <1>1, <1>2 DEF SendCall, GiveUp, Need, InFlight
<1>5. CASE SendCall(a)
  <2>1. stage[a] = "granted" /\ stage' = [stage EXCEPT ![a] = "sent"]
    BY <1>5 DEF SendCall
  <2>2. InFlight(a) /\ InFlight(a)'
    BY <2>1, <1>1, <1>2, <1>3 DEF InFlight
  <2>3. Need'[a] = Need[a]
    BY <2>2 DEF Need
  <2>4. Need' = Need
    BY <2>3, <1>4 DEF Need
  <2>5. Needed' <= Needed
    BY <2>4, <1>2 DEF Needed
  <2> QED BY <2>5, <1>1, SameFileBacked
<1>6. CASE GiveUp(a)
  <2>1. Need'[a] = bill[a] /\ Need[a] = WorstCost
    <3>1. stage[a] = "sent" /\ writer.who # a /\ stage' = [stage EXCEPT ![a] = "unsettled"] /\ bill' = bill
      BY <1>6 DEF GiveUp
    <3>2. InFlight(a) /\ ~ InFlight(a)'
      BY <3>1, <1>2 DEF InFlight
    <3> QED BY <3>1, <3>2 DEF Need
  <2>2. Needed' = Needed + Need'[a] - Need[a]
    BY <1>2, <1>4, NeedOne
  <2>3. bill[a] \in 0..WorstCost
    BY <1>2
  <2>4. Needed' <= Needed
    BY <2>1, <2>2, <2>3, <1>2
  <2> QED BY <2>4, <1>1, SameFileBacked
<1> QED BY <1>5, <1>6

LEMMA DeadNeed ==
  ASSUME FileShape, FileShape', NEW a \in Ids,
         stage' = [stage EXCEPT ![a] = "dead"], bill' = bill, writer' = writer
  PROVE  Needed' <= Needed /\ Needed \in Nat /\ Needed' \in Nat
<1>1. /\ FileTypeOK /\ FileTypeOK' /\ stage \in [Ids -> Stages] /\ bill \in [Ids -> 0..WorstCost]
      /\ WorstCost \in Nat /\ Needed \in Nat /\ Needed' \in Nat
  <2>1. FileTypeOK /\ FileTypeOK'
    BY DEF FileShape
  <2>2. stage \in [Ids -> Stages] /\ bill \in [Ids -> 0..WorstCost]
    BY <2>1 DEF FileTypeOK
  <2> QED BY <2>1, <2>2, NeedNow, NeedNext, FileNumbers
<1>2. \A b \in Ids : b # a => Need'[b] = Need[b]
  BY <1>1 DEF Need, InFlight
<1>3. Need'[a] = bill[a] /\ (Need[a] = bill[a] \/ Need[a] = WorstCost)
  BY <1>1 DEF Need, InFlight
<1>4. Needed' = Needed + Need'[a] - Need[a]
  BY <1>1, <1>2, NeedOne
<1>5. bill[a] \in 0..WorstCost
  BY <1>1
<1> QED BY <1>1, <1>3, <1>4, <1>5

LEMMA CrashBacked ==
  ASSUME FileShape, FileShape', Backed, CrashAfterAppend
  PROVE  Backed'
<1>1. /\ ~ Idle /\ writer' = NoWriter
      /\ stage' = IF writer.who = Operator THEN stage ELSE [stage EXCEPT ![writer.who] = "dead"]
      /\ UNCHANGED <<path, made, lines, dangling, mark, bill, adopting, regrown, forgotten>>
  BY DEF CrashAfterAppend, fileVars
<1>2. /\ FileTypeOK /\ stage \in [Ids -> Stages] /\ Needed \in Nat /\ writer.who \in {Operator} \cup Ids
      /\ \A b \in Ids : b # -1 /\ b # Operator
  <2>1. FileTypeOK
    BY DEF FileShape
  <2>2. stage \in [Ids -> Stages]
    BY <2>1 DEF FileTypeOK
  <2> QED BY <1>1, <2>1, <2>2, NobodyWrites, NeedNow
<1>3. writer'.who = -1
  BY <1>1 DEF NoWriter
<1>4. ASSUME NEW b \in Ids PROVE InFlight(b)' <=> InFlight(b)
  <2>1. CASE writer.who = b
    <3>1. stage'[b] = "dead"
      BY <2>1, <1>1, <1>2
    <3> QED BY <2>1, <3>1 DEF InFlight
  <2>2. CASE writer.who # b
    <3>1. stage'[b] = stage[b] /\ writer'.who # b
      BY <2>2, <1>1, <1>2, <1>3
    <3> QED BY <2>2, <3>1 DEF InFlight
  <2> QED BY <2>1, <2>2
<1>5. Needed' = Needed
  BY <1>1, <1>4, NeedSame
<1>6. Needed' <= Needed
  BY <1>2, <1>5
<1> QED BY <1>1, <1>6, SameFileBacked

LEMMA InitFileBacked ==
  ASSUME FileShape, FileShape', Backed, InitFile
  PROVE  Backed'
<1>1. /\ Idle /\ path' = made + 1 /\ made' = made + 1 /\ lines' = <<InitLine>>
      /\ writer' = (IF mark = NoMark THEN Writing(Snapshot(path', lines')) ELSE NoWriter)
      /\ UNCHANGED <<mark, stage, bill, damages, adopting, regrown, forgotten>>
  BY DEF InitFile, MakeFile, harmVars
<1>2. /\ FileTypeOK /\ made \in Nat /\ mark \in Mark(made) /\ Needed \in Nat
  <2>1. FileTypeOK
    BY DEF FileShape
  <2>2. made \in Nat /\ mark \in Mark(made)
    BY <2>1, FileNumbers DEF FileTypeOK
  <2> QED BY <2>1, <2>2, NeedNow
<1>3. \A b \in Ids : writer.who # b /\ writer'.who # b
  <2>1. writer'.who = Operator \/ writer'.who = -1
    BY <1>1 DEF Writing, NoWriter
  <2> QED BY <2>1, <1>1, <1>2, NobodyWrites
<1>4. Needed' = Needed
  <2>1. \A b \in Ids : (InFlight(b)' <=> InFlight(b)) /\ bill'[b] = bill[b]
    BY <1>1, <1>3 DEF InFlight
  <2> QED BY <2>1, NeedSame
<1>5. MarkInv'
  BY <1>1, <1>4 DEF Backed, MarkInv
<1>6. PendingInv'
  <2>1. CASE mark = NoMark
    <3>1. Needed' = 0
      BY <2>1, <1>4 DEF Backed, MarkInv, Known
    <3>2. writer' = [who |-> Operator, then |-> "done", mark |-> Snapshot(path', lines')]
      BY <2>1, <1>1 DEF Writing
    <3>3. writer'.then = "done" /\ writer'.mark = Snapshot(path', lines')
      BY <3>2
    <3>4. writer'.mark.committed + writer'.mark.open \in Nat
      <4>1. lines' \in Seq(Line) /\ made' \in Nat /\ path' \in 1..made'
        BY <1>1, <1>2, LinesAreLines
      <4>2. Snapshot(path', lines').committed + Snapshot(path', lines').open = Used(lines')
        BY <4>1, SnapshotIsMark
      <4> QED BY <3>3, <4>1, <4>2, UsedIsClaims
    <3>5. writer'.mark.committed + writer'.mark.open >= Needed' + 0
      BY <3>1, <3>4
    <3> QED BY <3>3, <3>5 DEF PendingInv
  <2>2. CASE mark # NoMark
    BY <2>2, <1>1 DEF PendingInv, Idle
  <2> QED BY <2>1, <2>2
<1>7. LedgerInv'
  <2>1. Known(mark) => mark.id <= made /\ mark.id \in Nat
    BY <1>2, KnownMark
  <2>2. Known(mark) => mark.id # path'
    BY <2>1, <1>1, <1>2
  <2> QED BY <2>2, <1>1 DEF LedgerInv
<1> QED BY <1>5, <1>6, <1>7 DEF Backed

LEMMA CutFileBacked ==
  ASSUME FileShape, FileShape', Backed, CutFile, ~ regrown'
  PROVE  Backed'
<1>1. /\ UNCHANGED <<path, made, mark, writer, stage, bill, adopting, forgotten>>
      /\ ~ (adopting /\ Known(mark) /\ mark.id = path)
  BY DEF CutFile
<1>2. lines \in Seq(Line) /\ Len(lines) \in Nat
  BY DEF FileShape, FileTypeOK
<1>3. PICK k \in 0..(Len(lines) - 1) : lines' = SubSeq(lines, 1, k)
  BY DEF CutFile
<1>4. k \in Nat /\ k <= Len(lines) /\ \A i \in 1..k : lines[i] \in Line
  BY <1>2, <1>3
<1>5. lines' \in Seq(Line) /\ Len(lines') = k /\ \A i \in 1..k : lines'[i] = lines[i]
  BY <1>3, <1>4, SubSeqProperties
<1>6. Needed' = Needed
  BY <1>1, NeedSame DEF InFlight
<1>7. MarkInv' /\ PendingInv'
  BY <1>1, <1>6 DEF Backed, MarkInv, PendingInv, Idle
<1>8. LedgerInv'
  <2> SUFFICES ASSUME path # NoFile, Known(mark), mark.id = path
               PROVE  GoodPrefixes(lines', mark.size, Needed, adopting)
    BY <1>1, <1>6 DEF LedgerInv
  <2>1. GoodPrefixes(lines, mark.size, Needed, adopting) /\ ~ adopting
    BY <1>1 DEF Backed, LedgerInv
  <2>2. ASSUME NEW n \in 0..k PROVE n \in 0..Len(lines) /\ SubSeq(lines', 1, n) = SubSeq(lines, 1, n)
    <3> DEFINE p == SubSeq(lines', 1, n)
               q == SubSeq(lines, 1, n)
    <3>1. n \in 0..Len(lines) /\ n \in Nat /\ n <= k
      BY <1>2, <1>4
    <3>2. \A i \in 1..n : lines[i] \in Line /\ lines'[i] = lines[i]
      BY <3>1, <1>4, <1>5
    <3>3. /\ p \in Seq(Line) /\ Len(p) = n /\ \A i \in 1..n : p[i] = lines'[i]
          /\ q \in Seq(Line) /\ Len(q) = n /\ \A i \in 1..n : q[i] = lines[i]
      BY <3>1, <3>2, SubSeqProperties
    <3> HIDE DEF p, q
    <3>4. p = q
      BY <3>2, <3>3, SeqEqual
    <3> QED BY <3>1, <3>4 DEF p, q
  <2> QED BY <2>1, <2>2, <1>5 DEF GoodPrefixes
<1> QED BY <1>7, <1>8 DEF Backed

\* A cut line of a process that died changes nothing either, on a ledger that
\* is not cut.
LEMMA DieBacked ==
  ASSUME FileShape, FileShape', Backed, NEW a \in Ids, Die(a), ~ regrown'
  PROVE  Backed'
<1>1. /\ stage' = [stage EXCEPT ![a] = "dead"]
      /\ UNCHANGED <<path, made, mark, writer, bill, adopting, forgotten>>
      /\ \/ lines' = lines
         \/ /\ Idle /\ ~ Cut
            /\ lines' \in {lines, Append(lines, BadLine), Ended}
  BY DieLines
<1>2. Needed' <= Needed /\ Needed \in Nat /\ Needed' \in Nat
  BY <1>1, DeadNeed
<1>3. CASE lines' = lines
  BY <1>1, <1>2, <1>3, SameFileBacked
<1>4. CASE Idle /\ ~ Cut /\ lines' \in {Append(lines, BadLine), Ended}
  <2>1. lines \in Seq(Line) /\ dangling \in BOOLEAN /\ made \in Nat /\ mark \in Mark(made)
    BY FileNumbers DEF FileShape, FileTypeOK
  <2>2. MarkInv'
    <3>1. Known(mark) => mark.committed \in Nat /\ mark.open \in Nat
      BY <2>1, KnownMark
    <3> QED BY <3>1, <1>1, <1>2 DEF Backed, MarkInv
  <2>3. PendingInv'
    BY <1>1, <1>4 DEF PendingInv, Idle
  <2>4. LedgerInv'
    <3> SUFFICES ASSUME path # NoFile, Known(mark), mark.id = path
                 PROVE  GoodPrefixes(lines', mark.size, Needed', adopting)
      BY <1>1 DEF LedgerInv
    <3>1. GoodPrefixes(lines, mark.size, Needed, adopting)
      BY DEF Backed, LedgerInv
    <3>2. Used(lines) >= Needed
      BY <1>4, SoundIsGood
    <3>3. GoodPrefixes(lines', mark.size, Needed, adopting)
      BY <1>4, <1>2, <2>1, <3>1, <3>2, EndedIsGood
    <3>4. \A n \in 0..Len(lines') : Used(SubSeq(lines', 1, n)) \in Nat
      <4>1. lines' \in Seq(Line)
        BY DEF FileShape, FileTypeOK
      <4> QED BY <4>1, ShorterPrefix, UsedIsClaims
    <3>5. \A n \in 0..Len(lines') : Used(SubSeq(lines', 1, n)) >= Needed => Used(SubSeq(lines', 1, n)) >= Needed'
      BY <3>4, <1>2
    <3> QED BY <3>3, <3>5 DEF GoodPrefixes
  <2> QED BY <2>2, <2>3, <2>4 DEF Backed
<1> QED BY <1>1, <1>3, <1>4
-----------------------------------------------------------------------------
(* the file invariant holds                                                *)

\* What was done to a file is not forgotten.
LEMMA HistoryKept ==
  ASSUME [FileNext]_ledgerVars, regrown \/ forgotten
  PROVE  regrown' \/ forgotten'
<1>1. ASSUME NEW a \in Ids, CallSteps(a) PROVE regrown' \/ forgotten'
  <2>1. CASE ReserveCall(a) BY <2>1 DEF ReserveCall, WriteLine
  <2>2. CASE RefuseCall(a) BY <2>2 DEF RefuseCall, WriteLine
  <2>3. CASE SettleCall(a) BY <2>3 DEF SettleCall, WriteLine
  <2>4. CASE SendCall(a) \/ GiveUp(a) BY <2>4 DEF SendCall, GiveUp, harmVars
  <2>5. ASSUME NEW b \in Ids, ExpireCall(a, b) PROVE regrown' \/ forgotten'
    BY <2>5 DEF ExpireCall, WriteLine
  <2> QED BY <1>1, <2>1, <2>2, <2>3, <2>4, <2>5 DEF CallSteps
<1>2. CASE Repair BY <1>2 DEF Repair, WriteLine
<1>3. CASE Adopt BY <1>3 DEF Adopt, WriteLine
<1>4. CASE InitFile \/ MoveAside BY <1>4 DEF InitFile, MoveAside, harmVars
<1>5. CASE MoveMark BY <1>5 DEF MoveMark
<1>6. CASE Lose \/ CutFile \/ Scramble BY <1>6 DEF Lose, CutFile, Scramble
<1>7. CASE LoseMark \/ CrashAfterAppend BY <1>7 DEF LoseMark, CrashAfterAppend
<1>8. ASSUME NEW a \in Ids, Die(a) PROVE regrown' \/ forgotten'
  <2>1. forgotten' = forgotten
    BY <1>8, Zenon DEF Die
  <2>2. regrown' = regrown \/ regrown' = (regrown \/ Cut)
    BY <1>8, Zenon DEF Die
  <2> QED BY <2>1, <2>2, Zenon
<1>9. CASE UNCHANGED ledgerVars BY <1>9 DEF ledgerVars, harmVars
<1> QED
  BY <1>1, <1>2, <1>3, <1>4, <1>5, <1>6, <1>7, <1>8, <1>9 DEF FileNext, Commands, Harms

LEMMA BackedStep ==
  ASSUME FileShape, FileShape', Backed, [FileNext]_ledgerVars, ~ regrown', ~ forgotten'
  PROVE  Backed'
<1>1. ASSUME NEW a \in Ids, CallSteps(a) PROVE Backed'
  <2>1. CASE ReserveCall(a) BY <2>1, ReserveBacked
  <2>2. CASE RefuseCall(a) BY <2>2, QuietBacked
  <2>3. CASE SettleCall(a) BY <2>3, SettleBacked
  <2>4. CASE SendCall(a) \/ GiveUp(a) BY <2>4, CallBacked
  <2>5. ASSUME NEW b \in Ids, ExpireCall(a, b) PROVE Backed'
    BY <2>5, QuietBacked
  <2> QED BY <1>1, <2>1, <2>2, <2>3, <2>4, <2>5 DEF CallSteps
<1>2. CASE Repair BY <1>2, QuietBacked
<1>3. CASE Adopt BY <1>3, AdoptBacked
<1>4. CASE InitFile BY <1>4, InitFileBacked
<1>5. CASE MoveMark BY <1>5, MoveMarkBacked
<1>6. CASE MoveAside \/ Lose
  <2>1. UNCHANGED <<made, mark, writer, stage, bill, adopting>> /\ path' = NoFile
    BY <1>6 DEF MoveAside, Lose, harmVars
  <2>2. Needed' = Needed
    BY <2>1, NeedSame DEF InFlight
  <2>3. Needed' <= Needed
    BY <2>2, NeedNow DEF FileShape
  <2> QED BY <2>1, <2>3, SameFileBacked
<1>7. CASE CutFile BY <1>7, CutFileBacked
<1>8. CASE Scramble \/ LoseMark BY <1>8 DEF Scramble, LoseMark
<1>9. CASE CrashAfterAppend BY <1>9, CrashBacked
<1>10. ASSUME NEW a \in Ids, Die(a) PROVE Backed'
  BY <1>10, DieBacked
<1>11. CASE UNCHANGED ledgerVars
  <2>1. UNCHANGED <<path, made, lines, mark, writer, stage, bill, adopting>>
    BY <1>11 DEF ledgerVars, fileVars, harmVars
  <2>2. Needed' = Needed
    BY <2>1, NeedSame DEF InFlight
  <2>3. Needed' <= Needed
    BY <2>2, NeedNow DEF FileShape
  <2> QED BY <2>1, <2>3, SameFileBacked
<1> QED
  BY <1>1, <1>2, <1>3, <1>4, <1>5, <1>6, <1>7, <1>8, <1>9, <1>10, <1>11
     DEF FileNext, Commands, Harms

\* Whatever befalls the file, the watermark or a process that writes (_append,
\* _diagnose, the commands of spend_cli), the file or the watermark accounts
\* for what is needed.
THEOREM FileInductive == FileSpec => []FileInv
<1>1. FileInit => FileInv
  <2> SUFFICES ASSUME FileInit PROVE FileInv
    OBVIOUS
  <2>0. /\ path = 0 /\ made = 0 /\ lines = <<>> /\ dangling = FALSE /\ mark = NoMark /\ writer = NoWriter
        /\ stage = [a \in Ids |-> "new"] /\ bill = [a \in Ids |-> 0] /\ damages = 0
        /\ adopting = FALSE /\ regrown = FALSE /\ forgotten = FALSE
    BY DEF FileInit, NoFile
  <2>1. <<>> \in Seq(Line) /\ DOMAIN <<>> = {}
    OBVIOUS
  <2>2. FileTypeOK
    <3>1. made \in 0..MaxFiles /\ path \in 0..made /\ damages \in 0..MaxDamages
      BY <2>0, FileNumbers
    <3>2. lines \in Seq(Line) /\ dangling \in BOOLEAN
      BY <2>0, <2>1
    <3>3. mark \in Mark(made)
      BY <2>0 DEF Mark
    <3>4. writer \in {NoWriter} \cup [who : {Operator} \cup Ids, then : {"done"} \cup Stages, mark : Mark(made)]
      BY <2>0
    <3>5. stage \in [Ids -> Stages]
      BY <2>0 DEF Stages
    <3>6. bill \in [Ids -> 0..WorstCost]
      BY <2>0, FileNumbers
    <3>7. {adopting, regrown, forgotten} \subseteq BOOLEAN
      BY <2>0
    <3> QED BY <3>1, <3>2, <3>3, <3>4, <3>5, <3>6, <3>7 DEF FileTypeOK
  <2>3. UnsentInv
    BY <2>0 DEF UnsentInv
  <2>4. NewInv
    <3> SUFFICES ASSUME NEW a \in Ids PROVE ~ Reserved(lines, a) /\ Settled(lines, a) = 0
      BY DEF NewInv
    <3>1. ~ Reserved(lines, a)
      BY <2>0, <2>1 DEF Reserved
    <3>2. SettledAt(lines, a) = {0}
      BY <2>0, <2>1 DEF SettledAt
    <3>3. Settled(lines, a) = 0
      BY <3>2, <2>0, <2>1, SettledIs
    <3> QED BY <3>1, <3>3
  <2>5. Idle
    BY <2>0 DEF Idle
  <2>6. WriterInv /\ PendingInv
    BY <2>5 DEF WriterInv, PendingInv
  <2>7. Needed = 0
    <3>1. \A a \in 1..Count : Need[a] = 0
      BY <2>0 DEF Need, InFlight, Ids
    <3> QED BY <3>1, FileNumbers, TotalZero DEF Needed
  <2>8. ~ Known(mark) /\ mark # BadMark
    <3>1. NoMark.id = 0 /\ BadMark.id = -1
      BY DEF NoMark, BadMark, NoFile
    <3> QED BY <2>0, <3>1 DEF Known
  <2>9. MarkInv /\ LedgerInv
    BY <2>7, <2>8 DEF MarkInv, LedgerInv
  <2> QED BY <2>2, <2>3, <2>4, <2>6, <2>9 DEF FileInv, FileShape, Backed
<1>2. FileInv /\ [FileNext]_ledgerVars => FileInv'
  <2> SUFFICES ASSUME FileInv, [FileNext]_ledgerVars PROVE FileInv'
    OBVIOUS
  <2>1. FileShape /\ FileShape'
    BY ShapeInductive DEF FileInv
  <2>2. ASSUME ~ regrown', ~ forgotten' PROVE Backed'
    <3>1. ~ regrown /\ ~ forgotten
      BY <2>2, HistoryKept
    <3>2. Backed
      BY <3>1 DEF FileInv
    <3> QED BY <2>1, <2>2, <3>2, BackedStep
  <2> QED BY <2>1, <2>2 DEF FileInv
<1> QED BY <1>1, <1>2, PTL DEF FileSpec

\* What is billed is needed.
LEMMA BilledIsNeeded ==
  ASSUME FileTypeOK
  PROVE  Billed <= Needed /\ Billed \in Nat /\ Needed \in Nat
<1>1. Count \in Nat /\ \A a \in 1..Count : bill[a] \in Nat /\ Need[a] \in Int /\ bill[a] <= Need[a]
  BY NeedNow, FileNumbers
<1>2. Billed \in Nat
  BY <1>1, TotalNat DEF Billed
<1> DEFINE w == Need
<1>3. \A a \in 1..Count : bill[a] \in Int /\ w[a] \in Int /\ bill[a] <= w[a]
  BY <1>1
<1> HIDE DEF w
<1>4. Total(bill, Count) <= Total(w, Count)
  BY <1>1, <1>3, TotalMonotone
<1> QED BY <1>2, <1>4, NeedNow DEF w, Billed, Needed

\* The only step that writes a reservation is the call that makes it.
LEMMA OnlyReserveGrants ==
  ASSUME FileShape, [FileNext]_ledgerVars, NEW a \in Ids, Granting(a)
  PROVE  ReserveCall(a)
<1>0. /\ lines \in Seq(Line) /\ dangling \in BOOLEAN /\ ~ Reserved(lines, a) /\ Reserved(lines', a)
      /\ \A b : Reserved(Ended, b) <=> Reserved(lines, b)
      /\ Ended \in Seq(Line)
  <2>1. lines \in Seq(Line) /\ dangling \in BOOLEAN
    BY DEF FileShape, FileTypeOK
  <2> QED BY <2>1, EndedFacts DEF Granting
<1>1. lines' # lines
  BY <1>0
<1>2. ASSUME NEW e \in Line, NEW who \in {Operator} \cup Ids, NEW then, NEW always,
             WriteLine(who, e, then, always)
      PROVE  e.ev = "reserve" /\ e.id = a
  <2>1. lines' = Append(Ended, e)
    BY <1>2, WriteTypes
  <2> QED BY <2>1, <1>0, <1>2, ReservedMore
<1>3. ASSUME NEW b \in Ids, CallSteps(b) PROVE ReserveCall(a)
  <2>0. b \in {Operator} \cup Ids
    BY <1>3
  <2>1. CASE ReserveCall(b)
    <3>1. WriteLine(b, ReserveLine(b), "granted", FALSE) /\ ReserveLine(b) \in Line /\ ReserveLine(b).id = b
      BY <2>1, LinesAreLines DEF ReserveCall
    <3>2. a = b
      BY <2>0, <3>1, <1>2
    <3> QED BY <2>1, <3>2
  <2>2. CASE RefuseCall(b)
    BY <2>0, <2>2, <1>2, LinesAreLines DEF RefuseCall
  <2>3. CASE SettleCall(b)
    <3>1. bill[b] \in 0..WorstCost
      BY DEF FileShape, FileTypeOK
    <3> QED BY <2>0, <2>3, <3>1, <1>2, LinesAreLines DEF SettleCall
  <2>4. CASE SendCall(b) \/ GiveUp(b)
    BY <2>4, <1>1 DEF SendCall, GiveUp, fileVars
  <2>5. ASSUME NEW c \in Ids, ExpireCall(b, c) PROVE FALSE
    BY <2>0, <2>5, <1>2, LinesAreLines DEF ExpireCall
  <2> QED BY <1>3, <2>1, <2>2, <2>3, <2>4, <2>5 DEF CallSteps
<1>4. CASE Repair
  <2>1. Unacked(lines) \in SUBSET Nat
    BY <1>0 DEF Unacked
  <2> QED BY <1>4, <2>1, <1>2, LinesAreLines DEF Repair
<1>5. CASE Adopt
  <2>1. Missing \in Nat
    <3>1. Used(lines) \in Nat /\ made \in Nat /\ mark \in Mark(made)
      BY <1>0, UsedIsClaims, FileNumbers DEF FileShape, FileTypeOK
    <3> QED BY <3>1, KnownMark DEF Missing
  <2> QED BY <1>5, <2>1, <1>2, LinesAreLines DEF Adopt
<1>6. CASE InitFile
  <2>1. lines' = <<InitLine>> /\ InitLine.ev = "init"
    BY <1>6, LinesAreLines DEF InitFile, MakeFile
  <2> QED BY <2>1, <1>0 DEF Reserved
<1>7. CASE MoveAside \/ Lose
  <2>1. lines' = <<>>
    BY <1>7 DEF MoveAside, Lose
  <2>2. DOMAIN <<>> = {}
    OBVIOUS
  <2> QED BY <2>1, <2>2, <1>0 DEF Reserved
<1>8. CASE CutFile
  <2>1. PICK k \in 0..(Len(lines) - 1) : lines' = SubSeq(lines, 1, k)
    BY <1>8 DEF CutFile
  <2>2. k \in Nat /\ k <= Len(lines) /\ Len(lines) \in Nat
    BY <2>1, <1>0
  <2>3. \A i \in 1..k : lines[i] \in Line /\ i \in DOMAIN lines
    BY <2>2, <1>0
  <2>4. DOMAIN lines' = 1..k /\ \A i \in 1..k : lines'[i] = lines[i]
    <3>1. lines' \in Seq(Line) /\ Len(lines') = k /\ \A i \in 1..k : lines'[i] = lines[i]
      BY <2>1, <2>2, <2>3, SubSeqProperties
    <3> QED BY <3>1
  <2> QED BY <2>3, <2>4, <1>0 DEF Reserved
<1>9. CASE Scramble
  <2>1. PICK k \in DOMAIN lines : lines' = [lines EXCEPT ![k] = BadLine]
    BY <1>9 DEF Scramble
  <2>2. BadLine.ev = "bad"
    BY LinesAreLines
  <2>3. \A i \in DOMAIN lines' : i \in DOMAIN lines /\ (lines'[i] = lines[i] \/ lines'[i].ev = "bad")
    BY <2>1, <2>2
  <2> QED BY <2>3, <1>0 DEF Reserved
<1>10. CASE LoseMark \/ CrashAfterAppend \/ MoveMark
  BY <1>10, <1>1 DEF LoseMark, CrashAfterAppend, MoveMark, fileVars
<1>11. ASSUME NEW b \in Ids, Die(b) PROVE FALSE
  <2>1. lines' \in {lines, Append(lines, BadLine), Ended}
    BY <1>11, DieLines
  <2>2. Reserved(Append(lines, BadLine), a) <=> Reserved(lines, a)
    BY <1>0, LinesAreLines, QuietLine
  <2> QED BY <2>1, <2>2, <1>0
<1>12. CASE UNCHANGED ledgerVars
  BY <1>12, <1>1 DEF ledgerVars, fileVars
<1> QED
  BY <1>3, <1>4, <1>5, <1>6, <1>7, <1>8, <1>9, <1>10, <1>11, <1>12 DEF FileNext, Commands, Harms

\* Whatever befell the ledger, reserve() grants a call only if the file accounts
\* for all the provider has billed: what was lost was adopted.
THEOREM LossIsCarriedHolds == FileSpec => LossIsCarried
<1>1. FileInv => FileTypeOK
  BY DEF FileInv, FileShape
<1>2. ASSUME FileInv, [FileNext]_ledgerVars
      PROVE  [\A a \in Ids : Granting(a) => regrown \/ forgotten \/ Used(lines) >= Billed]_ledgerVars
  <2> SUFFICES ASSUME NEW a \in Ids, Granting(a), ~ regrown, ~ forgotten PROVE Used(lines) >= Billed
    OBVIOUS
  <2>1. FileShape /\ Backed
    BY <1>2 DEF FileInv
  <2>2. ReserveCall(a)
    BY <1>2, <2>1, OnlyReserveGrants
  <2>3. Problem = "none" /\ ~ Cut /\ Used(lines) \in Nat
    BY <2>1, <2>2, ReserveKeepsSound DEF ReserveCall, Turn
  <2>4. path # NoFile /\ Known(mark) /\ mark.id = path
    BY <2>3, DiagnosedSound DEF Problem
  <2>5. Used(lines) >= Needed
    BY <2>1, <2>3, <2>4, SoundIsGood
  <2>6. Billed <= Needed /\ Billed \in Nat /\ Needed \in Nat
    BY <2>1, BilledIsNeeded DEF FileShape
  <2> QED BY <2>3, <2>5, <2>6
<1> QED BY <1>1, <1>2, FileInductive, PTL DEF FileSpec, LossIsCarried
=============================================================================
