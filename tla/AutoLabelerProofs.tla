-------------------------- MODULE AutoLabelerProofs --------------------------
(***************************************************************************)
(* Theorems about AutoLabeler for every number of clusters, drafts, asks   *)
(* and interruptions, every relabel list and every set of conversions:     *)
(* labels count the facts they were asked about, the settings are those of *)
(* a passed pre-flight, and what has ended is final.                       *)
(***************************************************************************)
EXTENDS AutoLabeler, FiniteSetTheorems, WellFoundedInduction, SequenceTheorems, TLAPS

-------------------------------------------------------------------------------
(* Units *)

\* The three questions about a draft (plan_a).
LEMMA KindsOfDrafts ==
  /\ DraftKinds = <<"output", "coverage", "tone">>
  /\ Range(DraftKinds) = {"output", "coverage", "tone"}
  /\ DOMAIN DraftKinds = 1..3
<1>1. DOMAIN DraftKinds = 1..3 BY DEF DraftKinds
<1>2. \A k \in 1..3 : DraftKinds[k] \in {"output", "coverage", "tone"} BY DEF DraftKinds
<1>3. DraftKinds[1] = "output" /\ DraftKinds[2] = "coverage" /\ DraftKinds[3] = "tone" BY DEF DraftKinds
<1> QED BY <1>1, <1>2, <1>3 DEF Range, DraftKinds

\* A question about a draft is a unit.
LEMMA UnitsOfDrafts ==
  ASSUME NEW r \in Runs, NEW k \in {"output", "coverage", "tone"}, NEW o \in Outputs
  PROVE  Unit(r, k, o) \in Units
BY KindsOfDrafts DEF Unit, Units

\* The question about a cluster is a unit.
LEMMA UnitsOfClusters ==
  ASSUME NEW r \in Runs, NEW i \in Items
  PROVE  Unit(r, "cluster", i) \in Units
BY DEF Unit, Units

\* A unit is given by its run, its kind and what it is about.
LEMMA UnitParts ==
  ASSUME NEW u \in Units
  PROVE  /\ u = Unit(u.run, u.kind, u.target) /\ u.run \in Runs
         /\ u.kind \in {"cluster", "output", "coverage", "tone"}
         /\ u.kind = "cluster" => u.target \in Items
         /\ u.kind # "cluster" => u.target \in Outputs
BY KindsOfDrafts DEF Unit, Units

-------------------------------------------------------------------------------
(* Numbers in order *)

\* Every nonempty set of naturals has a least element.
LEMMA LeastElement ==
  ASSUME NEW T \in SUBSET Nat, T # {}
  PROVE  \E m \in T : \A k \in T : m <= k
<1> DEFINE Segments == {1..k : k \in T}
<1>1. Segments \subseteq FiniteSubsetsOf(Nat)
  <2> SUFFICES ASSUME NEW k \in T PROVE 1..k \in FiniteSubsetsOf(Nat)
    OBVIOUS
  <2>1. IsFiniteSet(1..k)
    BY FS_Interval
  <2> QED BY <2>1 DEF FiniteSubsetsOf
<1>2. PICK s \in Segments : \A t \in Segments : ~ (<<t, s>> \in StrictSubsetOrdering(Nat))
  <2>1. IsWellFoundedOn(StrictSubsetOrdering(Nat), FiniteSubsetsOf(Nat))
    BY FS_StrictSubsetOrderingWellFounded
  <2>2. Segments # {}
    OBVIOUS
  <2> HIDE DEF Segments
  <2> QED BY <1>1, <2>1, <2>2, WFMin
<1>3. PICK m \in T : s = 1..m
  OBVIOUS
<1>4. ASSUME NEW k \in T, k < m PROVE FALSE
  <2>1. 1..k \subseteq 1..m /\ m \in 1..m /\ m \notin 1..k
    BY <1>4
  <2>2. <<1..k, 1..m>> \in StrictSubsetOrdering(Nat)
    BY <2>1 DEF StrictSubsetOrdering
  <2> QED BY <1>2, <1>3, <2>2
<1> QED BY <1>4

\* Min returns a member of a set of naturals.
LEMMA MinIsMember ==
  ASSUME NEW T \in SUBSET Nat, T # {}
  PROVE  Min(T) \in T
<1>1. PICK m \in T : \A k \in T : m <= k
  BY LeastElement
<1>2. \A k \in T : m =< k
  BY <1>1
<1> QED BY <1>2 DEF Min

\* Ranks are places, and no two numbers have the same.
LEMMA RankGrows ==
  ASSUME NEW S \in SUBSET Nat, IsFiniteSet(S)
  PROVE  /\ \A x \in S : Rank(x, S) \in 1..Cardinality(S)
         /\ \A x, y \in S : Rank(x, S) = Rank(y, S) => x = y
<1> DEFINE Upto(x) == {y \in S : y <= x}
<1>1. ASSUME NEW x \in S
      PROVE  IsFiniteSet(Upto(x)) /\ Cardinality(Upto(x)) \in 1..Cardinality(S)
  <2>1. Upto(x) \subseteq S OBVIOUS
  <2>2. IsFiniteSet(Upto(x)) /\ Cardinality(Upto(x)) <= Cardinality(S) BY <2>1, FS_Subset
  <2>3. x \in Upto(x) BY <1>1
  <2>4. Cardinality(Upto(x)) # 0 BY <2>2, <2>3, FS_EmptySet
  <2> QED BY <2>2, <2>4, FS_CardinalityType
<1>2. ASSUME NEW x \in S, NEW y \in S, x < y
      PROVE  Cardinality(Upto(x)) < Cardinality(Upto(y))
  <2>1. Upto(x) \subseteq Upto(y)
    <3>1. S \subseteq Nat OBVIOUS
    <3>2. \A z \in S : z <= x => z <= y BY <1>2, <3>1
    <3> QED BY <3>2
  <2>2. y \in Upto(y) /\ y \notin Upto(x) BY <1>2
  <2>3. IsFiniteSet(Upto(y)) /\ Cardinality(Upto(x)) \in Nat /\ Cardinality(Upto(y)) \in Nat BY <1>1
  <2>4. Cardinality(Upto(x)) <= Cardinality(Upto(y)) /\ Cardinality(Upto(x)) # Cardinality(Upto(y))
    <3> HIDE DEF Upto
    <3> QED BY <2>1, <2>2, <2>3, FS_Subset
  <2> QED BY <2>3, <2>4
<1>3. \A x \in S : Rank(x, S) = Cardinality(Upto(x)) BY DEF Rank
<1>4. ASSUME NEW x \in S, NEW y \in S, Rank(x, S) = Rank(y, S) PROVE x = y
  <2>1. Cardinality(Upto(x)) = Cardinality(Upto(y)) BY <1>3, <1>4
  <2>2. ~(x < y) BY <1>1, <1>2, <2>1
  <2>3. ~(y < x) BY <1>1, <1>2, <2>1
  <2> QED BY <2>2, <2>3
<1> QED BY <1>1, <1>3, <1>4

\* Every place is some number's rank: otherwise two would share one.
LEMMA EveryRank ==
  ASSUME NEW S \in SUBSET Nat, IsFiniteSet(S), NEW k \in 1..Cardinality(S)
  PROVE  \E x \in S : Rank(x, S) = k
<1> SUFFICES ASSUME \A x \in S : Rank(x, S) # k PROVE FALSE OBVIOUS
<1> DEFINE n == Cardinality(S)
<1> DEFINE T == (1..n) \ {k}
<1> DEFINE f == [x \in S |-> Rank(x, S)]
<1>1. n \in Nat BY FS_CardinalityType
<1>2. IsFiniteSet(1..n) /\ Cardinality(1..n) = n BY <1>1, FS_Interval
<1>3. IsFiniteSet(T) /\ Cardinality(T) = n - 1 BY <1>2, FS_RemoveElement
<1>4. f \in [S -> T] BY RankGrows
<1>5. PICK x, y \in S : x # y /\ f[x] = f[y]
  <2>1. Cardinality(T) < Cardinality(S) BY <1>1, <1>3
  <2> HIDE DEF T, f
  <2> QED BY <1>3, <1>4, <2>1, FS_PigeonHole
<1> QED BY <1>5, RankGrows

\* InOrder lists every member of a finite set of numbers and nothing else.
LEMMA OrderIsComplete ==
  ASSUME NEW S \in SUBSET Nat, IsFiniteSet(S)
  PROVE  /\ Cardinality(S) \in Nat
         /\ InOrder(S) \in Seq(S) /\ Len(InOrder(S)) = Cardinality(S)
         /\ \A x \in S : \E k \in 1..Cardinality(S) : InOrder(S)[k] = x
<1> DEFINE n == Cardinality(S)
<1>1. n \in Nat BY FS_CardinalityType
<1>2. \A k \in 1..n : InOrder(S)[k] \in S /\ Rank(InOrder(S)[k], S) = k
  BY EveryRank DEF InOrder
<1>3. InOrder(S) = [k \in 1..n |-> InOrder(S)[k]] BY DEF InOrder
<1>4. InOrder(S) \in [1..n -> S] BY <1>2, <1>3
<1>5. ASSUME NEW x \in S PROVE InOrder(S)[Rank(x, S)] = x
  <2>1. Rank(x, S) \in 1..n BY RankGrows
  <2>2. InOrder(S)[Rank(x, S)] \in S /\ Rank(InOrder(S)[Rank(x, S)], S) = Rank(x, S) BY <1>2, <2>1
  <2> QED BY <2>2, RankGrows
<1> HIDE DEF n
<1>6. InOrder(S) \in Seq(S) /\ Len(InOrder(S)) = n BY <1>1, <1>4
<1> QED BY <1>1, <1>5, <1>6, RankGrows DEF n

-------------------------------------------------------------------------------
(* The plan *)

\* The clusters and drafts of the package are finite sets of numbers.
LEMMA PartsAreFinite ==
  /\ \A S : S \subseteq Items => S \in SUBSET Nat /\ IsFiniteSet(S)
  /\ \A S : S \subseteq Outputs => S \in SUBSET Nat /\ IsFiniteSet(S)
<1>1. IsFiniteSet(Items \cup Outputs) /\ Items \cup Outputs \subseteq Nat BY LabelerAssumption
<1>2. \A S : S \subseteq Items \cup Outputs => S \in SUBSET Nat /\ IsFiniteSet(S) BY <1>1, FS_Subset
<1> QED BY <1>2

\* One group for each cluster.
LEMMA ClusterGroups ==
  ASSUME NEW r \in Runs, NEW S \in SUBSET Items
  PROVE  /\ Clusters(r, S) \in Seq(Seq(Units)) /\ Len(Clusters(r, S)) = Cardinality(S)
         /\ Cardinality(S) \in Nat
         /\ \A k \in 1..Cardinality(S) :
              InOrder(S)[k] \in S /\ Clusters(r, S)[k] = <<Unit(r, "cluster", InOrder(S)[k])>>
<1>1. S \in SUBSET Nat /\ IsFiniteSet(S) BY PartsAreFinite
<1>2. Cardinality(S) \in Nat /\ InOrder(S) \in Seq(S) /\ Len(InOrder(S)) = Cardinality(S)
  BY <1>1, OrderIsComplete
<1> DEFINE n == Cardinality(S)
<1> HIDE DEF n
<1>3. DOMAIN InOrder(S) = 1..n /\ \A k \in 1..n : InOrder(S)[k] \in S BY <1>2 DEF n
<1>4. Clusters(r, S) = [k \in 1..n |-> <<Unit(r, "cluster", InOrder(S)[k])>>] BY <1>3 DEF Clusters
<1>5. \A k \in 1..n : <<Unit(r, "cluster", InOrder(S)[k])>> \in Seq(Units)
  <2> TAKE k \in 1..n
  <2>1. Unit(r, "cluster", InOrder(S)[k]) \in Units BY <1>3, UnitsOfClusters
  <2> QED BY <2>1
<1>6. Clusters(r, S) \in [1..n -> Seq(Units)] BY <1>4, <1>5
<1>7. Clusters(r, S) \in Seq(Seq(Units)) /\ Len(Clusters(r, S)) = n BY <1>2, <1>6 DEF n
<1> QED BY <1>2, <1>3, <1>4, <1>7 DEF n

\* The group of a draft has its three units.
LEMMA DraftIsAGroup ==
  ASSUME NEW r \in Runs, NEW o \in Outputs
  PROVE  /\ Draft(r, o) = [j \in 1..3 |-> Unit(r, DraftKinds[j], o)]
         /\ \A j \in 1..3 : Draft(r, o)[j] \in Units
         /\ Draft(r, o) \in Seq(Units)
<1>1. Draft(r, o) = [j \in 1..3 |-> Unit(r, DraftKinds[j], o)] BY KindsOfDrafts DEF Draft
<1>2. \A j \in 1..3 : DraftKinds[j] \in {"output", "coverage", "tone"} BY KindsOfDrafts
<1>3. \A j \in 1..3 : Unit(r, DraftKinds[j], o) \in Units BY <1>2, UnitsOfDrafts
<1>4. \E n \in Nat : n = 3 OBVIOUS
<1>5. PICK n \in Nat : n = 3 BY <1>4
<1>6. Draft(r, o) \in [1..n -> Units] BY <1>1, <1>3, <1>5
<1>7. Draft(r, o) \in Seq(Units) BY <1>6
<1> QED BY <1>1, <1>3, <1>7

\* One group for each draft.
LEMMA DraftGroups ==
  ASSUME NEW r \in Runs, NEW S \in SUBSET Outputs
  PROVE  Drafts(r, S) \in Seq(Seq(Units))
<1>1. S \in SUBSET Nat /\ IsFiniteSet(S) BY PartsAreFinite
<1>2. Cardinality(S) \in Nat /\ InOrder(S) \in Seq(S) /\ Len(InOrder(S)) = Cardinality(S)
  BY <1>1, OrderIsComplete
<1> DEFINE n == Cardinality(S)
<1> HIDE DEF n
<1>3. DOMAIN InOrder(S) = 1..n /\ \A k \in 1..n : InOrder(S)[k] \in Outputs BY <1>2 DEF n
<1>4. Drafts(r, S) = [k \in 1..n |-> Draft(r, InOrder(S)[k])] BY <1>3 DEF Drafts
<1>5. Drafts(r, S) \in [1..n -> Seq(Units)] BY <1>3, <1>4, DraftIsAGroup
<1> QED BY <1>2, <1>5 DEF n

\* What the extension has left of a cluster is a group of units.
LEMMA RestGroups ==
  ASSUME NEW i \in Items
  PROVE  RestOf(i) \in Seq(Units)
<1> DEFINE S == DraftsLeft(i)
<1> DEFINE drafts == InOrder(DraftsLeft(i))
<1>1. S \in SUBSET Nat /\ IsFiniteSet(S) /\ S \subseteq Outputs BY PartsAreFinite DEF DraftsLeft
<1>2. Cardinality(S) \in Nat /\ drafts \in Seq(S) /\ Len(drafts) = Cardinality(S) BY <1>1, OrderIsComplete
<1> DEFINE n == Cardinality(S)
<1> DEFINE front == IF i \in Relabel THEN <<>> ELSE <<Unit("b", "cluster", i)>>
<1> DEFINE back == [k \in 1..3 * Len(drafts) |-> Draft("b", drafts[1 + ((k - 1) \div 3)])[1 + ((k - 1) % 3)]]
<1> HIDE DEF drafts, S
<1>3. front \in Seq(Units)
  <2>1. Unit("b", "cluster", i) \in Units BY UnitsOfClusters DEF Runs
  <2> QED BY <2>1
<1>4. ASSUME NEW k \in 1..3 * n PROVE back[k] \in Units
  <2> DEFINE d == 1 + ((k - 1) \div 3)
  <2> DEFINE j == 1 + ((k - 1) % 3)
  <2>1. d \in 1..n /\ j \in 1..3 BY <1>2
  <2>2. back[k] = Draft("b", drafts[d])[j] BY <1>2
  <2> HIDE DEF d, j
  <2>3. drafts[d] \in Outputs
    <3>1. d \in 1..Len(drafts) BY <1>2, <2>1
    <3>2. drafts[d] \in S BY <1>2, <3>1
    <3> QED BY <1>1, <3>2
  <2> QED BY <2>1, <2>2, <2>3, DraftIsAGroup DEF Runs
<1>5. back \in [1..3 * n -> Units] BY <1>2, <1>4
<1> HIDE DEF n
<1>6. back \in Seq(Units)
  <2>1. 3 * n \in Nat BY <1>2 DEF n
  <2> HIDE DEF back
  <2> QED BY <1>5, <2>1
<1>7. RestOf(i) = front \o back BY DEF RestOf, drafts
<1> HIDE DEF front, back
<1> QED BY <1>3, <1>6, <1>7

\* The groups of run a: the clusters come first, one group each.
LEMMA PlanShape ==
  /\ Plan \in Seq(Seq(Units))
  /\ \A g \in 1..Len(Plan) : \A j \in DOMAIN Plan[g] :
       ~(Plan[g][j].run = "a" /\ Plan[g][j].kind = "cluster") =>
         \A i \in Items : \E h \in 1..(g - 1) : Plan[h] = <<Unit("a", "cluster", i)>>
<1> DEFINE first == Clusters("a", Items)
<1> DEFINE m == Cardinality(Items)
<1> DEFINE more == Drafts("a", Outputs)
<1>1. first \in Seq(Seq(Units)) /\ Len(first) = m /\ m \in Nat BY ClusterGroups DEF Runs
<1>2. more \in Seq(Seq(Units)) BY DraftGroups DEF Runs
<1>3. PlanBFirst \in Seq(Seq(Units))
  <2>1. Clusters("b", Items \cap Relabel) \in Seq(Seq(Units)) BY ClusterGroups DEF Runs
  <2>2. Drafts("b", Outputs \cap Relabel) \in Seq(Seq(Units)) BY DraftGroups DEF Runs
  <2> QED BY <2>1, <2>2 DEF PlanBFirst
<1>4. PlanBRest \in Seq(Seq(Units))
  <2>1. ItemsLeft \subseteq Items BY DEF ItemsLeft
  <2>2. ItemsLeft \in SUBSET Nat /\ IsFiniteSet(ItemsLeft) BY <2>1, PartsAreFinite
  <2>3. InOrder(ItemsLeft) \in Seq(ItemsLeft) BY <2>2, OrderIsComplete
  <2>4. \A k \in DOMAIN InOrder(ItemsLeft) : InOrder(ItemsLeft)[k] \in Items BY <2>1, <2>3
  <2>5. \A k \in DOMAIN InOrder(ItemsLeft) : RestOf(InOrder(ItemsLeft)[k]) \in Seq(Units) BY <2>4, RestGroups
  <2>6. DOMAIN InOrder(ItemsLeft) = 1..Len(InOrder(ItemsLeft)) /\ Len(InOrder(ItemsLeft)) \in Nat BY <2>3
  <2> QED BY <2>5, <2>6 DEF PlanBRest
<1>5. Plan = ((first \o more) \o PlanBFirst) \o PlanBRest BY DEF Plan, PlanA
<1> HIDE DEF first, more, m
<1>6. /\ Plan \in Seq(Seq(Units)) /\ Len(Plan) \in Nat /\ m <= Len(Plan)
      /\ \A h \in 1..m : Plan[h] = first[h]
  <2>1. /\ first \o more \in Seq(Seq(Units)) /\ Len(first \o more) \in Nat /\ m <= Len(first \o more)
        /\ \A h \in 1..m : (first \o more)[h] = first[h]
    BY <1>1, <1>2
  <2> DEFINE s == first \o more
  <2> HIDE DEF s
  <2>2. /\ s \o PlanBFirst \in Seq(Seq(Units)) /\ Len(s \o PlanBFirst) \in Nat /\ m <= Len(s \o PlanBFirst)
        /\ \A h \in 1..m : (s \o PlanBFirst)[h] = s[h]
    BY <1>1, <1>3, <2>1 DEF s
  <2> DEFINE v == s \o PlanBFirst
  <2> HIDE DEF v
  <2>3. /\ v \o PlanBRest \in Seq(Seq(Units)) /\ Len(v \o PlanBRest) \in Nat /\ m <= Len(v \o PlanBRest)
        /\ \A h \in 1..m : (v \o PlanBRest)[h] = v[h]
    BY <1>1, <1>4, <2>2 DEF v
  <2>4. Plan = v \o PlanBRest BY <1>5 DEF s, v
  <2> QED BY <2>1, <2>2, <2>3, <2>4 DEF s, v
<1>7. \A k \in 1..m : InOrder(Items)[k] \in Items /\ Plan[k] = <<Unit("a", "cluster", InOrder(Items)[k])>>
  BY <1>6, ClusterGroups DEF first, m, Runs
<1>8. \A i \in Items : \E h \in 1..m : Plan[h] = <<Unit("a", "cluster", i)>>
  <2>1. Items \in SUBSET Nat /\ IsFiniteSet(Items) BY PartsAreFinite
  <2>2. \A i \in Items : \E h \in 1..m : InOrder(Items)[h] = i BY <2>1, OrderIsComplete DEF m
  <2> QED BY <1>7, <2>2
<1>9. ASSUME NEW g \in 1..Len(Plan), NEW j \in DOMAIN Plan[g],
             ~(Plan[g][j].run = "a" /\ Plan[g][j].kind = "cluster")
      PROVE  g > m
  <2>1. SUFFICES ASSUME g <= m PROVE FALSE BY <1>1, <1>6
  <2>2. g \in 1..m BY <1>6, <2>1
  <2>3. Plan[g] = <<Unit("a", "cluster", InOrder(Items)[g])>> BY <1>7, <2>2
  <2>4. j = 1 BY <2>3
  <2> QED BY <1>9, <2>3, <2>4 DEF Unit
<1>10. ASSUME NEW g \in 1..Len(Plan), NEW j \in DOMAIN Plan[g],
              ~(Plan[g][j].run = "a" /\ Plan[g][j].kind = "cluster"), NEW i \in Items
       PROVE  \E h \in 1..(g - 1) : Plan[h] = <<Unit("a", "cluster", i)>>
  <2>1. PICK h \in 1..m : Plan[h] = <<Unit("a", "cluster", i)>> BY <1>8
  <2>2. g > m BY <1>9, <1>10
  <2>3. h \in 1..(g - 1) BY <1>1, <1>6, <2>2
  <2> QED BY <2>1, <2>3
<1> QED BY <1>6, <1>10

-------------------------------------------------------------------------------
(* The inductive invariant *)

\* The types, those of the history too.
LabelerTypes == TypeOK /\ basis \in [Units -> SUBSET Nat]

\* The groups behind the process have ended.
GroupsBehindEnded == \A g \in 1..(group - 1) : \A k \in DOMAIN Plan[g] : ended[Plan[g][k]] # None

\* A unit that is being worked on is open, and a coverage question lists the
\* facts as they are.
WorkInv ==
  /\ proc \in {"down", "preflight"} => step = "enter"
  /\ proc = "up" /\ step \notin {"enter", "next"} => group <= Len(Plan) /\ Pending(group) # {}
  /\ proc = "up" /\ step \notin {"enter", "next"} /\ Current.kind = "coverage" =>
       basis[Current] = FactsOf(Current.run, Current.target) /\ step # "labelled"
  /\ proc = "up" /\ step \in {"stored", "labelled"} => answer[Current] > 0

\* Something was asked or recorded of a unit.
Touched(u) == ended[u] # None \/ answer[u] > 0 \/ basis[u] # {}

\* Nothing is asked before every cluster of run a has ended.
ClustersFirst ==
  \A u \in Units : Touched(u) /\ ~(u.run = "a" /\ u.kind = "cluster") =>
    \A i \in Items : ended[Unit("a", "cluster", i)] # None

\* What the end row of a coverage question says of the facts.
EndedCoverageInv ==
  \A u \in Units : u.kind = "coverage" =>
    /\ ended[u] = "labeled" => answer[u] > 0 /\ basis[u] = FactsOf(u.run, u.target)
    /\ ended[u] = "not_applicable" => FactsOf(u.run, u.target) \in {{}, {NoFacts}}

\* The labels are a table of runs and drafts.
RowTable == rows = [r \in Runs |-> [o \in Outputs |-> rows[r][o]]]

\* What a draft's label says of them.
RowsInv ==
  \A r \in Runs, o \in Outputs : rows[r][o] # NoRow =>
    /\ rows[r][o].facts = FactsOf(r, o)
    /\ rows[r][o].covered # 0 => basis[Unit(r, "coverage", o)] = FactsOf(r, o)
    /\ rows[r][o].covered = 0 => FactsOf(r, o) = {NoFacts}
    /\ ended[Unit(r, "coverage", o)] # None

\* The invariant of the files and of the work at hand.
LabelerInv ==
  LabelerTypes /\ GroupsBehindEnded /\ WorkInv /\ ClustersFirst /\ EndedCoverageInv /\ RowTable /\ RowsInv

-------------------------------------------------------------------------------
(* Facts about a state of the invariant *)

\* The unit at hand is a unit of its group without an end row.
LEMMA CurrentIsOpen ==
  ASSUME LabelerTypes, group <= Len(Plan), Pending(group) # {}
  PROVE  /\ group \in 1..Len(Plan) /\ Current \in Units /\ ended[Current] = None
         /\ \E k \in DOMAIN Plan[group] : Plan[group][k] = Current
<1>1. Plan \in Seq(Seq(Units)) /\ group \in 1..Len(Plan) BY PlanShape DEF LabelerTypes, TypeOK
<1>2. Plan[group] \in Seq(Units) BY <1>1
<1>3. Pending(group) \subseteq Nat BY <1>2 DEF Pending
<1>4. Min(Pending(group)) \in Pending(group) BY <1>3, MinIsMember
<1>5. Current = Plan[group][Min(Pending(group))] BY DEF Current
<1>6. Min(Pending(group)) \in DOMAIN Plan[group] /\ ended[Current] = None BY <1>4, <1>5 DEF Pending
<1>7. Current \in Units BY <1>2, <1>5, <1>6
<1> QED BY <1>1, <1>5, <1>6, <1>7

\* The process works on something else than a cluster of run a only when all of these have ended.
LEMMA ClustersBehind ==
  ASSUME LabelerInv, group <= Len(Plan), Pending(group) # {},
         ~(Current.run = "a" /\ Current.kind = "cluster"), NEW i \in Items
  PROVE  ended[Unit("a", "cluster", i)] # None
<1>1. PICK k \in DOMAIN Plan[group] : Plan[group][k] = Current BY CurrentIsOpen DEF LabelerInv
<1>2. group \in 1..Len(Plan) BY CurrentIsOpen DEF LabelerInv
<1>3. PICK h \in 1..(group - 1) : Plan[h] = <<Unit("a", "cluster", i)>> BY <1>1, <1>2, PlanShape
<1>4. 1 \in DOMAIN Plan[h] /\ Plan[h][1] = Unit("a", "cluster", i) BY <1>3
<1> QED BY <1>4, <1>3 DEF LabelerInv, GroupsBehindEnded

\* Coverage is about the facts of run a.
LEMMA FactsAreOfRunA ==
  ASSUME NEW u \in Units, u.kind = "coverage"
  PROVE  /\ FactsOf(u.run, u.target) = facts["a"][ItemOf[u.target]] /\ ItemOf[u.target] \in Items
         /\ u.target \in Outputs
<1>1. u.target \in Outputs BY UnitParts
<1> QED BY <1>1, LabelerAssumption DEF FactsOf, BasisRun

\* The invariant holds at the first start.
LEMMA LabelerInitial == ASSUME Init PROVE LabelerInv
<1>1. Plan \in Seq(Seq(Units)) BY PlanShape
<1>2. LabelerTypes BY <1>1, LabelerAssumption DEF Init, LabelerTypes, TypeOK, None, Runs
<1>3. GroupsBehindEnded BY DEF Init, GroupsBehindEnded
<1>4. WorkInv BY DEF Init, WorkInv
<1>5. ClustersFirst BY DEF Init, ClustersFirst, Touched, None
<1>6. EndedCoverageInv BY DEF Init, EndedCoverageInv, None
<1>7. RowsInv
  <2>1. \A r \in Runs, o \in Outputs : rows[r][o] = NoRow BY DEF Init
  <2> QED BY <2>1 DEF RowsInv
<1>8. RowTable BY DEF Init, RowTable
<1> QED BY <1>2, <1>3, <1>4, <1>5, <1>6, <1>7, <1>8 DEF LabelerInv

-------------------------------------------------------------------------------
(* What a step may change *)

Busy == proc = "up" /\ group <= Len(Plan) /\ Pending(group) # {}

\* Only the unit at hand changes, and the facts of a cluster only with its label.
OnlyCurrentChanges ==
  /\ \A u \in Units : ended'[u] # ended[u] \/ answer'[u] # answer[u] \/ basis'[u] # basis[u] =>
       Busy /\ u = Current
  /\ \A i \in Items : facts'["a"][i] # facts["a"][i] => Busy /\ Current = Unit("a", "cluster", i)

\* No step changes a unit but the first open one of the group at hand.
LEMMA StepsOnCurrent ==
  ASSUME LabelerInv, [Next]_vars
  PROVE  OnlyCurrentChanges
<1> USE DEF LabelerInv, LabelerTypes, TypeOK
<1>0. \A s : OnUnit(s) => Busy /\ Current \in Units BY CurrentIsOpen DEF OnUnit, Busy
<1>1. CASE Start BY <1>1 DEF Start, OnlyCurrentChanges, fileVars
<1>2. CASE PreflightAnswer BY <1>2 DEF PreflightAnswer, OnlyCurrentChanges, fileVars
<1>3. CASE PreflightRefused BY <1>3 DEF PreflightRefused, OnlyCurrentChanges, fileVars
<1>4. CASE PreflightEnds BY <1>4 DEF PreflightEnds, OnlyCurrentChanges
<1>5. CASE Skip
  <2>1. \A u \in Units : ended'[u] # ended[u] => u = Current BY <1>5 DEF Skip, End
  <2>2. answer' = answer /\ basis' = basis /\ facts' = facts BY <1>5 DEF Skip
  <2> QED BY <1>0, <1>5, <2>1, <2>2 DEF Skip, OnlyCurrentChanges
<1>6. CASE Ask
  <2>1. \A u \in Units : basis'[u] # basis[u] => u = Current BY <1>6 DEF Ask
  <2>2. answer' = answer /\ ended' = ended /\ facts' = facts BY <1>6 DEF Ask, fileVars
  <2> QED BY <1>0, <1>6, <2>1, <2>2 DEF Ask, OnlyCurrentChanges
<1>7. CASE AskAgain BY <1>7 DEF AskAgain, OnlyCurrentChanges, fileVars
<1>8. CASE NoLabel
  <2>1. \A u \in Units : ended'[u] # ended[u] => u = Current BY <1>8 DEF NoLabel, End
  <2>2. answer' = answer /\ basis' = basis /\ facts' = facts BY <1>8 DEF NoLabel
  <2> QED BY <1>0, <1>8, <2>1, <2>2 DEF NoLabel, OnlyCurrentChanges
<1>9. CASE Respond
  <2>1. \A u \in Units : answer'[u] # answer[u] => u = Current BY <1>9 DEF Respond
  <2>2. ended' = ended /\ basis' = basis /\ facts' = facts BY <1>9 DEF Respond
  <2> QED BY <1>0, <1>9, <2>1, <2>2 DEF Respond, OnlyCurrentChanges
<1>10. CASE LabelCluster
  <2>1. Current \in Units /\ Busy /\ Current.kind = "cluster" BY <1>0, <1>10 DEF LabelCluster
  <2>2. Current = Unit(Current.run, "cluster", Current.target) BY <2>1, UnitParts
  <2>3. \A i \in Items : facts'["a"][i] # facts["a"][i] => Current.run = "a" /\ Current.target = i
    BY <1>10 DEF LabelCluster, Runs
  <2>4. ended' = ended /\ answer' = answer /\ basis' = basis BY <1>10 DEF LabelCluster
  <2> QED BY <2>1, <2>2, <2>3, <2>4 DEF OnlyCurrentChanges
<1>11. CASE EndUnit
  <2>1. \A u \in Units : ended'[u] # ended[u] => u = Current BY <1>11 DEF EndUnit, End
  <2>2. answer' = answer /\ basis' = basis /\ facts' = facts BY <1>11 DEF EndUnit
  <2>3. Busy BY <1>0, <1>11 DEF EndUnit
  <2> QED BY <2>1, <2>2, <2>3 DEF OnlyCurrentChanges
<1>12. CASE Enter BY <1>12 DEF Enter, OnlyCurrentChanges, fileVars
<1>13. CASE LabelDraft BY <1>13 DEF LabelDraft, OnlyCurrentChanges
<1>14. CASE SoftStop BY <1>14 DEF SoftStop, OnlyCurrentChanges, fileVars
<1>15. CASE EndGroup BY <1>15 DEF EndGroup, OnlyCurrentChanges, fileVars
<1>16. CASE Finish BY <1>16 DEF Finish, OnlyCurrentChanges, fileVars
<1>17. CASE Interrupt BY <1>17 DEF Interrupt, OnlyCurrentChanges, fileVars
<1>18. CASE UNCHANGED vars BY <1>18 DEF vars, OnlyCurrentChanges, fileVars
<1> QED BY <1>1, <1>2, <1>3, <1>4, <1>5, <1>6, <1>7, <1>8, <1>9, <1>10, <1>11, <1>12, <1>13, <1>14,
           <1>15, <1>16, <1>17, <1>18 DEF Next, Work

\* What has ended stays, and the facts of run a do not change any more once
\* anything else than a cluster of run a was touched.
LEMMA EndedStays ==
  ASSUME LabelerInv, OnlyCurrentChanges
  PROVE  /\ \A u \in Units : ended[u] # None =>
              ended'[u] = ended[u] /\ answer'[u] = answer[u] /\ basis'[u] = basis[u]
         /\ \A i \in Items : ended[Unit("a", "cluster", i)] # None => facts'["a"][i] = facts["a"][i]
         /\ \A u \in Units : Touched(u) /\ ~(u.run = "a" /\ u.kind = "cluster") =>
              \A i \in Items : facts'["a"][i] = facts["a"][i]
<1>1. Busy => ended[Current] = None BY CurrentIsOpen DEF LabelerInv, Busy
<1>2. \A u \in Units : ended[u] # None => ended'[u] = ended[u] /\ answer'[u] = answer[u] /\ basis'[u] = basis[u]
  BY <1>1 DEF OnlyCurrentChanges
<1>3. \A i \in Items : ended[Unit("a", "cluster", i)] # None => facts'["a"][i] = facts["a"][i]
  BY <1>1 DEF OnlyCurrentChanges
<1> QED BY <1>2, <1>3 DEF LabelerInv, ClustersFirst

-------------------------------------------------------------------------------
(* The parts of the invariant, step by step *)

\* Every step keeps the types.
LEMMA TypesStep ==
  ASSUME LabelerInv, [Next]_vars
  PROVE  LabelerTypes'
<1> USE DEF LabelerInv, LabelerTypes, TypeOK
<1> DEFINE Statuses == {None, "labeled", "invalid", "skipped", "not_applicable"}
<1> DEFINE Steps == {"enter", "next", "asked", "stored", "labelled"}
<1>0. Len(Plan) \in Nat BY PlanShape
<1>a. \A s : OnUnit(s) => Current \in Units BY CurrentIsOpen DEF OnUnit
<1> SUFFICES /\ ended' \in [Units -> Statuses] /\ answer' \in [Units -> Nat]
             /\ facts' \in [Runs -> [Items -> SUBSET Nat]] /\ basis' \in [Units -> SUBSET Nat]
             /\ proc' \in {"down", "preflight", "up", "finished"} /\ group' \in 1..Len(Plan) + 1
             /\ step' \in Steps /\ asks' \in 0..MaxAsks
  OBVIOUS
<1>1. CASE Start BY <1>1 DEF Start, fileVars, planVars
<1>2. CASE PreflightAnswer BY <1>2 DEF PreflightAnswer, fileVars, planVars
<1>3. CASE PreflightRefused BY <1>3 DEF PreflightRefused, fileVars, planVars
<1>4. CASE PreflightEnds BY <1>4, <1>0, LabelerAssumption DEF PreflightEnds, Down, planVars
<1>5. CASE Skip BY <1>5, <1>a, LabelerAssumption DEF Skip, End
<1>6. CASE Ask
  <2>1. Current \in Units BY <1>a, <1>6 DEF Ask
  <2>2. FactsOf(Current.run, Current.target) \in SUBSET Nat \/ Current.kind # "coverage"
    <3>1. Current.kind = "coverage" => FactsOf(Current.run, Current.target) = facts["a"][ItemOf[Current.target]]
                                       /\ ItemOf[Current.target] \in Items
      BY <2>1, FactsAreOfRunA
    <3> QED BY <3>1 DEF Runs
  <2>3. basis' \in [Units -> SUBSET Nat] BY <1>6, <2>1, <2>2 DEF Ask
  <2> QED BY <1>6, <2>3 DEF Ask, fileVars
<1>7. CASE AskAgain BY <1>7, LabelerAssumption DEF AskAgain, fileVars
<1>8. CASE NoLabel BY <1>8, <1>a, LabelerAssumption DEF NoLabel, End
<1>9. CASE Respond BY <1>9, <1>a DEF Respond
<1>10. CASE LabelCluster
  <2>1. Current \in Units /\ Current.kind = "cluster" BY <1>a, <1>10 DEF LabelCluster
  <2>2. Current.run \in Runs /\ Current.target \in Items BY <2>1, UnitParts
  <2>3. PICK n \in {NoFacts, answer[Current]} : facts' = [facts EXCEPT ![Current.run][Current.target] = {n}]
    BY <1>10 DEF LabelCluster
  <2>4. n \in Nat BY <2>1 DEF NoFacts
  <2>5. facts' \in [Runs -> [Items -> SUBSET Nat]] BY <2>2, <2>3, <2>4
  <2> QED BY <1>10, <2>5 DEF LabelCluster
<1>11. CASE EndUnit BY <1>11, <1>a, LabelerAssumption DEF EndUnit, End
<1>12. CASE Enter BY <1>12 DEF Enter, fileVars
<1>13. CASE LabelDraft BY <1>13 DEF LabelDraft, planVars
<1>14. CASE SoftStop BY <1>14 DEF SoftStop, fileVars, planVars
<1>15. CASE EndGroup BY <1>0, <1>15 DEF EndGroup, AtGroup, NextGroup, fileVars
<1>16. CASE Finish BY <1>16 DEF Finish, fileVars, planVars
<1>17. CASE Interrupt BY <1>17, <1>0, LabelerAssumption DEF Interrupt, Down, fileVars
<1>18. CASE UNCHANGED vars BY <1>18 DEF vars, fileVars, planVars
<1> QED BY <1>1, <1>2, <1>3, <1>4, <1>5, <1>6, <1>7, <1>8, <1>9, <1>10, <1>11, <1>12, <1>13, <1>14,
           <1>15, <1>16, <1>17, <1>18 DEF Next, Work

\* The process moves on only from a group that has ended.
LEMMA GroupsStep ==
  ASSUME LabelerInv, [Next]_vars, OnlyCurrentChanges
  PROVE  GroupsBehindEnded'
<1>0. Plan \in Seq(Seq(Units)) BY PlanShape
<1>1. group \in 1..Len(Plan) + 1 BY DEF LabelerInv, LabelerTypes, TypeOK
<1>2. \A u \in Units : ended[u] # None => ended'[u] # None BY EndedStays
<1>3. \/ group' = group \/ group' = 1
      \/ group' = group + 1 /\ group <= Len(Plan) /\ Pending(group) = {}
  BY DEF Next, Work, vars, fileVars, planVars, Down, NextGroup, AtGroup, Start, PreflightAnswer, PreflightRefused,
         PreflightEnds, Skip, Ask, AskAgain, NoLabel, Respond, LabelCluster, EndUnit, Enter, LabelDraft, SoftStop,
         EndGroup, Finish, Interrupt
<1>4. Len(Plan) \in Nat BY <1>0
<1>5. PICK n \in Nat : n = group' /\ n <= Len(Plan) + 1 BY <1>1, <1>3, <1>4
<1>6. \A g \in 1..(n - 1) : 1 <= g /\ g <= n - 1 OBVIOUS
<1>7. ASSUME NEW g \in 1..(n - 1), NEW k \in DOMAIN Plan[g]
      PROVE  ended'[Plan[g][k]] # None
  <2>1. n - 1 \in Int /\ n - 1 <= Len(Plan) BY <1>4, <1>5
  <2>2. g \in 1..Len(Plan) BY <1>4, <1>7, <2>1
  <2>3. Plan[g][k] \in Units BY <1>0, <2>2
  <2>4. ended[Plan[g][k]] # None
    <3>1. CASE g \in 1..(group - 1) BY <3>1 DEF LabelerInv, GroupsBehindEnded
    <3>2. CASE g \notin 1..(group - 1)
      <4>1. group \in Int /\ group >= 1 BY <1>1, <1>4
      <4>2. g \in Int /\ 1 <= g /\ g <= n - 1 BY <1>4, <1>6, <2>2
      <4>3. ~(g <= group - 1) BY <3>2, <4>1, <4>2
      <4>4. n # group /\ n # 1 BY <4>1, <4>2, <4>3
      <4>5. group' # group /\ group' # 1 BY <1>5, <4>4
      <4>6. group' = group + 1 /\ Pending(group) = {} BY <1>3, <4>5
      <4>7. n = group + 1 BY <1>5, <4>6
      <4>8. g = group BY <4>1, <4>2, <4>3, <4>7
      <4> QED BY <4>6, <4>8 DEF Pending
    <3> QED BY <3>1, <3>2
  <2> QED BY <1>2, <2>3, <2>4
<1> QED BY <1>5, <1>7 DEF GroupsBehindEnded

\* Which units a step touches for the first time.
LEMMA ClustersFirstStep ==
  ASSUME LabelerInv, OnlyCurrentChanges
  PROVE  ClustersFirst'
<1>1. ASSUME NEW u \in Units, ended'[u] # None \/ answer'[u] > 0 \/ basis'[u] # {},
             ~(u.run = "a" /\ u.kind = "cluster"), NEW i \in Items
      PROVE  ended'[Unit("a", "cluster", i)] # None
  <2>1. ended[Unit("a", "cluster", i)] # None
    <3>1. CASE Touched(u) BY <1>1, <3>1 DEF LabelerInv, ClustersFirst
    <3>2. CASE ~Touched(u)
      <4>1. Busy /\ u = Current BY <1>1, <3>2 DEF OnlyCurrentChanges, Touched
      <4> QED BY <1>1, <4>1, ClustersBehind DEF Busy
    <3> QED BY <3>1, <3>2
  <2>2. Unit("a", "cluster", i) \in Units BY UnitsOfClusters DEF Runs
  <2> QED BY <2>1, <2>2, EndedStays
<1> QED BY <1>1 DEF ClustersFirst, Touched

\* A question in flight lists the facts as they are (run_unit).
LEMMA WorkStep ==
  ASSUME LabelerInv, [Next]_vars
  PROVE  WorkInv'
<1>a. ASSUME proc' \in {"down", "preflight"} => step' = "enter", proc' # "up" \/ step' \in {"enter", "next"}
      PROVE  WorkInv'
  BY <1>a DEF WorkInv
<1>b. ASSUME ended' = ended, group' = group
      PROVE  Pending(group)' = Pending(group) /\ Current' = Current
  BY <1>b DEF Pending, Current
<1>c. \A s : OnUnit(s) => group <= Len(Plan) /\ Pending(group) # {} /\ Current \in Units /\ proc = "up" /\ step = s
  BY CurrentIsOpen DEF OnUnit, LabelerInv
<1>d. proc \in {"down", "preflight"} => step = "enter" BY DEF LabelerInv, WorkInv
<1>e. basis \in [Units -> SUBSET Nat] /\ answer \in [Units -> Nat] BY DEF LabelerInv, LabelerTypes, TypeOK
<1>1. CASE Start BY <1>a, <1>d, <1>1 DEF Start, planVars
<1>2. CASE PreflightAnswer BY <1>a, <1>d, <1>2 DEF PreflightAnswer, planVars, Flying
<1>3. CASE PreflightRefused BY <1>a, <1>d, <1>3 DEF PreflightRefused, planVars, Flying
<1>4. CASE PreflightEnds BY <1>a, <1>d, <1>4 DEF PreflightEnds, planVars, Down
<1>5. CASE Skip BY <1>a, <1>c, <1>5 DEF Skip, End
<1>6. CASE Ask
  <2>1. Pending(group)' = Pending(group) /\ Current' = Current BY <1>b, <1>6 DEF Ask, fileVars
  <2>2. group <= Len(Plan) /\ Pending(group) # {} /\ Current \in Units /\ proc = "up" BY <1>c, <1>6 DEF Ask
  <2>3. Current.kind = "coverage" => basis'[Current] = FactsOf(Current.run, Current.target)
    BY <1>e, <1>6, <2>2 DEF Ask
  <2>4. facts' = facts /\ group' = group /\ proc' = proc /\ step' = "asked" BY <1>6 DEF Ask, fileVars
  <2> QED BY <2>1, <2>2, <2>3, <2>4 DEF WorkInv, FactsOf
<1>7. CASE AskAgain
  <2>1. Pending(group)' = Pending(group) /\ Current' = Current BY <1>b, <1>7 DEF AskAgain, fileVars
  <2> QED BY <1>7, <2>1 DEF AskAgain, fileVars, LabelerInv, WorkInv, FactsOf
<1>8. CASE NoLabel BY <1>a, <1>c, <1>8 DEF NoLabel, End
<1>9. CASE Respond
  <2>1. Pending(group)' = Pending(group) /\ Current' = Current BY <1>b, <1>9 DEF Respond
  <2>2. group <= Len(Plan) /\ Pending(group) # {} /\ Current \in Units /\ proc = "up" /\ step = "asked"
    BY <1>c, <1>9 DEF Respond
  <2>3. answer'[Current] > 0 BY <1>e, <1>9, <2>2 DEF Respond
  <2>4. Current.kind = "coverage" => basis[Current] = FactsOf(Current.run, Current.target)
    BY <2>2 DEF LabelerInv, WorkInv
  <2>5. facts' = facts /\ group' = group /\ proc' = proc /\ basis' = basis /\ step' = "stored" BY <1>9 DEF Respond
  <2> QED BY <2>1, <2>2, <2>3, <2>4, <2>5 DEF WorkInv, FactsOf
<1>10. CASE LabelCluster
  <2>1. Pending(group)' = Pending(group) /\ Current' = Current BY <1>b, <1>10 DEF LabelCluster
  <2>2. /\ group <= Len(Plan) /\ Pending(group) # {} /\ Current \in Units /\ proc = "up" /\ step = "stored"
        /\ Current.kind = "cluster"
    BY <1>c, <1>10 DEF LabelCluster
  <2>3. answer[Current] > 0 BY <2>2 DEF LabelerInv, WorkInv
  <2>4. answer' = answer /\ group' = group /\ proc' = proc /\ step' = "labelled" BY <1>10 DEF LabelCluster
  <2> QED BY <2>1, <2>2, <2>3, <2>4 DEF WorkInv
<1>11. CASE EndUnit BY <1>a, <1>c, <1>11 DEF EndUnit, End
<1>12. CASE Enter BY <1>a, <1>12 DEF Enter, AtGroup
<1>13. CASE LabelDraft BY <1>a, <1>13 DEF LabelDraft, AtGroup, planVars
<1>14. CASE SoftStop BY <1>a, <1>14 DEF SoftStop, planVars
<1>15. CASE EndGroup BY <1>a, <1>15 DEF EndGroup, AtGroup, NextGroup
<1>16. CASE Finish BY <1>a, <1>16 DEF Finish, planVars
<1>17. CASE Interrupt BY <1>a, <1>17 DEF Interrupt, Down
<1>18. CASE UNCHANGED vars
  <2>1. Pending(group)' = Pending(group) /\ Current' = Current BY <1>b, <1>18 DEF vars, fileVars, planVars
  <2> QED BY <1>18, <2>1 DEF vars, fileVars, planVars, LabelerInv, WorkInv, FactsOf
<1> QED BY <1>1, <1>2, <1>3, <1>4, <1>5, <1>6, <1>7, <1>8, <1>9, <1>10, <1>11, <1>12, <1>13, <1>14,
           <1>15, <1>16, <1>17, <1>18 DEF Next, Work

\* A coverage unit ends with the facts it was asked about (run_unit).
LEMMA EndedCoverageStep ==
  ASSUME LabelerInv, [Next]_vars, OnlyCurrentChanges
  PROVE  EndedCoverageInv'
<1> SUFFICES ASSUME NEW u \in Units, u.kind = "coverage"
             PROVE  /\ ended'[u] = "labeled" => answer'[u] > 0 /\ basis'[u] = facts'["a"][ItemOf[u.target]]
                    /\ ended'[u] = "not_applicable" => facts'["a"][ItemOf[u.target]] \in {{}, {NoFacts}}
  BY DEF EndedCoverageInv, FactsOf, BasisRun
<1>1. FactsOf(u.run, u.target) = facts["a"][ItemOf[u.target]] /\ ItemOf[u.target] \in Items BY FactsAreOfRunA
<1>2. CASE ended[u] # None
  <2>1. ended'[u] = ended[u] /\ answer'[u] = answer[u] /\ basis'[u] = basis[u] BY <1>2, EndedStays
  <2>2. facts'["a"][ItemOf[u.target]] = facts["a"][ItemOf[u.target]] BY <1>1, <1>2, EndedStays DEF Touched
  <2> QED BY <1>1, <2>1, <2>2 DEF LabelerInv, EndedCoverageInv
<1>3. CASE ended'[u] = None BY <1>3 DEF None
<1>4. CASE ended[u] = None /\ ended'[u] # None
  <2>1. u = Current /\ Busy BY <1>4 DEF OnlyCurrentChanges
  <2>2. ended \in [Units -> {None, "labeled", "invalid", "skipped", "not_applicable"}]
    BY DEF LabelerInv, LabelerTypes, TypeOK
  <2>3. ended' # ended BY <1>4
  <2>4. Skip \/ NoLabel \/ EndUnit
    BY <2>3 DEF Next, Work, vars, fileVars, Start, PreflightAnswer, PreflightRefused, PreflightEnds, Ask, AskAgain,
                Respond, LabelCluster, Enter, LabelDraft, SoftStop, EndGroup, Finish, Interrupt
  <2>5. CASE Skip
    <3>1. /\ ended'[u] = IF Unlabeled(Current) THEN "skipped" ELSE "not_applicable"
          /\ Unlabeled(Current) \/ NothingToAsk(Current)
          /\ facts' = facts
      BY <2>1, <2>2, <2>5 DEF Skip, End
    <3>2. NothingToAsk(u) => facts["a"][ItemOf[u.target]] \in {{}, {NoFacts}} BY <1>1 DEF NothingToAsk
    <3> QED BY <2>1, <3>1, <3>2
  <2>6. CASE NoLabel BY <2>1, <2>2, <2>6 DEF NoLabel, End
  <2>7. CASE EndUnit
    <3>1. ended'[u] = "labeled" /\ answer' = answer /\ basis' = basis /\ facts' = facts
      BY <2>1, <2>2, <2>7 DEF EndUnit, End
    <3>2. step = "stored" /\ proc = "up" BY <2>1, <2>7 DEF EndUnit, OnUnit
    <3>3. answer[u] > 0 /\ basis[u] = facts["a"][ItemOf[u.target]]
      BY <1>1, <2>1, <3>2 DEF LabelerInv, WorkInv
    <3> QED BY <3>1, <3>3
  <2> QED BY <2>4, <2>5, <2>6, <2>7
<1> QED BY <1>2, <1>3, <1>4

\* The draft that gets its label is one whose questions allow one (_assemble_group).
LEMMA DraftLabelled ==
  ASSUME LabelerInv, LabelDraft
  PROVE  \E d \in Units : /\ Composable(d.run, d.target) /\ d.run \in Runs /\ d.target \in Outputs
                         /\ rows' = [rows EXCEPT ![d.run][d.target] = Label(d.run, d.target)]
<1>1. Plan \in Seq(Seq(Units)) /\ group \in 1..Len(Plan)
  BY PlanShape DEF LabelDraft, AtGroup, LabelerInv, LabelerTypes, TypeOK
<1>2. Plan[group] \in Seq(Units) BY <1>1
<1>3. Unwritten(group) \subseteq Nat BY <1>2 DEF Unwritten
<1>4. Min(Unwritten(group)) \in Unwritten(group) BY <1>3, MinIsMember DEF LabelDraft
<1> DEFINE d == Plan[group][Min(Unwritten(group))]
<1>5. Min(Unwritten(group)) \in DOMAIN Plan[group] /\ d.kind = "output" /\ Composable(d.run, d.target)
  BY <1>4 DEF Unwritten
<1>6. d \in Units BY <1>2, <1>5
<1>7. rows' = [rows EXCEPT ![d.run][d.target] = Label(d.run, d.target)] BY DEF LabelDraft
<1>8. d.run \in Runs /\ d.target \in Outputs
  <2> HIDE DEF d
  <2> QED BY <1>5, <1>6, UnitParts
<1> HIDE DEF d
<1> QED BY <1>5, <1>6, <1>7, <1>8

\* Every step keeps the table.
LEMMA RowTableStep ==
  ASSUME LabelerInv, [Next]_vars
  PROVE  RowTable'
<1>1. rows = [r \in Runs |-> [o \in Outputs |-> rows[r][o]]] BY DEF LabelerInv, RowTable
<1>2. CASE LabelDraft
  <2>1. PICK d \in Units : rows' = [rows EXCEPT ![d.run][d.target] = Label(d.run, d.target)] BY <1>2, DraftLabelled
  <2> DEFINE L(r, o) == IF r = d.run /\ o = d.target THEN Label(d.run, d.target) ELSE rows[r][o]
  <2>2. rows' = [r \in Runs |-> [o \in Outputs |-> L(r, o)]] BY <1>1, <2>1
  <2> HIDE DEF L
  <2>3. rows' = [r \in Runs |-> [o \in Outputs |-> rows'[r][o]]] BY <2>2
  <2> QED BY <2>3 DEF RowTable
<1>3. CASE ~LabelDraft
  <2>1. rows' = rows
    BY <1>3 DEF Next, Work, vars, fileVars, Start, PreflightAnswer, PreflightRefused, PreflightEnds, Skip, Ask,
                AskAgain, NoLabel, Respond, LabelCluster, EndUnit, Enter, SoftStop, EndGroup, Finish, Interrupt
  <2> QED BY <1>1, <2>1 DEF RowTable
<1> QED BY <1>2, <1>3

\* A label is put together from ended units and stays true of them (assemble_output).
LEMMA RowsStep ==
  ASSUME LabelerInv, [Next]_vars, OnlyCurrentChanges
  PROVE  RowsInv'
<1> SUFFICES ASSUME NEW r \in Runs, NEW o \in Outputs, rows'[r][o] # NoRow
             PROVE  /\ rows'[r][o].facts = facts'["a"][ItemOf[o]]
                    /\ rows'[r][o].covered # 0 => basis'[Unit(r, "coverage", o)] = facts'["a"][ItemOf[o]]
                    /\ rows'[r][o].covered = 0 => facts'["a"][ItemOf[o]] = {NoFacts}
                    /\ ended'[Unit(r, "coverage", o)] # None
  BY DEF RowsInv, FactsOf, BasisRun
<1> DEFINE u == Unit(r, "coverage", o)
<1>1. u \in Units /\ u.kind = "coverage" /\ u.run = r /\ u.target = o BY UnitsOfDrafts DEF Unit
<1> HIDE DEF u
<1>2. FactsOf(r, o) = facts["a"][ItemOf[o]] /\ ItemOf[o] \in Items BY <1>1, FactsAreOfRunA
<1>3. \/ rows'[r][o] = rows[r][o]
      \/ /\ Composable(r, o) /\ rows'[r][o] = Label(r, o)
         /\ UNCHANGED <<ended, answer, facts, basis>>
  <2>1. CASE LabelDraft
    <3>1. PICK d \in Units : /\ Composable(d.run, d.target)
                           /\ rows' = [rows EXCEPT ![d.run][d.target] = Label(d.run, d.target)]
      BY <2>1, DraftLabelled
    <3>2. \/ rows'[r][o] = rows[r][o]
          \/ d.run = r /\ d.target = o /\ rows'[r][o] = Label(r, o)
      BY <3>1 DEF LabelerInv, RowTable
    <3> QED BY <2>1, <3>1, <3>2 DEF LabelDraft
  <2>2. CASE ~LabelDraft
    <3>1. rows' = rows
      BY <2>2 DEF Next, Work, vars, fileVars, Start, PreflightAnswer, PreflightRefused, PreflightEnds, Skip, Ask,
                  AskAgain, NoLabel, Respond, LabelCluster, EndUnit, Enter, SoftStop, EndGroup, Finish, Interrupt
    <3> QED BY <3>1
  <2> QED BY <2>1, <2>2
<1>4. CASE rows'[r][o] = rows[r][o]
  <2>1. /\ rows[r][o].facts = facts["a"][ItemOf[o]]
        /\ rows[r][o].covered # 0 => basis[u] = facts["a"][ItemOf[o]]
        /\ rows[r][o].covered = 0 => facts["a"][ItemOf[o]] = {NoFacts}
        /\ ended[u] # None
    BY <1>2, <1>4 DEF LabelerInv, RowsInv, u
  <2>2. ended'[u] = ended[u] /\ basis'[u] = basis[u] BY <1>1, <2>1, EndedStays
  <2>3. facts'["a"][ItemOf[o]] = facts["a"][ItemOf[o]] BY <1>1, <1>2, <2>1, EndedStays DEF Touched
  <2> QED BY <1>4, <2>1, <2>2, <2>3 DEF u
<1>5. CASE Composable(r, o) /\ rows'[r][o] = Label(r, o) /\ UNCHANGED <<ended, answer, facts, basis>>
  <2>1. /\ rows'[r][o].facts = FactsOf(r, o)
        /\ rows'[r][o].covered = IF ended[u] = "labeled" THEN answer[u] ELSE 0
    BY <1>5 DEF Label, u
  <2>2. ended[u] = "labeled" \/ (ended[u] = "not_applicable" /\ FactsOf(r, o) # {}) BY <1>5 DEF Composable, u
  <2>3. CASE ended[u] = "labeled"
    <3>1. answer[u] > 0 /\ basis[u] = FactsOf(r, o) BY <1>1, <2>3 DEF LabelerInv, EndedCoverageInv
    <3> QED BY <1>2, <1>5, <2>1, <2>3, <3>1 DEF u, None
  <2>4. CASE ended[u] = "not_applicable" /\ FactsOf(r, o) # {}
    <3>1. FactsOf(r, o) = {NoFacts} BY <1>1, <2>4 DEF LabelerInv, EndedCoverageInv
    <3> QED BY <1>2, <1>5, <2>1, <2>4, <3>1 DEF u, None
  <2> QED BY <2>2, <2>3, <2>4
<1> QED BY <1>3, <1>4, <1>5

\* Every step keeps the invariant.
THEOREM LabelerInductive == Spec => []LabelerInv
<1>1. Init => LabelerInv BY LabelerInitial
<1>2. LabelerInv /\ [Next]_vars => LabelerInv'
  <2> SUFFICES ASSUME LabelerInv, [Next]_vars PROVE LabelerInv' OBVIOUS
  <2>1. OnlyCurrentChanges BY StepsOnCurrent
  <2> QED BY <2>1, TypesStep, GroupsStep, WorkStep, ClustersFirstStep, EndedCoverageStep, RowTableStep, RowsStep DEF LabelerInv
<1> QED BY <1>1, <1>2, PTL DEF Spec

\* The numbers in a draft's label count the facts its coverage question listed,
\* and both runs count those of run a (coverage_facts, assemble_output).
THEOREM CoverageCountsItsFacts == Spec => []CoverageFitsFacts
<1>1. LabelerInv => CoverageFitsFacts
  <2> SUFFICES ASSUME LabelerInv PROVE CoverageFitsFacts OBVIOUS
  <2>1. \A r \in Runs, o \in Outputs : FactsOf(r, o) = facts["a"][ItemOf[o]] BY DEF FactsOf, BasisRun
  <2> QED BY <2>1 DEF LabelerInv, LabelerTypes, RowsInv, CoverageFitsFacts
<1> QED BY <1>1, LabelerInductive, PTL

-------------------------------------------------------------------------------
(* The settings of the pre-flight *)

Answers(s, oks) == [settings : {s}, ok : oks]

\* What the pre-flight has answers to, and what the manifest says of it.
FlightInv ==
  /\ manifest = [settings |-> manifest.settings, ok |-> manifest.ok] /\ manifest.ok \in BOOLEAN
  /\ manifest.ok => results \in Seq(Answers(manifest.settings, {TRUE}))
  /\ proc = "preflight" => ~manifest.ok /\ results \in Seq(Answers(settings, BOOLEAN))
  /\ proc = "up" => manifest.ok /\ settings = manifest.settings

\* Every step of the pre-flight keeps what was answered with what it was asked under.
LEMMA FlightStep ==
  ASSUME FlightInv, [Next]_vars
  PROVE  FlightInv'
<1> USE DEF FlightInv
<1>1. CASE Start
  <2>1. manifest' = manifest /\ settings' = manifest.settings BY <1>1 DEF Start, fileVars
  <2>2. CASE manifest.ok BY <1>1, <2>1, <2>2 DEF Start
  <2>3. CASE ~manifest.ok
    <3>1. results' = <<>> /\ proc' = "preflight" BY <1>1, <2>3 DEF Start
    <3> QED BY <2>1, <2>3, <3>1
  <2> QED BY <2>2, <2>3
<1>2. CASE PreflightAnswer
  <2>1. PICK ok \in BOOLEAN : results' = Append(results, [settings |-> settings, ok |-> ok])
    BY <1>2 DEF PreflightAnswer
  <2>2. results' \in Seq(Answers(settings, BOOLEAN)) BY <1>2, <2>1 DEF PreflightAnswer, Flying, Answers
  <2> QED BY <1>2, <2>2 DEF PreflightAnswer, Flying, fileVars
<1>3. CASE PreflightRefused
  <2>1. results' = <<>> /\ proc' = "preflight" /\ manifest' = manifest /\ ~manifest.ok
    BY <1>3 DEF PreflightRefused, Flying, fileVars
  <2> QED BY <2>1
<1>4. CASE PreflightEnds
  <2>1. results' = results /\ settings' = settings /\ manifest' = [settings |-> settings, ok |-> Passed]
    BY <1>4 DEF PreflightEnds, flightVars
  <2>2. results \in Seq(Answers(settings, BOOLEAN)) BY <1>4 DEF PreflightEnds
  <2>3. CASE Passed
    <3>1. \A k \in 1..Len(results) : results[k] \in Answers(settings, {TRUE})
      <4> TAKE k \in 1..Len(results)
      <4>1. results[k] \in Answers(settings, BOOLEAN) BY <2>2
      <4>2. results[k].ok BY <2>2, <2>3 DEF Passed
      <4> QED BY <4>1, <4>2 DEF Answers
    <3>2. results \in [1..Len(results) -> Answers(settings, {TRUE})] /\ Len(results) \in Nat BY <2>2, <3>1
    <3>3. results \in Seq(Answers(settings, {TRUE})) BY <3>2
    <3>4. proc' = "up" BY <1>4, <2>3 DEF PreflightEnds
    <3>5. Passed = TRUE BY <2>3
    <3>6. manifest' = [settings |-> settings, ok |-> TRUE] BY <2>1, <3>5
    <3>7. manifest'.settings = settings /\ manifest'.ok = TRUE BY <3>6
    <3>8. results' \in Seq(Answers(manifest'.settings, {TRUE})) BY <2>1, <3>3, <3>7
    <3>9. manifest' = [settings |-> manifest'.settings, ok |-> manifest'.ok] BY <3>6, <3>7
    <3> QED BY <2>1, <3>4, <3>7, <3>8, <3>9
  <2>4. CASE ~Passed
    <3>1. proc' = "down" BY <1>4, <2>4 DEF PreflightEnds, Down
    <3>2. Passed = FALSE BY <2>4
    <3>3. manifest' = [settings |-> settings, ok |-> FALSE] BY <2>1, <3>2
    <3> QED BY <3>1, <3>3
  <2> QED BY <2>3, <2>4
<1>5. CASE Skip BY <1>5 DEF Skip, flightVars
<1>6. CASE Ask BY <1>6 DEF Ask, fileVars, flightVars
<1>7. CASE AskAgain BY <1>7 DEF AskAgain, fileVars, flightVars
<1>8. CASE NoLabel BY <1>8 DEF NoLabel, flightVars
<1>9. CASE Respond BY <1>9 DEF Respond, flightVars
<1>10. CASE LabelCluster BY <1>10 DEF LabelCluster, flightVars
<1>11. CASE EndUnit BY <1>11 DEF EndUnit, flightVars
<1>12. CASE Enter BY <1>12 DEF Enter, fileVars, flightVars
<1>13. CASE LabelDraft BY <1>13 DEF LabelDraft, flightVars
<1>14. CASE SoftStop BY <1>14 DEF SoftStop, fileVars, flightVars
<1>15. CASE EndGroup BY <1>15 DEF EndGroup, fileVars, flightVars
<1>16. CASE Finish BY <1>16 DEF Finish, fileVars, flightVars
<1>17. CASE Interrupt BY <1>17 DEF Interrupt, Down, fileVars, flightVars
<1>18. CASE UNCHANGED vars BY <1>18 DEF vars, fileVars, flightVars
<1> QED BY <1>1, <1>2, <1>3, <1>4, <1>5, <1>6, <1>7, <1>8, <1>9, <1>10, <1>11, <1>12, <1>13, <1>14,
           <1>15, <1>16, <1>17, <1>18 DEF Next, Work

\* The process asks with the settings that all four kinds were answered under.
THEOREM SettingsStayConfirmed == Spec => []SettingsAreConfirmed
<1>1. Init => FlightInv
  <2> SUFFICES ASSUME Init PROVE FlightInv OBVIOUS
  <2>1. manifest = [settings |-> settings, ok |-> FALSE] /\ proc = "down" BY DEF Init
  <2> QED BY <2>1 DEF FlightInv
<1>2. FlightInv /\ [Next]_vars => FlightInv' BY FlightStep
<1>3. FlightInv => SettingsAreConfirmed
  <2> SUFFICES ASSUME FlightInv, proc = "up" PROVE SettingsAreConfirmed BY DEF SettingsAreConfirmed
  <2>1. manifest.ok = TRUE /\ settings = manifest.settings BY DEF FlightInv
  <2>2. manifest = [settings |-> settings, ok |-> TRUE] BY <2>1 DEF FlightInv
  <2>3. \A k \in DOMAIN results : results[k] \in Answers(settings, {TRUE}) BY <2>1 DEF FlightInv
  <2>4. \A k \in DOMAIN results : results[k] = [settings |-> settings, ok |-> TRUE] BY <2>3 DEF Answers
  <2> QED BY <2>2, <2>4 DEF SettingsAreConfirmed
<1> QED BY <1>1, <1>2, <1>3, PTL DEF Spec

\* A unit with an end row is never asked again: its status, its answer and the
\* facts it was asked about stay, and so do the key facts of every cluster of
\* run a that has ended (done_units).
EndedUnitsStay ==
  /\ \A u \in Units : ended[u] # None => ended'[u] = ended[u] /\ answer'[u] = answer[u] /\ basis'[u] = basis[u]
  /\ \A i \in Items : ended[Unit("a", "cluster", i)] # None => facts'["a"][i] = facts["a"][i]

\* What has ended is final, over every restart.
THEOREM EndedIsFinal == Spec => [][EndedUnitsStay]_vars
<1>1. LabelerInv /\ [Next]_vars => EndedUnitsStay
  <2> SUFFICES ASSUME LabelerInv, [Next]_vars PROVE EndedUnitsStay OBVIOUS
  <2>1. OnlyCurrentChanges BY StepsOnCurrent
  <2> QED BY <2>1, EndedStays DEF EndedUnitsStay
<1> QED BY <1>1, LabelerInductive, PTL DEF Spec
=============================================================================
