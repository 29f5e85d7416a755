--------------------------- MODULE FeedCacheProofs ---------------------------
(***************************************************************************)
(* Theorems about ClickProfile and FeedCache for every set of clicks,      *)
(* rebuilds and feed requests: the profile is the log, a rebuild repairs   *)
(* it, a list has seen the newest click it must have seen, and features    *)
(* are of their time.                                                      *)
(***************************************************************************)
EXTENDS FeedCache, FiniteSetTheorems, WellFoundedInduction, TLAPS

-----------------------------------------------------------------------------
(* The inductive invariant of the profile *)

\* The transactions that may write the row when they commit.
Owns(p) ==
  \/ p \in Clicks /\ (at_step[p] = "applying" \/ (at_step[p] = "committing" /\ mine[p].exists))
  \/ p \in Rebuilds /\ write[p] /\ at_step[p] \in {"reading", "comparing", "finishing"}

\* There is one of them at most: it holds the row.
LockInv == \A p \in Actors : Owns(p) => holder = p

\* A click transaction with an update to write has the row as it is stored,
\* and adds its own click to it.
ClickAt(c) ==
  /\ at_step[c] \in {"idle", "created", "locking", "inserting", "applying", "committing", "done", "aborted"}
  /\ c \in log <=> at_step[c] = "done"
  /\ at_step[c] \in {"locking", "inserting", "applying"} => event[c] = "click" /\ c \in embedded
  /\ at_step[c] \in {"idle", "created", "done", "aborted"} => ~ mine[c].exists
  /\ at_step[c] = "inserting" => mine[c] = Empty
  /\ at_step[c] = "applying" => mine[c].exists /\ mine[c].count = row.count /\ mine[c].last = row.last
  /\ at_step[c] = "committing" /\ mine[c].exists =>
       /\ event[c] = "click" /\ c \in embedded
       /\ mine[c].count = [row.count EXCEPT ![c] = 1] /\ mine[c].last = Later(row.last, at[c])
ClickInv == \A c \in Clicks : ClickAt(c)

\* While a rebuild holds the row, what is stored beyond what it has read was
\* stored without an update.
RebuildAt(r) ==
  /\ at_step[r] \in {"idle", "locking", "inserting", "reading", "comparing", "finishing", "done", "aborted"}
  /\ seen[r] \subseteq Events
  /\ write[r] /\ at_step[r] \in {"comparing", "finishing"} => Events \ seen[r] \subseteq excused
  /\ write[r] /\ at_step[r] = "finishing" =>
       /\ mine[r].exists /\ mine[r].count = [c \in Clicks |-> IF c \in seen[r] THEN 1 ELSE 0]
       /\ \A c \in seen[r] : at[c] <= mine[r].last
  /\ write[r] /\ at_step[r] = "done" => seen[r] \cap excused = {}
RebuildInv == \A r \in Rebuilds : RebuildAt(r)

\* The row and the log.
LogInv ==
  /\ ~ row.exists => row = NoRow
  /\ \A c \in excused : c \in log /\ event[c] = "click"
  /\ \A c \in log : event[c] = "click" /\ c \notin embedded => c \in excused
  /\ \A c \in Clicks : row.count[c] = IF c \in Events \ excused THEN 1 ELSE 0

\* No two clicks are created at one time, and the row knows the latest.
TimeInv ==
  /\ \A c \in Clicks : at[c] = NoTime <=> at_step[c] = "idle"
  /\ \A c, d \in Clicks : c # d /\ at[c] = at[d] => at[c] = NoTime
  /\ \A c \in Clicks : row.count[c] > 0 => at[c] <= row.last

ProfileInv == TypeOK /\ LockInv /\ ClickInv /\ RebuildInv /\ LogInv /\ TimeInv

-----------------------------------------------------------------------------
(* The inductive invariant of the feed *)

Busy == {"profile", "recent", "exclusion", "ranked"}
HasProfile == {"recent", "exclusion", "ranked"}

\* A request knows clicks that are stored.
BaseAt(q) ==
  /\ arrived[q] \subseteq StoredClicks
  /\ f_step[q] = "idle" => answer[q] = NoList
  /\ f_step[q] \in Busy => key[q] \in StoredClicks \cup {NoClick}

\* What a worker has read it has read after its request came in.
OwnAt(q) ==
  /\ f_step[q] \in HasProfile => arrived[q] \subseteq work[q].profile \cup missed
  /\ f_step[q] = "ranked" => arrived[q] \subseteq work[q].clicked

\* A list stored, or about to be stored, under a click knows that click and
\* what was stored before it: all that a request knows which came in without it.
Before(k) == {k} \cup UNION {arrived[q] : q \in {p \in Feeds : k \notin arrived[p]}}

KeyAt(q) ==
  key[q] \in Clicks =>
    /\ f_step[q] \in HasProfile => Before(key[q]) \subseteq work[q].profile \cup missed
    /\ f_step[q] = "ranked" => Before(key[q]) \subseteq work[q].clicked

\* The clicks S were stored when the list was computed.
Knows(list, S) == S \subseteq list.clicked /\ S \subseteq list.profile \cup missed

CacheAt(k) == cache[k] # NoList => k \in StoredClicks /\ Knows(cache[k], Before(k))

\* An answer knows the newest click of its request.
AnswerAt(q) ==
  Listed(q) =>
    \A c \in arrived[q] : (\A d \in arrived[q] : at[d] <= at[c]) => Knows(answer[q], {c})

\* The times of what a worker has read.
ReadAt(q) ==
  /\ f_step[q] \in HasProfile =>
       work[q].profile \subseteq log /\ \A c \in work[q].profile : at[c] <= work[q].last
  /\ f_step[q] \in {"exclusion", "ranked"} /\ work[q].features =>
       /\ work[q].recent \subseteq log
       /\ \A c \in work[q].profile \cup work[q].recent : at[c] < now[q]

RequestAt(q) == BaseAt(q) /\ OwnAt(q) /\ KeyAt(q) /\ AnswerAt(q) /\ ReadAt(q)

FeedInv ==
  /\ ProfileInv /\ FeedTypeOK /\ excused \subseteq missed
  /\ \A q \in Feeds : RequestAt(q)
  /\ \A k \in Clicks : CacheAt(k)

-----------------------------------------------------------------------------
(* Lemmas *)

\* Every nonempty set of naturals has a least element.
LEMMA LeastElement ==
  ASSUME NEW T \in SUBSET Nat, T # {}
  PROVE  \E m \in T : \A k \in T : m <= k
<1> DEFINE Segments == {1..k : k \in T}
<1>1. Segments \subseteq FiniteSubsetsOf(Nat)
  <2> SUFFICES ASSUME NEW k \in T PROVE 1..k \in FiniteSubsetsOf(Nat)
    OBVIOUS
  <2>1. IsFiniteSet(1..k)
    BY FS_Interval
  <2> QED BY <2>1 DEF FiniteSubsetsOf
<1>2. PICK s \in Segments : \A t \in Segments : ~ (<<t, s>> \in StrictSubsetOrdering(Nat))
  <2>1. IsWellFoundedOn(StrictSubsetOrdering(Nat), FiniteSubsetsOf(Nat))
    BY FS_StrictSubsetOrderingWellFounded
  <2>2. Segments # {}
    OBVIOUS
  <2> HIDE DEF Segments
  <2> QED BY <1>1, <2>1, <2>2, WFMin
<1>3. PICK m \in T : s = 1..m
  OBVIOUS
<1>4. ASSUME NEW k \in T, k < m PROVE FALSE
  <2>1. 1..k \subseteq 1..m /\ m \in 1..m /\ m \notin 1..k
    BY <1>4
  <2>2. <<1..k, 1..m>> \in StrictSubsetOrdering(Nat)
    BY <2>1 DEF StrictSubsetOrdering
  <2> QED BY <1>2, <1>3, <2>2
<1> QED BY <1>4

\* A bounded set of times has a latest one, which Max returns.
LEMMA MaxIsMember ==
  ASSUME NEW n \in Nat, NEW T \in SUBSET (0..n), T # {}
  PROVE  Max(T) \in T /\ \A k \in T : k <= Max(T)
<1> DEFINE D == {n - k : k \in T}
<1>1. D \in SUBSET Nat /\ D # {}
  <2>1. \A k \in T : n - k \in Nat
    OBVIOUS
  <2>2. D \subseteq Nat
    BY <2>1
  <2>3. PICK k \in T : TRUE
    OBVIOUS
  <2>4. n - k \in D
    OBVIOUS
  <2> QED BY <2>2, <2>4
<1>2. PICK m \in D : \A k \in D : m <= k
  <2> HIDE DEF D
  <2> QED BY <1>1, LeastElement
<1>3. PICK x \in T : m = n - x
  OBVIOUS
<1>4. \A y \in T : x >= y
  <2> SUFFICES ASSUME NEW y \in T PROVE x >= y
    OBVIOUS
  <2>1. n - x <= n - y
    BY <1>2, <1>3
  <2> QED BY <2>1
<1>5. Max(T) \in T /\ \A y \in T : Max(T) >= y
  BY <1>4 DEF Max
<1> QED BY <1>5

\* A state computed from the clicks S counts them once and knows the latest.
LEMMA FreshState ==
  ASSUME TypeOK, NEW S \in SUBSET Clicks
  PROVE  /\ Fresh(S) \in States /\ Fresh(S).exists
         /\ Fresh(S).count = [c \in Clicks |-> IF c \in S THEN 1 ELSE 0]
         /\ \A c \in S : at[c] <= Fresh(S).last
<1> DEFINE T == {at[c] : c \in S}
<1>1. clock \in Nat /\ T \in SUBSET (0..clock)
  BY DEF TypeOK
<1>2. CASE S = {}
  <2>1. LatestOf(S) = 0
    BY <1>2 DEF LatestOf, NoTime
  <2> QED BY <1>1, <1>2, <2>1 DEF Fresh, States
<1>3. CASE S # {}
  <2>1. T # {} /\ LatestOf(S) = Max(T)
    BY <1>3 DEF LatestOf
  <2>2. Max(T) \in T /\ \A k \in T : k <= Max(T)
    <3> HIDE DEF T
    <3> QED BY <1>1, <2>1, MaxIsMember
  <2>3. LatestOf(S) \in 0..clock /\ \A c \in S : at[c] <= LatestOf(S)
    BY <1>1, <2>1, <2>2
  <2> QED BY <2>3 DEF Fresh, States
<1> QED BY <1>2, <1>3

\* Time goes on and a state stays one.
LEMMA StatesGrow ==
  ASSUME clock \in Nat, clock' \in Nat, clock <= clock'
  PROVE  States \subseteq States'
<1>1. 0..clock \subseteq 0..clock'
  OBVIOUS
<1> QED BY <1>1 DEF States

LEMMA EmptyStates ==
  ASSUME clock \in Nat
  PROVE  /\ Empty \in States /\ NoRow \in States /\ Empty.exists /\ ~ NoRow.exists
         /\ Empty.count = [c \in Clicks |-> 0] /\ NoRow.count = [c \in Clicks |-> 0]
         /\ Empty.last = NoTime /\ NoRow.last = NoTime
<1> DEFINE zero == [c \in Clicks |-> 0]
<1>1. zero \in [Clicks -> {0, 1}] /\ 0 \in 0..clock
  OBVIOUS
<1> HIDE DEF zero
<1>2. Empty = [exists |-> TRUE, count |-> zero, last |-> 0]
  BY DEF Empty, NoTime, zero
<1>3. NoRow = [exists |-> FALSE, count |-> zero, last |-> 0]
  BY <1>2 DEF NoRow, NoTime
<1>4. Empty \in States /\ NoRow \in States
  BY <1>1, <1>2, <1>3 DEF States
<1> QED BY <1>2, <1>3, <1>4 DEF NoTime, zero

LEMMA InitProfile == Init => ProfileInv
<1> SUFFICES ASSUME Init PROVE ProfileInv
  OBVIOUS
<1> USE NobodyAssumption
<1>1. clock \in Nat /\ row = NoRow
  BY DEF Init
<1>2. TypeOK
  BY <1>1, EmptyStates DEF Init, TypeOK, Actors, NoTime
<1>3. LockInv
  BY <1>1, EmptyStates DEF Init, LockInv, Owns, Actors
<1>4. ClickInv
  BY <1>1, EmptyStates DEF Init, ClickInv, ClickAt, Actors
<1>5. RebuildInv
  BY DEF Init, RebuildInv, RebuildAt, Actors, Events
<1>6. LogInv
  BY <1>1, EmptyStates DEF Init, LogInv, Events
<1>7. TimeInv
  BY <1>1, EmptyStates DEF Init, TimeInv, NoTime, Actors
<1> QED BY <1>2, <1>3, <1>4, <1>5, <1>6, <1>7 DEF ProfileInv

\* A transaction that ends, or goes back to its savepoint, holds nothing any more.
LEMMA Released ==
  ASSUME TypeOK, NEW p \in Actors, Release(p)
  PROVE  /\ mine' \in [Actors -> States] /\ ~ mine'[p].exists
         /\ holder' \in Actors \cup {Nobody} /\ holder' # p
         /\ \A q \in Actors : q # p => mine'[q] = mine[q] /\ (holder = q => holder' = q)
<1>1. NoRow \in States /\ ~ NoRow.exists
  BY EmptyStates DEF TypeOK
<1> QED BY <1>1, NobodyAssumption DEF Release, TypeOK, Actors

\* A click transaction does not notice what the others do, if they leave the
\* row alone that it has read.
LEMMA ClickOthers ==
  ASSUME NEW c \in Clicks, ClickAt(c),
         at_step'[c] = at_step[c], mine'[c] = mine[c], event'[c] = event[c], at'[c] = at[c],
         c \in log' <=> c \in log, embedded \subseteq embedded', row' = row \/ ~ Owns(c)
  PROVE  ClickAt(c)'
<1>1. CASE row' = row
  BY <1>1 DEF ClickAt
<1>2. CASE ~ Owns(c)
  BY <1>2 DEF ClickAt, Owns
<1> QED BY <1>1, <1>2

\* Nor does a rebuild, if what is stored while it holds the row is excused and
\* what it has read is not excused again.
LEMMA RebuildOthers ==
  ASSUME NEW r \in Rebuilds, RebuildAt(r),
         at_step'[r] = at_step[r], mine'[r] = mine[r], write'[r] = write[r], seen'[r] = seen[r],
         Events \subseteq Events', \A c \in seen[r] : at'[c] = at[c],
         Owns(r) => Events' \ Events \subseteq excused' /\ excused \subseteq excused',
         excused' \cap seen[r] \subseteq excused
  PROVE  RebuildAt(r)'
BY DEF RebuildAt, Owns

\* Of two transactions one at most has the row.
LEMMA OneOwner ==
  ASSUME LockInv, NEW p \in Actors, NEW q \in Actors, Owns(p), Owns(q)
  PROVE  p = q
BY DEF LockInv

\* What the commit of a click transaction does: with its update, ...
LEMMA CommitWith ==
  ASSUME ProfileInv, NEW c \in Clicks, CommitClick(c), mine[c].exists
  PROVE  /\ Owns(c) /\ row' = mine[c] /\ excused' = excused /\ c \notin excused
         /\ row'.count = [row.count EXCEPT ![c] = 1] /\ row'.last = Later(row.last, at[c])
         /\ Events' = Events \cup {c} /\ c \in embedded /\ c \notin log
<1>1. TypeOK /\ LogInv /\ ClickAt(c) /\ at_step[c] = "committing"
  BY DEF ProfileInv, ClickInv, CommitClick
<1>2. c \notin log /\ event[c] = "click" /\ c \in embedded
  BY <1>1 DEF ClickAt
<1>3. Owns(c)
  BY <1>1 DEF Owns
<1>4. /\ row' = mine[c] /\ excused' = excused /\ log' = log \cup {c}
      /\ UNCHANGED <<event, embedded>>
  BY DEF CommitClick, requestVars
<1>5. Events' = Events \cup {c}
  BY <1>2, <1>4 DEF Events
<1>6. c \notin excused
  BY <1>1, <1>2 DEF LogInv
<1> QED BY <1>1, <1>2, <1>3, <1>4, <1>5, <1>6 DEF ClickAt

\* ... and without one.
LEMMA CommitWithout ==
  ASSUME ProfileInv, NEW c \in Clicks, CommitClick(c), ~ mine[c].exists
  PROVE  /\ row' = row /\ excused' = (IF event[c] = "click" THEN excused \cup {c} ELSE excused)
         /\ Events \subseteq Events' /\ Events' \subseteq Events \cup {c}
         /\ (c \in Events' => event[c] = "click") /\ c \notin log
<1>1. TypeOK /\ ClickAt(c) /\ at_step[c] = "committing"
  BY DEF ProfileInv, ClickInv, CommitClick
<1>2. c \notin log
  BY <1>1 DEF ClickAt
<1>3. /\ row' = row /\ log' = log \cup {c} /\ UNCHANGED <<event, embedded>>
      /\ excused' = (IF event[c] = "click" THEN excused \cup {c} ELSE excused)
  BY DEF CommitClick, requestVars
<1>4. Events \subseteq Events' /\ Events' \subseteq Events \cup {c} /\ (c \in Events' => event[c] = "click")
  BY <1>3 DEF Events
<1> QED BY <1>2, <1>3, <1>4

\* What the commit of a rebuild does that is not a check only.
LEMMA CommitFresh ==
  ASSUME ProfileInv, NEW r \in Rebuilds, CommitRebuild(r), write[r]
  PROVE  /\ Owns(r) /\ row' = mine[r] /\ excused' = excused \ seen[r]
         /\ mine[r].exists /\ mine[r].count = [c \in Clicks |-> IF c \in seen[r] THEN 1 ELSE 0]
         /\ \A c \in seen[r] : at[c] <= mine[r].last
         /\ seen[r] \subseteq Events /\ Events \ seen[r] \subseteq excused
<1>1. RebuildAt(r) /\ at_step[r] = "finishing"
  BY DEF ProfileInv, RebuildInv, CommitRebuild
<1>2. Owns(r) /\ row' = mine[r] /\ excused' = excused \ seen[r]
  BY <1>1 DEF Owns, CommitRebuild
<1> QED BY <1>1, <1>2 DEF RebuildAt

LEMMA EmbedItemStep ==
  ASSUME ProfileInv, NEW c \in Clicks, EmbedItem(c)
  PROVE  ProfileInv'
<1> USE NobodyAssumption
<1>1. TypeOK /\ LockInv /\ ClickInv /\ RebuildInv /\ LogInv /\ TimeInv /\ c \in Actors
  BY DEF ProfileInv, Actors
<1>2. TypeOK'
  BY <1>1 DEF EmbedItem, Goto, requestVars, tableVars, jobVars, TypeOK, States, Actors
<1>3. LockInv'
  BY <1>1 DEF EmbedItem, Goto, requestVars, tableVars, jobVars, TypeOK, LockInv, Owns, Actors
<1>4. ClickInv'
  BY <1>1 DEF EmbedItem, Goto, requestVars, tableVars, jobVars, TypeOK, ClickInv, ClickAt, Actors, LockInv, Owns
<1>5. RebuildInv'
  <2>1. Events \subseteq Events' /\ Events' \ Events \subseteq excused /\ excused' = excused
    BY <1>1 DEF EmbedItem, requestVars, tableVars, LogInv, Events
  <2>2. ASSUME NEW r \in Rebuilds PROVE RebuildAt(r)'
    <3>1. RebuildAt(r) /\ UNCHANGED <<at_step, mine, write, seen, at>>
      BY <1>1 DEF EmbedItem, requestVars, jobVars, RebuildInv
    <3> QED BY <2>1, <3>1, RebuildOthers
  <2> QED BY <2>2 DEF RebuildInv
<1>6. LogInv'
  BY <1>1 DEF EmbedItem, Goto, requestVars, tableVars, jobVars, TypeOK, LogInv, Events
<1>7. TimeInv'
  BY <1>1 DEF EmbedItem, Goto, requestVars, tableVars, jobVars, TypeOK, TimeInv, Actors
<1> QED BY <1>2, <1>3, <1>4, <1>5, <1>6, <1>7 DEF ProfileInv

LEMMA CreateStep ==
  ASSUME ProfileInv, NEW c \in Clicks, Create(c)
  PROVE  ProfileInv'
<1> USE NobodyAssumption
<1>1. TypeOK /\ LockInv /\ ClickInv /\ RebuildInv /\ LogInv /\ TimeInv /\ c \in Actors
  BY DEF ProfileInv, Actors
<1>2. TypeOK'
  BY <1>1 DEF Create, Goto, requestVars, tableVars, jobVars, TypeOK, States, Actors
<1>3. LockInv'
  BY <1>1 DEF Create, Goto, requestVars, tableVars, jobVars, TypeOK, LockInv, Owns, Actors
<1>4. ClickInv'
  BY <1>1 DEF Create, Goto, requestVars, tableVars, jobVars, TypeOK, ClickInv, ClickAt, Actors, LockInv, Owns
<1>5. RebuildInv'
  <2>1. c \notin log /\ UNCHANGED <<log, embedded, excused, row>>
        /\ \A d \in Clicks : d # c => event'[d] = event[d] /\ at'[d] = at[d]
    BY <1>1 DEF Create, tableVars, ClickInv, ClickAt, TypeOK
  <2>2. Events' = Events
    BY <1>1, <2>1 DEF Events, TypeOK
  <2>3. ASSUME NEW r \in Rebuilds PROVE RebuildAt(r)'
    <3>1. RebuildAt(r) /\ UNCHANGED <<mine, write, seen>> /\ at_step'[r] = at_step[r]
      BY <1>1, NobodyAssumption DEF Create, jobVars, Goto, RebuildInv, TypeOK, Actors
    <3>2. c \notin seen[r] /\ seen[r] \subseteq Clicks
      BY <1>1, <2>1, <3>1 DEF RebuildAt, Events, TypeOK
    <3> QED BY <2>1, <2>2, <3>1, <3>2, RebuildOthers
  <2> QED BY <2>3 DEF RebuildInv
<1>6. LogInv'
  <2>1. c \notin log /\ UNCHANGED <<log, embedded, excused, row>>
        /\ \A d \in Clicks : d # c => event'[d] = event[d] /\ at'[d] = at[d]
    BY <1>1 DEF Create, tableVars, ClickInv, ClickAt, TypeOK
  <2>2. Events' = Events /\ c \notin excused
    BY <1>1, <2>1 DEF Events, TypeOK, LogInv
  <2> QED BY <1>1, <2>1, <2>2 DEF LogInv, TypeOK
<1>7. TimeInv'
  <2>1. c \notin log /\ UNCHANGED <<log, embedded, excused, row>>
        /\ \A d \in Clicks : d # c => event'[d] = event[d] /\ at'[d] = at[d]
    BY <1>1 DEF Create, tableVars, ClickInv, ClickAt, TypeOK
  <2>2. /\ clock \in Nat /\ at'[c] = clock + 1 /\ \A d \in Clicks : at[d] \in 0..clock
        /\ \A d \in Clicks : d # c => at_step'[d] = at_step[d]
        /\ at_step'[c] = "created"
    BY <1>1 DEF Create, Goto, TypeOK, Actors
  <2>3. row.count[c] = 0
    BY <1>1, <2>1 DEF LogInv, Events
  <2> QED BY <1>1, <2>1, <2>2, <2>3 DEF TimeInv, NoTime
<1> QED BY <1>2, <1>3, <1>4, <1>5, <1>6, <1>7 DEF ProfileInv

LEMMA FlushStep ==
  ASSUME ProfileInv, NEW c \in Clicks, Flush(c)
  PROVE  ProfileInv'
<1> USE NobodyAssumption
<1>1. TypeOK /\ LockInv /\ ClickInv /\ RebuildInv /\ LogInv /\ TimeInv /\ c \in Actors
  BY DEF ProfileInv, Actors
<1>2. TypeOK'
  BY <1>1 DEF Flush, Goto, requestVars, tableVars, jobVars, TypeOK, States, Actors
<1>3. LockInv'
  <2>1. at_step[c] = "created" /\ ClickAt(c)
    BY <1>1 DEF Flush, ClickInv
  <2>2. ~ mine[c].exists
    <3>1. at_step[c] \in {"idle", "created", "done", "aborted"}
      BY <2>1
    <3> QED BY <2>1, <3>1, Zenon DEF ClickAt
  <2>3. /\ UNCHANGED <<holder, mine, write>>
        /\ at_step'[c] \in {"locking", "committing"}
        /\ \A p \in Actors : p # c => at_step'[p] = at_step[p]
    BY <1>1 DEF Flush, Goto, tableVars, jobVars, TypeOK
  <2>4. ASSUME NEW p \in Actors, Owns(p)' PROVE Owns(p) /\ p # c
    BY <1>1, <2>2, <2>3, <2>4 DEF Owns
  <2> QED BY <1>1, <2>3, <2>4 DEF LockInv
<1>4. ClickInv'
  BY <1>1 DEF Flush, Goto, requestVars, tableVars, jobVars, TypeOK, ClickInv, ClickAt, Actors, LockInv, Owns
<1>5. RebuildInv'
  BY <1>1 DEF Flush, Goto, requestVars, tableVars, jobVars, TypeOK, RebuildInv, RebuildAt, Actors, Events
<1>6. LogInv'
  BY <1>1 DEF Flush, Goto, requestVars, tableVars, jobVars, TypeOK, LogInv, Events
<1>7. TimeInv'
  BY <1>1 DEF Flush, Goto, requestVars, tableVars, jobVars, TypeOK, TimeInv, Actors
<1> QED BY <1>2, <1>3, <1>4, <1>5, <1>6, <1>7 DEF ProfileInv

LEMMA LockProfileStep ==
  ASSUME ProfileInv, NEW c \in Clicks, LockProfile(c)
  PROVE  ProfileInv'
<1> USE NobodyAssumption
<1>1. TypeOK /\ LockInv /\ ClickInv /\ RebuildInv /\ LogInv /\ TimeInv /\ c \in Actors
  BY DEF ProfileInv, Actors
<1>2. TypeOK'
  <2>1. Empty \in States
    BY <1>1, EmptyStates DEF TypeOK
  <2>2. /\ holder' \in Actors \cup {Nobody}
        /\ \E s \in States : mine' = [mine EXCEPT ![c] = s]
    BY <1>1, <2>1 DEF LockProfile, Lock, TypeOK
  <2>3. at_step' \in [Actors -> {"idle", "created", "locking", "inserting", "applying", "committing",
                               "reading", "comparing", "finishing", "done", "aborted"}]
    BY <1>1 DEF LockProfile, Lock, Goto, TypeOK
  <2>4. UNCHANGED <<clock, event, at, embedded, log, row, excused, write, seen, outcome>> /\ States' = States
    <3>1. UNCHANGED <<clock, event, at, embedded, log, row, excused, write, seen, outcome>>
      BY <1>1 DEF LockProfile, Lock, requestVars, tableVars, jobVars
    <3>2. States' = States
      BY <3>1 DEF States
    <3> QED BY <3>1, <3>2
  <2>5. mine' \in [Actors -> States'] /\ row' \in States'
    BY <1>1, <2>2, <2>4 DEF TypeOK
  <2>6. clock' \in Nat /\ at' \in [Clicks -> 0..clock']
    BY <1>1, <2>4 DEF TypeOK
  <2> QED BY <1>1, <2>2, <2>3, <2>4, <2>5, <2>6 DEF TypeOK
<1>3. LockInv'
  BY <1>1 DEF LockProfile, Goto, requestVars, tableVars, jobVars, Lock, TypeOK, LockInv, Owns, Actors
<1>4. ClickInv'
  <2>1. ASSUME NEW d \in Clicks, d # c PROVE ClickAt(d)'
    BY <1>1, <2>1, ClickOthers DEF LockProfile, Lock, Goto, requestVars, tableVars, TypeOK, ClickInv, Actors
  <2>2. ClickAt(c)'
    <3>1. at_step[c] = "locking" /\ ClickAt(c) /\ UNCHANGED <<event, embedded, log, row>>
      BY <1>1 DEF LockProfile, Lock, requestVars, tableVars, ClickInv
    <3>2. \/ at_step'[c] = "applying" /\ row.exists /\ mine'[c] = row
          \/ at_step'[c] = "inserting" /\ mine'[c] = Empty
      BY <1>1 DEF LockProfile, Lock, Goto, TypeOK
    <3> QED BY <3>1, <3>2 DEF ClickAt
  <2> QED BY <2>1, <2>2 DEF ClickInv
<1>5. RebuildInv'
  BY <1>1 DEF LockProfile, Goto, requestVars, tableVars, jobVars, Lock, TypeOK, RebuildInv, RebuildAt, Actors, Events
<1>6. LogInv'
  BY <1>1 DEF LockProfile, Goto, requestVars, tableVars, jobVars, Lock, TypeOK, LogInv, Events
<1>7. TimeInv'
  BY <1>1 DEF LockProfile, Goto, requestVars, tableVars, jobVars, Lock, TypeOK, TimeInv, Actors
<1> QED BY <1>2, <1>3, <1>4, <1>5, <1>6, <1>7 DEF ProfileInv

LEMMA InsertProfileStep ==
  ASSUME ProfileInv, NEW c \in Clicks, InsertProfile(c)
  PROVE  ProfileInv'
<1> USE NobodyAssumption
<1>1. TypeOK /\ LockInv /\ ClickInv /\ RebuildInv /\ LogInv /\ TimeInv /\ c \in Actors
  BY DEF ProfileInv, Actors
<1>2. TypeOK'
  BY <1>1 DEF InsertProfile, Goto, requestVars, tableVars, jobVars, InsertRow, TypeOK, States, Actors
<1>3. LockInv'
  BY <1>1 DEF InsertProfile, Goto, requestVars, tableVars, jobVars, InsertRow, TypeOK, LockInv, Owns, Actors
<1>4. ClickInv'
  <2>1. ASSUME NEW d \in Clicks, d # c PROVE ClickAt(d)'
    BY <1>1, <2>1, ClickOthers DEF InsertProfile, InsertRow, Goto, requestVars, tableVars, TypeOK, ClickInv, Actors
  <2>2. ClickAt(c)'
    <3>1. at_step[c] = "inserting" /\ ClickAt(c) /\ UNCHANGED <<event, embedded, log, row, mine>>
      BY <1>1 DEF InsertProfile, InsertRow, requestVars, tableVars, ClickInv
    <3>2. \/ at_step'[c] = "locking"
          \/ at_step'[c] = "applying" /\ ~ row.exists
      BY <1>1 DEF InsertProfile, InsertRow, Goto, TypeOK
    <3>3. Empty.exists /\ Empty.count = NoRow.count /\ Empty.last = NoRow.last
      BY <1>1, EmptyStates DEF TypeOK
    <3>4. ~ row.exists => row = NoRow
      BY <1>1 DEF LogInv
    <3> QED BY <3>1, <3>2, <3>3, <3>4 DEF ClickAt
  <2> QED BY <2>1, <2>2 DEF ClickInv
<1>5. RebuildInv'
  BY <1>1 DEF InsertProfile, Goto, requestVars, tableVars, jobVars, InsertRow, TypeOK, RebuildInv, RebuildAt, Actors, Events
<1>6. LogInv'
  BY <1>1 DEF InsertProfile, Goto, requestVars, tableVars, jobVars, InsertRow, TypeOK, LogInv, Events
<1>7. TimeInv'
  BY <1>1 DEF InsertProfile, Goto, requestVars, tableVars, jobVars, InsertRow, TypeOK, TimeInv, Actors
<1> QED BY <1>2, <1>3, <1>4, <1>5, <1>6, <1>7 DEF ProfileInv

LEMMA ApplyStep ==
  ASSUME ProfileInv, NEW c \in Clicks, Apply(c)
  PROVE  ProfileInv'
<1> USE NobodyAssumption
<1>1. TypeOK /\ LockInv /\ ClickInv /\ RebuildInv /\ LogInv /\ TimeInv /\ c \in Actors
  BY DEF ProfileInv, Actors
<1>2. TypeOK'
  <2>1. /\ at_step[c] = "applying" /\ ClickAt(c)
        /\ mine[c].exists /\ mine[c].count = row.count /\ mine[c].last = row.last
        /\ event[c] = "click" /\ c \in embedded /\ c \notin log
    BY <1>1 DEF Apply, ClickInv, ClickAt
  <2>2. row.count \in [Clicks -> {0, 1}] /\ row.count[c] = 0 /\ row.last \in 0..clock /\ at[c] \in 0..clock
    BY <1>1, <2>1 DEF TypeOK, States, LogInv, Events
  <2> DEFINE new == [exists |-> TRUE, last |-> Later(mine[c].last, at[c]),
                     count |-> [mine[c].count EXCEPT ![c] = @ + 1]]
  <2>3. /\ mine' = [mine EXCEPT ![c] = new] /\ UNCHANGED <<clock, event, at, embedded, log, row, excused, holder>>
        /\ UNCHANGED <<write, seen, outcome>>
    BY DEF Apply, requestVars, tableVars, jobVars
  <2>4. new.exists /\ new.count = [row.count EXCEPT ![c] = 1] /\ new.last = Later(row.last, at[c])
    BY <2>1, <2>2
  <2>5. new \in States
    <3>1. new.last \in 0..clock
      BY <2>2, <2>4 DEF Later
    <3>2. new.count \in [Clicks -> {0, 1}]
      BY <2>2, <2>4
    <3> QED BY <3>1, <3>2, <2>4 DEF States
  <2> HIDE DEF new
  <2>6. mine' \in [Actors -> States]
    BY <1>1, <2>3, <2>5 DEF TypeOK
  <2>7. at_step' \in [Actors -> {"idle", "created", "locking", "inserting", "applying", "committing",
                               "reading", "comparing", "finishing", "done", "aborted"}]
    BY <1>1 DEF Apply, Goto, TypeOK
  <2>8. States' = States
    BY <2>3 DEF States
  <2> QED BY <1>1, <2>3, <2>6, <2>7, <2>8 DEF TypeOK
<1>3. LockInv'
  BY <1>1 DEF Apply, Goto, requestVars, tableVars, jobVars, TypeOK, LockInv, Owns, Actors
<1>4. ClickInv'
  <2>1. /\ at_step[c] = "applying" /\ ClickAt(c)
        /\ mine[c].exists /\ mine[c].count = row.count /\ mine[c].last = row.last
        /\ event[c] = "click" /\ c \in embedded /\ c \notin log
    BY <1>1 DEF Apply, ClickInv, ClickAt
  <2>2. row.count \in [Clicks -> {0, 1}] /\ row.count[c] = 0 /\ row.last \in 0..clock /\ at[c] \in 0..clock
    BY <1>1, <2>1 DEF TypeOK, States, LogInv, Events
  <2> DEFINE new == [exists |-> TRUE, last |-> Later(mine[c].last, at[c]),
                     count |-> [mine[c].count EXCEPT ![c] = @ + 1]]
  <2>3. /\ mine' = [mine EXCEPT ![c] = new] /\ UNCHANGED <<clock, event, at, embedded, log, row, excused, holder>>
        /\ UNCHANGED <<write, seen, outcome>>
    BY DEF Apply, requestVars, tableVars, jobVars
  <2>4. new.exists /\ new.count = [row.count EXCEPT ![c] = 1] /\ new.last = Later(row.last, at[c])
    BY <2>1, <2>2
  <2> HIDE DEF new
  <2>5. ASSUME NEW d \in Clicks, d # c PROVE ClickAt(d)'
    <3>1. at_step'[d] = at_step[d] /\ mine'[d] = mine[d] /\ ClickAt(d)
      BY <1>1, <2>3, <2>5 DEF Apply, Goto, TypeOK, Actors, ClickInv
    <3> QED BY <2>3, <3>1, ClickOthers
  <2>6. at_step'[c] = "committing" /\ mine'[c] = new
    BY <1>1, <2>3 DEF Apply, Goto, TypeOK
  <2>7. ClickAt(c)'
    BY <2>1, <2>3, <2>4, <2>6 DEF ClickAt, Later
  <2> QED BY <2>5, <2>7 DEF ClickInv
<1>5. RebuildInv'
  BY <1>1 DEF Apply, Goto, requestVars, tableVars, jobVars, TypeOK, RebuildInv, RebuildAt, Actors, Events
<1>6. LogInv'
  BY <1>1 DEF Apply, Goto, requestVars, tableVars, jobVars, TypeOK, LogInv, Events
<1>7. TimeInv'
  BY <1>1 DEF Apply, Goto, requestVars, tableVars, jobVars, TypeOK, TimeInv, Actors
<1> QED BY <1>2, <1>3, <1>4, <1>5, <1>6, <1>7 DEF ProfileInv

LEMMA UpdateFailsStep ==
  ASSUME ProfileInv, NEW c \in Clicks, UpdateFails(c)
  PROVE  ProfileInv'
<1> USE NobodyAssumption
<1>1. TypeOK /\ LockInv /\ ClickInv /\ RebuildInv /\ LogInv /\ TimeInv /\ c \in Actors
  BY DEF ProfileInv, Actors
<1>2. TypeOK'
  <2>1. /\ mine' \in [Actors -> States] /\ ~ mine'[c].exists
        /\ holder' \in Actors \cup {Nobody} /\ holder' # c
        /\ \A q \in Actors : q # c => mine'[q] = mine[q] /\ (holder = q => holder' = q)
    BY <1>1, Released DEF UpdateFails
  <2>2. UNCHANGED <<clock, event, at, embedded, log, row, excused, write, seen>> /\ States' = States
    BY DEF UpdateFails, requestVars, tableVars, jobVars, States
  <2>3. at_step' \in [Actors -> {"idle", "created", "locking", "inserting", "applying", "committing",
                               "reading", "comparing", "finishing", "done", "aborted"}]
    BY <1>1 DEF UpdateFails, Goto, TypeOK
  <2>4. outcome' \in [Rebuilds -> {"none", "unchanged", "rebuilt", "mismatch"}]
    BY <1>1 DEF UpdateFails, jobVars, TypeOK
  <2> QED BY <1>1, <2>1, <2>2, <2>3, <2>4 DEF TypeOK
<1>3. LockInv'
  <2>1. /\ mine' \in [Actors -> States] /\ ~ mine'[c].exists
        /\ holder' \in Actors \cup {Nobody} /\ holder' # c
        /\ \A q \in Actors : q # c => mine'[q] = mine[q] /\ (holder = q => holder' = q)
    BY <1>1, Released DEF UpdateFails
  <2> QED BY <1>1, <2>1 DEF UpdateFails, Goto, jobVars, TypeOK, LockInv, Owns, Actors
<1>4. ClickInv'
  <2>1. /\ mine' \in [Actors -> States] /\ ~ mine'[c].exists
        /\ holder' \in Actors \cup {Nobody} /\ holder' # c
        /\ \A q \in Actors : q # c => mine'[q] = mine[q] /\ (holder = q => holder' = q)
    BY <1>1, Released DEF UpdateFails
  <2>2. UNCHANGED <<event, at, embedded, log, row>>
    BY DEF UpdateFails, requestVars, tableVars
  <2>3. ASSUME NEW d \in Clicks, d # c PROVE ClickAt(d)'
    <3>1. at_step'[d] = at_step[d] /\ mine'[d] = mine[d] /\ ClickAt(d)
      BY <1>1, <2>1, <2>3 DEF UpdateFails, Goto, TypeOK, Actors, ClickInv
    <3> QED BY <2>2, <3>1, ClickOthers
  <2>4. ClickAt(c)'
    <3>1. at_step[c] # "done" /\ at_step'[c] = "committing" /\ ClickAt(c)
      BY <1>1 DEF UpdateFails, Goto, TypeOK, ClickInv
    <3> QED BY <2>1, <2>2, <3>1 DEF ClickAt
  <2> QED BY <2>3, <2>4 DEF ClickInv
<1>5. RebuildInv'
  BY <1>1 DEF UpdateFails, Goto, requestVars, tableVars, jobVars, Release, TypeOK, RebuildInv, RebuildAt, Actors, Events
<1>6. LogInv'
  BY <1>1 DEF UpdateFails, Goto, requestVars, tableVars, jobVars, Release, TypeOK, LogInv, Events
<1>7. TimeInv'
  BY <1>1 DEF UpdateFails, Goto, requestVars, tableVars, jobVars, Release, TypeOK, TimeInv, Actors
<1> QED BY <1>2, <1>3, <1>4, <1>5, <1>6, <1>7 DEF ProfileInv

LEMMA CommitClickStep ==
  ASSUME ProfileInv, NEW c \in Clicks, CommitClick(c)
  PROVE  ProfileInv'
<1> USE NobodyAssumption
<1>1. TypeOK /\ LockInv /\ ClickInv /\ RebuildInv /\ LogInv /\ TimeInv /\ c \in Actors
  BY DEF ProfileInv, Actors
<1>2. TypeOK'
  <2>1. /\ mine' \in [Actors -> States] /\ ~ mine'[c].exists
        /\ holder' \in Actors \cup {Nobody} /\ holder' # c
        /\ \A q \in Actors : q # c => mine'[q] = mine[q] /\ (holder = q => holder' = q)
    BY <1>1, Released DEF CommitClick
  <2>2. /\ at_step[c] = "committing" /\ log' = log \cup {c}
        /\ UNCHANGED <<clock, event, at, embedded, write, seen, outcome>>
    BY DEF CommitClick, requestVars, jobVars
  <2>3. \A p \in Actors : p # c => at_step'[p] = at_step[p]
    BY <1>1 DEF CommitClick, Goto, TypeOK
  <2>4. row' \in States /\ excused' \subseteq Clicks
    BY <1>1 DEF CommitClick, TypeOK
  <2>5. at_step' \in [Actors -> {"idle", "created", "locking", "inserting", "applying", "committing",
                               "reading", "comparing", "finishing", "done", "aborted"}]
    BY <1>1 DEF CommitClick, Goto, TypeOK
  <2>6. States' = States
    BY <2>2 DEF States
  <2> QED BY <1>1, <2>1, <2>2, <2>4, <2>5, <2>6 DEF TypeOK
<1>3. LockInv'
  BY <1>1 DEF CommitClick, Goto, requestVars, tableVars, jobVars, Release, TypeOK, LockInv, Owns, Actors
<1>4. ClickInv'
  <2>1. /\ mine' \in [Actors -> States] /\ ~ mine'[c].exists
        /\ holder' \in Actors \cup {Nobody} /\ holder' # c
        /\ \A q \in Actors : q # c => mine'[q] = mine[q] /\ (holder = q => holder' = q)
    BY <1>1, Released DEF CommitClick
  <2>2. /\ at_step[c] = "committing" /\ log' = log \cup {c}
        /\ UNCHANGED <<clock, event, at, embedded, write, seen, outcome>>
    BY DEF CommitClick, requestVars, jobVars
  <2>3. \A p \in Actors : p # c => at_step'[p] = at_step[p]
    BY <1>1 DEF CommitClick, Goto, TypeOK
  <2>4. ASSUME NEW d \in Clicks, d # c PROVE ClickAt(d)'
    <3>1. ClickAt(d) /\ at_step'[d] = at_step[d] /\ mine'[d] = mine[d] /\ (d \in log' <=> d \in log)
      BY <1>1, <2>1, <2>2, <2>3, <2>4 DEF ClickInv, Actors
    <3>2. row' = row \/ ~ Owns(d)
      BY <1>1, <2>4, CommitWith, CommitWithout, OneOwner DEF Actors
    <3> QED BY <2>2, <3>1, <3>2, ClickOthers
  <2>5. at_step'[c] = "done" /\ c \in log'
    BY <1>1, <2>2 DEF CommitClick, Goto, TypeOK
  <2>6. ClickAt(c)'
    BY <2>1, <2>5 DEF ClickAt
  <2> QED BY <2>4, <2>6 DEF ClickInv
<1>5. RebuildInv'
  <2>1. /\ mine' \in [Actors -> States] /\ ~ mine'[c].exists
        /\ holder' \in Actors \cup {Nobody} /\ holder' # c
        /\ \A q \in Actors : q # c => mine'[q] = mine[q] /\ (holder = q => holder' = q)
    BY <1>1, Released DEF CommitClick
  <2>2. /\ at_step[c] = "committing" /\ log' = log \cup {c}
        /\ UNCHANGED <<clock, event, at, embedded, write, seen, outcome>>
    BY DEF CommitClick, requestVars, jobVars
  <2>3. \A p \in Actors : p # c => at_step'[p] = at_step[p]
    BY <1>1 DEF CommitClick, Goto, TypeOK
  <2>4. ASSUME NEW r \in Rebuilds PROVE RebuildAt(r)'
    <3>1. r \in Actors /\ r # c /\ RebuildAt(r)
      BY <1>1 DEF Actors, RebuildInv
    <3>2. at_step'[r] = at_step[r] /\ mine'[r] = mine[r]
      BY <2>1, <2>3, <3>1
    <3>3. c \notin seen[r]
      <4>1. c \notin log
        BY CommitWith, CommitWithout
      <4> QED BY <3>1, <4>1 DEF RebuildAt, Events
    <3>4. Events \subseteq Events' /\ excused' \cap seen[r] \subseteq excused
      BY <3>3, CommitWith, CommitWithout
    <3>5. Owns(r) => ~ mine[c].exists
      BY <1>1, <3>1, CommitWith, OneOwner
    <3>6. Owns(r) => Events' \ Events \subseteq excused' /\ excused \subseteq excused'
      BY <3>5, CommitWithout
    <3> QED BY <2>2, <3>1, <3>2, <3>4, <3>6, RebuildOthers
  <2> QED BY <2>4 DEF RebuildInv
<1>6. LogInv'
  <2>1. /\ mine' \in [Actors -> States] /\ ~ mine'[c].exists
        /\ holder' \in Actors \cup {Nobody} /\ holder' # c
        /\ \A q \in Actors : q # c => mine'[q] = mine[q] /\ (holder = q => holder' = q)
    BY <1>1, Released DEF CommitClick
  <2>2. /\ at_step[c] = "committing" /\ log' = log \cup {c}
        /\ UNCHANGED <<clock, event, at, embedded, write, seen, outcome>>
    BY DEF CommitClick, requestVars, jobVars
  <2>3. \A p \in Actors : p # c => at_step'[p] = at_step[p]
    BY <1>1 DEF CommitClick, Goto, TypeOK
  <2>4. CASE mine[c].exists
    <3>1. /\ row' = mine[c] /\ excused' = excused /\ c \notin excused
          /\ row'.count = [row.count EXCEPT ![c] = 1]
          /\ Events' = Events \cup {c} /\ c \in embedded /\ c \notin log
      BY <2>4, CommitWith
    <3>2. row.count \in [Clicks -> {0, 1}]
      BY <1>1 DEF TypeOK, States
    <3>3. \A d \in Clicks : row'.count[d] = IF d \in Events' \ excused' THEN 1 ELSE 0
      BY <1>1, <3>1, <3>2 DEF LogInv
    <3> QED BY <1>1, <2>2, <2>4, <3>1, <3>3 DEF LogInv
  <2>5. CASE ~ mine[c].exists
    <3>1. /\ row' = row /\ c \notin log
          /\ excused' = (IF event[c] = "click" THEN excused \cup {c} ELSE excused)
      BY <2>5, CommitWithout
    <3>2. \A d \in excused' : d \in log' /\ event'[d] = "click"
      BY <1>1, <2>2, <3>1 DEF LogInv
    <3>3. \A d \in log' : event'[d] = "click" /\ d \notin embedded' => d \in excused'
      BY <1>1, <2>2, <3>1 DEF LogInv
    <3>4. Events' \ excused' = Events \ excused
      BY <2>2, <3>1 DEF Events
    <3>5. \A d \in Clicks : row'.count[d] = IF d \in Events' \ excused' THEN 1 ELSE 0
      BY <1>1, <3>1, <3>4 DEF LogInv
    <3>6. ~ row'.exists => row' = NoRow
      BY <1>1, <3>1 DEF LogInv
    <3>7. NoRow' = NoRow
      BY DEF NoRow, Empty, NoTime
    <3> QED BY <3>2, <3>3, <3>5, <3>6, <3>7 DEF LogInv
  <2> QED BY <2>4, <2>5
<1>7. TimeInv'
  <2>1. /\ mine' \in [Actors -> States] /\ ~ mine'[c].exists
        /\ holder' \in Actors \cup {Nobody} /\ holder' # c
        /\ \A q \in Actors : q # c => mine'[q] = mine[q] /\ (holder = q => holder' = q)
    BY <1>1, Released DEF CommitClick
  <2>2. /\ at_step[c] = "committing" /\ log' = log \cup {c}
        /\ UNCHANGED <<clock, event, at, embedded, write, seen, outcome>>
    BY DEF CommitClick, requestVars, jobVars
  <2>3. \A p \in Actors : p # c => at_step'[p] = at_step[p]
    BY <1>1 DEF CommitClick, Goto, TypeOK
  <2>4. \A d \in Clicks : row'.count[d] > 0 => at[d] <= row'.last
    <3>1. row.count \in [Clicks -> {0, 1}] /\ row.last \in Nat /\ \A d \in Clicks : at[d] \in Nat
      BY <1>1 DEF TypeOK, States
    <3>2. CASE mine[c].exists
      <4>1. row'.count = [row.count EXCEPT ![c] = 1] /\ row'.last = Later(row.last, at[c])
        BY <3>2, CommitWith
      <4>2. row.last <= row'.last /\ at[c] <= row'.last /\ row'.last \in Nat
        BY <3>1, <4>1 DEF Later
      <4> QED BY <1>1, <3>1, <4>1, <4>2 DEF TimeInv
    <3>3. CASE ~ mine[c].exists
      BY <1>1, <3>3, CommitWithout DEF TimeInv
    <3> QED BY <3>2, <3>3
  <2>5. at_step'[c] = "done"
    BY <1>1 DEF CommitClick, Goto, TypeOK
  <2> QED BY <1>1, <2>2, <2>3, <2>4, <2>5 DEF TimeInv, Actors
<1> QED BY <1>2, <1>3, <1>4, <1>5, <1>6, <1>7 DEF ProfileInv

LEMMA AbortClickStep ==
  ASSUME ProfileInv, NEW c \in Clicks, AbortClick(c)
  PROVE  ProfileInv'
<1> USE NobodyAssumption
<1>1. TypeOK /\ LockInv /\ ClickInv /\ RebuildInv /\ LogInv /\ TimeInv /\ c \in Actors
  BY DEF ProfileInv, Actors
<1>2. TypeOK'
  <2>1. /\ mine' \in [Actors -> States] /\ ~ mine'[c].exists
        /\ holder' \in Actors \cup {Nobody} /\ holder' # c
        /\ \A q \in Actors : q # c => mine'[q] = mine[q] /\ (holder = q => holder' = q)
    BY <1>1, Released DEF AbortClick
  <2>2. UNCHANGED <<clock, event, at, embedded, log, row, excused, write, seen>> /\ States' = States
    BY DEF AbortClick, requestVars, tableVars, jobVars, States
  <2>3. at_step' \in [Actors -> {"idle", "created", "locking", "inserting", "applying", "committing",
                               "reading", "comparing", "finishing", "done", "aborted"}]
    BY <1>1 DEF AbortClick, Goto, TypeOK
  <2>4. outcome' \in [Rebuilds -> {"none", "unchanged", "rebuilt", "mismatch"}]
    BY <1>1 DEF AbortClick, jobVars, TypeOK
  <2> QED BY <1>1, <2>1, <2>2, <2>3, <2>4 DEF TypeOK
<1>3. LockInv'
  <2>1. /\ mine' \in [Actors -> States] /\ ~ mine'[c].exists
        /\ holder' \in Actors \cup {Nobody} /\ holder' # c
        /\ \A q \in Actors : q # c => mine'[q] = mine[q] /\ (holder = q => holder' = q)
    BY <1>1, Released DEF AbortClick
  <2> QED BY <1>1, <2>1 DEF AbortClick, Goto, jobVars, TypeOK, LockInv, Owns, Actors
<1>4. ClickInv'
  <2>1. /\ mine' \in [Actors -> States] /\ ~ mine'[c].exists
        /\ holder' \in Actors \cup {Nobody} /\ holder' # c
        /\ \A q \in Actors : q # c => mine'[q] = mine[q] /\ (holder = q => holder' = q)
    BY <1>1, Released DEF AbortClick
  <2>2. UNCHANGED <<event, at, embedded, log, row>>
    BY DEF AbortClick, requestVars, tableVars
  <2>3. ASSUME NEW d \in Clicks, d # c PROVE ClickAt(d)'
    <3>1. at_step'[d] = at_step[d] /\ mine'[d] = mine[d] /\ ClickAt(d)
      BY <1>1, <2>1, <2>3 DEF AbortClick, Goto, TypeOK, Actors, ClickInv
    <3> QED BY <2>2, <3>1, ClickOthers
  <2>4. ClickAt(c)'
    <3>1. at_step[c] # "done" /\ at_step'[c] = "aborted" /\ ClickAt(c)
      BY <1>1 DEF AbortClick, Goto, TypeOK, ClickInv
    <3> QED BY <2>1, <2>2, <3>1 DEF ClickAt
  <2> QED BY <2>3, <2>4 DEF ClickInv
<1>5. RebuildInv'
  BY <1>1 DEF AbortClick, Goto, requestVars, tableVars, jobVars, Release, TypeOK, RebuildInv, RebuildAt, Actors, Events
<1>6. LogInv'
  BY <1>1 DEF AbortClick, Goto, requestVars, tableVars, jobVars, Release, TypeOK, LogInv, Events
<1>7. TimeInv'
  BY <1>1 DEF AbortClick, Goto, requestVars, tableVars, jobVars, Release, TypeOK, TimeInv, Actors
<1> QED BY <1>2, <1>3, <1>4, <1>5, <1>6, <1>7 DEF ProfileInv

LEMMA StartStep ==
  ASSUME ProfileInv, NEW r \in Rebuilds, Start(r)
  PROVE  ProfileInv'
<1> USE NobodyAssumption
<1>1. TypeOK /\ LockInv /\ ClickInv /\ RebuildInv /\ LogInv /\ TimeInv /\ r \in Actors
  BY DEF ProfileInv, Actors
<1>2. TypeOK'
  BY <1>1 DEF Start, Goto, requestVars, tableVars, jobVars, TypeOK, States, Actors
<1>3. LockInv'
  BY <1>1 DEF Start, Goto, requestVars, tableVars, jobVars, TypeOK, LockInv, Owns, Actors
<1>4. ClickInv'
  BY <1>1 DEF Start, Goto, requestVars, tableVars, jobVars, TypeOK, ClickInv, ClickAt, Actors, LockInv, Owns
<1>5. RebuildInv'
  BY <1>1 DEF Start, Goto, requestVars, tableVars, jobVars, TypeOK, RebuildInv, RebuildAt, Actors, Events
<1>6. LogInv'
  BY <1>1 DEF Start, Goto, requestVars, tableVars, jobVars, TypeOK, LogInv, Events
<1>7. TimeInv'
  BY <1>1 DEF Start, Goto, requestVars, tableVars, jobVars, TypeOK, TimeInv, Actors
<1> QED BY <1>2, <1>3, <1>4, <1>5, <1>6, <1>7 DEF ProfileInv

LEMMA LockStateStep ==
  ASSUME ProfileInv, NEW r \in Rebuilds, LockState(r)
  PROVE  ProfileInv'
<1> USE NobodyAssumption
<1>1. TypeOK /\ LockInv /\ ClickInv /\ RebuildInv /\ LogInv /\ TimeInv /\ r \in Actors
  BY DEF ProfileInv, Actors
<1>2. TypeOK'
  <2>1. Empty \in States
    BY <1>1, EmptyStates DEF TypeOK
  <2>2. /\ holder' \in Actors \cup {Nobody}
        /\ \E s \in States : mine' = [mine EXCEPT ![r] = s]
    BY <1>1, <2>1 DEF LockState, Lock, TypeOK
  <2>3. at_step' \in [Actors -> {"idle", "created", "locking", "inserting", "applying", "committing",
                               "reading", "comparing", "finishing", "done", "aborted"}]
    BY <1>1 DEF LockState, Lock, Goto, TypeOK
  <2>4. UNCHANGED <<clock, event, at, embedded, log, row, excused, write, seen, outcome>> /\ States' = States
    <3>1. UNCHANGED <<clock, event, at, embedded, log, row, excused, write, seen, outcome>>
      BY <1>1 DEF LockState, Lock, requestVars, tableVars, jobVars
    <3>2. States' = States
      BY <3>1 DEF States
    <3> QED BY <3>1, <3>2
  <2>5. mine' \in [Actors -> States'] /\ row' \in States'
    BY <1>1, <2>2, <2>4 DEF TypeOK
  <2>6. clock' \in Nat /\ at' \in [Clicks -> 0..clock']
    BY <1>1, <2>4 DEF TypeOK
  <2> QED BY <1>1, <2>2, <2>3, <2>4, <2>5, <2>6 DEF TypeOK
<1>3. LockInv'
  BY <1>1 DEF LockState, Goto, requestVars, tableVars, jobVars, Lock, TypeOK, LockInv, Owns, Actors
<1>4. ClickInv'
  <2>1. ASSUME NEW d \in Clicks PROVE ClickAt(d)'
    <3>1. at_step'[d] = at_step[d] /\ mine'[d] = mine[d] /\ ClickAt(d)
      BY <1>1, <2>1 DEF LockState, Lock, Goto, TypeOK, Actors, ClickInv
    <3>2. UNCHANGED <<event, at, embedded, log, row>>
      BY DEF LockState, Lock, requestVars, tableVars
    <3> QED BY <3>1, <3>2, ClickOthers
  <2> QED BY <2>1 DEF ClickInv
<1>5. RebuildInv'
  BY <1>1 DEF LockState, Goto, requestVars, tableVars, jobVars, Lock, TypeOK, RebuildInv, RebuildAt, Actors, Events
<1>6. LogInv'
  BY <1>1 DEF LockState, Goto, requestVars, tableVars, jobVars, Lock, TypeOK, LogInv, Events
<1>7. TimeInv'
  BY <1>1 DEF LockState, Goto, requestVars, tableVars, jobVars, Lock, TypeOK, TimeInv, Actors
<1> QED BY <1>2, <1>3, <1>4, <1>5, <1>6, <1>7 DEF ProfileInv

LEMMA InsertStateStep ==
  ASSUME ProfileInv, NEW r \in Rebuilds, InsertState(r)
  PROVE  ProfileInv'
<1> USE NobodyAssumption
<1>1. TypeOK /\ LockInv /\ ClickInv /\ RebuildInv /\ LogInv /\ TimeInv /\ r \in Actors
  BY DEF ProfileInv, Actors
<1>2. TypeOK'
  BY <1>1 DEF InsertState, Goto, requestVars, tableVars, jobVars, InsertRow, TypeOK, States, Actors
<1>3. LockInv'
  BY <1>1 DEF InsertState, Goto, requestVars, tableVars, jobVars, InsertRow, TypeOK, LockInv, Owns, Actors
<1>4. ClickInv'
  <2>1. ASSUME NEW d \in Clicks PROVE ClickAt(d)'
    <3>1. at_step'[d] = at_step[d] /\ mine'[d] = mine[d] /\ ClickAt(d)
      BY <1>1, <2>1 DEF InsertState, InsertRow, Goto, TypeOK, Actors, ClickInv
    <3>2. UNCHANGED <<event, at, embedded, log, row>>
      BY DEF InsertState, InsertRow, requestVars, tableVars
    <3> QED BY <3>1, <3>2, ClickOthers
  <2> QED BY <2>1 DEF ClickInv
<1>5. RebuildInv'
  BY <1>1 DEF InsertState, Goto, requestVars, tableVars, jobVars, InsertRow, TypeOK, RebuildInv, RebuildAt, Actors, Events
<1>6. LogInv'
  BY <1>1 DEF InsertState, Goto, requestVars, tableVars, jobVars, InsertRow, TypeOK, LogInv, Events
<1>7. TimeInv'
  BY <1>1 DEF InsertState, Goto, requestVars, tableVars, jobVars, InsertRow, TypeOK, TimeInv, Actors
<1> QED BY <1>2, <1>3, <1>4, <1>5, <1>6, <1>7 DEF ProfileInv

LEMMA ReadLogStep ==
  ASSUME ProfileInv, NEW r \in Rebuilds, ReadLog(r)
  PROVE  ProfileInv'
<1> USE NobodyAssumption
<1>1. TypeOK /\ LockInv /\ ClickInv /\ RebuildInv /\ LogInv /\ TimeInv /\ r \in Actors
  BY DEF ProfileInv, Actors
<1>2. TypeOK'
  <2>1. Events \subseteq Clicks
    BY <1>1 DEF Events, TypeOK
  <2>2. seen' \in [Rebuilds -> SUBSET Clicks]
    BY <1>1, <2>1 DEF ReadLog, TypeOK
  <2>3. at_step' \in [Actors -> {"idle", "created", "locking", "inserting", "applying", "committing",
                               "reading", "comparing", "finishing", "done", "aborted"}]
    BY <1>1 DEF ReadLog, Goto, TypeOK
  <2>4. UNCHANGED <<clock, event, at, embedded, log, row, excused, holder, mine, write, outcome>> /\ States' = States
    BY DEF ReadLog, requestVars, tableVars, States
  <2> QED BY <1>1, <2>2, <2>3, <2>4 DEF TypeOK
<1>3. LockInv'
  BY <1>1 DEF ReadLog, Goto, requestVars, tableVars, jobVars, TypeOK, LockInv, Owns, Actors
<1>4. ClickInv'
  BY <1>1 DEF ReadLog, Goto, requestVars, tableVars, jobVars, TypeOK, ClickInv, ClickAt, Actors, LockInv, Owns
<1>5. RebuildInv'
  BY <1>1 DEF ReadLog, Goto, requestVars, tableVars, jobVars, TypeOK, RebuildInv, RebuildAt, Actors, Events
<1>6. LogInv'
  BY <1>1 DEF ReadLog, Goto, requestVars, tableVars, jobVars, TypeOK, LogInv, Events
<1>7. TimeInv'
  BY <1>1 DEF ReadLog, Goto, requestVars, tableVars, jobVars, TypeOK, TimeInv, Actors
<1> QED BY <1>2, <1>3, <1>4, <1>5, <1>6, <1>7 DEF ProfileInv

LEMMA CompareStep ==
  ASSUME ProfileInv, NEW r \in Rebuilds, Compare(r)
  PROVE  ProfileInv'
<1> USE NobodyAssumption
<1>1. TypeOK /\ LockInv /\ ClickInv /\ RebuildInv /\ LogInv /\ TimeInv /\ r \in Actors
  BY DEF ProfileInv, Actors
<1>2. TypeOK'
  <2>1. /\ at_step[r] = "comparing" /\ RebuildAt(r) /\ seen[r] \subseteq Clicks
        /\ UNCHANGED <<clock, event, at, embedded, log, row, excused, holder, write, seen>>
    BY <1>1 DEF Compare, requestVars, tableVars, RebuildInv, TypeOK
  <2> DEFINE fresh == Fresh(seen[r])
  <2>2. /\ fresh \in States /\ fresh.exists
        /\ fresh.count = [c \in Clicks |-> IF c \in seen[r] THEN 1 ELSE 0]
        /\ \A c \in seen[r] : at[c] <= fresh.last
    BY <1>1, <2>1, FreshState
  <2>3. /\ mine' = [mine EXCEPT ![r] = IF write[r] THEN fresh ELSE mine[r]]
        /\ at_step' = [at_step EXCEPT ![r] = "finishing"]
    BY DEF Compare, Goto
  <2> HIDE DEF fresh
  <2>4. mine' \in [Actors -> States]
    BY <1>1, <2>2, <2>3 DEF TypeOK
  <2>5. at_step' \in [Actors -> {"idle", "created", "locking", "inserting", "applying", "committing",
                               "reading", "comparing", "finishing", "done", "aborted"}]
    BY <1>1, <2>3 DEF TypeOK
  <2>6. outcome' \in [Rebuilds -> {"none", "unchanged", "rebuilt", "mismatch"}]
    BY <1>1 DEF Compare, TypeOK
  <2>7. States' = States
    BY <2>1 DEF States
  <2> QED BY <1>1, <2>1, <2>4, <2>5, <2>6, <2>7 DEF TypeOK
<1>3. LockInv'
  BY <1>1 DEF Compare, Goto, requestVars, tableVars, jobVars, TypeOK, LockInv, Owns, Actors
<1>4. ClickInv'
  BY <1>1 DEF Compare, Goto, requestVars, tableVars, jobVars, TypeOK, ClickInv, ClickAt, Actors, LockInv, Owns
<1>5. RebuildInv'
  <2>1. /\ at_step[r] = "comparing" /\ RebuildAt(r) /\ seen[r] \subseteq Clicks
        /\ UNCHANGED <<clock, event, at, embedded, log, row, excused, holder, write, seen>>
    BY <1>1 DEF Compare, requestVars, tableVars, RebuildInv, TypeOK
  <2> DEFINE fresh == Fresh(seen[r])
  <2>2. /\ fresh \in States /\ fresh.exists
        /\ fresh.count = [c \in Clicks |-> IF c \in seen[r] THEN 1 ELSE 0]
        /\ \A c \in seen[r] : at[c] <= fresh.last
    BY <1>1, <2>1, FreshState
  <2>3. /\ mine' = [mine EXCEPT ![r] = IF write[r] THEN fresh ELSE mine[r]]
        /\ at_step' = [at_step EXCEPT ![r] = "finishing"]
    BY DEF Compare, Goto
  <2> HIDE DEF fresh
  <2>4. Events' = Events
    BY <2>1 DEF Events
  <2>5. ASSUME NEW q \in Rebuilds, q # r PROVE RebuildAt(q)'
    <3>1. RebuildAt(q) /\ at_step'[q] = at_step[q] /\ mine'[q] = mine[q]
      BY <1>1, <2>3, <2>5 DEF RebuildInv, TypeOK, Actors
    <3> QED BY <2>1, <2>4, <3>1, RebuildOthers
  <2>6. at_step'[r] = "finishing" /\ (write[r] => mine'[r] = fresh)
    BY <1>1, <2>3 DEF TypeOK
  <2>7. RebuildAt(r)'
    BY <2>1, <2>2, <2>4, <2>6 DEF RebuildAt
  <2> QED BY <2>5, <2>7 DEF RebuildInv
<1>6. LogInv'
  BY <1>1 DEF Compare, Goto, requestVars, tableVars, jobVars, TypeOK, LogInv, Events
<1>7. TimeInv'
  BY <1>1 DEF Compare, Goto, requestVars, tableVars, jobVars, TypeOK, TimeInv, Actors
<1> QED BY <1>2, <1>3, <1>4, <1>5, <1>6, <1>7 DEF ProfileInv

LEMMA CommitRebuildStep ==
  ASSUME ProfileInv, NEW r \in Rebuilds, CommitRebuild(r)
  PROVE  ProfileInv'
<1> USE NobodyAssumption
<1>1. TypeOK /\ LockInv /\ ClickInv /\ RebuildInv /\ LogInv /\ TimeInv /\ r \in Actors
  BY DEF ProfileInv, Actors
<1>2. TypeOK'
  <2>1. /\ mine' \in [Actors -> States] /\ ~ mine'[r].exists
        /\ holder' \in Actors \cup {Nobody} /\ holder' # r
        /\ \A q \in Actors : q # r => mine'[q] = mine[q] /\ (holder = q => holder' = q)
    BY <1>1, Released DEF CommitRebuild
  <2>2. /\ at_step[r] = "finishing"
        /\ UNCHANGED <<clock, event, at, embedded, log, write, seen, outcome>> /\ Events' = Events
    BY DEF CommitRebuild, requestVars, jobVars, Events
  <2>3. at_step'[r] = "done" /\ \A p \in Actors : p # r => at_step'[p] = at_step[p]
    BY <1>1 DEF CommitRebuild, Goto, TypeOK
  <2>4. ~ write[r] => row' = row /\ excused' = excused
    BY DEF CommitRebuild
  <2>5. row' \in States /\ excused' \subseteq Clicks
    BY <1>1 DEF CommitRebuild, TypeOK
  <2>6. at_step' \in [Actors -> {"idle", "created", "locking", "inserting", "applying", "committing",
                               "reading", "comparing", "finishing", "done", "aborted"}]
    BY <1>1 DEF CommitRebuild, Goto, TypeOK
  <2>7. States' = States
    BY <2>2 DEF States
  <2> QED BY <1>1, <2>1, <2>2, <2>5, <2>6, <2>7 DEF TypeOK
<1>3. LockInv'
  BY <1>1 DEF CommitRebuild, Goto, requestVars, tableVars, jobVars, Release, TypeOK, LockInv, Owns, Actors
<1>4. ClickInv'
  <2>1. /\ mine' \in [Actors -> States] /\ ~ mine'[r].exists
        /\ holder' \in Actors \cup {Nobody} /\ holder' # r
        /\ \A q \in Actors : q # r => mine'[q] = mine[q] /\ (holder = q => holder' = q)
    BY <1>1, Released DEF CommitRebuild
  <2>2. /\ at_step[r] = "finishing"
        /\ UNCHANGED <<clock, event, at, embedded, log, write, seen, outcome>> /\ Events' = Events
    BY DEF CommitRebuild, requestVars, jobVars, Events
  <2>3. at_step'[r] = "done" /\ \A p \in Actors : p # r => at_step'[p] = at_step[p]
    BY <1>1 DEF CommitRebuild, Goto, TypeOK
  <2>4. ~ write[r] => row' = row /\ excused' = excused
    BY DEF CommitRebuild
  <2>5. ASSUME NEW d \in Clicks PROVE ClickAt(d)'
    <3>1. d \in Actors /\ d # r /\ ClickAt(d)
      BY <1>1 DEF ClickInv, Actors
    <3>2. row' = row \/ ~ Owns(d)
      BY <1>1, <2>4, <3>1, CommitFresh, OneOwner
    <3>3. at_step'[d] = at_step[d] /\ mine'[d] = mine[d]
      BY <2>1, <2>3, <3>1
    <3> QED BY <2>2, <3>1, <3>2, <3>3, ClickOthers
  <2> QED BY <2>5 DEF ClickInv
<1>5. RebuildInv'
  <2>1. /\ mine' \in [Actors -> States] /\ ~ mine'[r].exists
        /\ holder' \in Actors \cup {Nobody} /\ holder' # r
        /\ \A q \in Actors : q # r => mine'[q] = mine[q] /\ (holder = q => holder' = q)
    BY <1>1, Released DEF CommitRebuild
  <2>2. /\ at_step[r] = "finishing"
        /\ UNCHANGED <<clock, event, at, embedded, log, write, seen, outcome>> /\ Events' = Events
    BY DEF CommitRebuild, requestVars, jobVars, Events
  <2>3. at_step'[r] = "done" /\ \A p \in Actors : p # r => at_step'[p] = at_step[p]
    BY <1>1 DEF CommitRebuild, Goto, TypeOK
  <2>4. ~ write[r] => row' = row /\ excused' = excused
    BY DEF CommitRebuild
  <2>5. ASSUME NEW q \in Rebuilds, q # r PROVE RebuildAt(q)'
    <3>1. q \in Actors /\ RebuildAt(q) /\ at_step'[q] = at_step[q] /\ mine'[q] = mine[q]
      BY <1>1, <2>1, <2>3, <2>5 DEF Actors, RebuildInv
    <3>2. excused' \subseteq excused
      BY <2>4, CommitFresh
    <3>3. Owns(q) => excused' = excused
      BY <1>1, <2>4, <2>5, <3>1, CommitFresh, OneOwner
    <3> QED BY <2>2, <3>1, <3>2, <3>3, RebuildOthers
  <2>6. RebuildAt(r)'
    <3>1. RebuildAt(r)
      BY <1>1 DEF RebuildInv
    <3>2. write[r] => seen[r] \cap excused' = {}
      BY CommitFresh
    <3> QED BY <2>2, <2>3, <3>1, <3>2 DEF RebuildAt
  <2> QED BY <2>5, <2>6 DEF RebuildInv
<1>6. LogInv'
  <2>1. /\ mine' \in [Actors -> States] /\ ~ mine'[r].exists
        /\ holder' \in Actors \cup {Nobody} /\ holder' # r
        /\ \A q \in Actors : q # r => mine'[q] = mine[q] /\ (holder = q => holder' = q)
    BY <1>1, Released DEF CommitRebuild
  <2>2. /\ at_step[r] = "finishing"
        /\ UNCHANGED <<clock, event, at, embedded, log, write, seen, outcome>> /\ Events' = Events
    BY DEF CommitRebuild, requestVars, jobVars, Events
  <2>3. at_step'[r] = "done" /\ \A p \in Actors : p # r => at_step'[p] = at_step[p]
    BY <1>1 DEF CommitRebuild, Goto, TypeOK
  <2>4. ~ write[r] => row' = row /\ excused' = excused
    BY DEF CommitRebuild
  <2>5. CASE write[r]
    <3>1. /\ row' = mine[r] /\ excused' = excused \ seen[r] /\ mine[r].exists
          /\ mine[r].count = [c \in Clicks |-> IF c \in seen[r] THEN 1 ELSE 0]
          /\ seen[r] \subseteq Events /\ Events \ seen[r] \subseteq excused
      BY <2>5, CommitFresh
    <3>2. \A d \in Clicks : row'.count[d] = IF d \in Events' \ excused' THEN 1 ELSE 0
      BY <2>2, <3>1
    <3>3. \A d \in seen[r] : d \in embedded
      BY <3>1 DEF Events
    <3> QED BY <1>1, <2>2, <3>1, <3>2, <3>3 DEF LogInv
  <2>6. CASE ~ write[r]
    BY <1>1, <2>2, <2>4, <2>6 DEF LogInv
  <2> QED BY <2>5, <2>6
<1>7. TimeInv'
  <2>1. /\ mine' \in [Actors -> States] /\ ~ mine'[r].exists
        /\ holder' \in Actors \cup {Nobody} /\ holder' # r
        /\ \A q \in Actors : q # r => mine'[q] = mine[q] /\ (holder = q => holder' = q)
    BY <1>1, Released DEF CommitRebuild
  <2>2. /\ at_step[r] = "finishing"
        /\ UNCHANGED <<clock, event, at, embedded, log, write, seen, outcome>> /\ Events' = Events
    BY DEF CommitRebuild, requestVars, jobVars, Events
  <2>3. at_step'[r] = "done" /\ \A p \in Actors : p # r => at_step'[p] = at_step[p]
    BY <1>1 DEF CommitRebuild, Goto, TypeOK
  <2>4. ~ write[r] => row' = row /\ excused' = excused
    BY DEF CommitRebuild
  <2>5. \A d \in Clicks : row'.count[d] > 0 => at[d] <= row'.last
    <3>1. CASE write[r]
      <4>1. /\ row' = mine[r] /\ \A d \in seen[r] : at[d] <= mine[r].last
            /\ mine[r].count = [d \in Clicks |-> IF d \in seen[r] THEN 1 ELSE 0]
        BY <3>1, CommitFresh
      <4>2. ASSUME NEW d \in Clicks, row'.count[d] > 0 PROVE d \in seen[r]
        BY <4>1, <4>2
      <4> QED BY <4>1, <4>2
    <3>2. CASE ~ write[r]
      BY <1>1, <2>4, <3>2 DEF TimeInv
    <3> QED BY <3>1, <3>2
  <2>6. \A c \in Clicks : at_step'[c] = at_step[c]
    BY <1>1, <2>3 DEF Actors
  <2> QED BY <1>1, <2>2, <2>5, <2>6 DEF TimeInv
<1> QED BY <1>2, <1>3, <1>4, <1>5, <1>6, <1>7 DEF ProfileInv

LEMMA AbortRebuildStep ==
  ASSUME ProfileInv, NEW r \in Rebuilds, AbortRebuild(r)
  PROVE  ProfileInv'
<1> USE NobodyAssumption
<1>1. TypeOK /\ LockInv /\ ClickInv /\ RebuildInv /\ LogInv /\ TimeInv /\ r \in Actors
  BY DEF ProfileInv, Actors
<1>2. TypeOK'
  <2>1. /\ mine' \in [Actors -> States] /\ ~ mine'[r].exists
        /\ holder' \in Actors \cup {Nobody} /\ holder' # r
        /\ \A q \in Actors : q # r => mine'[q] = mine[q] /\ (holder = q => holder' = q)
    BY <1>1, Released DEF AbortRebuild
  <2>2. UNCHANGED <<clock, event, at, embedded, log, row, excused, write, seen>> /\ States' = States
    BY DEF AbortRebuild, requestVars, tableVars, jobVars, States
  <2>3. at_step' \in [Actors -> {"idle", "created", "locking", "inserting", "applying", "committing",
                               "reading", "comparing", "finishing", "done", "aborted"}]
    BY <1>1 DEF AbortRebuild, Goto, TypeOK
  <2>4. outcome' \in [Rebuilds -> {"none", "unchanged", "rebuilt", "mismatch"}]
    BY <1>1 DEF AbortRebuild, jobVars, TypeOK
  <2> QED BY <1>1, <2>1, <2>2, <2>3, <2>4 DEF TypeOK
<1>3. LockInv'
  BY <1>1 DEF AbortRebuild, Goto, requestVars, tableVars, jobVars, Release, TypeOK, LockInv, Owns, Actors
<1>4. ClickInv'
  BY <1>1 DEF AbortRebuild, Goto, requestVars, tableVars, jobVars, Release, TypeOK, ClickInv, ClickAt, Actors, LockInv, Owns
<1>5. RebuildInv'
  BY <1>1 DEF AbortRebuild, Goto, requestVars, tableVars, jobVars, Release, TypeOK, RebuildInv, RebuildAt, Actors, Events
<1>6. LogInv'
  BY <1>1 DEF AbortRebuild, Goto, requestVars, tableVars, jobVars, Release, TypeOK, LogInv, Events
<1>7. TimeInv'
  BY <1>1 DEF AbortRebuild, Goto, requestVars, tableVars, jobVars, Release, TypeOK, TimeInv, Actors
<1> QED BY <1>2, <1>3, <1>4, <1>5, <1>6, <1>7 DEF ProfileInv

\* A step that touches the clock alone, or nothing.
LEMMA TickStep ==
  ASSUME ProfileInv, clock' \in Nat, clock <= clock', UNCHANGED profileVars
  PROVE  ProfileInv'
<1>1. UNCHANGED <<event, at, embedded, log, row, excused, holder, at_step, mine, write, seen, outcome>>
  BY DEF profileVars, tableVars, jobVars
<1>2. TypeOK'
  <2>1. TypeOK /\ States \subseteq States'
    BY StatesGrow DEF ProfileInv, TypeOK
  <2>2. \A t \in 0..clock : t \in 0..clock'
    BY <2>1 DEF TypeOK
  <2>3. at' \in [Clicks -> 0..clock'] /\ row' \in States' /\ mine' \in [Actors -> States']
    BY <1>1, <2>1, <2>2 DEF TypeOK
  <2> QED BY <1>1, <2>1, <2>3 DEF TypeOK
<1>3. LockInv'
  BY <1>1 DEF ProfileInv, LockInv, Owns
<1>4. ClickInv'
  <2>1. \A c \in Clicks : ClickAt(c) => ClickAt(c)'
    BY <1>1 DEF ClickAt, Empty
  <2> QED BY <2>1 DEF ProfileInv, ClickInv
<1>5. RebuildInv'
  <2>1. \A r \in Rebuilds : RebuildAt(r) => RebuildAt(r)'
    BY <1>1 DEF RebuildAt, Events
  <2> QED BY <2>1 DEF ProfileInv, RebuildInv
<1>6. LogInv'
  BY <1>1 DEF ProfileInv, LogInv, Events, NoRow, Empty
<1>7. TimeInv'
  BY <1>1 DEF ProfileInv, TimeInv
<1> QED BY <1>2, <1>3, <1>4, <1>5, <1>6, <1>7 DEF ProfileInv

LEMMA StutterStep ==
  ASSUME ProfileInv, UNCHANGED vars
  PROVE  ProfileInv'
<1>1. clock \in Nat
  BY DEF ProfileInv, TypeOK
<1>2. UNCHANGED clock /\ UNCHANGED profileVars
  BY DEF vars, profileVars, tableVars, jobVars
<1> QED BY <1>1, <1>2, TickStep

LEMMA ProfileStep ==
  ASSUME ProfileInv, [Next]_vars
  PROVE  ProfileInv'
<1>1. ASSUME NEW c \in Clicks, EmbedItem(c) \/ Create(c) \/ ClickWork(c) \/ UpdateFails(c) \/ AbortClick(c)
      PROVE  ProfileInv'
  BY <1>1, EmbedItemStep, CreateStep, FlushStep, LockProfileStep, InsertProfileStep, ApplyStep,
     CommitClickStep, UpdateFailsStep, AbortClickStep DEF ClickWork
<1>2. ASSUME NEW r \in Rebuilds, Start(r) \/ RebuildWork(r) \/ AbortRebuild(r)
      PROVE  ProfileInv'
  BY <1>2, StartStep, LockStateStep, InsertStateStep, ReadLogStep, CompareStep, CommitRebuildStep,
     AbortRebuildStep DEF RebuildWork
<1> QED BY <1>1, <1>2, StutterStep DEF Next, Done

LEMMA ProfileInvariant == Spec => []ProfileInv
<1>1. ProfileInv /\ [Next]_vars => ProfileInv'
  BY ProfileStep
<1> QED BY <1>1, InitProfile, PTL DEF Spec

-----------------------------------------------------------------------------
(* The profile *)

\* The state of the user is the log (_LOCK_SQL, apply_event and _UPDATE_SQL of
\* profile_store.py beside rebuild_user): whatever click transactions and
\* rebuilds overlap, every stored click with an embedding counts exactly once,
\* except those stored without an update and not read by a rebuild since.
THEOREM ProfileIsTheLogHolds == Spec => []ProfileIsTheLog
<1>1. ProfileInv => ProfileIsTheLog
  BY DEF ProfileInv, LogInv, ProfileIsTheLog
<1> QED BY <1>1, ProfileInvariant, PTL

\* What a committed rebuild has read of the log is in the state for good: no
\* click transaction that overlapped it, and none after it, writes an older
\* state back (rebuild_user, apply_click).
THEOREM RebuildRepairsHolds == Spec => []RebuildRepairs
<1>1. ProfileInv => RebuildRepairs
  <2> SUFFICES ASSUME ProfileInv, NEW r \in Rebuilds, at_step[r] = "done", write[r], NEW c \in seen[r]
               PROVE  row.count[c] = 1
    BY DEF RebuildRepairs
  <2>1. seen[r] \subseteq Events /\ seen[r] \cap excused = {}
    BY DEF ProfileInv, RebuildInv, RebuildAt
  <2>2. c \in Events \ excused /\ c \in Clicks
    BY <2>1 DEF ProfileInv, TypeOK, Events
  <2> QED BY <2>2 DEF ProfileInv, LogInv
<1> QED BY <1>1, ProfileInvariant, PTL

-----------------------------------------------------------------------------
(* The steps of the feed *)

\* What no step takes back: clicks stay stored, their times stay what they
\* are, and nobody who comes later comes in without a click that is stored.
Grows ==
  /\ log \subseteq log' /\ StoredClicks \subseteq StoredClicks' /\ missed \subseteq missed'
  /\ \A c \in log : at'[c] = at[c]
  /\ \A k \in StoredClicks : Before(k)' \subseteq Before(k)

\* Newest returns the latest click, and a time belongs to one stored click.
LEMMA NewestIs ==
  ASSUME ProfileInv, NEW S \in SUBSET StoredClicks, S # {}
  PROVE  /\ Newest(S) \in S /\ \A d \in S : at[d] <= at[Newest(S)]
         /\ \A c \in S : (\A d \in S : at[d] <= at[c]) => c = Newest(S)
<1>1. clock \in Nat /\ S \subseteq log /\ log \subseteq Clicks /\ \A c \in Clicks : at[c] \in 0..clock
  BY DEF ProfileInv, TypeOK, StoredClicks
<1>2. \E c \in S : \A d \in S : at[d] <= at[c]
  <2> DEFINE T == {at[c] : c \in S}
  <2>1. T \in SUBSET (0..clock) /\ T # {}
    BY <1>1
  <2> HIDE DEF T
  <2>2. Max(T) \in T /\ \A t \in T : t <= Max(T)
    BY <1>1, <2>1, MaxIsMember
  <2> QED BY <2>2 DEF T
<1>3. Newest(S) \in S /\ \A d \in S : at[d] <= at[Newest(S)]
  BY <1>2 DEF Newest
<1>4. ASSUME NEW c \in S, \A d \in S : at[d] <= at[c] PROVE c = Newest(S)
  <2>1. at[c] = at[Newest(S)] /\ c \in log /\ c \in Clicks /\ Newest(S) \in Clicks
    BY <1>1, <1>3, <1>4
  <2>2. at[c] # NoTime
    <3>1. at_step[c] = "done"
      BY <2>1 DEF ProfileInv, ClickInv, ClickAt
    <3> QED BY <2>1, <3>1 DEF ProfileInv, TimeInv
  <2> QED BY <2>1, <2>2 DEF ProfileInv, TimeInv
<1> QED BY <1>3, <1>4

\* A stored click counts in the profile, or it has been missed.
LEMMA StoredCounts ==
  ASSUME ProfileInv, excused \subseteq missed
  PROVE  StoredClicks \subseteq {c \in Clicks : row.count[c] > 0} \cup missed
<1> SUFFICES ASSUME NEW c \in StoredClicks, c \notin missed
             PROVE  c \in Clicks /\ row.count[c] > 0
  OBVIOUS
<1>1. c \in log /\ c \in Clicks /\ event[c] = "click" /\ c \notin excused
  BY DEF StoredClicks, ProfileInv, TypeOK
<1>2. c \in Events \ excused
  BY <1>1 DEF Events, ProfileInv, LogInv
<1> QED BY <1>1, <1>2 DEF ProfileInv, LogInv

\* What counts is stored, and no later than the row says.
LEMMA CountedIsStored ==
  ASSUME ProfileInv, NEW c \in Clicks, row.count[c] > 0
  PROVE  c \in log /\ at[c] <= row.last
BY DEF ProfileInv, LogInv, TimeInv, Events

\* A request does not notice the steps of the others.
LEMMA RequestOthers ==
  ASSUME NEW q \in Feeds, RequestAt(q), Grows, FeedTypeOK,
         f_step'[q] = f_step[q], now'[q] = now[q], arrived'[q] = arrived[q],
         key'[q] = key[q], work'[q] = work[q], answer'[q] = answer[q]
  PROVE  RequestAt(q)'
<1>1. BaseAt(q)'
  BY DEF RequestAt, BaseAt, Grows
<1>2. OwnAt(q)'
  BY DEF RequestAt, OwnAt, Grows
<1>3. KeyAt(q)'
  <2>1. f_step[q] \in HasProfile /\ key[q] \in Clicks => Before(key[q])' \subseteq Before(key[q])
    <3>1. f_step[q] \in HasProfile /\ key[q] \in Clicks => key[q] \in StoredClicks
      BY FeedAssumption DEF RequestAt, BaseAt, HasProfile, Busy
    <3> QED BY <3>1 DEF Grows, Before
  <2>2. f_step[q] = "ranked" => f_step[q] \in HasProfile
    BY DEF HasProfile
  <2>3. Before(key[q])' = {key[q]} \cup UNION {arrived'[p] : p \in {p \in Feeds : key[q] \notin arrived'[p]}}
    BY DEF Before
  <2> QED BY <2>1, <2>2, <2>3 DEF RequestAt, KeyAt, Grows, HasProfile
<1>4. AnswerAt(q)'
  <2>1. arrived[q] \subseteq log
    BY DEF RequestAt, BaseAt, StoredClicks
  <2> QED BY <2>1 DEF RequestAt, AnswerAt, Grows, Knows, Listed
<1>5. ReadAt(q)'
  BY DEF RequestAt, ReadAt, Grows, HasProfile
<1> QED BY <1>1, <1>2, <1>3, <1>4, <1>5 DEF RequestAt

\* Nor does a list in the cache.
LEMMA CacheOthers ==
  ASSUME NEW k \in Clicks, CacheAt(k), Grows, cache'[k] = cache[k]
  PROVE  CacheAt(k)'
BY DEF CacheAt, Grows, Knows

LEMMA FeedInitial == FeedInit => FeedInv
<1> SUFFICES ASSUME FeedInit PROVE FeedInv
  OBVIOUS
<1>1. ProfileInv
  BY InitProfile DEF FeedInit
<1>2. Nothing \in Lists
  BY DEF Nothing, Lists, NoTime
<1>3. FeedTypeOK
  BY <1>2 DEF FeedInit, FeedTypeOK, NoTime
<1>4. excused \subseteq missed
  BY DEF FeedInit, Init
<1>5. \A q \in Feeds : RequestAt(q)
  BY DEF FeedInit, RequestAt, BaseAt, OwnAt, KeyAt, AnswerAt, ReadAt, Listed, Busy, HasProfile
<1>6. \A k \in Clicks : CacheAt(k)
  BY DEF FeedInit, CacheAt
<1> QED BY <1>1, <1>3, <1>4, <1>5, <1>6 DEF FeedInv

\* A step of ClickProfile.
LEMMA ClickProfileStep ==
  ASSUME FeedInv, Next \/ UNCHANGED vars, UNCHANGED feedVars, missed' = missed \cup excused'
  PROVE  FeedInv'
<1>1. ProfileInv'
  BY ProfileStep DEF FeedInv
<1>2. UNCHANGED <<f_step, now, arrived, key, work, answer, cache>> /\ excused' \subseteq missed'
  BY DEF feedVars
<1>3. Grows
  <2>1. log \subseteq log'
    <3>1. CASE UNCHANGED vars
      BY <3>1 DEF vars
    <3>2. CASE Next
      BY <3>2 DEF Next, EmbedItem, Create, ClickWork, Flush, LockProfile, Lock, InsertProfile, InsertRow,
         Apply, CommitClick, UpdateFails, AbortClick, Start, RebuildWork, LockState, InsertState, ReadLog,
         Compare, CommitRebuild, AbortRebuild, Done, vars, tableVars
    <3> QED BY <3>1, <3>2
  <2>2. \A c \in log : at'[c] = at[c] /\ event'[c] = event[c]
    <3>1. CASE \E c \in Clicks : Create(c)
      <4>1. PICK c \in Clicks : Create(c)
        BY <3>1
      <4>2. c \notin log
        BY <4>1 DEF FeedInv, ProfileInv, ClickInv, ClickAt, Create
      <4> QED BY <4>1, <4>2 DEF FeedInv, ProfileInv, TypeOK, Create
    <3>2. CASE ~ \E c \in Clicks : Create(c)
      <4>1. UNCHANGED <<event, at>>
        <5>1. CASE UNCHANGED vars
          BY <5>1 DEF vars
        <5>2. CASE Next
          BY <3>2, <5>2 DEF Next, EmbedItem, ClickWork, Flush, LockProfile, Lock, InsertProfile, InsertRow,
             Apply, CommitClick, UpdateFails, AbortClick, Start, RebuildWork, LockState, InsertState, ReadLog,
             Compare, CommitRebuild, AbortRebuild, Done, vars, requestVars
        <5> QED BY <5>1, <5>2
      <4> QED BY <4>1
    <3> QED BY <3>1, <3>2
  <2>3. StoredClicks \subseteq StoredClicks'
    BY <2>1, <2>2 DEF StoredClicks
  <2> QED BY <1>2, <2>1, <2>2, <2>3 DEF Grows, Before
<1>4. FeedTypeOK'
  <2>1. missed' \subseteq Clicks
    BY <1>1 DEF FeedInv, FeedTypeOK, ProfileInv, TypeOK
  <2> QED BY <1>2, <2>1 DEF FeedInv, FeedTypeOK
<1>5. \A q \in Feeds : RequestAt(q)'
  BY <1>2, <1>3, RequestOthers DEF FeedInv
<1>6. \A k \in Clicks : CacheAt(k)'
  BY <1>2, <1>3, CacheOthers DEF FeedInv
<1> QED BY <1>1, <1>2, <1>4, <1>5, <1>6 DEF FeedInv

\* A step of one worker leaves the profile alone.
LEMMA WorkerFrame ==
  ASSUME FeedInv, UNCHANGED vars, UNCHANGED arrived, missed' = missed \cup excused'
  PROVE  /\ ProfileInv' /\ Grows /\ excused' \subseteq missed'
         /\ UNCHANGED <<log, at, event, embedded, row, excused, missed>>
         /\ StoredClicks' = StoredClicks /\ Events' = Events
         /\ \A k \in Clicks : Before(k)' = Before(k)
<1>1. ProfileInv'
  BY StutterStep DEF FeedInv
<1>2. UNCHANGED <<log, at, event, embedded, row, excused, missed>>
  BY DEF vars, tableVars, FeedInv
<1>3. StoredClicks' = StoredClicks /\ Events' = Events
  BY <1>2 DEF StoredClicks, Events
<1>4. \A k : Before(k)' = Before(k)
  BY DEF Before
<1> QED BY <1>1, <1>2, <1>3, <1>4 DEF Grows, FeedInv

\* What is left to show of a step of the worker of q.
LEMMA WorkerStep ==
  ASSUME FeedInv, ProfileInv', Grows, excused' \subseteq missed', NEW q \in Feeds,
         \A p \in Feeds : p # q =>
           /\ f_step'[p] = f_step[p] /\ now'[p] = now[p] /\ arrived'[p] = arrived[p]
           /\ key'[p] = key[p] /\ work'[p] = work[p] /\ answer'[p] = answer[p],
         FeedTypeOK', RequestAt(q)',
         \A k \in Clicks : cache'[k] = cache[k] \/ CacheAt(k)'
  PROVE  FeedInv'
<1>1. \A p \in Feeds : RequestAt(p)'
  BY RequestOthers DEF FeedInv
<1>2. \A k \in Clicks : CacheAt(k)'
  BY CacheOthers DEF FeedInv
<1> QED BY <1>1, <1>2 DEF FeedInv

LEMMA ArriveStep ==
  ASSUME FeedInv, NEW q \in Feeds, Arrive(q), missed' = missed \cup excused'
  PROVE  FeedInv'
<1> USE DEF FeedInv
<1>1. clock \in Nat /\ clock' \in Nat /\ clock <= clock'
  BY DEF Arrive, ProfileInv, TypeOK
<1>2. ProfileInv'
  BY <1>1, TickStep DEF Arrive
<1>3. UNCHANGED <<log, at, event, embedded, row, excused>>
  BY DEF Arrive, profileVars, tableVars
<1>4. StoredClicks' = StoredClicks /\ missed' = missed /\ arrived' = [arrived EXCEPT ![q] = StoredClicks]
  BY <1>3 DEF StoredClicks, Arrive
<1>5. Grows
  <2>1. ASSUME NEW k \in StoredClicks PROVE Before(k)' \subseteq Before(k)
    <3>1. \A p \in Feeds : k \notin arrived'[p] => p # q /\ arrived'[p] = arrived[p]
      BY <1>4 DEF FeedTypeOK
    <3> QED BY <3>1 DEF Before
  <2> QED BY <1>3, <1>4, <2>1 DEF Grows
<1>6. FeedTypeOK'
  <2>1. StoredClicks \subseteq Clicks
    BY DEF StoredClicks, ProfileInv, TypeOK
  <2> QED BY <1>1, <1>4, <2>1 DEF FeedTypeOK, Arrive, FeedGoto
<1>7. RequestAt(q)'
  <2>1. f_step'[q] = "submitted" /\ arrived'[q] = StoredClicks' /\ answer'[q] = NoList
    <3>1. answer[q] = NoList
      BY DEF Arrive, RequestAt, BaseAt
    <3> QED BY <1>4, <3>1 DEF FeedTypeOK, Arrive, FeedGoto
  <2> QED BY <2>1 DEF RequestAt, BaseAt, OwnAt, KeyAt, AnswerAt, ReadAt, Busy, HasProfile, Listed
<1>8. \A p \in Feeds : p # q =>
        /\ f_step'[p] = f_step[p] /\ now'[p] = now[p] /\ arrived'[p] = arrived[p]
        /\ key'[p] = key[p] /\ work'[p] = work[p] /\ answer'[p] = answer[p]
  BY DEF Arrive, FeedGoto, FeedTypeOK
<1>9. UNCHANGED cache /\ excused' \subseteq missed'
  BY <1>3, <1>4 DEF Arrive
<1> QED BY <1>2, <1>5, <1>6, <1>7, <1>8, <1>9, WorkerStep

\* The worker of q is done, and the request is answered if it was not.
LEMMA Finished ==
  ASSUME FeedInv, NEW q \in Feeds, Finish(q), NEW list \in Lists \cup {Fallback}, Answer(q, list),
         UNCHANGED vars, UNCHANGED arrived, missed' = missed \cup excused'
  PROVE  /\ f_step' \in [Feeds -> {"idle", "submitted", "profile", "recent", "exclusion", "ranked", "done"}]
         /\ now' \in [Feeds -> Nat] /\ key' \in [Feeds -> Clicks \cup {NoClick}]
         /\ work' \in [Feeds -> Lists] /\ answer' \in [Feeds -> Lists \cup {NoList, Fallback}]
         /\ \A p \in Feeds : f_step'[p] = "done" => answer'[p] # NoList
         /\ \A p \in Feeds : p # q =>
              /\ f_step'[p] = f_step[p] /\ now'[p] = now[p] /\ arrived'[p] = arrived[p]
              /\ key'[p] = key[p] /\ work'[p] = work[p] /\ answer'[p] = answer[p]
         /\ (answer[q] # NoList \/ list = Fallback \/ AnswerAt(q)') => RequestAt(q)'
<1>1. Nothing \in Lists /\ NoTime \in Nat /\ list # NoList
  BY FeedAssumption DEF Nothing, Lists, NoTime
<1>2. FeedTypeOK
  BY DEF FeedInv
<1>3. /\ f_step' = [f_step EXCEPT ![q] = "done"] /\ now' = [now EXCEPT ![q] = NoTime]
      /\ work' = [work EXCEPT ![q] = Nothing] /\ key' = [key EXCEPT ![q] = NoClick]
      /\ answer' = [answer EXCEPT ![q] = IF answer[q] = NoList THEN list ELSE answer[q]]
  BY DEF Finish, FeedGoto, Answer
<1> HIDE DEF Nothing, NoTime
<1>4. /\ f_step' \in [Feeds -> {"idle", "submitted", "profile", "recent", "exclusion", "ranked", "done"}]
      /\ now' \in [Feeds -> Nat] /\ key' \in [Feeds -> Clicks \cup {NoClick}]
      /\ work' \in [Feeds -> Lists] /\ answer' \in [Feeds -> Lists \cup {NoList, Fallback}]
  BY <1>1, <1>2, <1>3 DEF FeedTypeOK
<1>5. \A p \in Feeds : p # q =>
        /\ f_step'[p] = f_step[p] /\ now'[p] = now[p] /\ arrived'[p] = arrived[p]
        /\ key'[p] = key[p] /\ work'[p] = work[p] /\ answer'[p] = answer[p]
  BY <1>2, <1>3 DEF FeedTypeOK
<1>6. f_step'[q] = "done" /\ key'[q] = NoClick /\ answer'[q] # NoList
      /\ answer'[q] = (IF answer[q] = NoList THEN list ELSE answer[q])
  BY <1>1, <1>2, <1>3 DEF FeedTypeOK
<1>7. \A p \in Feeds : f_step'[p] = "done" => answer'[p] # NoList
  BY <1>2, <1>5, <1>6 DEF FeedTypeOK
<1>8. ASSUME answer[q] # NoList \/ list = Fallback \/ AnswerAt(q)' PROVE RequestAt(q)'
  <2>1. UNCHANGED <<log, at, missed>> /\ StoredClicks' = StoredClicks
    BY WorkerFrame
  <2>2. AnswerAt(q)'
    <3>1. CASE answer[q] # NoList
      <4>1. answer'[q] = answer[q] /\ AnswerAt(q)
        BY <1>6, <3>1 DEF FeedInv, RequestAt
      <4> QED BY <2>1, <4>1 DEF AnswerAt, Listed, Knows
    <3>2. CASE answer[q] = NoList /\ list = Fallback
      BY <1>6, <3>2 DEF AnswerAt, Listed
    <3> QED BY <1>8, <3>1, <3>2
  <2>3. BaseAt(q)'
    BY <1>6, <2>1 DEF FeedInv, RequestAt, BaseAt, Busy
  <2>4. OwnAt(q)' /\ KeyAt(q)' /\ ReadAt(q)'
    BY <1>6, FeedAssumption DEF OwnAt, KeyAt, ReadAt, HasProfile
  <2> QED BY <2>2, <2>3, <2>4 DEF RequestAt
<1> QED BY <1>4, <1>5, <1>7, <1>8

\* The worker of q has read something more.
LEMMA Learned ==
  ASSUME FeedInv, NEW q \in Feeds, NEW step \in HasProfile \cup {"exclusion"}, NEW reading \in Lists,
         Learn(q, reading), FeedGoto(q, step), UNCHANGED <<now, arrived, key, answer, cache>>,
         UNCHANGED vars, missed' = missed \cup excused'
  PROVE  /\ FeedTypeOK'
         /\ \A p \in Feeds : p # q =>
              /\ f_step'[p] = f_step[p] /\ now'[p] = now[p] /\ arrived'[p] = arrived[p]
              /\ key'[p] = key[p] /\ work'[p] = work[p] /\ answer'[p] = answer[p]
         /\ f_step'[q] = step /\ work'[q] = reading
         /\ now'[q] = now[q] /\ key'[q] = key[q] /\ arrived'[q] = arrived[q]
         /\ AnswerAt(q)'
         /\ (f_step[q] \in Busy => BaseAt(q)')
<1>1. FeedTypeOK
  BY DEF FeedInv
<1>2. /\ f_step' = [f_step EXCEPT ![q] = step] /\ work' = [work EXCEPT ![q] = reading]
      /\ UNCHANGED <<log, at, missed>> /\ StoredClicks' = StoredClicks
  BY WorkerFrame DEF Learn, FeedGoto
<1>3. step \in {"recent", "exclusion", "ranked"}
  BY DEF HasProfile
<1>4. FeedTypeOK'
  BY <1>1, <1>2, <1>3 DEF FeedTypeOK
<1>5. \A p \in Feeds : p # q =>
        /\ f_step'[p] = f_step[p] /\ now'[p] = now[p] /\ arrived'[p] = arrived[p]
        /\ key'[p] = key[p] /\ work'[p] = work[p] /\ answer'[p] = answer[p]
  BY <1>1, <1>2 DEF FeedTypeOK
<1>6. f_step'[q] = step /\ work'[q] = reading
  BY <1>1, <1>2 DEF FeedTypeOK
<1>7. AnswerAt(q)'
  BY <1>2 DEF FeedInv, RequestAt, AnswerAt, Listed, Knows
<1>8. f_step[q] \in Busy => BaseAt(q)'
  BY <1>2, <1>3, <1>6 DEF FeedInv, RequestAt, BaseAt
<1> QED BY <1>4, <1>5, <1>6, <1>7, <1>8

LEMMA ReadProfileStep ==
  ASSUME FeedInv, NEW q \in Feeds, ReadProfile(q), missed' = missed \cup excused'
  PROVE  FeedInv'
<1> DEFINE counted == {c \in Clicks : row.count[c] > 0}
           reading == [work[q] EXCEPT !.profile = counted, !.last = row.last]
<1>1. f_step[q] = "profile" /\ UNCHANGED vars /\ UNCHANGED <<now, arrived, key, answer, cache>>
      /\ Learn(q, reading) /\ FeedGoto(q, "recent")
  BY DEF ReadProfile
<1>2. /\ ProfileInv' /\ Grows /\ excused' \subseteq missed'
      /\ UNCHANGED <<log, at, missed>> /\ StoredClicks' = StoredClicks
      /\ \A k \in Clicks : Before(k)' = Before(k)
  BY <1>1, WorkerFrame
<1>3. reading \in Lists /\ reading.profile = counted /\ reading.last = row.last
  <2>1. work[q] \in Lists /\ row.last \in Nat
    BY DEF FeedInv, FeedTypeOK, ProfileInv, TypeOK, States
  <2> QED BY <2>1 DEF Lists
<1>4. StoredClicks \subseteq counted \cup missed
  BY StoredCounts DEF FeedInv
<1>5. \A c \in counted : c \in log /\ at[c] <= row.last
  BY CountedIsStored DEF FeedInv
<1> HIDE DEF reading, counted
<1>6. "recent" \in HasProfile /\ "profile" \in Busy
  BY DEF HasProfile, Busy
<1>7. /\ FeedTypeOK' /\ AnswerAt(q)' /\ BaseAt(q)'
      /\ \A p \in Feeds : p # q =>
           /\ f_step'[p] = f_step[p] /\ now'[p] = now[p] /\ arrived'[p] = arrived[p]
           /\ key'[p] = key[p] /\ work'[p] = work[p] /\ answer'[p] = answer[p]
      /\ f_step'[q] = "recent" /\ work'[q] = reading /\ key'[q] = key[q] /\ arrived'[q] = arrived[q]
  BY <1>1, <1>3, <1>6, Learned
<1>8. \A p \in Feeds : arrived[p] \subseteq StoredClicks
  BY DEF FeedInv, RequestAt, BaseAt
<1>9. RequestAt(q)'
  <2>1. OwnAt(q)'
    BY <1>2, <1>3, <1>4, <1>7, <1>8 DEF OwnAt
  <2>2. KeyAt(q)'
    <3>1. key[q] \in Clicks => Before(key[q]) \subseteq StoredClicks
      BY <1>1, <1>6, <1>8, FeedAssumption DEF Before, FeedInv, RequestAt, BaseAt
    <3>2. key[q] \in Clicks => Before(key[q])' = Before(key[q])
      BY <1>1 DEF Before
    <3>3. f_step'[q] # "ranked"
      BY <1>7
    <3>4. key[q] \in Clicks => Before(key[q])' \subseteq work'[q].profile \cup missed'
      BY <1>2, <1>3, <1>4, <1>7, <3>1, <3>2
    <3> QED BY <1>7, <3>3, <3>4 DEF KeyAt
  <2>3. ReadAt(q)'
    BY <1>2, <1>3, <1>5, <1>7 DEF ReadAt
  <2> QED BY <1>7, <2>1, <2>2, <2>3 DEF RequestAt
<1> QED BY <1>1, <1>2, <1>7, <1>9, WorkerStep

LEMMA ReadRecentStep ==
  ASSUME FeedInv, NEW q \in Feeds, ReadRecent(q), missed' = missed \cup excused'
  PROVE  FeedInv'
<1> DEFINE recent == {c \in Events : at[c] < now[q]}
           state == [work[q] EXCEPT !.recent = recent]
           reading == [state EXCEPT !.features = FeaturesIfConsistent(state, now[q])]
<1>1. f_step[q] = "recent" /\ UNCHANGED vars /\ UNCHANGED <<now, arrived, key, answer, cache>>
      /\ Learn(q, reading) /\ FeedGoto(q, "exclusion")
  BY DEF ReadRecent
<1>2. /\ ProfileInv' /\ Grows /\ excused' \subseteq missed'
      /\ UNCHANGED <<log, at, missed>> /\ StoredClicks' = StoredClicks
      /\ \A k \in Clicks : Before(k)' = Before(k)
  BY <1>1, WorkerFrame
<1>3. recent \subseteq log /\ recent \subseteq Clicks /\ work[q] \in Lists /\ now[q] \in Nat
      /\ clock \in Nat /\ \A c \in Clicks : at[c] \in 0..clock
  BY DEF Events, FeedInv, FeedTypeOK, ProfileInv, TypeOK
<1> HIDE DEF recent
<1>4. /\ state \in Lists /\ state.recent = recent /\ state.profile = work[q].profile
      /\ state.last = work[q].last /\ state.clicked = work[q].clicked
  BY <1>3 DEF Lists
<1> HIDE DEF state
<1>5. FeaturesIfConsistent(state, now[q]) \in BOOLEAN
  BY DEF FeaturesIfConsistent
<1>6. /\ reading \in Lists /\ reading.recent = recent /\ reading.profile = work[q].profile
      /\ reading.last = work[q].last /\ reading.clicked = work[q].clicked
      /\ reading.features = FeaturesIfConsistent(state, now[q])
  BY <1>4, <1>5 DEF Lists
<1> HIDE DEF reading
<1>7. "exclusion" \in HasProfile /\ "recent" \in HasProfile /\ "recent" \in Busy
  BY DEF HasProfile, Busy
<1>8. /\ FeedTypeOK' /\ AnswerAt(q)' /\ BaseAt(q)'
      /\ \A p \in Feeds : p # q =>
           /\ f_step'[p] = f_step[p] /\ now'[p] = now[p] /\ arrived'[p] = arrived[p]
           /\ key'[p] = key[p] /\ work'[p] = work[p] /\ answer'[p] = answer[p]
      /\ f_step'[q] = "exclusion" /\ work'[q] = reading /\ key'[q] = key[q] /\ now'[q] = now[q]
      /\ arrived'[q] = arrived[q]
  BY <1>1, <1>6, <1>7, Learned
<1>9. RequestAt(q)'
  <2>1. OwnAt(q)'
    BY <1>1, <1>2, <1>6, <1>7, <1>8 DEF OwnAt, FeedInv, RequestAt
  <2>2. KeyAt(q)'
    <3>1. key[q] \in Clicks => Before(key[q])' = Before(key[q])
      BY <1>1 DEF Before
    <3> QED BY <1>1, <1>2, <1>6, <1>7, <1>8, <3>1 DEF KeyAt, FeedInv, RequestAt
  <2>3. ReadAt(q)'
    <3>1. work[q].profile \subseteq log /\ \A c \in work[q].profile : at[c] <= work[q].last
      BY <1>1, <1>7 DEF FeedInv, RequestAt, ReadAt
    <3>2. work[q].profile \subseteq Clicks /\ work[q].last \in Nat
      BY <1>3 DEF Lists
    <3>3. ASSUME reading.features, NEW c \in reading.profile \cup reading.recent PROVE at[c] < now[q]
      <4>1. (work[q].profile # {} => work[q].last < now[q]) /\ \A d \in recent : at[d] < now[q]
        BY <1>4, <1>6, <3>3 DEF FeaturesIfConsistent
      <4>2. CASE c \in recent
        BY <4>1, <4>2
      <4>3. CASE c \in work[q].profile
        BY <1>3, <3>1, <3>2, <4>1, <4>3
      <4> QED BY <1>6, <3>3, <4>2, <4>3
    <3> QED BY <1>2, <1>3, <1>6, <1>8, <3>1, <3>3 DEF ReadAt
  <2> QED BY <1>8, <2>1, <2>2, <2>3 DEF RequestAt
<1> QED BY <1>1, <1>2, <1>8, <1>9, WorkerStep

LEMMA ReadClickedStep ==
  ASSUME FeedInv, NEW q \in Feeds, ReadClicked(q), missed' = missed \cup excused'
  PROVE  FeedInv'
<1> DEFINE reading == [work[q] EXCEPT !.clicked = StoredClicks]
<1>1. f_step[q] = "exclusion" /\ UNCHANGED vars /\ UNCHANGED <<now, arrived, key, answer, cache>>
      /\ Learn(q, reading) /\ FeedGoto(q, "ranked")
  BY DEF ReadClicked
<1>2. /\ ProfileInv' /\ Grows /\ excused' \subseteq missed'
      /\ UNCHANGED <<log, at, missed>> /\ StoredClicks' = StoredClicks
      /\ \A k \in Clicks : Before(k)' = Before(k)
  BY <1>1, WorkerFrame
<1>3. StoredClicks \subseteq Clicks /\ work[q] \in Lists
  BY DEF StoredClicks, FeedInv, FeedTypeOK, ProfileInv, TypeOK
<1>4. /\ reading \in Lists /\ reading.clicked = StoredClicks /\ reading.profile = work[q].profile
      /\ reading.last = work[q].last /\ reading.recent = work[q].recent
      /\ reading.features = work[q].features
  BY <1>3 DEF Lists
<1> HIDE DEF reading
<1>5. "ranked" \in HasProfile /\ "exclusion" \in HasProfile /\ "exclusion" \in Busy
  BY DEF HasProfile, Busy
<1>6. /\ FeedTypeOK' /\ AnswerAt(q)' /\ BaseAt(q)'
      /\ \A p \in Feeds : p # q =>
           /\ f_step'[p] = f_step[p] /\ now'[p] = now[p] /\ arrived'[p] = arrived[p]
           /\ key'[p] = key[p] /\ work'[p] = work[p] /\ answer'[p] = answer[p]
      /\ f_step'[q] = "ranked" /\ work'[q] = reading /\ key'[q] = key[q] /\ now'[q] = now[q]
      /\ arrived'[q] = arrived[q]
  BY <1>1, <1>4, <1>5, Learned
<1>7. \A p \in Feeds : arrived[p] \subseteq StoredClicks
  BY DEF FeedInv, RequestAt, BaseAt
<1>8. RequestAt(q)'
  <2>1. OwnAt(q)'
    BY <1>1, <1>2, <1>4, <1>5, <1>6, <1>7 DEF OwnAt, FeedInv, RequestAt
  <2>2. KeyAt(q)'
    <3>1. key[q] \in Clicks => Before(key[q])' = Before(key[q])
      BY <1>1 DEF Before
    <3>2. key[q] \in Clicks => Before(key[q]) \subseteq StoredClicks
      BY <1>1, <1>5, <1>7, FeedAssumption DEF Before, FeedInv, RequestAt, BaseAt
    <3> QED BY <1>1, <1>2, <1>4, <1>5, <1>6, <3>1, <3>2 DEF KeyAt, FeedInv, RequestAt
  <2>3. ReadAt(q)'
    BY <1>1, <1>2, <1>4, <1>5, <1>6 DEF ReadAt, FeedInv, RequestAt
  <2> QED BY <1>6, <2>1, <2>2, <2>3 DEF RequestAt
<1> QED BY <1>1, <1>2, <1>6, <1>8, WorkerStep

\* The list found under the newest stored click knows the newest click of
\* every request that came in before.
LEMMA FoundKnows ==
  ASSUME FeedInv, NEW q \in Feeds, cache[Newest(StoredClicks)] # NoList,
         NEW c \in arrived[q], \A d \in arrived[q] : at[d] <= at[c]
  PROVE  Knows(cache[Newest(StoredClicks)], {c})
<1> DEFINE k == Newest(StoredClicks)
<1>1. arrived[q] \subseteq StoredClicks /\ StoredClicks \subseteq Clicks
  BY DEF FeedInv, RequestAt, BaseAt, StoredClicks, ProfileInv, TypeOK
<1>2. k \in StoredClicks /\ \A d \in StoredClicks : at[d] <= at[k]
  BY <1>1, NewestIs DEF FeedInv
<1>3. Knows(cache[k], Before(k))
  BY <1>1, <1>2 DEF FeedInv, CacheAt
<1>4. c \in Before(k)
  <2>1. CASE k \notin arrived[q]
    BY <2>1 DEF Before
  <2>2. CASE k \in arrived[q]
    <3>1. c = Newest(arrived[q]) /\ k = Newest(arrived[q])
      BY <1>1, <1>2, <2>2, NewestIs DEF FeedInv
    <3> QED BY <3>1 DEF Before
  <2> QED BY <2>1, <2>2
<1> QED BY <1>3, <1>4 DEF Knows

LEMMA ReadKeyStep ==
  ASSUME FeedInv, NEW q \in Feeds, ReadKey(q), missed' = missed \cup excused'
  PROVE  FeedInv'
<1> DEFINE k == Newest(StoredClicks)
<1>1. f_step[q] = "submitted" /\ UNCHANGED vars /\ UNCHANGED <<arrived, cache>>
  BY DEF ReadKey
<1>2. /\ ProfileInv' /\ Grows /\ excused' \subseteq missed'
      /\ UNCHANGED <<log, at, missed>> /\ StoredClicks' = StoredClicks
  BY <1>1, WorkerFrame
<1>3. FeedTypeOK /\ StoredClicks \subseteq Clicks
  BY DEF FeedInv, StoredClicks, ProfileInv, TypeOK
<1>4. k \in StoredClicks \cup {NoClick} /\ k \in Clicks \cup {NoClick}
  BY <1>3, NewestIs DEF FeedInv, Newest
<1>5. CASE cache[k] # NoList
  <2>1. Answer(q, cache[k]) /\ Finish(q) /\ cache[k] \in Lists \cup {Fallback}
    BY <1>3, <1>4, <1>5 DEF ReadKey, FeedTypeOK
  <2>2. answer[q] # NoList \/ AnswerAt(q)'
    <3> SUFFICES ASSUME answer[q] = NoList, NEW c \in arrived[q], \A d \in arrived[q] : at[d] <= at[c]
                 PROVE  Knows(answer[q], {c})'
      BY <1>1, <1>2 DEF AnswerAt, FeedInv, RequestAt, BaseAt
    <3>1. Knows(cache[k], {c})
      BY <1>5, FoundKnows
    <3>2. answer'[q] = cache[k]
      BY <1>3, <2>1 DEF Answer, FeedTypeOK
    <3> QED BY <1>2, <3>1, <3>2 DEF Knows
  <2>3. FeedTypeOK' /\ RequestAt(q)'
    BY <1>1, <1>2, <1>3, <2>1, <2>2, Finished DEF FeedTypeOK
  <2> QED BY <1>1, <1>2, <2>1, <2>3, Finished, WorkerStep
<1>6. CASE cache[k] = NoList
  <2>1. f_step' = [f_step EXCEPT ![q] = "profile"] /\ key' = [key EXCEPT ![q] = k]
        /\ UNCHANGED <<answer, work, now>>
    BY <1>6 DEF ReadKey, FeedGoto
  <2>2. FeedTypeOK'
    BY <1>1, <1>2, <1>3, <1>4, <2>1 DEF FeedTypeOK
  <2>3. f_step'[q] = "profile" /\ key'[q] = k
    BY <1>3, <2>1 DEF FeedTypeOK
  <2>4. \A p \in Feeds : p # q => f_step'[p] = f_step[p] /\ key'[p] = key[p]
    BY <1>3, <2>1 DEF FeedTypeOK
  <2>5. RequestAt(q)'
    <3>1. BaseAt(q)'
      BY <1>1, <1>2, <1>4, <2>1, <2>3 DEF FeedInv, RequestAt, BaseAt
    <3>2. OwnAt(q)' /\ KeyAt(q)' /\ ReadAt(q)'
      BY <2>3 DEF OwnAt, KeyAt, ReadAt, HasProfile
    <3>3. AnswerAt(q)'
      BY <1>1, <1>2, <2>1 DEF FeedInv, RequestAt, AnswerAt, Listed, Knows
    <3> QED BY <3>1, <3>2, <3>3 DEF RequestAt
  <2> QED BY <1>1, <1>2, <2>1, <2>2, <2>4, <2>5, WorkerStep
<1> QED BY <1>5, <1>6

LEMMA PutStep ==
  ASSUME FeedInv, NEW q \in Feeds, Put(q), missed' = missed \cup excused'
  PROVE  FeedInv'
<1>1. /\ f_step[q] = "ranked" /\ UNCHANGED vars /\ UNCHANGED arrived
      /\ cache' = [cache EXCEPT ![key[q]] = work[q]] /\ Answer(q, work[q]) /\ Finish(q)
  BY DEF Put
<1>2. /\ ProfileInv' /\ Grows /\ excused' \subseteq missed'
      /\ UNCHANGED <<log, at, missed>> /\ StoredClicks' = StoredClicks
      /\ \A k \in Clicks : Before(k)' = Before(k)
  BY <1>1, WorkerFrame
<1>3. FeedTypeOK /\ work[q] \in Lists /\ key[q] \in Clicks \cup {NoClick}
  BY DEF FeedInv, FeedTypeOK
<1>4. RequestAt(q) /\ "ranked" \in HasProfile /\ "ranked" \in Busy
  BY DEF FeedInv, HasProfile, Busy
<1>5. answer[q] # NoList \/ AnswerAt(q)'
  <2> SUFFICES ASSUME answer[q] = NoList, NEW c \in arrived[q]
               PROVE  Knows(answer[q], {c})'
    BY <1>1, <1>2 DEF AnswerAt
  <2>1. answer'[q] = work[q]
    BY <1>1, <1>3 DEF Answer, FeedTypeOK
  <2>2. c \in work[q].clicked /\ c \in work[q].profile \cup missed
    BY <1>1, <1>4 DEF RequestAt, OwnAt
  <2> QED BY <1>2, <2>1, <2>2 DEF Knows
<1>6. RequestAt(q)'
  BY <1>1, <1>3, <1>5, Finished
<1>7. FeedTypeOK'
  <2>1. cache' \in [Clicks \cup {NoClick} -> Lists \cup {NoList}]
    BY <1>1, <1>3 DEF FeedTypeOK
  <2> QED BY <1>1, <1>2, <1>3, <2>1, Finished DEF FeedTypeOK
<1>8. ASSUME NEW k \in Clicks PROVE cache'[k] = cache[k] \/ CacheAt(k)'
  <2>1. CASE k # key[q]
    BY <1>1, <1>3, <2>1 DEF FeedTypeOK
  <2>2. CASE k = key[q]
    <3>1. cache'[k] = work[q]
      BY <1>1, <1>3, <2>2 DEF FeedTypeOK
    <3>2. k \in StoredClicks /\ Knows(work[q], Before(k))
      BY <1>1, <1>4, <2>2, FeedAssumption DEF RequestAt, BaseAt, KeyAt, Knows
    <3>3. Knows(work[q], Before(k)) => Knows(cache[k], Before(k))'
      BY <1>2, <3>1 DEF Knows
    <3> QED BY <1>2, <3>2, <3>3 DEF CacheAt
  <2> QED BY <2>1, <2>2
<1> QED BY <1>1, <1>2, <1>3, <1>6, <1>7, <1>8, Finished, WorkerStep

LEMMA RankFailsStep ==
  ASSUME FeedInv, NEW q \in Feeds, RankFails(q), missed' = missed \cup excused'
  PROVE  FeedInv'
<1>1. Answer(q, Fallback) /\ Finish(q) /\ UNCHANGED vars /\ UNCHANGED arrived /\ UNCHANGED cache
  BY DEF RankFails
<1>2. ProfileInv' /\ Grows /\ excused' \subseteq missed' /\ UNCHANGED missed
  BY <1>1, WorkerFrame
<1>3. FeedTypeOK' /\ RequestAt(q)'
  <2>1. FeedTypeOK
    BY DEF FeedInv
  <2> QED BY <1>1, <1>2, <2>1, Finished DEF FeedTypeOK
<1> QED BY <1>1, <1>2, <1>3, Finished, WorkerStep

LEMMA TimeoutStep ==
  ASSUME FeedInv, NEW q \in Feeds, Timeout(q), missed' = missed \cup excused'
  PROVE  FeedInv'
<1>1. Answer(q, Fallback) /\ answer[q] = NoList /\ UNCHANGED vars /\ UNCHANGED arrived /\ UNCHANGED cache
  BY DEF Timeout
<1>2. ProfileInv' /\ Grows /\ excused' \subseteq missed' /\ UNCHANGED <<log, at, missed>>
      /\ StoredClicks' = StoredClicks
  BY <1>1, WorkerFrame
<1>3. FeedTypeOK /\ RequestAt(q)
  BY DEF FeedInv
<1>4. CASE Finish(q)
  <2>1. FeedTypeOK' /\ RequestAt(q)'
    BY <1>1, <1>2, <1>3, <1>4, Finished DEF FeedTypeOK
  <2> QED BY <1>1, <1>2, <1>4, <2>1, Finished, WorkerStep
<1>5. CASE UNCHANGED <<f_step, now, key, work>>
  <2>1. answer' = [answer EXCEPT ![q] = Fallback]
    BY <1>1 DEF Answer
  <2>2. answer'[q] = Fallback /\ \A p \in Feeds : p # q => answer'[p] = answer[p]
    BY <1>3, <2>1 DEF FeedTypeOK
  <2>3. FeedTypeOK'
    <3>1. \A p \in Feeds : f_step'[p] = "done" => answer'[p] # NoList
      BY <1>3, <1>5, <2>2, FeedAssumption DEF FeedTypeOK
    <3> QED BY <1>1, <1>2, <1>3, <1>5, <2>1, <3>1 DEF FeedTypeOK
  <2>4. RequestAt(q)'
    <3>1. f_step[q] # "idle"
      BY DEF Timeout
    <3>2. BaseAt(q)'
      BY <1>1, <1>2, <1>3, <1>5, <3>1 DEF RequestAt, BaseAt
    <3>3. OwnAt(q)' /\ ReadAt(q)'
      BY <1>1, <1>2, <1>3, <1>5 DEF RequestAt, OwnAt, ReadAt
    <3>4. KeyAt(q)'
      BY <1>1, <1>2, <1>3, <1>5 DEF RequestAt, KeyAt, Before
    <3>5. AnswerAt(q)'
      BY <2>2 DEF AnswerAt, Listed
    <3> QED BY <3>2, <3>3, <3>4, <3>5 DEF RequestAt
  <2> QED BY <1>1, <1>2, <1>5, <2>2, <2>3, <2>4, WorkerStep
<1> QED BY <1>4, <1>5 DEF Timeout

LEMMA ForgetStep ==
  ASSUME FeedInv, NEW k \in Clicks \cup {NoClick}, Forget(k), missed' = missed \cup excused'
  PROVE  FeedInv'
<1>1. /\ UNCHANGED vars /\ UNCHANGED <<f_step, now, arrived, key, work, answer>>
      /\ cache' = [cache EXCEPT ![k] = NoList]
  BY DEF Forget
<1>2. ProfileInv' /\ Grows /\ excused' \subseteq missed' /\ UNCHANGED missed
  BY <1>1, WorkerFrame
<1>3. FeedTypeOK'
  BY <1>1, <1>2 DEF FeedInv, FeedTypeOK
<1>4. \A q \in Feeds : RequestAt(q)'
  BY <1>1, <1>2, RequestOthers DEF FeedInv
<1>5. ASSUME NEW l \in Clicks PROVE CacheAt(l)'
  <2>1. cache'[l] = cache[l] \/ cache'[l] = NoList
    BY <1>1 DEF FeedInv, FeedTypeOK
  <2> QED BY <1>2, <2>1, CacheOthers DEF FeedInv, CacheAt
<1> QED BY <1>2, <1>3, <1>4, <1>5 DEF FeedInv

LEMMA FeedInvariant == FeedSpec => []FeedInv
<1>1. ASSUME FeedInv, [FeedNext]_allVars PROVE FeedInv'
  <2>1. CASE UNCHANGED allVars
    <3>1. UNCHANGED vars /\ UNCHANGED feedVars /\ missed' = missed \cup excused'
      <4>1. UNCHANGED vars /\ UNCHANGED feedVars /\ UNCHANGED missed
        BY <2>1 DEF allVars
      <4>2. UNCHANGED excused
        BY <4>1 DEF vars, tableVars
      <4> QED BY <1>1, <4>1, <4>2 DEF FeedInv
    <3> QED BY <1>1, <3>1, ClickProfileStep
  <2>2. CASE FeedNext
    <3>1. missed' = missed \cup excused'
      BY <2>2 DEF FeedNext
    <3>2. CASE Next /\ UNCHANGED feedVars
      BY <1>1, <3>1, <3>2, ClickProfileStep
    <3>3. ASSUME NEW q \in Feeds,
                 Arrive(q) \/ ReadKey(q) \/ ReadProfile(q) \/ ReadRecent(q) \/ ReadClicked(q)
                 \/ Put(q) \/ RankFails(q) \/ Timeout(q)
          PROVE  FeedInv'
      BY <1>1, <3>1, <3>3, ArriveStep, ReadKeyStep, ReadProfileStep, ReadRecentStep, ReadClickedStep,
         PutStep, RankFailsStep, TimeoutStep
    <3>4. ASSUME NEW k \in Clicks \cup {NoClick}, Forget(k) PROVE FeedInv'
      BY <1>1, <3>1, <3>4, ForgetStep
    <3> QED BY <2>2, <3>2, <3>3, <3>4 DEF FeedNext, FeedStep
  <2> QED BY <1>1, <2>1, <2>2
<1> QED BY <1>1, FeedInitial, PTL DEF FeedSpec

-----------------------------------------------------------------------------
(* The feed *)

\* A click is gone from the next list (recommend, the result cache keyed by
\* last_click_id): every list a request is answered with, computed for it or
\* found in the cache, was computed after the newest click stored when the
\* request came in, from a profile with that click unless its update was missed.
THEOREM NewestClickCountsHolds == FeedSpec => []NewestClickCounts
<1>1. FeedInv => NewestClickCounts
  <2> SUFFICES ASSUME FeedInv, NEW q \in Feeds, Listed(q), arrived[q] # {}
               PROVE  LET c == Newest(arrived[q]) IN
                      c \in answer[q].clicked /\ c \in answer[q].profile \cup missed
    BY DEF NewestClickCounts, FeedInv
  <2>1. arrived[q] \in SUBSET StoredClicks
    BY DEF FeedInv, RequestAt, BaseAt
  <2>2. Newest(arrived[q]) \in arrived[q] /\ \A d \in arrived[q] : at[d] <= at[Newest(arrived[q])]
    BY <2>1, NewestIs DEF FeedInv
  <2>3. Knows(answer[q], {Newest(arrived[q])})
    BY <2>2 DEF FeedInv, RequestAt, AnswerAt
  <2> QED BY <2>3 DEF Knows
<1> QED BY <1>1, FeedInvariant, PTL

\* No feature is computed from a click that is later than the request
\* (check_inputs), in whatever order the clicks were committed.
THEOREM FeaturesAreOfTheirTimeHolds == FeedSpec => []FeaturesAreOfTheirTime
<1>1. FeedInv => FeaturesAreOfTheirTime
  BY DEF FeedInv, RequestAt, ReadAt, FeaturesAreOfTheirTime
<1> QED BY <1>1, FeedInvariant, PTL

=============================================================================
