----------------------------- MODULE ArticleProofs -----------------------------
(***************************************************************************)
(* Theorems about the articles of news_raw, from the feeds to the purge.   *)
(*                                                                         *)
(* FeedCollection, for every set of feeds, sites, addresses and summaries  *)
(* and every number of runs, entries and crashes: the single row of a      *)
(* summary, the single retry of a failed run, and the statistics that      *)
(* never run ahead of the rows.                                            *)
(*                                                                         *)
(* ArticleRows, for every number of rows, workers, batches and faults: no  *)
(* article is lost as a copy, no vector is of another body, and the bodies *)
(* live as BodyLife says.                                                  *)
(***************************************************************************)
EXTENDS FeedCollection, ArticleRows, FiniteSetTheorems, WellFoundedInduction, SequenceTheorems, TLAPS

-------------------------------------------------------------------------------
(* Least elements *)

\* Every nonempty set of naturals has a least element.
LEMMA LeastElement ==
  ASSUME NEW T \in SUBSET Nat, T # {}
  PROVE  \E m \in T : \A k \in T : m <= k
<1> DEFINE Segments == {1..k : k \in T}
<1>1. Segments \subseteq FiniteSubsetsOf(Nat)
  <2> SUFFICES ASSUME NEW k \in T PROVE 1..k \in FiniteSubsetsOf(Nat)
    OBVIOUS
  <2>1. IsFiniteSet(1..k)
    BY FS_Interval
  <2> QED BY <2>1 DEF FiniteSubsetsOf
<1>2. PICK s \in Segments : \A t \in Segments : ~ (<<t, s>> \in StrictSubsetOrdering(Nat))
  <2>1. IsWellFoundedOn(StrictSubsetOrdering(Nat), FiniteSubsetsOf(Nat))
    BY FS_StrictSubsetOrderingWellFounded
  <2>2. Segments # {}
    OBVIOUS
  <2> HIDE DEF Segments
  <2> QED BY <1>1, <2>1, <2>2, WFMin
<1>3. PICK m \in T : s = 1..m
  OBVIOUS
<1>4. ASSUME NEW k \in T, k < m PROVE FALSE
  <2>1. 1..k \subseteq 1..m /\ m \in 1..m /\ m \notin 1..k
    BY <1>4
  <2>2. <<1..k, 1..m>> \in StrictSubsetOrdering(Nat)
    BY <2>1 DEF StrictSubsetOrdering
  <2> QED BY <1>2, <1>3, <2>2
<1> QED BY <1>4

LEMMA MinIsMember ==
  ASSUME NEW T \in SUBSET Nat, T # {}
  PROVE  Min(T) \in T
<1>1. \E m \in T : \A k \in T : m <= k
  BY LeastElement
<1> QED BY <1>1 DEF Min

-------------------------------------------------------------------------------
(* FeedCollection: greatest elements *)

\* Max returns a member of a set of numbers up to a bound.
LEMMA MaxIsMember ==
  ASSUME NEW n \in Nat, NEW T \in SUBSET (1..n), T # {}
  PROVE  Max(T) \in T
<1> DEFINE D == {n - k : k \in T}
<1>1. D \in SUBSET Nat /\ D # {}
  <2>1. \A k \in T : n - k \in Nat
    OBVIOUS
  <2>2. D \subseteq Nat
    BY <2>1
  <2>3. PICK k \in T : TRUE
    OBVIOUS
  <2>4. n - k \in D
    OBVIOUS
  <2> QED BY <2>2, <2>4
<1>2. PICK m \in D : \A k \in D : m <= k
  <2> HIDE DEF D
  <2> QED BY <1>1, LeastElement
<1>3. PICK x \in T : m = n - x
  OBVIOUS
<1>4. \A y \in T : x >= y
  <2> SUFFICES ASSUME NEW y \in T PROVE x >= y
    OBVIOUS
  <2>1. n - x <= n - y
    BY <1>2, <1>3
  <2> QED BY <2>1
<1> QED BY <1>4 DEF Max

-------------------------------------------------------------------------------
(* FeedCollection: what a feed adds to a transaction *)

NewEntries(j, es) == {a \in DOMAIN es : es[a].url \notin Present(j)}

\* The rows that build_insert_rows makes: one per entry that is not there, and
\* at most one of them keeps a summary, which nobody has.
LEMMA CandidateRows ==
  ASSUME NEW j, NEW f, NEW es
  PROVE  /\ DOMAIN Candidates(j, f, es) = NewEntries(j, es)
         /\ \A a \in NewEntries(j, es) :
              /\ Candidates(j, f, es)[a].digest = es[a].digest
              /\ Candidates(j, f, es)[a] = Row(Candidates(j, f, es)[a].status, es[a].digest)
              /\ Candidates(j, f, es)[a].status \in RowStatuses \ {"absent"}
              /\ Candidates(j, f, es)[a].status = "rss_summary" =>
                   /\ es[a].digest \notin Taken(j)
                   /\ \A b \in NewEntries(j, es) : b < a => es[b].digest # es[a].digest
<1> DEFINE closing(a) == IF f \notin Summary THEN "null"
                        ELSE IF es[a].digest = Short THEN "dropped"
                        ELSE IF es[a].digest \in Taken(j)
                                \/ \E b \in NewEntries(j, es) : b < a /\ es[b].digest = es[a].digest
                             THEN "duplicate" ELSE "rss_summary"
<1>1. Candidates(j, f, es) = [a \in NewEntries(j, es) |-> Row(closing(a), es[a].digest)]
  BY DEF Candidates, NewEntries
<1>2. \A a \in NewEntries(j, es) :
        /\ closing(a) \in RowStatuses \ {"absent"}
        /\ closing(a) = "rss_summary" =>
             /\ es[a].digest \notin Taken(j)
             /\ \A b \in NewEntries(j, es) : b < a => es[b].digest # es[a].digest
  BY DEF RowStatuses
<1> HIDE DEF closing
<1> QED BY <1>1, <1>2 DEF Row

RowSet == [status : RowStatuses, digest : Digests \cup {Short}]
\* what a transaction that has inserted the rows t sees
With(t) == [u \in Urls |-> IF t[u] # Absent THEN t[u] ELSE stored[u]]
Unique(rows) ==
  \A u, v \in Urls :
    u # v /\ rows[u].status = "rss_summary" /\ rows[v].status = "rss_summary"
    => rows[u].digest # rows[v].digest

\* A feed that was read adds its rows and nothing else: what was there stays,
\* every address of the feed is there afterwards, and no summary is kept twice.
LEMMA InsertKeeps ==
  ASSUME NEW j, NEW f, NEW n \in Nat, NEW es \in [1..n -> [url : Urls, digest : Digests \cup {Short}]],
         stored \in [Urls -> RowSet], tx[j] \in [Urls -> RowSet], Unique(Seen(j))
  PROVE  LET t == Insert(j, f, es) IN
         /\ t \in [Urls -> RowSet]
         /\ \A u \in Urls : Seen(j)[u] # Absent => t[u] = tx[j][u] /\ With(t)[u] = Seen(j)[u]
         /\ \A u \in Urls : t[u] # tx[j][u] => stored[u] = Absent
         /\ \A a \in DOMAIN es : With(t)[es[a].url] # Absent
         /\ Unique(With(t))
<1> DEFINE new == NewEntries(j, es)
           rows == Candidates(j, f, es)
           of(u) == {a \in new : es[a].url = u}
           t == Insert(j, f, es)
<1>1. new \subseteq 1..n /\ DOMAIN es = 1..n
  BY DEF NewEntries
<1>2. \A a \in 1..n : es[a].url \in Urls /\ es[a].digest \in Digests \cup {Short}
  OBVIOUS
<1>3. ASSUME NEW a \in new PROVE rows[a] \in RowSet /\ rows[a] # Absent
  <2>1. /\ rows[a] = Row(rows[a].status, es[a].digest)
        /\ rows[a].status \in RowStatuses /\ rows[a].status # "absent"
    BY CandidateRows
  <2>2. es[a].digest \in Digests \cup {Short}
    BY <1>1, <1>2
  <2> HIDE DEF rows, new
  <2>3. rows[a] = [status |-> rows[a].status, digest |-> es[a].digest]
    BY <2>1 DEF Row
  <2>4. rows[a] # Absent
    BY <2>1 DEF Absent
  <2> QED BY <2>1, <2>2, <2>3, <2>4 DEF RowSet
<1>4. t = [u \in Urls |-> IF Seen(j)[u] = Absent /\ of(u) # {} THEN rows[Min(of(u))] ELSE tx[j][u]]
  <2>1. DOMAIN rows = new
    BY CandidateRows
  <2>2. \A u : {a \in DOMAIN rows : es[a].url = u} = of(u)
    BY <2>1
  <2>3. t = [u \in Urls |-> IF Seen(j)[u] = Absent /\ {a \in DOMAIN rows : es[a].url = u} # {}
                             THEN rows[Min({a \in DOMAIN rows : es[a].url = u})] ELSE tx[j][u]]
    BY DEF Insert
  <2> HIDE DEF rows, t, of
  <2> QED BY <2>2, <2>3
<1>5. ASSUME NEW u \in Urls, of(u) # {} PROVE Min(of(u)) \in of(u)
  <2>1. of(u) \in SUBSET Nat
    BY <1>1
  <2> QED BY <2>1, <1>5, MinIsMember
<1>6. \A u \in Urls : /\ Seen(j)[u] = IF tx[j][u] # Absent THEN tx[j][u] ELSE stored[u]
                      /\ With(t)[u] = IF t[u] # Absent THEN t[u] ELSE stored[u]
  BY DEF Seen, With
<1> HIDE DEF t, rows
<1>7. t \in [Urls -> RowSet]
  <2>1. \A u \in Urls : of(u) # {} => rows[Min(of(u))] \in RowSet
    BY <1>3, <1>5
  <2> QED BY <2>1, <1>4
<1>8. \A u \in Urls : Seen(j)[u] # Absent => t[u] = tx[j][u] /\ With(t)[u] = Seen(j)[u]
  BY <1>4, <1>6
<1>9. \A u \in Urls : t[u] # tx[j][u] => stored[u] = Absent
  BY <1>4, <1>6
<1>10. ASSUME NEW u \in Urls, Seen(j)[u] = Absent
       PROVE  With(t)[u] = IF of(u) = {} THEN Absent ELSE rows[Min(of(u))]
  <2>1. CASE of(u) = {}
    BY <2>1, <1>10, <1>4, <1>6
  <2>2. CASE of(u) # {}
    BY <2>2, <1>10, <1>3, <1>4, <1>5, <1>6
  <2> QED BY <2>1, <2>2
<1>11. ASSUME NEW a \in DOMAIN es PROVE With(t)[es[a].url] # Absent
  <2>1. CASE es[a].url \in Present(j)
    BY <2>1, <1>1, <1>2, <1>8 DEF Present
  <2>2. CASE es[a].url \notin Present(j)
    <3>1. a \in of(es[a].url) /\ Seen(j)[es[a].url] = Absent
      BY <2>2, <1>1, <1>2 DEF NewEntries, Present
    <3> QED BY <3>1, <1>1, <1>2, <1>3, <1>5, <1>10
  <2> QED BY <2>1, <2>2
<1>12. ASSUME NEW u \in Urls, Seen(j)[u] = Absent, With(t)[u].status = "rss_summary"
       PROVE  \E a \in new : /\ es[a].url = u /\ With(t)[u].digest = es[a].digest
                             /\ es[a].digest \notin Taken(j)
                             /\ \A b \in new : b < a => es[b].digest # es[a].digest
  <2>1. of(u) # {}
    <3>1. Absent.status = "absent" /\ With(t)[u] # Absent
      BY <1>12 DEF Absent
    <3> HIDE DEF of
    <3> QED BY <3>1, <1>10, <1>12
  <2>2. Min(of(u)) \in of(u) /\ With(t)[u] = rows[Min(of(u))]
    BY <2>1, <1>5, <1>10, <1>12
  <2>3. PICK a \in new : a = Min(of(u)) /\ es[a].url = u
    BY <2>2
  <2>4. /\ rows[a].digest = es[a].digest
        /\ rows[a].status = "rss_summary" =>
             /\ es[a].digest \notin Taken(j)
             /\ \A b \in new : b < a => es[b].digest # es[a].digest
    BY CandidateRows DEF rows
  <2> HIDE DEF new, of
  <2> QED BY <2>2, <2>3, <2>4, <1>12
<1>13. ASSUME NEW u \in Urls, Seen(j)[u] # Absent, With(t)[u].status = "rss_summary"
       PROVE  With(t)[u].digest \in Taken(j)
  BY <1>8, <1>13 DEF Taken, Present
<1>14. ASSUME NEW u \in Urls, NEW v \in Urls, u # v,
              With(t)[u].status = "rss_summary", With(t)[v].status = "rss_summary"
       PROVE  With(t)[u].digest # With(t)[v].digest
  <2>1. CASE Seen(j)[u] # Absent /\ Seen(j)[v] # Absent
    BY <2>1, <1>8, <1>14 DEF Unique
  <2>2. CASE Seen(j)[u] # Absent /\ Seen(j)[v] = Absent
    BY <2>2, <1>12, <1>13, <1>14
  <2>3. CASE Seen(j)[u] = Absent /\ Seen(j)[v] # Absent
    BY <2>3, <1>12, <1>13, <1>14
  <2>4. CASE Seen(j)[u] = Absent /\ Seen(j)[v] = Absent
    <3>1. PICK a \in new : /\ es[a].url = u /\ With(t)[u].digest = es[a].digest
                           /\ \A b \in new : b < a => es[b].digest # es[a].digest
      BY <2>4, <1>12, <1>14
    <3>2. PICK c \in new : /\ es[c].url = v /\ With(t)[v].digest = es[c].digest
                           /\ \A b \in new : b < c => es[b].digest # es[c].digest
      BY <2>4, <1>12, <1>14
    <3>3. a # c /\ a \in Nat /\ c \in Nat
      BY <3>1, <3>2, <1>1, <1>14
    <3>4. a < c \/ c < a
      BY <3>3
    <3> QED BY <3>1, <3>2, <3>4
  <2> QED BY <2>1, <2>2, <2>3, <2>4
<1>15. Unique(With(t))
  BY <1>14 DEF Unique
<1> QED BY <1>7, <1>8, <1>9, <1>11, <1>15 DEF t

-------------------------------------------------------------------------------
(* FeedCollection: the inductive invariant *)

\* the two jobs exclude each other
Exclusive == pc["ingest"] = "off" \/ pc["rss_retry"] = "off"
Places ==
  /\ pc["ingest"] \in {"off", "read", "stats"}
  /\ pc["ingest"] # "off" => log # <<>>
  /\ pc["rss_retry"] # "off" => source \in 1..Len(log)
\* a transaction is open, or about to be
InTransaction(j) == pc[j] \in {"chosen", "read"}
RowsOnce == Unique(stored) /\ \A j \in Jobs : InTransaction(j) => Unique(Seen(j))
\* an open transaction holds no row of an address that is stored
OnlyNew == \A j \in Jobs : InTransaction(j) => \A u \in Urls : tx[j][u] # Absent => stored[u] = Absent
\* what a job calls read is in its transaction, and then in the table
Accounted ==
  \A j \in Jobs : /\ InTransaction(j) => \A u \in got[j] : Seen(j)[u] # Absent
                  /\ pc[j] = "stats" => \A u \in got[j] : stored[u] # Absent
\* a run is read again only after it was recorded as a source
Once ==
  /\ \A n \in 1..MaxRuns : reads[n] <= 1 /\ (reads[n] # 0 => n \in sources)
  /\ pc["rss_retry"] = "chosen" => source \notin sources

CollectionInv ==
  /\ FeedsTypeOK /\ Exclusive /\ Places /\ RowsOnce /\ OnlyNew /\ Accounted /\ StatsAreTrue /\ Once

LEMMA InductiveInit == ASSUME FeedsInit PROVE CollectionInv
<1> USE DEF FeedsInit
<1>1. Absent \in RowSet /\ Absent.status = "absent"
  BY DEF Absent, RowSet, RowStatuses
<1>2. FeedsTypeOK
  <2>1. MaxRuns \in Nat /\ MaxCrashes \in Nat
    BY FeedsAssumption
  <2>2. log \in Seq([known : BOOLEAN, failed : SUBSET Feeds]) /\ Len(log) = 0
    OBVIOUS
  <2>3. stored \in [Urls -> RowSet] /\ tx \in [Jobs -> [Urls -> RowSet]]
    BY <1>1
  <2> QED BY <2>1, <2>2, <2>3 DEF FeedsTypeOK, RowSet
<1>3. Exclusive /\ Places /\ OnlyNew /\ Accounted /\ StatsAreTrue
  BY DEF Exclusive, Places, OnlyNew, Accounted, StatsAreTrue, InTransaction, Jobs
<1>4. RowsOnce
  BY <1>1 DEF RowsOnce, Unique, InTransaction, Jobs
<1>5. Once
  BY FeedsAssumption DEF Once, Jobs
<1> QED BY <1>2, <1>3, <1>4, <1>5 DEF CollectionInv

-------------------------------------------------------------------------------
(* FeedCollection: every step keeps it *)

LogRows == [known : BOOLEAN, failed : SUBSET Feeds]
EmptyTx == [u \in Urls |-> Absent]

LEMMA AbsentRow ==
  /\ Absent \in RowSet /\ Absent.status = "absent"
  /\ EmptyTx \in [Urls -> RowSet] /\ \A u \in Urls : EmptyTx[u] = Absent
BY DEF Absent, RowSet, RowStatuses, EmptyTx

\* A job that begins opens a transaction that holds nothing and sees what is stored.
LEMMA Beginning ==
  ASSUME NEW j \in Jobs, NEW feeds \in SUBSET Feeds, CollectionInv, LockFree, Begin(j, feeds),
         pc' \in [Jobs -> {"off", "chosen", "nothing", "read", "stats"}],
         \A k \in Jobs \ {j} : pc'[k] = "off", pc'[j] \notin {"off", "stats"},
         UNCHANGED <<stored, sources, reads, claimed, crashes>>
  PROVE  /\ Exclusive' /\ RowsOnce' /\ OnlyNew' /\ Accounted' /\ StatsAreTrue'
         /\ tx' \in [Jobs -> [Urls -> RowSet]] /\ todo' \in [Jobs -> SUBSET Feeds]
         /\ hosts' \in [Jobs -> SUBSET {Host[f] : f \in Feeds}] /\ errors' \in [Jobs -> SUBSET Feeds]
         /\ got' \in [Jobs -> SUBSET Urls]
<1> USE DEF CollectionInv, FeedsTypeOK, RowSet
<1>1. /\ tx' = [tx EXCEPT ![j] = EmptyTx] /\ got' = [got EXCEPT ![j] = {}]
      /\ todo' = [todo EXCEPT ![j] = feeds] /\ hosts' = [hosts EXCEPT ![j] = {}] /\ errors' = [errors EXCEPT ![j] = {}]
  BY DEF Begin, Set, EmptyTx
<1>2. tx'[j] = EmptyTx /\ got'[j] = {}
  BY <1>1
<1>3. \A u \in Urls : Seen(j)'[u] = stored[u]
  BY <1>2, AbsentRow DEF Seen
<1>4. Exclusive'
  BY DEF Exclusive, Jobs
<1>5. RowsOnce'
  <2>1. Unique(stored)' /\ Unique(Seen(j))'
    <3>1. Unique(stored)
      BY DEF RowsOnce
    <3> QED BY <3>1, <1>3 DEF Unique
  <2>2. \A k \in Jobs : InTransaction(k)' => k = j
    BY DEF InTransaction
  <2> QED BY <2>1, <2>2 DEF RowsOnce
<1>6. OnlyNew' /\ Accounted' /\ StatsAreTrue'
  BY <1>2, AbsentRow DEF OnlyNew, Accounted, InTransaction, StatsAreTrue
<1>7. tx' \in [Jobs -> [Urls -> RowSet]]
  BY <1>1, AbsentRow
<1> QED BY <1>1, <1>4, <1>5, <1>6, <1>7

LEMMA IngestStartStep == ASSUME CollectionInv, IngestStart PROVE CollectionInv'
<1> USE DEF CollectionInv
<1>1. /\ LockFree /\ pc' = [pc EXCEPT !["ingest"] = "read"] /\ Begin("ingest", Feeds)
      /\ log' = Append(log, NoStats) /\ UNCHANGED <<stored, sources, source, reads, claimed, crashes>>
  BY DEF IngestStart, Set
<1>2. pc \in [Jobs -> {"off", "chosen", "nothing", "read", "stats"}] /\ log \in Seq(LogRows)
  BY DEF FeedsTypeOK, LogRows
<1>3. /\ pc' \in [Jobs -> {"off", "chosen", "nothing", "read", "stats"}]
      /\ pc'["ingest"] = "read" /\ \A k \in Jobs \ {"ingest"} : pc'[k] = "off"
  BY <1>1, <1>2 DEF Jobs, LockFree
<1>4. NoStats \in LogRows
  BY DEF NoStats, LogRows
<1>5. log' \in Seq(LogRows) /\ log' # <<>> /\ Len(log') = Len(log) + 1 /\ Len(log) \in Nat
  BY <1>1, <1>2, <1>4
<1>6. /\ Exclusive' /\ RowsOnce' /\ OnlyNew' /\ Accounted' /\ StatsAreTrue'
      /\ tx' \in [Jobs -> [Urls -> RowSet]] /\ todo' \in [Jobs -> SUBSET Feeds]
      /\ hosts' \in [Jobs -> SUBSET {Host[f] : f \in Feeds}] /\ errors' \in [Jobs -> SUBSET Feeds]
      /\ got' \in [Jobs -> SUBSET Urls]
  <2>1. "ingest" \in Jobs /\ Feeds \in SUBSET Feeds
    BY DEF Jobs
  <2> QED BY <2>1, <1>1, <1>3, Beginning
<1>7. FeedsTypeOK'
  BY <1>1, <1>3, <1>5, <1>6 DEF FeedsTypeOK, RowSet, LogRows
<1>8. Places' /\ Once'
  BY <1>1, <1>3, <1>5 DEF Places, Once, Jobs
<1> QED BY <1>6, <1>7, <1>8

LEMMA RetryStartStep == ASSUME CollectionInv, RetryStart PROVE CollectionInv'
<1> USE DEF CollectionInv
<1> DEFINE n == Max(WithStats)
<1>1. /\ LockFree /\ WithStats # {} /\ n \notin sources /\ source' = n
      /\ pc' = [pc EXCEPT !["rss_retry"] = IF log[n].failed = {} THEN "nothing" ELSE "chosen"]
      /\ Begin("rss_retry", log[n].failed)
      /\ UNCHANGED <<stored, log, sources, reads, claimed, crashes>>
  BY DEF RetryStart, Set
<1>2. pc \in [Jobs -> {"off", "chosen", "nothing", "read", "stats"}] /\ log \in Seq(LogRows)
  BY DEF FeedsTypeOK, LogRows
<1>3. n \in 1..Len(log) /\ Len(log) \in Nat
  <2>1. Len(log) \in Nat
    BY <1>2
  <2>2. WithStats \in SUBSET (1..Len(log))
    BY DEF WithStats
  <2>3. Max(WithStats) \in WithStats
    BY <1>1, <2>1, <2>2, MaxIsMember
  <2> QED BY <2>1, <2>2, <2>3
<1> HIDE DEF n
<1>4. log[n].failed \in SUBSET Feeds
  <2>1. log[n] \in LogRows
    BY <1>2, <1>3
  <2> QED BY <2>1 DEF LogRows
<1>5. /\ pc' \in [Jobs -> {"off", "chosen", "nothing", "read", "stats"}]
      /\ pc'["rss_retry"] \in {"nothing", "chosen"} /\ \A k \in Jobs \ {"rss_retry"} : pc'[k] = "off"
  BY <1>1, <1>2 DEF Jobs, LockFree
<1>6. /\ Exclusive' /\ RowsOnce' /\ OnlyNew' /\ Accounted' /\ StatsAreTrue'
      /\ tx' \in [Jobs -> [Urls -> RowSet]] /\ todo' \in [Jobs -> SUBSET Feeds]
      /\ hosts' \in [Jobs -> SUBSET {Host[f] : f \in Feeds}] /\ errors' \in [Jobs -> SUBSET Feeds]
      /\ got' \in [Jobs -> SUBSET Urls]
  <2>1. "rss_retry" \in Jobs
    BY DEF Jobs
  <2> QED BY <2>1, <1>1, <1>4, <1>5, Beginning
<1>7. FeedsTypeOK'
  BY <1>1, <1>3, <1>5, <1>6 DEF FeedsTypeOK, RowSet
<1>8. Places' /\ Once'
  BY <1>1, <1>3, <1>5 DEF Places, Once, Jobs
<1> QED BY <1>6, <1>7, <1>8

\* A step that touches no row and opens no transaction keeps the summaries apart
\* and the readings accounted for.
LEMMA SameRows ==
  ASSUME CollectionInv, UNCHANGED <<stored, tx, got>>,
         \A k \in Jobs : InTransaction(k)' = InTransaction(k) /\ (pc'[k] = "stats" <=> pc[k] = "stats")
  PROVE  RowsOnce' /\ Accounted'
<1> USE DEF CollectionInv
<1>1. \A k \in Jobs : Seen(k)' = Seen(k)
  BY DEF Seen
<1>2. Unique(stored)' /\ \A k \in Jobs : InTransaction(k) => Unique(Seen(k))'
  <2>1. Unique(stored) /\ \A k \in Jobs : InTransaction(k) => Unique(Seen(k))
    BY DEF RowsOnce
  <2> QED BY <2>1, <1>1 DEF Unique
<1>3. RowsOnce'
  BY <1>2 DEF RowsOnce
<1>4. Accounted'
  BY <1>1 DEF Accounted
<1> QED BY <1>3, <1>4

LEMMA RetryCheckpointStep == ASSUME CollectionInv, RetryCheckpoint PROVE CollectionInv'
<1> USE DEF CollectionInv
<1>1. /\ pc["rss_retry"] = "chosen" /\ sources' = sources \cup {source}
      /\ pc' = [pc EXCEPT !["rss_retry"] = "read"] /\ reads' = [reads EXCEPT ![source] = @ + 1]
      /\ UNCHANGED <<stored, log, todo, tx, hosts, errors, got, source, claimed, crashes>>
  BY DEF RetryCheckpoint, Set, collectVars
<1>2. pc \in [Jobs -> {"off", "chosen", "nothing", "read", "stats"}] /\ "rss_retry" \in Jobs /\ "ingest" \in Jobs
  BY DEF FeedsTypeOK, Jobs
<1>3. source \in 1..Len(log) /\ source \notin sources
  BY <1>1 DEF Places, Once
<1>4. FeedsTypeOK'
  <2>1. reads \in [1..MaxRuns -> Nat] /\ sources \subseteq 1..Len(log)
    BY DEF FeedsTypeOK
  <2>2. reads' \in [1..MaxRuns -> Nat]
    <3>1. \A n \in 1..MaxRuns : reads[n] + 1 \in Nat
      BY <2>1
    <3> QED BY <3>1, <2>1, <1>1
  <2>3. sources' \subseteq 1..Len(log)
    BY <2>1, <1>1, <1>3
  <2>4. pc' \in [Jobs -> {"off", "chosen", "nothing", "read", "stats"}]
    BY <1>1, <1>2
  <2> QED BY <2>2, <2>3, <2>4, <1>1 DEF FeedsTypeOK
<1>5. \A k \in Jobs : InTransaction(k)' = InTransaction(k) /\ (pc'[k] = "stats" <=> pc[k] = "stats")
  BY <1>1, <1>2 DEF InTransaction
<1>6. RowsOnce' /\ Accounted'
  BY <1>1, <1>5, SameRows
<1>7. Exclusive' /\ Places'
  BY <1>1, <1>2, <1>3 DEF Exclusive, Places
<1>8. OnlyNew' /\ StatsAreTrue'
  BY <1>1, <1>5 DEF OnlyNew, StatsAreTrue
<1>9. Once'
  <2>1. reads \in [1..MaxRuns -> Nat]
    BY DEF FeedsTypeOK
  <2>2. \A n \in 1..MaxRuns : reads[n] <= 1 /\ (reads[n] # 0 => n \in sources)
    BY DEF Once
  <2>3. ASSUME NEW n \in 1..MaxRuns PROVE reads'[n] <= 1 /\ (reads'[n] # 0 => n \in sources')
    <3>1. CASE n = source
      BY <3>1, <2>1, <2>2, <1>1, <1>3
    <3>2. CASE n # source
      BY <3>2, <2>1, <2>2, <1>1
    <3> QED BY <3>1, <3>2
  <2>4. pc'["rss_retry"] = "read"
    BY <1>1, <1>2
  <2> QED BY <2>3, <2>4 DEF Once
<1> QED BY <1>4, <1>6, <1>7, <1>8, <1>9

LEMMA RetryNothingStep == ASSUME CollectionInv, RetryNothing PROVE CollectionInv'
<1> USE DEF CollectionInv
<1>1. /\ pc["rss_retry"] = "nothing" /\ sources' = sources \cup {source} /\ source' = 0
      /\ pc' = [pc EXCEPT !["rss_retry"] = "off"]
      /\ UNCHANGED <<stored, log, todo, tx, hosts, errors, got, reads, claimed, crashes>>
  BY DEF RetryNothing, Set, collectVars
<1>2. pc \in [Jobs -> {"off", "chosen", "nothing", "read", "stats"}] /\ "rss_retry" \in Jobs /\ "ingest" \in Jobs
  BY DEF FeedsTypeOK, Jobs
<1>3. source \in 1..Len(log) /\ Len(log) \in Nat
  BY <1>1 DEF Places, FeedsTypeOK
<1>4. FeedsTypeOK'
  BY <1>1, <1>2, <1>3 DEF FeedsTypeOK
<1>5. \A k \in Jobs : InTransaction(k)' = InTransaction(k) /\ (pc'[k] = "stats" <=> pc[k] = "stats")
  BY <1>1, <1>2 DEF InTransaction
<1>6. RowsOnce' /\ Accounted'
  BY <1>1, <1>5, SameRows
<1>7. Exclusive' /\ Places'
  BY <1>1, <1>2 DEF Exclusive, Places
<1>8. OnlyNew' /\ StatsAreTrue'
  BY <1>1, <1>5 DEF OnlyNew, StatsAreTrue
<1>9. Once'
  BY <1>1, <1>2 DEF Once
<1> QED BY <1>4, <1>6, <1>7, <1>8, <1>9

\* Only one job is on, and no other transaction is open.
LEMMA OneIsOn ==
  ASSUME CollectionInv, NEW j \in Jobs, pc[j] # "off", NEW k \in Jobs, k # j
  PROVE  pc[k] = "off"
BY DEF CollectionInv, Exclusive, Jobs

\* the steps that change one job's transaction, host marks, errors and readings
LEMMA ReadFeedStep == ASSUME CollectionInv, NEW j \in Jobs, ReadFeed(j) PROVE CollectionInv'
<1> USE DEF CollectionInv
<1> DEFINE f == NextFeed(j)
<1>1. /\ pc[j] = "read" /\ todo[j] # {} /\ todo' = [todo EXCEPT ![j] = todo[j] \ {f}]
      /\ UNCHANGED <<stored, log, sources, pc, source, reads, claimed, crashes>>
      /\ \/ Failed(j, f)
         \/ /\ \E es \in Possible(f) :
                 /\ tx' = [tx EXCEPT ![j] = Insert(j, f, es)]
                 /\ got' = [got EXCEPT ![j] = got[j] \cup {es[a].url : a \in DOMAIN es}]
            /\ UNCHANGED <<hosts, errors>>
  BY DEF ReadFeed, Set
<1>2. f \in Feeds
  <2>1. todo[j] \in SUBSET Feeds /\ Feeds \in SUBSET Nat
    BY FeedsAssumption DEF FeedsTypeOK
  <2> QED BY <2>1, <1>1, MinIsMember DEF NextFeed
<1> HIDE DEF f
<1>3. /\ pc \in [Jobs -> {"off", "chosen", "nothing", "read", "stats"}]
      /\ stored \in [Urls -> RowSet] /\ tx \in [Jobs -> [Urls -> RowSet]]
      /\ todo \in [Jobs -> SUBSET Feeds] /\ errors \in [Jobs -> SUBSET Feeds]
      /\ hosts \in [Jobs -> SUBSET {Host[g] : g \in Feeds}] /\ got \in [Jobs -> SUBSET Urls]
  BY DEF FeedsTypeOK, RowSet
<1>4. InTransaction(j) /\ \A k \in Jobs \ {j} : ~InTransaction(k) /\ pc[k] = "off"
  BY <1>1, OneIsOn DEF InTransaction
<1>5. Exclusive' /\ Places' /\ StatsAreTrue' /\ Once'
  BY <1>1 DEF Exclusive, Places, StatsAreTrue, Once
<1>6. todo' \in [Jobs -> SUBSET Feeds]
  BY <1>1, <1>3
<1>7. CASE Failed(j, f)
  <2>1. /\ hosts' = [hosts EXCEPT ![j] = hosts[j] \cup {Host[f]}]
        /\ errors' = [errors EXCEPT ![j] = errors[j] \cup {f}]
        /\ UNCHANGED <<tx, got>>
    BY <1>7 DEF Failed, Set
  <2>2. /\ hosts' \in [Jobs -> SUBSET {Host[g] : g \in Feeds}]
        /\ errors' \in [Jobs -> SUBSET Feeds]
    BY <2>1, <1>2, <1>3
  <2>3. FeedsTypeOK'
    BY <2>1, <2>2, <1>1, <1>6 DEF FeedsTypeOK
  <2>4. RowsOnce' /\ Accounted'
    BY <2>1, <1>1, SameRows DEF InTransaction
  <2>5. OnlyNew' /\ RowsOnce' /\ Accounted'
    BY <2>1, <2>4, <1>1 DEF OnlyNew, InTransaction
  <2> QED BY <2>3, <2>5, <1>5
<1>8. ASSUME NEW es \in Possible(f), tx' = [tx EXCEPT ![j] = Insert(j, f, es)],
             got' = [got EXCEPT ![j] = got[j] \cup {es[a].url : a \in DOMAIN es}],
             UNCHANGED <<hosts, errors>>
      PROVE  CollectionInv'
  <2> DEFINE t == Insert(j, f, es)
  <2>1. PICK n \in Nat : es \in [1..n -> [url : Urls, digest : Digests \cup {Short}]]
    BY FeedsAssumption DEF Possible, Entries
  <2>2. /\ t \in [Urls -> RowSet]
        /\ \A u \in Urls : Seen(j)[u] # Absent => t[u] = tx[j][u] /\ With(t)[u] = Seen(j)[u]
        /\ \A u \in Urls : t[u] # tx[j][u] => stored[u] = Absent
        /\ \A a \in DOMAIN es : With(t)[es[a].url] # Absent
        /\ Unique(With(t))
    <3>1. Unique(Seen(j))
      BY <1>4 DEF RowsOnce
    <3> QED BY <3>1, <2>1, <1>3, InsertKeeps
  <2> HIDE DEF t
  <2>3. tx' = [tx EXCEPT ![j] = t] /\ tx'[j] = t
    BY <1>8, <1>3 DEF t
  <2>4. \A u \in Urls : Seen(j)'[u] = With(t)[u]
    BY <2>3, <1>1 DEF Seen, With
  <2>5. \A a \in DOMAIN es : es[a].url \in Urls
    BY <2>1
  <2>6. got' \in [Jobs -> SUBSET Urls] /\ got'[j] = got[j] \cup {es[a].url : a \in DOMAIN es}
    BY <2>5, <1>8, <1>3
  <2>7. FeedsTypeOK'
    <3>1. tx' \in [Jobs -> [Urls -> RowSet]]
      BY <2>2, <2>3, <1>3
    <3> QED BY <3>1, <2>6, <1>1, <1>6, <1>8 DEF FeedsTypeOK, RowSet
  <2>8. RowsOnce'
    <3>1. Unique(stored)' /\ Unique(Seen(j))'
      <4>1. Unique(stored)
        BY DEF RowsOnce
      <4> QED BY <4>1, <2>2, <2>4, <1>1 DEF Unique
    <3>2. \A k \in Jobs : InTransaction(k)' => k = j
      BY <1>1, <1>4 DEF InTransaction
    <3> QED BY <3>1, <3>2 DEF RowsOnce
  <2>9. OnlyNew'
    <3>1. ASSUME NEW u \in Urls, t[u] # Absent PROVE stored[u] = Absent
      <4>1. CASE t[u] = tx[j][u]
        BY <4>1, <3>1, <1>4 DEF OnlyNew
      <4>2. CASE t[u] # tx[j][u]
        BY <4>2, <2>2
      <4> QED BY <4>1, <4>2
    <3>2. \A k \in Jobs : InTransaction(k)' => k = j
      BY <1>1, <1>4 DEF InTransaction
    <3> QED BY <3>1, <3>2, <2>3, <1>1 DEF OnlyNew
  <2>10. Accounted'
    <3>1. ASSUME NEW u \in got'[j] PROVE Seen(j)'[u] # Absent
      <4>1. CASE u \in got[j]
        <5>1. u \in Urls /\ Seen(j)[u] # Absent
          BY <4>1, <1>3, <1>4 DEF Accounted
        <5> QED BY <5>1, <2>2, <2>4
      <4>2. CASE u \notin got[j]
        <5>1. PICK a \in DOMAIN es : u = es[a].url
          BY <4>2, <3>1, <2>6
        <5> QED BY <5>1, <2>2, <2>4, <2>5
      <4> QED BY <4>1, <4>2
    <3>2. \A k \in Jobs : (InTransaction(k)' => k = j) /\ pc'[k] # "stats"
      BY <1>1, <1>4 DEF InTransaction
    <3> QED BY <3>1, <3>2 DEF Accounted
  <2> QED BY <2>7, <2>8, <2>9, <2>10, <1>5
<1> QED BY <1>1, <1>7, <1>8

\* The commit makes the table what the transaction saw.
LEMMA CommitRowsStep == ASSUME CollectionInv, NEW j \in Jobs, CommitRows(j) PROVE CollectionInv'
<1> USE DEF CollectionInv
<1>1. /\ pc[j] = "read" /\ pc' = [pc EXCEPT ![j] = "stats"] /\ tx' = [tx EXCEPT ![j] = EmptyTx]
      /\ stored' = [u \in Urls |-> IF stored[u] # Absent THEN stored[u] ELSE tx[j][u]]
      /\ UNCHANGED <<log, sources, todo, hosts, errors, got, source, reads, claimed, crashes>>
  BY DEF CommitRows, Set, EmptyTx
<1>2. /\ pc \in [Jobs -> {"off", "chosen", "nothing", "read", "stats"}]
      /\ stored \in [Urls -> RowSet] /\ tx \in [Jobs -> [Urls -> RowSet]]
      /\ got \in [Jobs -> SUBSET Urls] /\ claimed \subseteq Urls
  BY DEF FeedsTypeOK, RowSet
<1>3. InTransaction(j) /\ \A k \in Jobs \ {j} : ~InTransaction(k) /\ pc[k] = "off"
  BY <1>1, OneIsOn DEF InTransaction
<1>4. pc'[j] = "stats" /\ \A k \in Jobs \ {j} : pc'[k] = "off"
  BY <1>1, <1>2, <1>3
<1>5. \A u \in Urls : stored'[u] = Seen(j)[u]
  BY <1>1, <1>3 DEF Seen, OnlyNew
<1>6. FeedsTypeOK'
  <2>1. stored' \in [Urls -> RowSet] /\ tx' \in [Jobs -> [Urls -> RowSet]]
    BY <1>1, <1>2, AbsentRow
  <2> QED BY <2>1, <1>1, <1>2 DEF FeedsTypeOK, RowSet
<1>7. Exclusive' /\ Places' /\ Once'
  BY <1>1, <1>2, <1>4 DEF Exclusive, Places, Once, Jobs
<1>8. \A k \in Jobs : ~InTransaction(k)'
  BY <1>4 DEF InTransaction
<1>9. RowsOnce'
  <2>1. Unique(Seen(j))
    BY <1>3 DEF RowsOnce
  <2> QED BY <2>1, <1>5, <1>8 DEF RowsOnce, Unique
<1>10. OnlyNew' /\ StatsAreTrue'
  BY <1>1, <1>2, <1>8 DEF OnlyNew, StatsAreTrue
<1>11. Accounted'
  <2>1. \A u \in got[j] : stored'[u] # Absent
    BY <1>2, <1>3, <1>5 DEF Accounted
  <2> QED BY <2>1, <1>1, <1>4, <1>8 DEF Accounted
<1> QED BY <1>6, <1>7, <1>9, <1>10, <1>11

LEMMA WriteStatsStep == ASSUME CollectionInv, NEW j \in Jobs, WriteStats(j) PROVE CollectionInv'
<1> USE DEF CollectionInv
<1>1. /\ pc[j] = "stats" /\ pc' = [pc EXCEPT ![j] = "off"] /\ claimed' = claimed \cup got[j]
      /\ log' = IF j = "ingest"
                THEN [log EXCEPT ![Len(log)] = [known |-> TRUE, failed |-> errors[j]]] ELSE log
      /\ source' = IF j = "ingest" THEN source ELSE 0
      /\ UNCHANGED <<stored, sources, todo, tx, hosts, errors, got, reads, crashes>>
  BY DEF WriteStats, Set, collectVars
<1>2. /\ pc \in [Jobs -> {"off", "chosen", "nothing", "read", "stats"}] /\ log \in Seq(LogRows)
      /\ errors \in [Jobs -> SUBSET Feeds] /\ got \in [Jobs -> SUBSET Urls] /\ source \in 0..Len(log)
      /\ Len(log) \in Nat
  BY DEF FeedsTypeOK, LogRows
<1>3. \A k \in Jobs : pc'[k] = "off"
  BY <1>1, <1>2, OneIsOn
<1>4. log' \in Seq(LogRows) /\ Len(log') = Len(log)
  <2>1. CASE j = "ingest"
    <3>1. [known |-> TRUE, failed |-> errors[j]] \in LogRows
      BY <1>2 DEF LogRows
    <3>2. Len(log) \in 1..Len(log)
      BY <2>1, <1>1, <1>2, EmptySeq DEF Places
    <3> QED BY <2>1, <3>1, <3>2, <1>1, <1>2, ExceptSeq
  <2>2. CASE j # "ingest"
    BY <2>2, <1>1, <1>2
  <2> QED BY <2>1, <2>2
<1>5. FeedsTypeOK'
  BY <1>1, <1>2, <1>3, <1>4 DEF FeedsTypeOK, LogRows
<1>6. Exclusive' /\ Places' /\ Once'
  BY <1>1, <1>3 DEF Exclusive, Places, Once, Jobs
<1>7. \A k \in Jobs : ~InTransaction(k)' /\ pc'[k] # "stats"
  BY <1>3 DEF InTransaction
<1>8. RowsOnce' /\ OnlyNew' /\ Accounted'
  BY <1>1, <1>7 DEF RowsOnce, Unique, OnlyNew, Accounted
<1>9. StatsAreTrue'
  BY <1>1 DEF StatsAreTrue, Accounted
<1> QED BY <1>5, <1>6, <1>8, <1>9

LEMMA CrashStep == ASSUME CollectionInv, NEW j \in Jobs, Crash(j) PROVE CollectionInv'
<1> USE DEF CollectionInv
<1>1. /\ pc[j] # "off" /\ pc' = [pc EXCEPT ![j] = "off"] /\ tx' = [tx EXCEPT ![j] = EmptyTx]
      /\ crashes < MaxCrashes /\ crashes' = crashes + 1
      /\ source' = IF j = "ingest" THEN source ELSE 0
      /\ UNCHANGED <<stored, log, sources, todo, hosts, errors, got, reads, claimed>>
  BY DEF Crash, Set, EmptyTx
<1>2. /\ pc \in [Jobs -> {"off", "chosen", "nothing", "read", "stats"}]
      /\ tx \in [Jobs -> [Urls -> RowSet]] /\ source \in 0..Len(log) /\ Len(log) \in Nat
      /\ crashes \in 0..MaxCrashes /\ MaxCrashes \in Nat
  BY FeedsAssumption DEF FeedsTypeOK, RowSet
<1>3. \A k \in Jobs : pc'[k] = "off"
  BY <1>1, <1>2, OneIsOn
<1>4. FeedsTypeOK'
  <2>1. tx' \in [Jobs -> [Urls -> RowSet]] /\ crashes' \in 0..MaxCrashes /\ source' \in 0..Len(log)
    BY <1>1, <1>2, AbsentRow
  <2> QED BY <2>1, <1>1, <1>2 DEF FeedsTypeOK, RowSet
<1>5. Exclusive' /\ Places' /\ Once'
  BY <1>1, <1>3 DEF Exclusive, Places, Once, Jobs
<1>6. \A k \in Jobs : ~InTransaction(k)' /\ pc'[k] # "stats"
  BY <1>3 DEF InTransaction
<1>7. RowsOnce' /\ OnlyNew' /\ Accounted' /\ StatsAreTrue'
  BY <1>1, <1>6 DEF RowsOnce, Unique, OnlyNew, Accounted, StatsAreTrue
<1> QED BY <1>4, <1>5, <1>7

LEMMA InductiveStep == ASSUME CollectionInv, [FeedsNext]_feedVars PROVE CollectionInv'
<1>1. CASE IngestStart
  BY <1>1, IngestStartStep
<1>2. CASE RetryStart
  BY <1>2, RetryStartStep
<1>3. CASE RetryCheckpoint
  BY <1>3, RetryCheckpointStep
<1>4. CASE RetryNothing
  BY <1>4, RetryNothingStep
<1>5. ASSUME NEW j \in Jobs, ReadFeed(j) PROVE CollectionInv'
  BY <1>5, ReadFeedStep
<1>6. ASSUME NEW j \in Jobs, CommitRows(j) PROVE CollectionInv'
  BY <1>6, CommitRowsStep
<1>7. ASSUME NEW j \in Jobs, WriteStats(j) PROVE CollectionInv'
  BY <1>7, WriteStatsStep
<1>8. ASSUME NEW j \in Jobs, Crash(j) PROVE CollectionInv'
  BY <1>8, CrashStep
<1>9. CASE UNCHANGED feedVars
  <2>1. RowsOnce' /\ Accounted'
    BY <1>9, SameRows DEF feedVars, collectVars, InTransaction
  <2>2. FeedsTypeOK'
    BY <1>9 DEF feedVars, collectVars, CollectionInv, FeedsTypeOK
  <2>3. Exclusive' /\ Places' /\ OnlyNew' /\ StatsAreTrue' /\ Once'
    BY <1>9 DEF feedVars, collectVars, CollectionInv, Exclusive, Places, OnlyNew, StatsAreTrue, Once, InTransaction
  <2> QED BY <2>1, <2>2, <2>3 DEF CollectionInv
<1> QED BY <1>1, <1>2, <1>3, <1>4, <1>5, <1>6, <1>7, <1>8, <1>9 DEF FeedsNext

-------------------------------------------------------------------------------
(* FeedCollection: the theorems *)

\* The invariant that the results below are read from: one job at a time, no
\* summary twice in the table or in what an open transaction sees, everything
\* a job counts as read in its transaction or stored, and the source recorded
\* before the feeds are read.
THEOREM CollectionInductive == FeedsSpec => []CollectionInv
<1>1. FeedsInit => CollectionInv
  BY InductiveInit
<1>2. CollectionInv /\ [FeedsNext]_feedVars => CollectionInv'
  BY InductiveStep
<1> QED BY <1>1, <1>2, PTL DEF FeedsSpec

\* Whichever of ingest and rss_retry stores the articles, at most one row keeps
\* a summary, for any number of feeds, entries, runs and deaths.
THEOREM OneRowPerSummaryHolds == FeedsSpec => []OneRowPerSummary
<1>1. CollectionInv => OneRowPerSummary
  BY DEF CollectionInv, RowsOnce, Unique, OneRowPerSummary
<1> QED BY <1>1, CollectionInductive, PTL

\* The failures of an ingest run are read again at most once, wherever
\* rss_retry dies.
THEOREM RetriedOnceHolds == FeedsSpec => []RetriedOnce
<1>1. CollectionInv => RetriedOnce
  BY DEF CollectionInv, Once, RetriedOnce
<1> QED BY <1>1, CollectionInductive, PTL

\* The stats in job_runs never claim an article that is not in news_raw.
THEOREM StatsAreTrueHolds == FeedsSpec => []StatsAreTrue
<1>1. CollectionInv => StatsAreTrue
  BY DEF CollectionInv
<1> QED BY <1>1, CollectionInductive, PTL

-------------------------------------------------------------------------------
(* ArticleRows: the inductive invariant *)

\* A row as it is stored, and the locks and readings of the jobs: what may
\* still be extracted is empty and nobody else's, what is closed as "ok" keeps
\* its hash, and every text in use is the one the hash stands for.
RowAt(r) ==
  /\ status[r] = "null" => attempts[r] = 0
  /\ Awaiting(r) => body[r] = Blank /\ r \notin rhold
  /\ HasBody(r) => status[r] = "ok" /\ sha[r] = body[r]
  /\ purged[r] <=> body[r] = NoText
  /\ vector[r] # NoText => status[r] = "ok" /\ sha[r] = vector[r]
  /\ eread[r] # NoText => status[r] = "ok" /\ sha[r] = eread[r]
  /\ r \in rhold => ~ purged[r] /\ r \notin Exempt /\ r \in cutoff

Open == {"fetching", "copying", "updated", "failing"}
Original(s, t) == status[s] = "ok" /\ sha[s] = t
Claims(s, t) == work[s] = "updated" /\ draft[s].status = "ok" /\ draft[s].body = t

\* What a worker has in hand it may write: nobody has closed the row before,
\* the text it claims as an original is nobody else's, and the original of the
\* copy it will record is there.
WorkAt(r) ==
  /\ r \in queue => Awaiting(r) /\ work[r] = "idle"
  /\ work[r] \in Open => Awaiting(r)
  /\ work[r] = "failing" => draft[r].status = "error"
  /\ work[r] = "copying" => draft[r].status = "duplicate"
  /\ work[r] = "updated" => draft[r].status \in {"fetch_failed", "dropped", "ok", "duplicate"}
  /\ work[r] \in {"copying", "updated"} /\ draft[r].status = "duplicate" =>
       draft[r].body \in Texts /\ \E s \in Rows : Original(s, draft[r].body)
  /\ work[r] = "updated" /\ draft[r].status = "ok" =>
       /\ draft[r].body \in Texts
       /\ \A s \in Rows \ {r} : ~ Original(s, draft[r].body) /\ ~ Claims(s, draft[r].body)

JobInv ==
  /\ xrun = "no" => queue = {} /\ \A r \in Rows : work[r] = "idle"
  /\ rhold # {} => rrun = "purging" /\ batches > 0
  /\ \A r \in cutoff : Older(r, Term)

IInv ==
  /\ TypeOK /\ JobInv
  /\ \A r \in Rows : RowAt(r) /\ WorkAt(r) /\ CopyHasOriginal(r)
  /\ \A r, s \in Rows : OriginalsDiffer(r, s)

-------------------------------------------------------------------------------
(* ArticleRows: lemmas *)

\* The limits of the configuration.
LEMMA Limits ==
  /\ Rows \subseteq Nat /\ IsFiniteSet(Rows)
  /\ Workers \in Nat \ {0} /\ MaxAttempts \in Nat \ {0} /\ Term \in Nat \ {0} /\ PurgeBatch \in Nat \ {0}
  /\ Breaker \in Nat /\ MaxFaults \in Nat /\ LastDay \in Nat
  /\ NoText \notin Texts /\ NoText # Blank /\ Blank \notin Texts
BY RowsAssumption

\* A row is as it was if nobody wrote it and nobody locked it.
LEMMA RowKept ==
  ASSUME NEW r \in Rows, RowAt(r),
         status'[r] = status[r], attempts'[r] = attempts[r], body'[r] = body[r], sha'[r] = sha[r],
         purged'[r] = purged[r], vector'[r] = vector[r], eread'[r] = eread[r] \/ eread'[r] = NoText,
         r \in rhold' => r \in rhold /\ r \in cutoff'
  PROVE  RowAt(r)'
BY DEF RowAt, Awaiting, HasBody

\* A worker has in hand what it had, if nobody writes the rows and nobody
\* claims the text it claims.
LEMMA WorkKept ==
  ASSUME NEW r \in Rows, WorkAt(r), UNCHANGED <<status, attempts, sha>>,
         work'[r] = work[r], draft'[r] = draft[r], queue' \subseteq queue,
         \A t \in Texts, s \in Rows : Claims(s, t)' => Claims(s, t) \/ ~ Claims(r, t)
  PROVE  WorkAt(r)'
<1>1. \A s, t : Original(s, t)' <=> Original(s, t)
  BY DEF Original
<1>2. Awaiting(r)' <=> Awaiting(r)
  BY DEF Awaiting
<1>3. Original(r, draft[r].body)' <=> Original(r, draft[r].body)
  BY DEF Original
<1>4. work[r] = "updated" /\ draft[r].status = "ok" =>
        \A s \in Rows \ {r} : ~ Original(s, draft[r].body)' /\ ~ Claims(s, draft[r].body)'
  <2> SUFFICES ASSUME work[r] = "updated", draft[r].status = "ok", NEW s \in Rows \ {r}
               PROVE  ~ Original(s, draft[r].body)' /\ ~ Claims(s, draft[r].body)'
    OBVIOUS
  <2>1. PICK t \in Texts : t = draft[r].body
    BY DEF WorkAt
  <2>2. ~ Original(s, t) /\ ~ Claims(s, t) /\ Claims(r, t)
    BY <2>1 DEF WorkAt, Claims
  <2>3. ~ Original(s, t)' /\ ~ Claims(s, t)'
    BY <1>1, <2>2
  <2> QED BY <2>1, <2>3 DEF Original, Claims
<1>5. \A s : Original(s, draft[r].body)' <=> Original(s, draft[r].body)
  BY DEF Original
<1> QED BY <1>2, <1>4, <1>5 DEF WorkAt, Open

\* The originals and the copies are what they were.
LEMMA OriginalsKept ==
  ASSUME IInv, UNCHANGED <<status, sha>>
  PROVE  (\A r \in Rows : CopyHasOriginal(r)') /\ (\A r, s \in Rows : OriginalsDiffer(r, s)')
BY DEF IInv, CopyHasOriginal, OriginalsDiffer

LEMMA InitIInv == Init => IInv
<1> SUFFICES ASSUME Init PROVE IInv
  OBVIOUS
<1>1. /\ \A r \in Pending : status[r] = "null" /\ body[r] = Blank /\ sha[r] = NoText /\ vector[r] = NoText
      /\ \A r \in Rows \ Pending : /\ status[r] = "ok" /\ body[r] = Stored[r] /\ sha[r] = Stored[r]
                                   /\ vector[r] = Stored[r] /\ Stored[r] \in Texts
      /\ \A r \in Rows : attempts[r] = 0 /\ ~ purged[r] /\ work[r] = "idle" /\ eread[r] = NoText
      /\ Pending \subseteq Rows
  BY RowsAssumption DEF Init, NoRead
<1>2. TypeOK
  <2>1. status \in [Rows -> Statuses]
    BY DEF Init, Statuses
  <2>2. attempts \in [Rows -> 0..MaxAttempts]
    BY Limits DEF Init
  <2>3. body \in [Rows -> Texts \cup {Blank, NoText}]
    BY RowsAssumption DEF Init
  <2>4. sha \in [Rows -> Texts \cup {NoText}] /\ vector \in [Rows -> Texts \cup {NoText}]
    BY <1>1 DEF Init
  <2>5. NoDraft \in [status : Statuses, body : Texts \cup {Blank, NoText}, site : BOOLEAN]
    BY DEF NoDraft, Statuses
  <2>6. draft \in [Rows -> [status : Statuses, body : Texts \cup {Blank, NoText}, site : BOOLEAN]]
    BY <2>5 DEF Init
  <2>7. eread \in [Rows -> Texts \cup {NoText}]
    BY DEF Init, NoRead
  <2>8. day \in 0..LastDay /\ faults \in 0..MaxFaults /\ batches \in Nat
    BY Limits DEF Init
  <2>9. /\ purged \in [Rows -> BOOLEAN] /\ fails \in [Presses -> Nat] /\ tripped \subseteq Presses
        /\ work \in [Rows -> {"idle", "fetching", "updated", "copying", "failing", "done"}]
    BY DEF Init
  <2>10. /\ xrun \in {"no", "fresh", "sending", "over"} /\ queue \subseteq Rows
         /\ rrun \in {"no", "purging", "counting"} /\ cutoff \subseteq Rows
         /\ rhold \subseteq Rows /\ ehold \subseteq Rows
    BY DEF Init
  <2> QED BY <2>1, <2>2, <2>3, <2>4, <2>6, <2>7, <2>8, <2>9, <2>10 DEF TypeOK
<1>3. JobInv
  BY DEF JobInv, Init
<1>4. \A r \in Rows : RowAt(r)
  <2> SUFFICES ASSUME NEW r \in Rows PROVE RowAt(r)
    OBVIOUS
  <2>1. rhold = {}
    BY DEF Init
  <2>2. CASE r \in Pending
    BY <1>1, <2>1, <2>2, Limits DEF RowAt, Awaiting, HasBody
  <2>3. CASE r \notin Pending
    BY <1>1, <2>1, <2>3, Limits DEF RowAt, Awaiting, HasBody, Retryable
  <2> QED BY <2>2, <2>3
<1>5. \A r \in Rows : WorkAt(r)
  BY <1>1 DEF WorkAt, Open, Init
<1>6. \A r \in Rows : CopyHasOriginal(r)
  BY <1>1 DEF CopyHasOriginal
<1>7. \A r, s \in Rows : OriginalsDiffer(r, s)
  <2> SUFFICES ASSUME NEW r \in Rows, NEW s \in Rows, r # s, status[r] = "ok", status[s] = "ok", sha[r] = sha[s]
               PROVE  FALSE
    BY DEF OriginalsDiffer
  <2>1. r \in Rows \ Pending /\ s \in Rows \ Pending
    BY <1>1
  <2> QED BY <1>1, <2>1, RowsAssumption
<1> QED BY <1>2, <1>3, <1>4, <1>5, <1>6, <1>7 DEF IInv

-------------------------------------------------------------------------------
(* ArticleRows: the steps, one lemma per action, one step per part of the invariant *)

Reports == [status : Statuses, body : Texts \cup {Blank, NoText}, site : BOOLEAN]

\* What a worker writes of a row it was given: the row is closed or tried once
\* more, an original is its text's first, a copy has one.
LEMMA WriteStep ==
  ASSUME IInv, NEW q \in Rows, work[q] \in {"updated", "failing"}, Write(q, draft[q]),
         WorkerStep(q, "done", draft[q]), UNCHANGED faults
  PROVE  IInv'
<1> USE Limits
<1>1. /\ TypeOK /\ JobInv
      /\ \A r \in Rows : RowAt(r) /\ WorkAt(r) /\ CopyHasOriginal(r)
      /\ \A r, s \in Rows : OriginalsDiffer(r, s)
  BY DEF IInv
<1>2. UNCHANGED <<vector, day, xrun, queue, fails, tripped, rrun, cutoff, batches, rhold, eread, ehold, purged, faults>>
  BY DEF Write, WorkerStep, retentionVars, embedVars
<1>3. PICK d \in Reports : d = draft[q]
  BY <1>1 DEF TypeOK, Reports
<1>4. /\ d.status \in {"fetch_failed", "dropped", "ok", "duplicate", "error"}
      /\ d.status = "duplicate" => d.body \in Texts /\ \E s \in Rows : Original(s, d.body)
      /\ d.status = "ok" => d.body \in Texts /\ \A s \in Rows \ {q} : ~ Original(s, d.body) /\ ~ Claims(s, d.body)
  BY <1>1, <1>3 DEF WorkAt
<1>5. Awaiting(q) /\ status[q] # "ok" /\ status[q] # "duplicate" /\ attempts[q] < MaxAttempts
  <2>1. Awaiting(q) /\ (status[q] = "null" => attempts[q] = 0)
    BY <1>1 DEF WorkAt, RowAt, Open
  <2> QED BY <2>1 DEF Awaiting, Retryable
<1>6. /\ status'[q] = d.status /\ body'[q] = (IF d.status = "ok" THEN d.body ELSE Blank)
      /\ sha'[q] = (IF d.status \in {"ok", "duplicate"} THEN d.body ELSE NoText)
      /\ attempts'[q] = attempts[q] + 1 /\ work'[q] = "done"
  BY <1>1, <1>3 DEF TypeOK, Write, WorkerStep
<1>7. \A s \in Rows \ {q} : /\ status'[s] = status[s] /\ body'[s] = body[s] /\ sha'[s] = sha[s]
                            /\ attempts'[s] = attempts[s] /\ work'[s] = work[s] /\ draft'[s] = draft[s]
  BY <1>1 DEF TypeOK, Write, WorkerStep
<1>8. \A s \in Rows : \A t : Original(s, t) => Original(s, t)'
  BY <1>5, <1>7 DEF Original
<1>9. \A s \in Rows : \A t : Original(s, t)' => Original(s, t) \/ (s = q /\ d.status = "ok" /\ d.body = t)
  BY <1>6, <1>7 DEF Original
<1>10. TypeOK'
  <2>1. /\ d.status \in Statuses /\ d.body \in Texts \cup {Blank, NoText}
        /\ d.status \in {"ok", "duplicate"} => d.body \in Texts
    BY <1>3, <1>4 DEF Reports
  <2>2. status' \in [Rows -> Statuses]
    BY <1>1, <1>3, <2>1 DEF TypeOK, Write
  <2>3. attempts' \in [Rows -> 0..MaxAttempts]
    BY <1>1, <1>5 DEF TypeOK, Write
  <2>4. body' \in [Rows -> Texts \cup {Blank, NoText}]
    BY <1>1, <1>3, <2>1 DEF TypeOK, Write
  <2>5. sha' \in [Rows -> Texts \cup {NoText}]
    BY <1>1, <1>3, <2>1 DEF TypeOK, Write
  <2>6. work' \in [Rows -> {"idle", "fetching", "updated", "copying", "failing", "done"}]
    BY <1>1 DEF TypeOK, WorkerStep
  <2>7. draft' \in [Rows -> [status : Statuses, body : Texts \cup {Blank, NoText}, site : BOOLEAN]]
    BY <1>1, <1>3 DEF TypeOK, WorkerStep, Reports
  <2> QED BY <1>1, <1>2, <2>2, <2>3, <2>4, <2>5, <2>6, <2>7 DEF TypeOK
<1>11. JobInv'
  <2>1. xrun # "no"
    BY <1>1 DEF JobInv
  <2> QED BY <1>1, <1>2, <2>1 DEF JobInv, Older
<1>12. \A r \in Rows : RowAt(r)'
  <2>1. ASSUME NEW r \in Rows, r # q PROVE RowAt(r)'
    <3>1. r \in rhold => r \in cutoff
      BY <1>1 DEF RowAt
    <3> QED BY <1>1, <1>2, <1>7, <2>1, <3>1, RowKept
  <2>2. RowAt(q)'
    <3>1. /\ body[q] = Blank /\ q \notin rhold /\ ~ purged[q] /\ vector[q] = NoText /\ eread[q] = NoText
      BY <1>1, <1>5 DEF RowAt
    <3>2. status'[q] # "null" /\ (Awaiting(q)' => body'[q] = Blank)
      BY <1>4, <1>6 DEF Awaiting, Retryable
    <3>3. (HasBody(q)' => status'[q] = "ok" /\ sha'[q] = body'[q]) /\ body'[q] # NoText
      BY <1>4, <1>6 DEF HasBody
    <3> QED BY <1>2, <3>1, <3>2, <3>3 DEF RowAt
  <2> QED BY <2>1, <2>2
<1>13. \A r \in Rows : WorkAt(r)'
  <2>1. ASSUME NEW r \in Rows, r # q PROVE WorkAt(r)'
    <3>1. Awaiting(r)' <=> Awaiting(r)
      BY <1>7, <2>1 DEF Awaiting
    <3>2. \A s \in Rows : Original(s, draft[r].body) => Original(s, draft[r].body)'
      <4>1. PICK t : t = draft[r].body /\ t = draft'[r].body
        BY <1>7, <2>1
      <4> QED BY <1>8, <4>1
    <3>3. ASSUME work[r] = "updated", draft[r].status = "ok", NEW s \in Rows \ {r}
          PROVE  ~ Original(s, draft[r].body)' /\ ~ Claims(s, draft[r].body)'
      <4>1. PICK t \in Texts : t = draft[r].body /\ t = draft'[r].body
        BY <1>1, <1>7, <2>1, <3>3 DEF WorkAt
      <4>2. ~ Original(s, t) /\ ~ Claims(s, t) /\ Claims(r, t)
        BY <1>1, <3>3, <4>1 DEF WorkAt, Claims
      <4>3. ~ (d.status = "ok" /\ d.body = t)
        BY <1>4, <2>1, <4>2
      <4>4. ~ Original(s, t)'
        BY <1>9, <4>2, <4>3
      <4>5. ~ Claims(s, t)'
        BY <1>6, <1>7, <4>2 DEF Claims
      <4> QED BY <4>1, <4>4, <4>5 DEF Original, Claims
    <3>4. draft'[r] = draft[r] /\ work'[r] = work[r] /\ queue' = queue
      BY <1>2, <1>7, <2>1
    <3> QED BY <1>1, <3>1, <3>2, <3>3, <3>4 DEF WorkAt, Original, Open
  <2>2. WorkAt(q)'
    BY <1>1, <1>2, <1>6 DEF WorkAt, Open
  <2> QED BY <2>1, <2>2
<1>14. \A r \in Rows : CopyHasOriginal(r)'
  <2> SUFFICES ASSUME NEW r \in Rows, status'[r] = "duplicate"
               PROVE  \E s \in Rows : status'[s] = "ok" /\ sha'[s] = sha'[r]
    BY DEF CopyHasOriginal
  <2>1. PICK t : t = sha'[r]
    OBVIOUS
  <2>2. \E s \in Rows : Original(s, t)
    <3>1. CASE r = q
      BY <1>4, <1>6, <2>1, <3>1
    <3>2. CASE r # q
      BY <1>1, <1>7, <2>1, <3>2 DEF CopyHasOriginal, Original
    <3> QED BY <3>1, <3>2
  <2> QED BY <1>8, <2>1, <2>2 DEF Original
<1>15. \A r, s \in Rows : OriginalsDiffer(r, s)'
  <2> SUFFICES ASSUME NEW r \in Rows, NEW s \in Rows, r # s, status'[r] = "ok", status'[s] = "ok", sha'[r] # NoText,
                      sha'[r] = sha'[s]
               PROVE  FALSE
    BY DEF OriginalsDiffer
  <2>1. CASE r # q /\ s # q
    BY <1>1, <1>7, <2>1 DEF OriginalsDiffer
  <2>2. CASE r = q
    BY <1>4, <1>6, <1>7, <2>2 DEF Original
  <2>3. CASE s = q
    BY <1>4, <1>6, <1>7, <2>3 DEF Original
  <2> QED BY <2>1, <2>2, <2>3
<1> QED BY <1>10, <1>11, <1>12, <1>13, <1>14, <1>15 DEF IInv


\* The rows are as they were if no row is written and no row newly locked.
LEMMA RowsKept ==
  ASSUME IInv, UNCHANGED <<status, attempts, body, sha, purged, vector>>,
         \A r \in Rows : eread'[r] = eread[r] \/ eread'[r] = NoText,
         \A r \in Rows : r \in rhold' => r \in rhold /\ r \in cutoff'
  PROVE  \A r \in Rows : RowAt(r)'
BY RowKept DEF IInv

\* No worker has gone on.
LEMMA WorkersKept ==
  ASSUME IInv, UNCHANGED <<status, attempts, sha, work, draft, queue>>
  PROVE  \A r \in Rows : WorkAt(r)'
<1> SUFFICES ASSUME NEW r \in Rows PROVE WorkAt(r)'
  OBVIOUS
<1>1. WorkAt(r)
  BY DEF IInv
<1>2. \A t \in Texts, s \in Rows : Claims(s, t)' => Claims(s, t)
  BY DEF Claims
<1> QED BY <1>1, <1>2, WorkKept

\* One worker has gone on, and has not claimed what another one claims.
LEMMA OneWorker ==
  ASSUME IInv, NEW q \in Rows, NEW next \in {"idle", "fetching", "updated", "copying", "failing", "done"}, NEW d \in Reports,
         work[q] # "idle", UNCHANGED <<status, attempts, sha, queue>>,
         work' = [work EXCEPT ![q] = next], draft' = [draft EXCEPT ![q] = d],
         next = "updated" /\ d.status = "ok" => \A s \in Rows : ~ Claims(s, d.body)
  PROVE  /\ work' \in [Rows -> {"idle", "fetching", "updated", "copying", "failing", "done"}]
         /\ draft' \in [Rows -> [status : Statuses, body : Texts \cup {Blank, NoText}, site : BOOLEAN]]
         /\ \A r \in Rows \ {q} : WorkAt(r)'
         /\ work'[q] = next /\ draft'[q] = d /\ q \notin queue' /\ xrun # "no"
<1>1. /\ TypeOK /\ JobInv
      /\ \A r \in Rows : WorkAt(r)
  BY DEF IInv
<1>2. /\ work' \in [Rows -> {"idle", "fetching", "updated", "copying", "failing", "done"}]
      /\ draft' \in [Rows -> [status : Statuses, body : Texts \cup {Blank, NoText}, site : BOOLEAN]]
  BY <1>1 DEF TypeOK, Reports
<1>3. work'[q] = next /\ draft'[q] = d
  BY <1>1 DEF TypeOK
<1>4. \A r \in Rows \ {q} : work'[r] = work[r] /\ draft'[r] = draft[r]
  BY <1>1 DEF TypeOK
<1>5. ASSUME NEW r \in Rows \ {q} PROVE WorkAt(r)'
  <2>1. ASSUME NEW t \in Texts, NEW s \in Rows, Claims(s, t)', ~ Claims(s, t) PROVE ~ Claims(r, t)
    <3>1. s = q
      BY <1>4, <2>1 DEF Claims
    <3>2. next = "updated" /\ d.status = "ok" /\ d.body = t
      BY <1>3, <2>1, <3>1 DEF Claims
    <3> QED BY <3>2
  <2> QED BY <1>1, <1>4, <2>1, WorkKept
<1>6. q \notin queue' /\ xrun # "no"
  BY <1>1 DEF WorkAt, JobInv
<1> QED BY <1>2, <1>3, <1>5, <1>6

LEMMA NoDraftIsReport == NoDraft \in Reports /\ NoDraft.status = "null"
BY DEF NoDraft, Reports, Statuses

LEMMA NextDayStep ==
  ASSUME IInv, NextDay
  PROVE  IInv'
<1> USE Limits
<1>1. /\ TypeOK /\ JobInv
      /\ \A r \in Rows : RowAt(r) /\ WorkAt(r)
  BY DEF IInv
<1>2. UNCHANGED <<status, attempts, body, sha, purged, vector, xrun, queue, work, draft, fails, tripped, rrun, cutoff, batches, rhold, eread, ehold, faults>>
  BY DEF NextDay, rowVars, extractVars, retentionVars, embedVars
<1>10. TypeOK'
  BY <1>1, <1>2 DEF NextDay, TypeOK
<1>11. JobInv'
  <2>1. Crawled \in [Rows -> Nat]
    BY RowsAssumption
  <2>2. \A r \in cutoff' : Older(r, Term)'
    BY <1>1, <1>2, <2>1 DEF NextDay, JobInv, Older, TypeOK
  <2> QED BY <1>1, <1>2, <2>2 DEF JobInv
<1>12. \A r \in Rows : RowAt(r)'
  <2>1. \A r \in Rows : r \in rhold' => r \in rhold /\ r \in cutoff'
    BY <1>1, <1>2 DEF RowAt
  <2> QED BY <1>2, <2>1, RowsKept
<1>13. \A r \in Rows : WorkAt(r)'
  BY <1>2, WorkersKept
<1>14. (\A r \in Rows : CopyHasOriginal(r)') /\ (\A r, s \in Rows : OriginalsDiffer(r, s)')
  BY <1>2, OriginalsKept
<1> QED BY <1>10, <1>11, <1>12, <1>13, <1>14 DEF IInv

LEMMA ExtractStartStep ==
  ASSUME IInv, ExtractStart
  PROVE  IInv'
<1> USE Limits
<1>1. /\ TypeOK /\ JobInv
      /\ \A r \in Rows : RowAt(r) /\ WorkAt(r)
  BY DEF IInv
<1>2. UNCHANGED <<status, attempts, body, sha, purged, vector, day, work, draft, rrun, cutoff, batches, rhold, eread, ehold, faults>>
  BY DEF ExtractStart, rowVars, retentionVars, embedVars
<1>10. TypeOK'
  <2>1. queue' \subseteq Rows /\ xrun' = "fresh"
    BY DEF ExtractStart, Targets
  <2>2. fails' \in [Presses -> Nat] /\ tripped' \subseteq Presses
    BY DEF ExtractStart
  <2> QED BY <1>1, <1>2, <2>1, <2>2 DEF TypeOK
<1>11. JobInv'
  BY <1>1, <1>2 DEF ExtractStart, JobInv, Older, TypeOK
<1>12. \A r \in Rows : RowAt(r)'
  <2>1. \A r \in Rows : r \in rhold' => r \in rhold /\ r \in cutoff'
    BY <1>1, <1>2 DEF RowAt
  <2> QED BY <1>2, <2>1, RowsKept
<1>13. \A r \in Rows : WorkAt(r)'
  <2> SUFFICES ASSUME NEW r \in Rows PROVE WorkAt(r)'
    OBVIOUS
  <2>1. work[r] = "idle" /\ (r \in queue' => Awaiting(r))
    BY <1>1 DEF ExtractStart, Targets, JobInv
  <2> QED BY <1>2, <2>1 DEF WorkAt, Awaiting, Open
<1>14. (\A r \in Rows : CopyHasOriginal(r)') /\ (\A r, s \in Rows : OriginalsDiffer(r, s)')
  BY <1>2, OriginalsKept
<1> QED BY <1>10, <1>11, <1>12, <1>13, <1>14 DEF IInv

LEMMA DispatchStep ==
  ASSUME IInv, Dispatch
  PROVE  IInv'
<1> USE Limits
<1>1. /\ TypeOK /\ JobInv
      /\ \A r \in Rows : RowAt(r) /\ WorkAt(r)
  BY DEF IInv
<1>2. UNCHANGED <<status, attempts, body, sha, purged, vector, day, draft, fails, tripped, rrun, cutoff, batches, rhold, eread, ehold, faults>>
  BY DEF Dispatch, rowVars, retentionVars, embedVars
<1>3. PICK q \in Rows :
        /\ q \in queue /\ queue' = queue \ {q}
        /\ work' = work \/ work' = [work EXCEPT ![q] = "fetching"]
        /\ xrun' \in {"sending", xrun} /\ xrun # "no"
  <2>1. Min(queue) \in queue /\ Min(queue) \in Rows
    BY <1>1, MinIsMember DEF Dispatch, TypeOK
  <2> QED BY <2>1 DEF Dispatch
<1>4. Awaiting(q) /\ work[q] = "idle"
  BY <1>1, <1>3 DEF WorkAt
<1>10. TypeOK'
  BY <1>1, <1>2, <1>3 DEF TypeOK
<1>11. JobInv'
  BY <1>1, <1>2, <1>3 DEF JobInv, Older
<1>12. \A r \in Rows : RowAt(r)'
  <2>1. \A r \in Rows : r \in rhold' => r \in rhold /\ r \in cutoff'
    BY <1>1, <1>2 DEF RowAt
  <2> QED BY <1>2, <2>1, RowsKept
<1>13. \A r \in Rows : WorkAt(r)'
  <2>1. \A s \in Rows \ {q} : work'[s] = work[s]
    BY <1>1, <1>3 DEF TypeOK
  <2>2. work'[q] \in {"idle", "fetching"}
    BY <1>1, <1>3, <1>4 DEF TypeOK
  <2>3. \A t \in Texts, s \in Rows : Claims(s, t)' => Claims(s, t)
    BY <1>2, <2>1, <2>2 DEF Claims
  <2>4. ASSUME NEW s \in Rows \ {q} PROVE WorkAt(s)'
    BY <1>1, <1>2, <1>3, <2>1, <2>3, WorkKept
  <2>5. WorkAt(q)'
    <3>1. Awaiting(q)' /\ q \notin queue'
      BY <1>2, <1>3, <1>4 DEF Awaiting
    <3> QED BY <2>2, <3>1 DEF WorkAt, Open
  <2> QED BY <2>4, <2>5
<1>14. (\A r \in Rows : CopyHasOriginal(r)') /\ (\A r, s \in Rows : OriginalsDiffer(r, s)')
  BY <1>2, OriginalsKept
<1> QED BY <1>10, <1>11, <1>12, <1>13, <1>14 DEF IInv

LEMMA BudgetEndsStep ==
  ASSUME IInv, BudgetEnds
  PROVE  IInv'
<1> USE Limits
<1>1. /\ TypeOK /\ JobInv
      /\ \A r \in Rows : RowAt(r) /\ WorkAt(r)
  BY DEF IInv
<1>2. UNCHANGED <<status, attempts, body, sha, purged, vector, day, queue, work, draft, fails, tripped, rrun, cutoff, batches, rhold, eread, ehold, faults>>
  BY DEF BudgetEnds, rowVars, retentionVars, embedVars
<1>10. TypeOK'
  BY <1>1, <1>2 DEF BudgetEnds, TypeOK
<1>11. JobInv'
  BY <1>1, <1>2 DEF BudgetEnds, JobInv, Older, TypeOK
<1>12. \A r \in Rows : RowAt(r)'
  <2>1. \A r \in Rows : r \in rhold' => r \in rhold /\ r \in cutoff'
    BY <1>1, <1>2 DEF RowAt
  <2> QED BY <1>2, <2>1, RowsKept
<1>13. \A r \in Rows : WorkAt(r)'
  BY <1>2, WorkersKept
<1>14. (\A r \in Rows : CopyHasOriginal(r)') /\ (\A r, s \in Rows : OriginalsDiffer(r, s)')
  BY <1>2, OriginalsKept
<1> QED BY <1>10, <1>11, <1>12, <1>13, <1>14 DEF IInv

LEMMA CollectStep ==
  ASSUME IInv, NEW q \in Rows, Collect(q)
  PROVE  IInv'
<1> USE Limits
<1>1. /\ TypeOK /\ JobInv
      /\ \A r \in Rows : RowAt(r) /\ WorkAt(r)
  BY DEF IInv
<1>2. UNCHANGED <<status, attempts, body, sha, purged, vector, day, xrun, queue, rrun, cutoff, batches, rhold, eread, ehold, faults>>
  BY DEF Collect, Record, rowVars, retentionVars, embedVars
<1>3. PICK d \in Reports, next \in {"idle"} :
        work' = [work EXCEPT ![q] = next] /\ draft' = [draft EXCEPT ![q] = d]
        /\ d = NoDraft /\ work[q] = "done"
  BY NoDraftIsReport DEF Collect
<1>4. /\ work' \in [Rows -> {"idle", "fetching", "updated", "copying", "failing", "done"}]
      /\ draft' \in [Rows -> [status : Statuses, body : Texts \cup {Blank, NoText}, site : BOOLEAN]]
      /\ \A r \in Rows \ {q} : WorkAt(r)'
      /\ work'[q] = next /\ draft'[q] = d /\ q \notin queue' /\ xrun # "no"
  BY <1>2, <1>3, OneWorker
<1>10. TypeOK'
  <2>1. Press[q] \in Presses
    BY DEF Presses
  <2>2. fails' \in [Presses -> Nat] /\ tripped' \subseteq Presses
    BY <1>1, <2>1 DEF Collect, Record, TypeOK
  <2> QED BY <1>1, <1>2, <1>4, <2>2 DEF TypeOK
<1>11. JobInv'
  BY <1>1, <1>2, <1>4 DEF JobInv, Older
<1>12. \A r \in Rows : RowAt(r)'
  <2>1. \A r \in Rows : r \in rhold' => r \in rhold /\ r \in cutoff'
    BY <1>1, <1>2 DEF RowAt
  <2> QED BY <1>2, <2>1, RowsKept
<1>13. \A r \in Rows : WorkAt(r)'
  <2>1. WorkAt(q)'
    BY <1>4 DEF WorkAt, Open
  <2> QED BY <1>4, <2>1
<1>14. (\A r \in Rows : CopyHasOriginal(r)') /\ (\A r, s \in Rows : OriginalsDiffer(r, s)')
  BY <1>2, OriginalsKept
<1> QED BY <1>10, <1>11, <1>12, <1>13, <1>14 DEF IInv

LEMMA ExtractEndStep ==
  ASSUME IInv, ExtractEnd
  PROVE  IInv'
<1> USE Limits
<1>1. /\ TypeOK /\ JobInv
      /\ \A r \in Rows : RowAt(r) /\ WorkAt(r)
  BY DEF IInv
<1>2. UNCHANGED <<status, attempts, body, sha, purged, vector, day, rrun, cutoff, batches, rhold, eread, ehold, faults>>
  BY DEF ExtractEnd, ExtractStops, rowVars, retentionVars, embedVars
<1>10. TypeOK'
  <2>1. draft' \in [Rows -> [status : Statuses, body : Texts \cup {Blank, NoText}, site : BOOLEAN]]
    BY NoDraftIsReport DEF ExtractEnd, ExtractStops, Reports
  <2>2. /\ fails' \in [Presses -> Nat] /\ tripped' \subseteq Presses /\ queue' \subseteq Rows /\ xrun' = "no"
        /\ work' \in [Rows -> {"idle", "fetching", "updated", "copying", "failing", "done"}]
    BY DEF ExtractEnd, ExtractStops
  <2>3. faults' \in 0..MaxFaults
    BY <1>1, <1>2 DEF ExtractEnd, TypeOK
  <2> QED BY <1>1, <1>2, <2>1, <2>2, <2>3 DEF TypeOK
<1>11. JobInv'
  BY <1>1, <1>2 DEF ExtractEnd, ExtractStops, JobInv, Older, TypeOK
<1>12. \A r \in Rows : RowAt(r)'
  <2>1. \A r \in Rows : r \in rhold' => r \in rhold /\ r \in cutoff'
    BY <1>1, <1>2 DEF RowAt
  <2> QED BY <1>2, <2>1, RowsKept
<1>13. \A r \in Rows : WorkAt(r)'
  <2> SUFFICES ASSUME NEW r \in Rows PROVE WorkAt(r)'
    OBVIOUS
  <2>1. work'[r] = "idle" /\ r \notin queue'
    BY DEF ExtractEnd, ExtractStops
  <2> QED BY <2>1 DEF WorkAt, Open
<1>14. (\A r \in Rows : CopyHasOriginal(r)') /\ (\A r, s \in Rows : OriginalsDiffer(r, s)')
  BY <1>2, OriginalsKept
<1> QED BY <1>10, <1>11, <1>12, <1>13, <1>14 DEF IInv

LEMMA ExtractCrashStep ==
  ASSUME IInv, ExtractCrash
  PROVE  IInv'
<1> USE Limits
<1>1. /\ TypeOK /\ JobInv
      /\ \A r \in Rows : RowAt(r) /\ WorkAt(r)
  BY DEF IInv
<1>2. UNCHANGED <<status, attempts, body, sha, purged, vector, day, rrun, cutoff, batches, rhold, eread, ehold>>
  BY DEF ExtractCrash, ExtractStops, Fault, rowVars, retentionVars, embedVars
<1>10. TypeOK'
  <2>1. draft' \in [Rows -> [status : Statuses, body : Texts \cup {Blank, NoText}, site : BOOLEAN]]
    BY NoDraftIsReport DEF ExtractCrash, ExtractStops, Reports
  <2>2. /\ fails' \in [Presses -> Nat] /\ tripped' \subseteq Presses /\ queue' \subseteq Rows /\ xrun' = "no"
        /\ work' \in [Rows -> {"idle", "fetching", "updated", "copying", "failing", "done"}]
    BY DEF ExtractCrash, ExtractStops
  <2>3. faults' \in 0..MaxFaults
    BY <1>1, <1>2 DEF ExtractCrash, Fault, TypeOK
  <2> QED BY <1>1, <1>2, <2>1, <2>2, <2>3 DEF TypeOK
<1>11. JobInv'
  BY <1>1, <1>2 DEF ExtractCrash, ExtractStops, Fault, JobInv, Older, TypeOK
<1>12. \A r \in Rows : RowAt(r)'
  <2>1. \A r \in Rows : r \in rhold' => r \in rhold /\ r \in cutoff'
    BY <1>1, <1>2 DEF RowAt
  <2> QED BY <1>2, <2>1, RowsKept
<1>13. \A r \in Rows : WorkAt(r)'
  <2> SUFFICES ASSUME NEW r \in Rows PROVE WorkAt(r)'
    OBVIOUS
  <2>1. work'[r] = "idle" /\ r \notin queue'
    BY DEF ExtractCrash, ExtractStops
  <2> QED BY <2>1 DEF WorkAt, Open
<1>14. (\A r \in Rows : CopyHasOriginal(r)') /\ (\A r, s \in Rows : OriginalsDiffer(r, s)')
  BY <1>2, OriginalsKept
<1> QED BY <1>10, <1>11, <1>12, <1>13, <1>14 DEF IInv

LEMMA UpdateEmptyStep ==
  ASSUME IInv, NEW q \in Rows, UpdateEmpty(q)
  PROVE  IInv'
<1> USE Limits
<1>1. /\ TypeOK /\ JobInv
      /\ \A r \in Rows : RowAt(r) /\ WorkAt(r)
  BY DEF IInv
<1>2. UNCHANGED <<status, attempts, body, sha, purged, vector, day, xrun, queue, fails, tripped, rrun, cutoff, batches, rhold, eread, ehold, faults>>
  BY DEF UpdateEmpty, WorkerStep, rowVars, retentionVars, embedVars
<1>3. PICK d \in Reports, next \in {"updated"} :
        work' = [work EXCEPT ![q] = next] /\ draft' = [draft EXCEPT ![q] = d]
        /\ d.status \in {"fetch_failed", "dropped"} /\ work[q] = "fetching"
  <2>1. PICK s \in {"fetch_failed", "dropped"}, site \in BOOLEAN :
          WorkerStep(q, "updated", [status |-> s, body |-> Blank, site |-> site])
    BY DEF UpdateEmpty
  <2>2. [status |-> s, body |-> Blank, site |-> site] \in Reports
    BY DEF Reports, Statuses
  <2> QED BY <2>1, <2>2 DEF UpdateEmpty, WorkerStep
<1>4. /\ work' \in [Rows -> {"idle", "fetching", "updated", "copying", "failing", "done"}]
      /\ draft' \in [Rows -> [status : Statuses, body : Texts \cup {Blank, NoText}, site : BOOLEAN]]
      /\ \A r \in Rows \ {q} : WorkAt(r)'
      /\ work'[q] = next /\ draft'[q] = d /\ q \notin queue' /\ xrun # "no"
  BY <1>2, <1>3, OneWorker
<1>10. TypeOK'
  BY <1>1, <1>2, <1>4 DEF UpdateEmpty, WorkerStep, TypeOK
<1>11. JobInv'
  BY <1>1, <1>2, <1>4 DEF JobInv, Older
<1>12. \A r \in Rows : RowAt(r)'
  <2>1. \A r \in Rows : r \in rhold' => r \in rhold /\ r \in cutoff'
    BY <1>1, <1>2 DEF RowAt
  <2> QED BY <1>2, <2>1, RowsKept
<1>13. \A r \in Rows : WorkAt(r)'
  <2>1. WorkAt(q)'
    BY <1>1, <1>2, <1>3, <1>4 DEF WorkAt, Awaiting, Open
  <2> QED BY <1>4, <2>1
<1>14. (\A r \in Rows : CopyHasOriginal(r)') /\ (\A r, s \in Rows : OriginalsDiffer(r, s)')
  BY <1>2, OriginalsKept
<1> QED BY <1>10, <1>11, <1>12, <1>13, <1>14 DEF IInv

LEMMA UpdateOkStep ==
  ASSUME IInv, NEW q \in Rows, NEW t \in Texts, UpdateOk(q, t)
  PROVE  IInv'
<1> USE Limits
<1>1. /\ TypeOK /\ JobInv
      /\ \A r \in Rows : RowAt(r) /\ WorkAt(r)
  BY DEF IInv
<1>2. UNCHANGED <<status, attempts, body, sha, purged, vector, day, xrun, queue, fails, tripped, rrun, cutoff, batches, rhold, eread, ehold, faults>>
  BY DEF UpdateOk, WorkerStep, rowVars, retentionVars, embedVars
<1>3. PICK d \in Reports, next \in {"updated", "copying"} :
        work' = [work EXCEPT ![q] = next] /\ draft' = [draft EXCEPT ![q] = d]
        /\ work[q] = "fetching" /\ d.body = t
        /\ (next = "updated" => d.status = "ok" /\ \A s \in Rows \ {q} : ~ Original(s, t))
        /\ (next = "copying" => d.status = "duplicate" /\ \E s \in Rows : Original(s, t))
        /\ \A s \in Rows : ~ Claims(s, t)
  <2>1. /\ [status |-> "duplicate", body |-> t, site |-> FALSE] \in Reports
        /\ [status |-> "ok", body |-> t, site |-> FALSE] \in Reports
    BY DEF Reports, Statuses
  <2>2. \A s \in Rows : ~ Claims(s, t)
    BY DEF UpdateOk, Claims, WorkerHolds
  <2>3. CASE \E s \in Rows \ {q} : status[s] = "ok" /\ sha[s] = t
    BY <2>1, <2>2, <2>3 DEF UpdateOk, WorkerStep, Original
  <2>4. CASE ~ \E s \in Rows \ {q} : status[s] = "ok" /\ sha[s] = t
    BY <2>1, <2>2, <2>4 DEF UpdateOk, WorkerStep, Original
  <2> QED BY <2>3, <2>4
<1>4. /\ work' \in [Rows -> {"idle", "fetching", "updated", "copying", "failing", "done"}]
      /\ draft' \in [Rows -> [status : Statuses, body : Texts \cup {Blank, NoText}, site : BOOLEAN]]
      /\ \A r \in Rows \ {q} : WorkAt(r)'
      /\ work'[q] = next /\ draft'[q] = d /\ q \notin queue' /\ xrun # "no"
  BY <1>2, <1>3, OneWorker
<1>10. TypeOK'
  BY <1>1, <1>2, <1>4 DEF UpdateOk, WorkerStep, TypeOK
<1>11. JobInv'
  BY <1>1, <1>2, <1>4 DEF JobInv, Older
<1>12. \A r \in Rows : RowAt(r)'
  <2>1. \A r \in Rows : r \in rhold' => r \in rhold /\ r \in cutoff'
    BY <1>1, <1>2 DEF RowAt
  <2> QED BY <1>2, <2>1, RowsKept
<1>13. \A r \in Rows : WorkAt(r)'
  <2>1. WorkAt(q)'
    <3>1. Awaiting(q)'
      BY <1>1, <1>2, <1>3 DEF WorkAt, Awaiting, Open
    <3>2. \A s \in Rows : Original(s, t)' <=> Original(s, t)
      BY <1>2 DEF Original
    <3>3. \A s \in Rows \ {q} : ~ Claims(s, t)'
      <4>1. \A s \in Rows \ {q} : work'[s] = work[s] /\ draft'[s] = draft[s]
        BY <1>1, <1>3 DEF TypeOK
      <4> QED BY <1>3, <4>1 DEF Claims
    <3>4. draft'[q].body = t /\ draft'[q].status = d.status
      BY <1>3, <1>4
    <3>5. draft'[q].status = "duplicate" => \E s \in Rows : Original(s, draft[q].body)'
      BY <1>3, <3>2, <3>4 DEF Original
    <3>6. draft'[q].status = "ok" => \A s \in Rows \ {q} : ~ Original(s, draft[q].body)' /\ ~ Claims(s, draft[q].body)'
      BY <1>3, <3>2, <3>3, <3>4 DEF Original, Claims
    <3> QED BY <1>3, <1>4, <3>1, <3>4, <3>5, <3>6 DEF WorkAt, Open
  <2> QED BY <1>4, <2>1
<1>14. (\A r \in Rows : CopyHasOriginal(r)') /\ (\A r, s \in Rows : OriginalsDiffer(r, s)')
  BY <1>2, OriginalsKept
<1> QED BY <1>10, <1>11, <1>12, <1>13, <1>14 DEF IInv

LEMMA UpdateDuplicateStep ==
  ASSUME IInv, NEW q \in Rows, UpdateDuplicate(q)
  PROVE  IInv'
<1> USE Limits
<1>1. /\ TypeOK /\ JobInv
      /\ \A r \in Rows : RowAt(r) /\ WorkAt(r)
  BY DEF IInv
<1>2. UNCHANGED <<status, attempts, body, sha, purged, vector, day, xrun, queue, fails, tripped, rrun, cutoff, batches, rhold, eread, ehold, faults>>
  BY DEF UpdateDuplicate, WorkerStep, rowVars, retentionVars, embedVars
<1>3. PICK d \in Reports, next \in {"updated"} :
        work' = [work EXCEPT ![q] = next] /\ draft' = [draft EXCEPT ![q] = d]
        /\ work[q] = "copying" /\ d = draft[q] /\ d.status = "duplicate"
  <2>1. work[q] = "copying" /\ WorkerStep(q, "updated", draft[q])
    BY DEF UpdateDuplicate
  <2>2. draft[q] \in Reports /\ draft[q].status = "duplicate"
    BY <1>1, <2>1 DEF TypeOK, WorkAt, Reports
  <2> QED BY <2>1, <2>2 DEF WorkerStep
<1>4. /\ work' \in [Rows -> {"idle", "fetching", "updated", "copying", "failing", "done"}]
      /\ draft' \in [Rows -> [status : Statuses, body : Texts \cup {Blank, NoText}, site : BOOLEAN]]
      /\ \A r \in Rows \ {q} : WorkAt(r)'
      /\ work'[q] = next /\ draft'[q] = d /\ q \notin queue' /\ xrun # "no"
  BY <1>2, <1>3, OneWorker
<1>10. TypeOK'
  BY <1>1, <1>2, <1>4 DEF UpdateDuplicate, WorkerStep, TypeOK
<1>11. JobInv'
  BY <1>1, <1>2, <1>4 DEF JobInv, Older
<1>12. \A r \in Rows : RowAt(r)'
  <2>1. \A r \in Rows : r \in rhold' => r \in rhold /\ r \in cutoff'
    BY <1>1, <1>2 DEF RowAt
  <2> QED BY <1>2, <2>1, RowsKept
<1>13. \A r \in Rows : WorkAt(r)'
  <2>1. WorkAt(q)'
    <3>1. Awaiting(q)'
      BY <1>1, <1>2, <1>3 DEF WorkAt, Awaiting, Open
    <3>2. d.body \in Texts /\ \E s \in Rows : Original(s, d.body)
      BY <1>1, <1>3 DEF WorkAt
    <3>3. \E s \in Rows : Original(s, draft[q].body)'
      BY <1>2, <1>4, <3>2 DEF Original
    <3> QED BY <1>3, <1>4, <3>1, <3>2, <3>3 DEF WorkAt, Open
  <2> QED BY <1>4, <2>1
<1>14. (\A r \in Rows : CopyHasOriginal(r)') /\ (\A r, s \in Rows : OriginalsDiffer(r, s)')
  BY <1>2, OriginalsKept
<1> QED BY <1>10, <1>11, <1>12, <1>13, <1>14 DEF IInv

LEMMA RaiseStep ==
  ASSUME IInv, NEW q \in Rows, Raise(q)
  PROVE  IInv'
<1> USE Limits
<1>1. /\ TypeOK /\ JobInv
      /\ \A r \in Rows : RowAt(r) /\ WorkAt(r)
  BY DEF IInv
<1>2. UNCHANGED <<status, attempts, body, sha, purged, vector, day, xrun, queue, fails, tripped, rrun, cutoff, batches, rhold, eread, ehold>>
  BY DEF Raise, WorkerStep, Fault, rowVars, retentionVars, embedVars
<1>3. PICK d \in Reports, next \in {"failing"} :
        work' = [work EXCEPT ![q] = next] /\ draft' = [draft EXCEPT ![q] = d]
        /\ d.status = "error" /\ work[q] \in {"fetching", "copying", "updated"}
  <2>1. [status |-> "error", body |-> Blank, site |-> FALSE] \in Reports
    BY DEF Reports, Statuses
  <2> QED BY <2>1 DEF Raise, WorkerStep
<1>4. /\ work' \in [Rows -> {"idle", "fetching", "updated", "copying", "failing", "done"}]
      /\ draft' \in [Rows -> [status : Statuses, body : Texts \cup {Blank, NoText}, site : BOOLEAN]]
      /\ \A r \in Rows \ {q} : WorkAt(r)'
      /\ work'[q] = next /\ draft'[q] = d /\ q \notin queue' /\ xrun # "no"
  BY <1>2, <1>3, OneWorker
<1>10. TypeOK'
  BY <1>1, <1>2, <1>4 DEF Raise, WorkerStep, Fault, TypeOK
<1>11. JobInv'
  BY <1>1, <1>2, <1>4 DEF JobInv, Older
<1>12. \A r \in Rows : RowAt(r)'
  <2>1. \A r \in Rows : r \in rhold' => r \in rhold /\ r \in cutoff'
    BY <1>1, <1>2 DEF RowAt
  <2> QED BY <1>2, <2>1, RowsKept
<1>13. \A r \in Rows : WorkAt(r)'
  <2>1. WorkAt(q)'
    BY <1>1, <1>2, <1>3, <1>4 DEF WorkAt, Awaiting, Open
  <2> QED BY <1>4, <2>1
<1>14. (\A r \in Rows : CopyHasOriginal(r)') /\ (\A r, s \in Rows : OriginalsDiffer(r, s)')
  BY <1>2, OriginalsKept
<1> QED BY <1>10, <1>11, <1>12, <1>13, <1>14 DEF IInv

LEMMA RecordErrorFailsStep ==
  ASSUME IInv, NEW q \in Rows, RecordErrorFails(q)
  PROVE  IInv'
<1> USE Limits
<1>1. /\ TypeOK /\ JobInv
      /\ \A r \in Rows : RowAt(r) /\ WorkAt(r)
  BY DEF IInv
<1>2. UNCHANGED <<status, attempts, body, sha, purged, vector, day, xrun, queue, fails, tripped, rrun, cutoff, batches, rhold, eread, ehold, faults>>
  BY DEF RecordErrorFails, WorkerStep, rowVars, retentionVars, embedVars
<1>3. PICK d \in Reports, next \in {"done"} :
        work' = [work EXCEPT ![q] = next] /\ draft' = [draft EXCEPT ![q] = d]
        /\ d = draft[q] /\ work[q] = "failing"
  <2>1. draft[q] \in Reports
    BY <1>1 DEF TypeOK, Reports
  <2> QED BY <2>1 DEF RecordErrorFails, WorkerStep
<1>4. /\ work' \in [Rows -> {"idle", "fetching", "updated", "copying", "failing", "done"}]
      /\ draft' \in [Rows -> [status : Statuses, body : Texts \cup {Blank, NoText}, site : BOOLEAN]]
      /\ \A r \in Rows \ {q} : WorkAt(r)'
      /\ work'[q] = next /\ draft'[q] = d /\ q \notin queue' /\ xrun # "no"
  BY <1>2, <1>3, OneWorker
<1>10. TypeOK'
  BY <1>1, <1>2, <1>4 DEF RecordErrorFails, WorkerStep, TypeOK
<1>11. JobInv'
  BY <1>1, <1>2, <1>4 DEF JobInv, Older
<1>12. \A r \in Rows : RowAt(r)'
  <2>1. \A r \in Rows : r \in rhold' => r \in rhold /\ r \in cutoff'
    BY <1>1, <1>2 DEF RowAt
  <2> QED BY <1>2, <2>1, RowsKept
<1>13. \A r \in Rows : WorkAt(r)'
  <2>1. WorkAt(q)'
    BY <1>4 DEF WorkAt, Open
  <2> QED BY <1>4, <2>1
<1>14. (\A r \in Rows : CopyHasOriginal(r)') /\ (\A r, s \in Rows : OriginalsDiffer(r, s)')
  BY <1>2, OriginalsKept
<1> QED BY <1>10, <1>11, <1>12, <1>13, <1>14 DEF IInv

LEMMA RetentionStartStep ==
  ASSUME IInv, NEW days \in 1..Term, NEW dry \in BOOLEAN, RetentionStart(days, dry)
  PROVE  IInv'
<1> USE Limits
<1>1. /\ TypeOK /\ JobInv
      /\ \A r \in Rows : RowAt(r) /\ WorkAt(r)
  BY DEF IInv
<1>2. UNCHANGED <<status, attempts, body, sha, purged, vector, day, xrun, queue, work, draft, fails, tripped, rhold, eread, ehold, faults>>
  BY DEF RetentionStart, rowVars, extractVars, embedVars
<1>3. PICK n \in Nat : /\ batches' = ((n + PurgeBatch - 1) \div PurgeBatch) + 2
                       /\ ~ dry /\ rrun = "no" /\ rrun' = "purging"
                       /\ cutoff' = {r \in Rows : Older(r, days)}
  <2>1. IsFiniteSet({r \in {s \in Rows : Older(s, days) /\ body[s] # NoText} : Purgeable(r)})
    BY FS_Subset
  <2>2. Cardinality({r \in {s \in Rows : Older(s, days) /\ body[s] # NoText} : Purgeable(r)}) \in Nat
    BY <2>1, FS_CardinalityType
  <2> QED BY <2>2 DEF RetentionStart
<1>4. days = Term /\ rhold = {}
  BY <1>1, <1>3 DEF RetentionStart, ValidDays, JobInv
<1>10. TypeOK'
  <2>1. batches' \in Nat
    <3>1. \A a \in Nat, b \in Nat \ {0} : (a \div b) \in Nat
      OBVIOUS
    <3>2. n + PurgeBatch - 1 \in Nat
      OBVIOUS
    <3>3. ((n + PurgeBatch - 1) \div PurgeBatch) \in Nat
      BY <3>1, <3>2
    <3> QED BY <1>3, <3>3
  <2>2. cutoff' \subseteq Rows
    BY <1>3
  <2> QED BY <1>1, <1>2, <1>3, <2>1, <2>2 DEF TypeOK
<1>11. JobInv'
  <2>1. \A r \in cutoff' : Older(r, Term)'
    BY <1>2, <1>3, <1>4 DEF Older
  <2> QED BY <1>1, <1>2, <1>4, <2>1 DEF JobInv
<1>12. \A r \in Rows : RowAt(r)'
  BY <1>2, <1>4, RowsKept
<1>13. \A r \in Rows : WorkAt(r)'
  BY <1>2, WorkersKept
<1>14. (\A r \in Rows : CopyHasOriginal(r)') /\ (\A r, s \in Rows : OriginalsDiffer(r, s)')
  BY <1>2, OriginalsKept
<1> QED BY <1>10, <1>11, <1>12, <1>13, <1>14 DEF IInv

LEMMA RetentionLockStep ==
  ASSUME IInv, RetentionLock
  PROVE  IInv'
<1> USE Limits
<1>1. /\ TypeOK /\ JobInv
      /\ \A r \in Rows : RowAt(r) /\ WorkAt(r)
  BY DEF IInv
<1>2. UNCHANGED <<status, attempts, body, sha, purged, vector, day, xrun, queue, work, draft, fails, tripped, cutoff, batches, eread, ehold, faults>>
  BY DEF RetentionLock, rowVars, extractVars, embedVars
<1>10. TypeOK'
  BY <1>1, <1>2 DEF RetentionLock, TypeOK
<1>11. JobInv'
  BY <1>1, <1>2 DEF RetentionLock, JobInv, Older, TypeOK
<1>12. \A r \in Rows : RowAt(r)'
  <2> SUFFICES ASSUME NEW r \in Rows PROVE RowAt(r)'
    OBVIOUS
  <2>1. r \in rhold' => InScope(r) /\ Purgeable(r)
    BY <1>1 DEF RetentionLock
  <2>2. r \in rhold' => ~ Awaiting(r) /\ ~ purged[r] /\ r \notin Exempt /\ r \in cutoff
    BY <1>1, <2>1 DEF InScope, Purgeable, RowAt, HasBody
  <2> QED BY <1>1, <1>2, <2>2 DEF RowAt, Awaiting, HasBody
<1>13. \A r \in Rows : WorkAt(r)'
  BY <1>2, WorkersKept
<1>14. (\A r \in Rows : CopyHasOriginal(r)') /\ (\A r, s \in Rows : OriginalsDiffer(r, s)')
  BY <1>2, OriginalsKept
<1> QED BY <1>10, <1>11, <1>12, <1>13, <1>14 DEF IInv

LEMMA RetentionCommitStep ==
  ASSUME IInv, RetentionCommit
  PROVE  IInv'
<1> USE Limits
<1>1. /\ TypeOK /\ JobInv
      /\ \A r \in Rows : RowAt(r) /\ WorkAt(r)
  BY DEF IInv
<1>2. UNCHANGED <<status, attempts, sha, vector, day, xrun, queue, work, draft, fails, tripped, cutoff, eread, ehold, faults>>
  BY DEF RetentionCommit, extractVars, embedVars
<1>10. TypeOK'
  <2>1. body' \in [Rows -> Texts \cup {Blank, NoText}]
    BY <1>1 DEF RetentionCommit, TypeOK
  <2>2. purged' \in [Rows -> BOOLEAN]
    BY <1>1 DEF RetentionCommit, TypeOK
  <2>3. batches' \in Nat /\ rrun' \in {"no", "purging", "counting"} /\ rhold' \subseteq Rows
    BY <1>1 DEF RetentionCommit, TypeOK, JobInv
  <2> QED BY <1>1, <1>2, <2>1, <2>2, <2>3 DEF TypeOK
<1>11. JobInv'
  BY <1>1, <1>2 DEF RetentionCommit, JobInv, Older, TypeOK
<1>12. \A r \in Rows : RowAt(r)'
  <2> SUFFICES ASSUME NEW r \in Rows PROVE RowAt(r)'
    OBVIOUS
  <2>1. rhold' = {} /\ (Awaiting(r)' <=> Awaiting(r))
    BY <1>2 DEF RetentionCommit, Awaiting
  <2>2. CASE r \in rhold
    <3>1. body'[r] = NoText /\ purged'[r] = TRUE
      BY <2>2 DEF RetentionCommit
    <3> QED BY <1>1, <1>2, <2>1, <2>2, <3>1 DEF RowAt, HasBody
  <2>3. CASE r \notin rhold
    <3>1. body'[r] = body[r] /\ purged'[r] = (purged[r] \/ r \in rhold)
      BY <2>3 DEF RetentionCommit
    <3>2. purged'[r] = purged[r]
      BY <1>1, <2>3, <3>1 DEF TypeOK
    <3> QED BY <1>1, <1>2, <2>1, <3>1, <3>2, RowKept
  <2> QED BY <2>2, <2>3
<1>13. \A r \in Rows : WorkAt(r)'
  BY <1>2, WorkersKept
<1>14. (\A r \in Rows : CopyHasOriginal(r)') /\ (\A r, s \in Rows : OriginalsDiffer(r, s)')
  BY <1>2, OriginalsKept
<1> QED BY <1>10, <1>11, <1>12, <1>13, <1>14 DEF IInv

LEMMA RetentionEndStep ==
  ASSUME IInv, RetentionEnd
  PROVE  IInv'
<1> USE Limits
<1>1. /\ TypeOK /\ JobInv
      /\ \A r \in Rows : RowAt(r) /\ WorkAt(r)
  BY DEF IInv
<1>2. UNCHANGED <<status, attempts, body, sha, purged, vector, day, xrun, queue, work, draft, fails, tripped, eread, ehold, faults>>
  BY DEF RetentionEnd, RetentionStops, rowVars, extractVars, embedVars
<1>10. TypeOK'
  BY <1>1, <1>2 DEF RetentionEnd, RetentionStops, TypeOK
<1>11. JobInv'
  BY <1>1, <1>2 DEF RetentionEnd, RetentionStops, JobInv, Older, TypeOK
<1>12. \A r \in Rows : RowAt(r)'
  <2>1. rhold' = {}
    BY DEF RetentionEnd, RetentionStops
  <2> QED BY <1>2, <2>1, RowsKept
<1>13. \A r \in Rows : WorkAt(r)'
  BY <1>2, WorkersKept
<1>14. (\A r \in Rows : CopyHasOriginal(r)') /\ (\A r, s \in Rows : OriginalsDiffer(r, s)')
  BY <1>2, OriginalsKept
<1> QED BY <1>10, <1>11, <1>12, <1>13, <1>14 DEF IInv

LEMMA RetentionCrashStep ==
  ASSUME IInv, RetentionCrash
  PROVE  IInv'
<1> USE Limits
<1>1. /\ TypeOK /\ JobInv
      /\ \A r \in Rows : RowAt(r) /\ WorkAt(r)
  BY DEF IInv
<1>2. UNCHANGED <<status, attempts, body, sha, purged, vector, day, xrun, queue, work, draft, fails, tripped, eread, ehold>>
  BY DEF RetentionCrash, RetentionStops, Fault, rowVars, extractVars, embedVars
<1>10. TypeOK'
  BY <1>1, <1>2 DEF RetentionCrash, RetentionStops, Fault, TypeOK
<1>11. JobInv'
  BY <1>1, <1>2 DEF RetentionCrash, RetentionStops, Fault, JobInv, Older, TypeOK
<1>12. \A r \in Rows : RowAt(r)'
  <2>1. rhold' = {}
    BY DEF RetentionCrash, RetentionStops
  <2> QED BY <1>2, <2>1, RowsKept
<1>13. \A r \in Rows : WorkAt(r)'
  BY <1>2, WorkersKept
<1>14. (\A r \in Rows : CopyHasOriginal(r)') /\ (\A r, s \in Rows : OriginalsDiffer(r, s)')
  BY <1>2, OriginalsKept
<1> QED BY <1>10, <1>11, <1>12, <1>13, <1>14 DEF IInv

LEMMA EmbedStartStep ==
  ASSUME IInv, EmbedStart
  PROVE  IInv'
<1> USE Limits
<1>1. /\ TypeOK /\ JobInv
      /\ \A r \in Rows : RowAt(r) /\ WorkAt(r)
  BY DEF IInv
<1>2. UNCHANGED <<status, attempts, body, sha, purged, vector, day, xrun, queue, work, draft, fails, tripped, rrun, cutoff, batches, rhold, ehold, faults>>
  BY DEF EmbedStart, rowVars, extractVars, retentionVars
<1>10. TypeOK'
  <2>1. eread' \in [Rows -> Texts \cup {NoText}]
    BY <1>1 DEF EmbedStart, HasBody
  <2> QED BY <1>1, <1>2, <2>1 DEF TypeOK
<1>11. JobInv'
  BY <1>1, <1>2 DEF EmbedStart, JobInv, Older, TypeOK
<1>12. \A r \in Rows : RowAt(r)'
  <2> SUFFICES ASSUME NEW r \in Rows PROVE RowAt(r)'
    OBVIOUS
  <2>1. eread'[r] # NoText => HasBody(r) /\ eread'[r] = body[r]
    BY DEF EmbedStart
  <2> QED BY <1>1, <1>2, <2>1 DEF RowAt, Awaiting, HasBody
<1>13. \A r \in Rows : WorkAt(r)'
  BY <1>2, WorkersKept
<1>14. (\A r \in Rows : CopyHasOriginal(r)') /\ (\A r, s \in Rows : OriginalsDiffer(r, s)')
  BY <1>2, OriginalsKept
<1> QED BY <1>10, <1>11, <1>12, <1>13, <1>14 DEF IInv

LEMMA EmbedUpdateStep ==
  ASSUME IInv, NEW B \in SUBSET Rows, EmbedUpdate(B)
  PROVE  IInv'
<1> USE Limits
<1>1. /\ TypeOK /\ JobInv
      /\ \A r \in Rows : RowAt(r) /\ WorkAt(r)
  BY DEF IInv
<1>2. UNCHANGED <<status, attempts, body, sha, purged, vector, day, xrun, queue, work, draft, fails, tripped, rrun, cutoff, batches, rhold, eread, faults>>
  BY DEF EmbedUpdate, rowVars, extractVars, retentionVars
<1>10. TypeOK'
  BY <1>1, <1>2 DEF EmbedUpdate, TypeOK
<1>11. JobInv'
  BY <1>1, <1>2 DEF EmbedUpdate, JobInv, Older, TypeOK
<1>12. \A r \in Rows : RowAt(r)'
  <2>1. \A r \in Rows : r \in rhold' => r \in rhold /\ r \in cutoff'
    BY <1>1, <1>2 DEF RowAt
  <2> QED BY <1>2, <2>1, RowsKept
<1>13. \A r \in Rows : WorkAt(r)'
  BY <1>2, WorkersKept
<1>14. (\A r \in Rows : CopyHasOriginal(r)') /\ (\A r, s \in Rows : OriginalsDiffer(r, s)')
  BY <1>2, OriginalsKept
<1> QED BY <1>10, <1>11, <1>12, <1>13, <1>14 DEF IInv

LEMMA EmbedCommitStep ==
  ASSUME IInv, EmbedCommit
  PROVE  IInv'
<1> USE Limits
<1>1. /\ TypeOK /\ JobInv
      /\ \A r \in Rows : RowAt(r) /\ WorkAt(r)
  BY DEF IInv
<1>2. UNCHANGED <<status, attempts, body, sha, purged, day, xrun, queue, work, draft, fails, tripped, rrun, cutoff, batches, rhold, faults>>
  BY DEF EmbedCommit, Skip, rowVars, extractVars, retentionVars
<1>10. TypeOK'
  BY <1>1, <1>2 DEF EmbedCommit, Skip, TypeOK
<1>11. JobInv'
  BY <1>1, <1>2 DEF EmbedCommit, Skip, JobInv, Older, TypeOK
<1>12. \A r \in Rows : RowAt(r)'
  <2> SUFFICES ASSUME NEW r \in Rows PROVE RowAt(r)'
    OBVIOUS
  <2>1. eread'[r] = eread[r] \/ eread'[r] = NoText
    BY DEF EmbedCommit, Skip
  <2>2. vector'[r] = vector[r] \/ vector'[r] = eread[r]
    BY DEF EmbedCommit
  <2> QED BY <1>1, <1>2, <2>1, <2>2 DEF RowAt, Awaiting, HasBody
<1>13. \A r \in Rows : WorkAt(r)'
  BY <1>2, WorkersKept
<1>14. (\A r \in Rows : CopyHasOriginal(r)') /\ (\A r, s \in Rows : OriginalsDiffer(r, s)')
  BY <1>2, OriginalsKept
<1> QED BY <1>10, <1>11, <1>12, <1>13, <1>14 DEF IInv

LEMMA EmbedBatchFailsStep ==
  ASSUME IInv, EmbedBatchFails
  PROVE  IInv'
<1> USE Limits
<1>1. /\ TypeOK /\ JobInv
      /\ \A r \in Rows : RowAt(r) /\ WorkAt(r)
  BY DEF IInv
<1>2. UNCHANGED <<status, attempts, body, sha, purged, vector, day, xrun, queue, work, draft, fails, tripped, rrun, cutoff, batches, rhold>>
  BY DEF EmbedBatchFails, Skip, Fault, rowVars, extractVars, retentionVars
<1>10. TypeOK'
  BY <1>1, <1>2 DEF EmbedBatchFails, Skip, Fault, TypeOK
<1>11. JobInv'
  BY <1>1, <1>2 DEF EmbedBatchFails, Skip, Fault, JobInv, Older, TypeOK
<1>12. \A r \in Rows : RowAt(r)'
  <2>1. \A r \in Rows : r \in rhold' => r \in rhold /\ r \in cutoff'
    BY <1>1, <1>2 DEF RowAt
  <2>2. \A r \in Rows : eread'[r] = eread[r] \/ eread'[r] = NoText
    BY DEF EmbedBatchFails, Skip
  <2> QED BY <1>2, <2>1, <2>2, RowsKept
<1>13. \A r \in Rows : WorkAt(r)'
  BY <1>2, WorkersKept
<1>14. (\A r \in Rows : CopyHasOriginal(r)') /\ (\A r, s \in Rows : OriginalsDiffer(r, s)')
  BY <1>2, OriginalsKept
<1> QED BY <1>10, <1>11, <1>12, <1>13, <1>14 DEF IInv

LEMMA EmbedStopsStep ==
  ASSUME IInv, EmbedStops
  PROVE  IInv'
<1> USE Limits
<1>1. /\ TypeOK /\ JobInv
      /\ \A r \in Rows : RowAt(r) /\ WorkAt(r)
  BY DEF IInv
<1>2. UNCHANGED <<status, attempts, body, sha, purged, vector, day, xrun, queue, work, draft, fails, tripped, rrun, cutoff, batches, rhold>>
  BY DEF EmbedStops, Skip, Fault, rowVars, extractVars, retentionVars
<1>10. TypeOK'
  BY <1>1, <1>2 DEF EmbedStops, Skip, Fault, TypeOK
<1>11. JobInv'
  BY <1>1, <1>2 DEF EmbedStops, Skip, Fault, JobInv, Older, TypeOK
<1>12. \A r \in Rows : RowAt(r)'
  <2>1. \A r \in Rows : r \in rhold' => r \in rhold /\ r \in cutoff'
    BY <1>1, <1>2 DEF RowAt
  <2>2. \A r \in Rows : eread'[r] = eread[r] \/ eread'[r] = NoText
    BY DEF EmbedStops, Skip
  <2> QED BY <1>2, <2>1, <2>2, RowsKept
<1>13. \A r \in Rows : WorkAt(r)'
  BY <1>2, WorkersKept
<1>14. (\A r \in Rows : CopyHasOriginal(r)') /\ (\A r, s \in Rows : OriginalsDiffer(r, s)')
  BY <1>2, OriginalsKept
<1> QED BY <1>10, <1>11, <1>12, <1>13, <1>14 DEF IInv
-------------------------------------------------------------------------------
(* ArticleRows: the theorems *)

LEMMA NextIInv == IInv /\ [Next]_vars => IInv'
<1> SUFFICES ASSUME IInv, [Next]_vars PROVE IInv'
  OBVIOUS
<1>1. CASE Parent
  BY <1>1, ExtractStartStep, DispatchStep, ExtractEndStep, CollectStep DEF Parent
<1>2. CASE Retention
  BY <1>2, RetentionStartStep, RetentionLockStep, RetentionCommitStep, RetentionEndStep DEF Retention
<1>3. CASE Embed
  BY <1>3, EmbedStartStep, EmbedCommitStep, EmbedUpdateStep DEF Embed
<1>4. CASE NextDay \/ BudgetEnds \/ ExtractCrash \/ RetentionCrash \/ EmbedBatchFails \/ EmbedStops
  BY <1>4, NextDayStep, BudgetEndsStep, ExtractCrashStep, RetentionCrashStep, EmbedBatchFailsStep, EmbedStopsStep
<1>5. ASSUME NEW r \in Rows, Worker(r) \/ Raise(r) \/ RecordErrorFails(r) PROVE IInv'
  <2>1. CASE Commit(r)
    BY <2>1, WriteStep DEF Commit
  <2>2. CASE RecordError(r)
    BY <2>2, WriteStep DEF RecordError
  <2>3. CASE UpdateEmpty(r) \/ UpdateDuplicate(r) \/ Raise(r) \/ RecordErrorFails(r)
    BY <2>3, UpdateEmptyStep, UpdateDuplicateStep, RaiseStep, RecordErrorFailsStep
  <2>4. ASSUME NEW t \in Texts, UpdateOk(r, t) PROVE IInv'
    BY <2>4, UpdateOkStep
  <2> QED BY <1>5, <2>1, <2>2, <2>3, <2>4 DEF Worker
<1>6. CASE UNCHANGED vars
  <2>1. UNCHANGED <<status, attempts, body, sha, purged, vector, day, xrun, queue, work, draft, fails, tripped,
                    rrun, cutoff, batches, rhold, eread, ehold, faults>>
    BY <1>6 DEF vars, rowVars, extractVars, retentionVars, embedVars
  <2>2. TypeOK' /\ JobInv'
    BY <2>1 DEF IInv, TypeOK, JobInv, Older
  <2>3. \A r \in Rows : RowAt(r)'
    <3>1. \A r \in Rows : r \in rhold' => r \in rhold /\ r \in cutoff'
      BY <2>1 DEF IInv, RowAt
    <3> QED BY <2>1, <3>1, RowsKept
  <2> QED BY <2>1, <2>2, <2>3, WorkersKept, OriginalsKept DEF IInv
<1> QED BY <1>1, <1>2, <1>3, <1>4, <1>5, <1>6 DEF Next

\* The inductive invariant holds in every state.
THEOREM RowsInductive == Spec => []IInv
BY InitIInv, NextIInv, PTL DEF Spec

\* A row closed as a copy has one original, for any number of rows, workers and
\* faults, also when two workers hold the same text at once
\* (_record_ok_or_duplicate); and the variables have their types.
THEOREM OneOriginalHolds == Spec => []OneOriginal
<1>1. IInv => OneOriginal
  BY DEF IInv, OneOriginal
<1> QED BY <1>1, RowsInductive, PTL

\* The embedding of a row is the embedding of its body, although the batch was
\* read long before it is written (embed_pending_articles).
THEOREM VectorIsOfItsBodyHolds == Spec => []VectorIsOfItsBody
<1>1. IInv => VectorIsOfItsBody
  BY DEF IInv, RowAt, VectorIsOfItsBody
<1> QED BY <1>1, RowsInductive, PTL

\* The bodies start as BodyLife starts.
LEMMA InitIsLifeInit == Init => Life!LifeInit
<1> SUFFICES ASSUME Init PROVE Life!LifeInit
  OBVIOUS
<1>1. IInv
  BY InitIInv
<1>2. \A r \in Rows : body[r] \in Texts \cup {Blank} /\ ~ purged[r]
  BY RowsAssumption DEF Init
<1>3. \A r \in Rows : Older(r, Term) = FALSE
  <2>1. Crawled \in [Rows -> Nat] /\ Term \in Nat \ {0} /\ day = 0
    BY RowsAssumption DEF Init
  <2> QED BY <2>1 DEF Older
<1>4. [r \in Rows |-> Older(r, Term)] = [r \in Rows |-> FALSE]
  BY <1>3
<1>5. [r \in Rows |-> Stage(r)] \in [Rows -> {"none", "held"}]
  BY <1>2 DEF Stage
<1>6. [r \in Rows |-> IF HasBody(r) THEN body[r] ELSE NoText] \in [Rows -> Texts \cup {NoText}]
  BY DEF HasBody
<1>7. \A r \in Rows : (Stage(r) = "held") = ((IF HasBody(r) THEN body[r] ELSE NoText) # NoText)
  BY <1>2, Limits DEF Stage, HasBody
<1> QED BY <1>4, <1>5, <1>6, <1>7 DEF Life!LifeInit

\* A body that is written arrives, and a row that is closed without one stays as it was.
LEMMA WriteIsLife ==
  ASSUME IInv, NEW q \in Rows, work[q] \in {"updated", "failing"}, Write(q, draft[q]),
         WorkerStep(q, "done", draft[q])
  PROVE  [Life!LifeNext]_(Life!lifeVars)
<1>1. TypeOK /\ RowAt(q) /\ WorkAt(q)
  BY DEF IInv
<1>2. body[q] = Blank /\ ~ purged[q]
  BY <1>1, Limits DEF WorkAt, RowAt, Open
<1>3. UNCHANGED <<day, purged>> /\ \A r \in Rows \ {q} : body'[r] = body[r]
  BY <1>1 DEF TypeOK, Write, WorkerStep
<1>4. body'[q] = (IF draft[q].status = "ok" THEN draft[q].body ELSE Blank)
  BY <1>1 DEF TypeOK, Write
<1>5. CASE draft[q].status = "ok"
  <2>1. body'[q] \in Texts /\ body'[q] # Blank
    BY <1>1, <1>4, <1>5, Limits DEF WorkAt
  <2>2. Stage(q) = "none" /\ Stage(q)' = "held" /\ HasBody(q)'
    BY <1>2, <1>3, <2>1 DEF Stage, HasBody
  <2>3. \A r \in Rows \ {q} : Stage(r)' = Stage(r) /\ (HasBody(r)' <=> HasBody(r)) /\ body'[r] = body[r]
    BY <1>3 DEF Stage, HasBody
  <2>4. [r \in Rows |-> Stage(r)]' = [[r \in Rows |-> Stage(r)] EXCEPT ![q] = "held"]
    BY <2>2, <2>3
  <2>5. [r \in Rows |-> Older(r, Term)]' = [r \in Rows |-> Older(r, Term)]
    BY <1>3 DEF Older
  <2>6. Life!Arrive(q)
    BY <2>1, <2>2, <2>3, <2>4, <2>5 DEF Life!Arrive
  <2> QED BY <2>6 DEF Life!LifeNext
<1>6. CASE draft[q].status # "ok"
  <2>1. \A r \in Rows : body'[r] = body[r]
    BY <1>2, <1>3, <1>4, <1>6
  <2>2. [r \in Rows |-> Stage(r)]' = [r \in Rows |-> Stage(r)]
    BY <1>3, <2>1 DEF Stage
  <2>3. [r \in Rows |-> IF HasBody(r) THEN body[r] ELSE NoText]' = [r \in Rows |-> IF HasBody(r) THEN body[r] ELSE NoText]
    BY <2>1 DEF HasBody
  <2>4. [r \in Rows |-> Older(r, Term)]' = [r \in Rows |-> Older(r, Term)]
    BY <1>3 DEF Older
  <2> QED BY <2>2, <2>3, <2>4 DEF Life!lifeVars
<1> QED BY <1>5, <1>6

\* What the retention job empties is purged, and its term was over.
LEMMA CommitIsLife ==
  ASSUME IInv, RetentionCommit
  PROVE  Life!Purge
<1>1. TypeOK /\ JobInv /\ \A r \in Rows : RowAt(r)
  BY DEF IInv
<1>2. UNCHANGED day
  BY DEF RetentionCommit
<1>3. [r \in Rows |-> Older(r, Term)]' = [r \in Rows |-> Older(r, Term)]
  BY <1>2 DEF Older
<1>4. ASSUME NEW r \in Rows, r \in rhold
      PROVE  /\ Older(r, Term) /\ r \notin Exempt /\ Stage(r) # "gone"
             /\ Stage(r)' = "gone" /\ ~ HasBody(r)'
  <2>1. body'[r] = NoText /\ purged'[r] = TRUE
    BY <1>4 DEF RetentionCommit
  <2> QED BY <1>1, <1>4, <2>1, Limits DEF RowAt, JobInv, Stage, HasBody
<1>5. ASSUME NEW r \in Rows, r \notin rhold
      PROVE  Stage(r)' = Stage(r) /\ (HasBody(r)' <=> HasBody(r)) /\ body'[r] = body[r]
  <2>1. body'[r] = body[r] /\ purged'[r] = purged[r]
    BY <1>1, <1>5 DEF RetentionCommit, TypeOK
  <2> QED BY <2>1 DEF Stage, HasBody
<1> QED BY <1>3, <1>4, <1>5 DEF Life!Purge

\* Time goes by, and no term that was over is open again.
LEMMA DayIsLife ==
  ASSUME IInv, NextDay
  PROVE  Life!ComeDue
<1>1. UNCHANGED <<body, purged>> /\ day' = day + 1 /\ day \in Nat
  BY Limits DEF IInv, TypeOK, NextDay, rowVars
<1>2. Crawled \in [Rows -> Nat] /\ Term \in Nat
  BY RowsAssumption
<1>3. \A r \in Rows : Older(r, Term) => Older(r, Term)'
  BY <1>1, <1>2 DEF Older
<1> QED BY <1>1, <1>3 DEF Life!ComeDue, Stage, HasBody

LEMMA StutterIsLife ==
  ASSUME UNCHANGED <<body, purged, day>>
  PROVE  UNCHANGED Life!lifeVars
BY DEF Life!lifeVars, Stage, HasBody, Older

\* Every step of the three jobs is a step of BodyLife or leaves the bodies alone.
LEMMA NextIsLifeNext == IInv /\ [Next]_vars => [Life!LifeNext]_(Life!lifeVars)
<1> SUFFICES ASSUME IInv, [Next]_vars PROVE [Life!LifeNext]_(Life!lifeVars)
  OBVIOUS
<1>1. CASE NextDay
  BY <1>1, DayIsLife DEF Life!LifeNext
<1>2. CASE RetentionCommit
  BY <1>2, CommitIsLife DEF Life!LifeNext
<1>3. ASSUME NEW r \in Rows, Commit(r) \/ RecordError(r) PROVE [Life!LifeNext]_(Life!lifeVars)
  BY <1>3, WriteIsLife DEF Commit, RecordError
<1>4. CASE Parent
  <2>1. ASSUME NEW r \in Rows, Collect(r) PROVE UNCHANGED <<body, purged, day>>
    BY <2>1 DEF Collect, rowVars
  <2>2. UNCHANGED <<body, purged, day>>
    BY <1>4, <2>1 DEF Parent, ExtractStart, Dispatch, ExtractEnd, ExtractStops, rowVars
  <2> QED BY <2>2, StutterIsLife
<1>5. CASE RetentionLock \/ RetentionEnd \/ RetentionCrash \/ \E days \in 1..Term, dry \in BOOLEAN : RetentionStart(days, dry)
  <2>1. UNCHANGED <<body, purged, day>>
    BY <1>5 DEF RetentionStart, RetentionLock, RetentionEnd, RetentionCrash, RetentionStops, rowVars
  <2> QED BY <2>1, StutterIsLife
<1>6. CASE Embed \/ BudgetEnds \/ ExtractCrash \/ EmbedBatchFails \/ EmbedStops
  <2>1. UNCHANGED <<body, purged, day>>
    BY <1>6 DEF Embed, EmbedStart, EmbedUpdate, EmbedCommit, BudgetEnds, ExtractCrash, ExtractStops, EmbedBatchFails,
                EmbedStops, rowVars
  <2> QED BY <2>1, StutterIsLife
<1>7. ASSUME NEW r \in Rows,
             UpdateEmpty(r) \/ (\E t \in Texts : UpdateOk(r, t)) \/ UpdateDuplicate(r) \/ Raise(r) \/ RecordErrorFails(r)
      PROVE  [Life!LifeNext]_(Life!lifeVars)
  <2>1. UNCHANGED <<body, purged, day>>
    BY <1>7 DEF UpdateEmpty, UpdateOk, UpdateDuplicate, Raise, RecordErrorFails, WorkerStep, rowVars
  <2> QED BY <2>1, StutterIsLife
<1>8. CASE UNCHANGED vars
  BY <1>8, StutterIsLife DEF vars, rowVars
<1> QED BY <1>1, <1>2, <1>3, <1>4, <1>5, <1>6, <1>7, <1>8 DEF Next, Retention, Worker

\* The three jobs implement BodyLife: a body arrives once, is never replaced,
\* goes only when its term is over and never comes back (_record_extraction,
\* PURGE_BATCH_SQL, validate_retention_days).  That the term is kept, the
\* liveness part of ImplementsBodyLife, is TLC's.
THEOREM BodyLifeImplemented == Spec => Life!LifeInit /\ [][Life!LifeNext]_(Life!lifeVars)
BY InitIsLifeInit, NextIsLifeNext, RowsInductive, PTL DEF Spec
=============================================================================
