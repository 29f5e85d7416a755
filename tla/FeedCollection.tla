---------------------------- MODULE FeedCollection ----------------------------
(***************************************************************************)
(* Reading the RSS feeds into news_raw: the rss stage of the ingest job    *)
(* (jobs/tasks/ingest.py) and the rss_retry job that reads once more what  *)
(* the last ingest could not read (jobs/tasks/rss_retry.py).  Both collect *)
(* with collect_rss (ai_workspace/crawler/rss_collector.py), a single      *)
(* transaction over all feeds, and both hold the advisory lock of ingest.  *)
(* What happens to a row afterwards is ArticleRows.                        *)
(***************************************************************************)
EXTENDS Integers, FiniteSets, Sequences, FiniteSetsExt

CONSTANTS
  Feeds,        \* RSS_FEEDS, numbered in the order of the settings
  Host,         \* [Feeds -> host]
  Summary,      \* the feeds with strategy 'rss_summary'
  Urls,         \* raw_news_url
  Digests,      \* hashes of summaries long enough to be kept
  Short,        \* a summary is_drop_article drops
  MaxEntries,   \* bound: entries of a feed inside the cutoff
  MaxRuns,      \* bound: ingest runs
  MaxCrashes    \* bound

ASSUME FeedsAssumption ==
  /\ Feeds \subseteq Nat /\ IsFiniteSet(Feeds) /\ DOMAIN Host = Feeds /\ Summary \subseteq Feeds
  /\ Short \notin Digests
  /\ {MaxEntries, MaxRuns, MaxCrashes} \subseteq Nat

VARIABLES
  stored,   \* news_raw, committed: the row of each URL
  log,      \* job_runs of ingest: stats.rss.per_feed of each run
  sources,  \* source_run_id of the rss_retry rows that recorded one
  pc,       \* of each job: "off", "read", "stats"; rss_retry also "chosen", "nothing"
  todo,     \* feeds it still has to read
  tx,       \* rows its open transaction has inserted
  hosts,    \* failed_hosts
  errors,   \* feeds with an error in per_feed
  source,   \* the ingest run rss_retry works for
  got,      \* history: the URLs it has read of the feeds that are not errors
  reads,    \* history: how often rss_retry went to read the failures of each run
  claimed,  \* history: URLs of the feeds that some per_feed in job_runs calls read
  crashes

collectVars == <<todo, tx, hosts, errors, got>>
feedVars == <<stored, log, sources, pc, collectVars, source, reads, claimed, crashes>>

Jobs == {"ingest", "rss_retry"}
Absent == [status |-> "absent", digest |-> Short]
Row(s, d) == [status |-> s, digest |-> d]
RowStatuses == {"absent", "null", "rss_summary", "dropped", "duplicate"}
NoStats == [known |-> FALSE, failed |-> {}]

FeedsInit ==
  /\ stored = [u \in Urls |-> Absent] /\ log = <<>> /\ sources = {}
  /\ pc = [j \in Jobs |-> "off"] /\ todo = [j \in Jobs |-> {}]
  /\ tx = [j \in Jobs |-> [u \in Urls |-> Absent]]
  /\ hosts = [j \in Jobs |-> {}] /\ errors = [j \in Jobs |-> {}]
  /\ got = [j \in Jobs |-> {}] /\ claimed = {}
  /\ source = 0 /\ reads = [n \in 1..MaxRuns |-> 0] /\ crashes = 0

Set(f, j, v) == [f EXCEPT ![j] = v]
\* the advisory lock of ingest
LockFree == \A j \in Jobs : pc[j] = "off"

Begin(j, feeds) ==
  /\ todo' = Set(todo, j, feeds)
  /\ tx' = Set(tx, j, [u \in Urls |-> Absent])
  /\ hosts' = Set(hosts, j, {}) /\ errors' = Set(errors, j, {})
  /\ got' = Set(got, j, {})

IngestStart ==
  /\ LockFree /\ Len(log) < MaxRuns
  /\ pc' = Set(pc, "ingest", "read") /\ Begin("ingest", Feeds)
  /\ log' = Append(log, NoStats)
  /\ UNCHANGED <<stored, sources, source, reads, claimed, crashes>>

\* Mutant: the job holds a lock of its own only.
RetryStartAlone ==
  /\ pc["rss_retry"] = "off" /\ {n \in 1..Len(log) : log[n].known} # {}
  /\ LET n == Max({k \in 1..Len(log) : log[k].known}) IN
     /\ n \notin sources
     /\ source' = n
     /\ pc' = Set(pc, "rss_retry", IF log[n].failed = {} THEN "nothing" ELSE "chosen")
     /\ Begin("rss_retry", log[n].failed)
  /\ UNCHANGED <<stored, log, sources, reads, claimed, crashes>>

(* load_source: the last run whose stats were written, also of a run that  *)
(* died later.                                                             *)
WithStats == {n \in 1..Len(log) : log[n].known}
RetryStart ==
  /\ LockFree /\ WithStats # {}
  /\ LET n == Max(WithStats) IN
     /\ n \notin sources
     /\ source' = n
     /\ pc' = Set(pc, "rss_retry", IF log[n].failed = {} THEN "nothing" ELSE "chosen")
     /\ Begin("rss_retry", log[n].failed)
  /\ UNCHANGED <<stored, log, sources, reads, claimed, crashes>>

\* Mutant: the source is written at the end only, with the stats.
RetryCheckpointLate ==
  /\ pc["rss_retry"] = "chosen"
  /\ pc' = Set(pc, "rss_retry", "read") /\ reads' = [reads EXCEPT ![source] = @ + 1]
  /\ UNCHANGED <<stored, log, sources, collectVars, source, claimed, crashes>>

(* The source is written to job_runs before the first request.             *)
RetryCheckpoint ==
  /\ pc["rss_retry"] = "chosen"
  /\ sources' = sources \cup {source}
  /\ pc' = Set(pc, "rss_retry", "read") /\ reads' = [reads EXCEPT ![source] = @ + 1]
  /\ UNCHANGED <<stored, log, collectVars, source, claimed, crashes>>

RetryNothing ==
  /\ pc["rss_retry"] = "nothing"
  /\ sources' = sources \cup {source} /\ pc' = Set(pc, "rss_retry", "off") /\ source' = 0
  /\ UNCHANGED <<stored, log, collectVars, reads, claimed, crashes>>
-------------------------------------------------------------------------------
(* What a transaction sees, and the rows build_insert_rows makes of a feed *)

Seen(j) == [u \in Urls |-> IF tx[j][u] # Absent THEN tx[j][u] ELSE stored[u]]
Present(j) == {u \in Urls : Seen(j)[u] # Absent}
\* _existing_summary_hashes
Taken(j) == {Seen(j)[u].digest : u \in {v \in Urls : Seen(j)[v].status = "rss_summary"}}

\* the entries of a feed inside the cutoff, in its order
Entries == UNION {[1..n -> [url : Urls, digest : Digests \cup {Short}]] : n \in 0..MaxEntries}
Possible(f) == {es \in Entries : f \in Summary \/ \A a \in DOMAIN es : es[a].digest = Short}

(* A summary feed leaves out the URLs that are there; the first entry with *)
(* a summary nobody has keeps it, later ones are duplicates.               *)
Candidates(j, f, es) ==
  LET new == {a \in DOMAIN es : es[a].url \notin Present(j)}
      status(a) == IF f \notin Summary THEN "null"
                   ELSE IF es[a].digest = Short THEN "dropped"
                   ELSE IF es[a].digest \in Taken(j) \/ \E b \in new : b < a /\ es[b].digest = es[a].digest
                        THEN "duplicate" ELSE "rss_summary"
  IN [a \in new |-> Row(status(a), es[a].digest)]

\* ON CONFLICT (raw_news_url) DO NOTHING: the first row of a URL stays
Insert(j, f, es) ==
  LET rows == Candidates(j, f, es)
      of(u) == {a \in DOMAIN rows : es[a].url = u}
  IN [u \in Urls |-> IF Seen(j)[u] = Absent /\ of(u) # {} THEN rows[Min(of(u))] ELSE tx[j][u]]

\* a URL another transaction has inserted makes this one wait
Waits(j, es) == \E k \in Jobs \ {j}, a \in DOMAIN es : tx[k][es[a].url] # Absent

(* The next feed: skipped because its host failed, unreadable, or read.    *)
NextFeed(j) == Min(todo[j])
Failed(j, f) ==
  /\ hosts' = Set(hosts, j, hosts[j] \cup {Host[f]})
  /\ errors' = Set(errors, j, errors[j] \cup {f})
  /\ UNCHANGED <<tx, got>>

ReadFeed(j) ==
  /\ pc[j] = "read" /\ todo[j] # {}
  /\ LET f == NextFeed(j) IN
     /\ todo' = Set(todo, j, todo[j] \ {f})
     /\ \/ Failed(j, f)  \* skipped, unreadable, or an exception and ROLLBACK TO SAVEPOINT
        \/ /\ Host[f] \notin hosts[j]
           /\ \E es \in Possible(f) :
                /\ ~Waits(j, es) /\ tx' = Set(tx, j, Insert(j, f, es))
                /\ got' = Set(got, j, got[j] \cup {es[a].url : a \in DOMAIN es})
           /\ UNCHANGED <<hosts, errors>>
  /\ UNCHANGED <<stored, log, sources, pc, source, reads, claimed, crashes>>

\* Mutant: the commit fails and the stats are written all the same.
CommitRowsLost(j) ==
  /\ pc[j] = "read" /\ todo[j] = {}
  /\ tx' = Set(tx, j, [u \in Urls |-> Absent])
  /\ pc' = Set(pc, j, "stats")
  /\ UNCHANGED <<stored, log, sources, todo, hosts, errors, got, source, reads, claimed, crashes>>

CommitRows(j) ==
  /\ pc[j] = "read" /\ todo[j] = {}
  /\ stored' = [u \in Urls |-> IF stored[u] # Absent THEN stored[u] ELSE tx[j][u]]
  /\ tx' = Set(tx, j, [u \in Urls |-> Absent])
  /\ pc' = Set(pc, j, "stats")
  /\ UNCHANGED <<log, sources, todo, hosts, errors, got, source, reads, claimed, crashes>>

(* ctx.checkpoint: per_feed reaches job_runs, and the job goes on without  *)
(* the collector (ingest keeps its lock longer, which changes nothing).    *)
WriteStats(j) ==
  /\ pc[j] = "stats" /\ pc' = Set(pc, j, "off")
  /\ log' = IF j = "ingest"
            THEN [log EXCEPT ![Len(log)] = [known |-> TRUE, failed |-> errors[j]]] ELSE log
  /\ claimed' = claimed \cup got[j]
  /\ source' = IF j = "ingest" THEN source ELSE 0
  /\ UNCHANGED <<stored, sources, collectVars, reads, crashes>>

\* the process dies: the transaction is rolled back and the lock is free
Crash(j) ==
  /\ pc[j] # "off" /\ crashes < MaxCrashes /\ crashes' = crashes + 1
  /\ pc' = Set(pc, j, "off") /\ tx' = Set(tx, j, [u \in Urls |-> Absent])
  /\ source' = IF j = "ingest" THEN source ELSE 0
  /\ UNCHANGED <<stored, log, sources, todo, hosts, errors, got, reads, claimed>>

FeedsNext ==
  \/ IngestStart \/ RetryStart \/ RetryCheckpoint \/ RetryNothing
  \/ \E j \in Jobs : ReadFeed(j) \/ CommitRows(j) \/ WriteStats(j) \/ Crash(j)

FeedsSpec == FeedsInit /\ [][FeedsNext]_feedVars
-------------------------------------------------------------------------------
FeedsTypeOK ==
  /\ stored \in [Urls -> [status : RowStatuses, digest : Digests \cup {Short}]]
  /\ tx \in [Jobs -> [Urls -> [status : RowStatuses, digest : Digests \cup {Short}]]]
  /\ log \in Seq([known : BOOLEAN, failed : SUBSET Feeds]) /\ sources \subseteq 1..Len(log)
  /\ pc \in [Jobs -> {"off", "chosen", "nothing", "read", "stats"}]
  /\ todo \in [Jobs -> SUBSET Feeds] /\ errors \in [Jobs -> SUBSET Feeds]
  /\ hosts \in [Jobs -> SUBSET {Host[f] : f \in Feeds}] /\ got \in [Jobs -> SUBSET Urls]
  /\ source \in 0..Len(log) /\ reads \in [1..MaxRuns -> Nat] /\ claimed \subseteq Urls
  /\ crashes \in 0..MaxCrashes

(* At most one row holds a summary, whichever of the two jobs stored it:   *)
(* no unique index protects it, only the lock they share and the look at   *)
(* the rows that are there.  (And the variables have their types.)         *)
OneRowPerSummary ==
  /\ FeedsTypeOK
  /\ \A u, v \in Urls :
       u # v /\ stored[u].status = "rss_summary" /\ stored[v].status = "rss_summary"
       => stored[u].digest # stored[v].digest

(* The feeds an ingest run could not read are read again at most once, also *)
(* when rss_retry dies while it reads them or when later ingest runs leave  *)
(* no stats.                                                                *)
RetriedOnce == \A n \in 1..MaxRuns : reads[n] <= 1

(* What job_runs says was read is in news_raw: whatever dies between the   *)
(* transaction and the checkpoint, the stats never run ahead of the rows.  *)
StatsAreTrue == \A u \in claimed : stored[u] # Absent
=============================================================================
