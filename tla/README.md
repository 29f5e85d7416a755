# Formal model of the newsletter recommender

TLA+ specifications of the parts of this repository whose correctness depends on order,
concurrency and failure, TLC configurations that check them on small instances, and TLAPS
proofs of the most important invariants for every value of their constants.

The code collects Korean news (RSS → extraction → BGE-M3 embedding → HDBSCAN), writes
newsletters from the clusters with language models (a LangGraph workflow under a spend cap),
stores them in PostgreSQL and recommends them at request time (FastAPI → React). Scheduled work
runs as `python -m jobs.run <job>`.

## 1. Inventory

| Component | State | Operations | Talks to | Hard behaviour | What makes it correct |
|---|---|---|---|---|---|
| **Job runtime** `jobs/runtime.py`, `store.py`, `run.py`, `notify.py` | `job_runs` rows, one advisory lock per job, the run's stats | connect, try-lock, record skip, abandon stale rows, start, body with checkpoints, finish, notify, unlock | PostgreSQL, cron, Slack | crash between statements, SIGTERM anywhere, a session that dies before its process | bodies exclude each other, one open row, closed rows are final, exit 0 only with a recorded success |
| **LLM spend ledger** `core/llm/spend_ledger.py` | append-only JSONL, sums folded from it, file lock | reserve, settle, expire, reset_day | every process that calls a paid model | torn writes, lost settlements, late answers, death with an open reservation | what is billed stays within the caps; nothing booked twice or not at all |
| **Generation run** `pipeline/stages.py`, `core/llm/adapters.py`, `budget.py`, `kill_switch.py` | thread pool, run stop latch, consecutive failures, kill switch file | take a cluster, call with retries, stop the run, fill up to a target | ledger, provider, other processes through the file | threads between two checks while another stops the run; an exception that passes every handler | a stopped run sends nothing more; first reason stays; every cluster has an outcome; the run ends |
| **Newsletter workflow** `ai_workspace/workflow/*` | `AgentState` of one cluster | graph nodes and conditional edges | three models, database | retry loops that feed each other, unavailable gates, refused calls | nothing unvetted is published, loops fit the recursion limit, the recorded reason is true |
| **Click log and profile state** `backend/app/api/log.py`, `recsys/profile_store.py`, `jobs/tasks/rebuild_user_state.py` | click log, one profile row per user | click transaction (insert, savepoint, lock, update, commit), rebuild_user | PostgreSQL, feed | two clicks and a rebuild of one user; failing savepoints; embeddings that arrive late | the row is the fold of the log, or a rebuild makes it so |
| **Realtime feed** `recsys/service.py`, `cache.py`, `pipeline.py`, `sql_repository.py` | result cache under (user, last_click_id), worker threads | read key, compute, cache, time out, fall back | click log, profile state | reads of one list are not one snapshot; late workers fill the cache | a list under a key counts that click; features belong to the time of the request |
| **Serving threads** `recsys/service.py`, `shadow.py`, `impressions` | slots of the request pool, ranking pool, shadow backlog, timeouts in a row, breaker | submit, wait, time out, fall back, abandon, count, log | realtime feed, impression log | a result that arrives after its reader gave up; two waiters for one job; threads that hang | every place in the backlog comes back once; a hanging inner pool takes no request slot away; a late job is counted once per thread that saw it late |
| **Article life cycle** `crawler/*`, `jobs/tasks/{ingest,rss_retry,embed,retention}.py` | rows of `news_raw`: status, attempts, body, hash, purge mark, embedding; per-feed results in `job_runs` | collect, retry once, extract, deduplicate, embed, purge | press sites, clustering | workers, embedder and purge on the same row; rollbacks; two copies of one text at once; a breaker that defers | a purged body does not come back; retries are bounded and happen; one original per text; statistics are true |
| **Ledger file** `spend_ledger.py`, `spend_cli.py` | the file, and a watermark outside its directory | init, diagnose, repair, adopt; moving the watermark | operator | file lost, cut, scrambled or replaced; a command that dies half way | the caps do not open again silently; the operator can resume |
| **E0 labeler** `evaluation/llm/auto_labeler.py` | four append-only files and a manifest | pre-flight, ask, repair, skip, end, assemble, stop at the soft cap | paid model, ledger | a death between any two lines that belong together | a label counts the facts it was asked about; nothing is left unlabelled; no setting is used that was not confirmed |
| **Recommendation pipeline** `recsys/pipeline.py`, `scoring.py`, `exploration.py`, `recsys_core/` | item cache, model registry | candidates, score, re-rank, exploration slots | feed | stale items, logged propensities | slate and logged probabilities agree |
| **Web API** `backend/app/api`, `crud` | users, preferences | sign up, log in, replace preferences | PostgreSQL | preferences are not in the cache key | — |
| **Daily batches** `scheduler/calculate_ranking.py`, `jobs/tasks/*` | ranking row per day, batch rows per user | ranking, fallback lists, report | job lock | select-then-insert without a unique key | one row per day, by the job lock |
| Cron slots, registry and pricing, stages 1–4 and numerics, other evaluation, simulator, frontend, migrations | — | — | — | — | not modelled, see §7 |

`PROJECT.json` lists every component with its status and every hazard at the line where it bites.

## 2. Modules

| Module | Role |
|---|---|
| `RunRegistry` | abstract specification: what `job_runs` promises (a row is opened when no other is open, closes once) |
| `JobRuns` | the protocol of `run_job`, statement by statement; implements `RunRegistry` |
| `Tally` | sums over a finite set of reservations as a recursive function, so it can be proved about |
| `SpendLedger` | reserve/settle/expire/reset over the ledger file, with what the provider really bills beside it |
| `NewsletterWorkflow` | the graph of one cluster, one action per node with its outgoing edge |
| `ClickProfile` | one user's click log and profile row under READ COMMITTED |
| `FeedCache` | extends `ClickProfile` with that user's feed requests, their worker threads and the result cache |
| `GenerationRun` | pool, LLM client, run stop, circuit breaker and kill switch of one run |
| `LedgerFile` | the file behind the ledger: loss, cut, scramble, replacement, and the operator's commands |
| `RecommendService` | request slots, ranking pool and shadow pool of the realtime feed, with their time limits |
| `BodyLife` | abstract specification: what ADR 0023 promises of the body of an article |
| `ArticleRows` | extractor, embedder and retention job on the rows of `news_raw`; implements `BodyLife` |
| `FeedCollection` | `ingest`'s RSS stage and `rss_retry`: one transaction over all feeds and what is recorded about it |
| `AutoLabeler` | the E0 labeler and what it knows after a restart |
| `JobRunsProofs`, `SpendLedgerProofs`, `NewsletterWorkflowProofs`, `GenerationRunProofs`, `FeedCacheProofs`, `RecommendServiceProofs`, `AutoLabelerProofs` | theorems about the module of that name; `FeedCacheProofs` has those of `ClickProfile` too, `SpendLedgerProofs` those of `LedgerFile` |
| `ArticleProofs` | theorems about `ArticleRows` and `FeedCollection` |
| `MC*` | values of structured constants and symmetry sets; nothing else |

`FeedCache` is `ClickProfile` composed with the feed. The remaining compositions are by
nondeterminism: `GenerationRun` leaves free what a reservation is answered (the answers are those of
`SpendLedger`) and what a cluster does between calls; `NewsletterWorkflow` leaves free whether a call
is refused, which is what `GenerationRun` decides; `ArticleRows` and `FeedCollection` take from `JobRuns`
that at most one run of a job holds its lock; `RecommendService` has one cache key, because `FeedCache`
has the keys.

In each module some definitions are preceded by defective variants (`TryLockPerRun` before
`TryLock`). They are not used by the specification: each is the mutation with which one property
is shown to notice a plausible mistake.

The names in `LedgerFile` and `FeedCollection` carry a prefix where another module has the same word (`FileSpec`, `FeedsSpec`, `ReserveCall`, `stage`):
their theorems share a module with those of `SpendLedger` and of `ArticleRows`, and with them the lemmas about sums, lines and collections.

### 2.1 JobRuns

`pc[e]` is the next statement of `run_job` for execution *e*; `session`, `holder` and `row` are the
server's view (connection, advisory lock, `job_runs` row), `work` and `saved` the stats in memory
and in the row, `alerts` and `exit` what the outside sees. Each SQL statement, `notify` call and
`checkpoint` is an action of its own, because the connection is autocommit. SIGTERM can arrive before
any of them, in the two `finally` blocks too (`Signal`: `JobTerminated` is raised in the main thread and nothing masks it), `Crash` is
SIGKILL or power loss, and `SessionLost` ends a session while its process lives. An execution writes at most one row,
so rows are indexed by execution. `cut` is a history variable: the executions that were killed, or interrupted where no handler
alerts; no guard reads it. Only `FailureIsTold` needs it, to say when an execution had the chance to tell.

### 2.2 SpendLedger

A reservation goes `none → open → settled`, a request `none → sent → answered or lost`. One action is
one operation under the file lock (nothing is visible in between; a process that dies with the lock
leaves a torn tail, which is a variable). `Claim` is what a reservation holds of a cap, `Booked` what
it was settled at, `Books` the tables of the folded file; bills exist beside the file and may exceed
their estimate by `Overrun`. `ErrorsAreFree` chooses how a failed request is booked (the ADR leaves
the provider's behaviour open).

### 2.3 NewsletterWorkflow

One action per node of the graph, including the conditional edge that follows it. `fields` of
`AgentState` that decide an edge are variables; texts are not. Verdicts of the deterministic gates and
answers of models are any that the parsers let through: for the cluster evaluator this includes
repeated indices (§6).

### 2.4 ClickProfile and FeedCache

`log` is the committed click log, `row` the committed profile row (which clicks are in the sums, how
many, and the latest), `holder` the transaction that has the row lock. A click transaction is: insert,
savepoint, `INSERT … ON CONFLICT DO NOTHING`, `SELECT … FOR UPDATE`, apply, update, commit; each
statement is an action, a failure inside the savepoint rolls back to it and the click stays. `rebuild_user`
locks, reads the log, compares, writes. Vector arithmetic is abstracted to the set of clicks in the sum:
sums are commutative, and the decay anchor is kept as the latest click.

`FeedCache` adds the requests: `_recommend` hands `_realtime` to a worker and waits; the worker reads
`last_click_id`, looks in the cache, reads the profile row, reads recent clicks *before the time the request
was taken*, and stores the list under the key it read. The waiting side may time out at any step; the worker
goes on and stores. One clock is assumed for `created_at` and the time of a request; the 24-hour
window and 20-click limit of the short-term state are left out, with at most two clicks they do not bind.

### 2.5 GenerationRun

`step[w]` is the next statement of `complete()` for thread *w*: the run-stop check, the guard's look at
the file, the kill switch's look at the same file, the second check inside `begin_attempt`, the
reservation, the request, and what follows from its outcome. `stop` is the latch, `failures` the breaker's
count. `phase`, `waiting` and `submitted` are `run_clusters_bounded`: the first `Limit` clusters go to the
pool at once, then batches of `min(need, workers)` until the target is met. The file can also appear from
another process at any time (`EngageElsewhere`).

### 2.6 LedgerFile

`lines` are the terminated lines of the file at the path, `dangling` an unterminated one behind them,
`mark` the watermark, `writer` whoever holds the lock between its append and its watermark, `stage` the next step of a call.
`adopting`, `regrown` and `forgotten` are history: an adopt that the watermark does not know yet, a cut ledger that was written to before it was adopted
(or cut once more after such an adopt), a lost watermark. `Diagnose` is
`_diagnose` in its order, over the folded lines; `InitFile`, `MoveAside`, `Repair` and `Adopt` are what the
error messages tell the operator to do. Harm is bounded by `MaxDamages`: the file is lost, cut back to any
line, loses the content of a line, the watermark is lost or unreadable, a process dies after its append or in
the middle of a line. The size of a ledger is kept only as far as the diagnosis uses it (a settlement is longer
than other lines). Only the total is a scope, every call has the same worst price, calls are numbered in the order
they reserve, and a file is cut or scrambled between two calls, not inside one.

### 2.7 RecommendService

`step` is where the handler and then the log writer of a request is; both need a slot of the same thread pool.
`ranking` is the inner pool that ranks, `job` the life of a shadow job, named after the request whose ranking submitted
it. A cached list carries the handle of its job, so several log writers can wait for one job. Time is abstracted: a
wait may end at any moment before its result is there, and a budget may run out at any moment. `DeferredScores._abandon` is two
actions, because the look at the flag and what follows are not one critical section (`WaitEnds`, `Abandon`).

### 2.8 BodyLife and ArticleRows

`ArticleRows` has the columns of `news_raw` that decide something, and three writers: `work[r]` is where the worker process
of a row is (`updated` means its transaction holds the row lock), `rhold` the rows a retention batch has locked,
`ehold` those of an embedding batch. A transaction is an action that takes locks and one that commits, so that the unique
index on the hash can make one worker wait for another's uncommitted row. The embedding job's UPDATEs lock row by row, where the model takes
the locks of a batch at once: retention skips locked rows (`SKIP LOCKED`) and a worker locks only its own, so no circle of waiting is lost, and a row
that is not locked yet is as it was before `EmbedUpdate`. The plan's breaker (`fails`, `tripped`) and the
time budget decide what is sent. `Targets`, `Purgeable` and `InScope` are the three SQL conditions that have to
agree. `BodyLife` knows only a stage, a text and whether the term is over; the refinement mapping reads them off
`purged`, `body` and the clock. Simplified: the status `dropped` stands for `empty` too; the filling of a missing hash is left
out (since migration `d48994e9d26e` every body has one); a crash of ingest takes its workers along.

### 2.9 FeedCollection

`tx[j]` is what the open transaction of a job has inserted, `stored` the committed table; `Seen` is their union. One action
reads one feed, with its savepoint: it is skipped (its host failed), fails, or its entries go through
`build_insert_rows` (`Candidates`) and `ON CONFLICT DO NOTHING` (`Insert`). `log` is what `job_runs` records about each run,
`sources` the runs that a retry has claimed. Left out: an unknown press id, whose first failure marks no host.

### 2.10 AutoLabeler

Variables are the files (`ended`, `answer`, `facts`, `rows`, `manifest`) and the position of one process in its plan.
After a restart only the files are left. A response is its number among the answers of its unit, so a unit asked twice
shows which answer a label was made of. A unit leaves several rows in several files, one append each, and the labels of a group are appended one by one
(`LabelDraft`), so a death can lie between any two of them. An append itself is atomic: a line torn in the middle is not modelled (§6). Concurrency is 1, the code has no lock against a second process, transport retries belong
to the wait, the soft cap may stop the extension at any item, and the three ways a response is useless are one.

## 3. Runs

State counts are distinct states. There is one run per question; a run checks several properties when
they are asked of the same instance.

| Run | Instance | States | Question |
|---|---|---|---|
| `jobruns_protocol` | 2 executions, 1 unit of work, sessions may die | 570,060 | under any crash, signal and lost session: are the rows a faithful registry, do bodies with a session exclude each other, is every failure told by the run itself or by the one that finds it, is the lock released? |
| `ledger_caps` | 2 attempts, 2 runs, 2 days, caps 3/2/2, overrun 1 | 37,373 | is every request booked once, at least at its bill, and do bills stay within every cap? |
| `ledger_file` | 2 calls of worst price 2 under 5, 2 files, 2 harms | 251,022 | is a harmed ledger used again only with all that was billed, and do the commands always bring it back into use? |
| `ledger_regrown` | 3 calls, 1 file, 1 harm | violation | §6 |
| `workflow_gates` | 4 articles, shipped retry limits | 243,126 | is anything unvetted published or anything refused sent again; is the reason true; does every execution end? |
| `profile_state` | 2 clicks, 1 rebuild | 14,860 | is the row the fold of the log, does a rebuild repair it, and do the transactions let each other finish? |
| `feed_lists` | 2 clicks, 2 requests | 2,254,167 | does a list, cached or not, count the newest click stored when its request came in; are logged features of their time? |
| `run_ends` | 2 threads, 3 clusters, limit 1, target 2, breaker at 2 | 516,261 | what may still be sent after a stop or in an outage; is every cluster accounted for; does the run end? |
| `service_threads` | 3 requests, 2 slots, 1 ranking and 1 shadow thread | 284,780 | is the backlog counted truly, and is every request served although inner threads hang? |
| `articles_life` | 2 articles to extract, 1 stored, 2 workers, 3 days, 1 fault | 202,514 | do bodies live as ADR 0023 promises while three jobs write them; is no article lost as a copy, no vector wrong, nothing put off for ever? |
| `feeds_retry` | 3 feeds of 2 sites, 2 addresses, 2 summaries, 2 runs, 2 crashes | 429,591 | is a summary kept once, a failure retried once, and job_runs true? |
| `labeler_resume` | 1 cluster, 2 drafts, 2 asks, 1 interruption | 632,116 | does a label fit the facts it counts, are settings confirmed, is every draft settled, wherever the process dies? |

Why the bounds are enough:

- **JobRuns.** Every hazard is between a holder and the execution that finds its row; a third execution would
  meet what the second meets. One unit of work tells a checkpoint from the final stats. The proofs remove the bound on executions.
- **SpendLedger.** Each cap refuses one pair of requests that the other two caps would let through
  (`MCSpendLedger`); a torn line is completed by the next append, so two writers meet it. The proofs remove the bound on
  attempts, the requests and the caps.
- **LedgerFile.** Two calls under a cap that lets both in with their worst price, two harms: one on the file and one on the
  watermark or on the command that repairs it. Two files: the first one and its replacement. (The safety part was also run with three harms, 4.0 million states,
  before it was proved: an adopt that dies before its watermark lies between two harms more.) The counterexample needs three calls, the third being
  the one that is granted wrongly.
- **NewsletterWorkflow.** Four articles are the fewest of which one can be taken out and three are left for a second
  round; the retry settings are those of `settings.py`. The proofs remove both.
- **ClickProfile / FeedCache.** Two clicks race on one row; the row they race on may be new or may exist already (the
  rebuild inserts it). Two requests: one that writes the cache, one that reads it.
- **GenerationRun.** Two threads: one that stops the run and one that was already past the first check. A limit of one, a target of two and
  three clusters make the fill phase happen, with a need smaller than the pool; two calls a cluster and one schema retry exercise each retry bound.
- **RecommendService.** Three requests in two slots: one waits for a slot while two hold them; one shadow thread and a backlog of two, so that one job
  hangs, one waits and one is refused; a breaker after two makes a pair of late jobs close it.
- **ArticleRows.** Two articles of one press that can get the same text, and a stored row that can hold it too: a copy of a committed original,
  a copy of an uncommitted one and a copy of a rolled-back one all occur. Two attempts, a breaker after one failure, a term of two days of four.
- **FeedCollection.** Two feeds share a site, so a failure skips the other; two entries, two addresses and two summaries give a copy within one feed, across
  feeds and across runs; two crashes hit the ingest run and the retry that follows it.
- **AutoLabeler.** One cluster, which run b labels in its first part, and two drafts, whose six questions and two labels are one group of the extension, so that a
  death between the two labels happens; one of the drafts has a conversion; one interruption, because every restart begins from the files alone.

The proofs of §5 remove these bounds from every safety property of a passing run; for liveness they remain.

Symmetry is used over clicks and requests (`feed_lists`) and over addresses and summaries (`feeds_retry`), in runs without
liveness properties; no action or property tells members of these sets apart.

`CHECK_DEADLOCK FALSE` is set for `JobRuns`, `SpendLedger`, `LedgerFile`, `RecommendService`, `ArticleRows`, `FeedCollection` and
`AutoLabeler`: their executions, calls, requests, days, runs and units come to an end (or to the named bound), and then there is nothing left to do.
The other modules end in an explicit stuttering disjunct, so a deadlock would be reported.

## 4. Fairness

- `JobRuns.FairSpec`: weak fairness on the steps of a process that is alive and on the server's clean-up of the
  session of a dead one. A process is not obliged to die or to receive a signal. Bodies are assumed to end.
- `NewsletterWorkflow.FairSpec`: weak fairness of `Next`: one thread runs the graph, and each node returns (model
  calls have a timeout).
- `ClickProfile.FairSpec`: weak fairness per transaction. PostgreSQL wakes the waiters of a row lock in turn; with a
  lock that is always released weak fairness suffices for the small number of transactions.
- `GenerationRun.FairSpec`: weak fairness per thread and of the main thread's `NextBatch`: `concurrent.futures`
  threads are operating-system threads, and each request and sleep is bounded by a timeout.
- `LedgerFile.FileSpec`: weak fairness of the writer's watermark and the operator's commands together: somebody follows the messages until the
  diagnosis is clean. Harm is bounded; no call has to happen.
- `RecommendService.FairSpec`: weak fairness of each handler or log writer and of the future callbacks. Nothing is assumed of the
  ranking and shadow threads: the point is that they may hang.
- `ArticleRows.FairSpec`: supercronic starts ingest and retention again and again and a process that runs goes on. A day does not have to pass and no row has
  to be embedded; an embedding transaction that holds rows commits. Faults are bounded.
- `AutoLabeler.FairSpec`: weak fairness of the process, and the operator starts it again after an interruption.

No fairness is assumed of crashes, provider answers, other processes or operators beyond this.

## 5. Proofs

Each theorem holds for every value of the module's constants that its named assumption allows; the runs of §3 check the same properties on one instance.

| Theorems | Statement | Argument |
|---|---|---|
| `JobRunsProofs!TypeCorrect`, `OneOpenRowHolds`, `ClosedRowsAreFinalHolds`, `RegistryImplemented` | `Spec ⇒ □TypeOK`, `□OneOpenRow`, `□[…]`, `RunRegistry!Spec` | a row is opened only by a lock holder that has just closed every open one; sessions may die, because an execution that lost the lock lost with it the session it writes through |
| `JobRunsProofs!BodiesExclusiveHolds` | `Spec ⇒ □BodiesExclusive` | a body whose session lives is in `holder`, and `holder` has at most one member |
| `JobRunsProofs!OneBodyHolds` | `¬SessionsDie ⇒ (Spec ⇒ □OneBody)` | then every running body's session lives: the unstated condition of the comment in `runtime.py` |
| `JobRunsProofs!ExitZeroIsRecordedHolds`, `FailureIsToldHolds` | the two properties, with sessions and processes dying | `RecordInv`: what an execution has recorded and told of itself at each statement; `FoundInv`: each abandoned row has a finder, and a finder alerts before its body |
| `SpendLedgerProofs!InductiveHolds` and its corollaries | caps, books, monotone settlements for every `N`, `Calls` and cap | below |
| `NewsletterWorkflowProofs!InductiveHolds` and its corollaries | `TypeOK`, `StepsWithinLimit`, `PublishedIsVetted`, `NothingIsSentAgain`, `FailureReasonIsTrue`, `ToneKeepsFacts` for every cluster and setting | below |
| `GenerationRunProofs!TypeCorrect`, `StopIsFinalHolds`, `OutageIsCutHolds`, `GuardStopsNewCallsHolds`, `EveryClusterIsAccountedHolds` | the safety properties of `run_ends` for every pool, limit, target and threshold | below |
| `FeedCacheProofs!ProfileIsTheLogHolds`, `RebuildRepairsHolds` | the two properties of `profile_state` for every set of clicks and rebuilds | below |
| `FeedCacheProofs!NewestClickCountsHolds`, `FeaturesAreOfTheirTimeHolds` | the two properties of `feed_lists` for every set of clicks and requests (`FeedSpec`) | below |
| `RecommendServiceProofs!PendingIsTrueHolds`, `LateJobsCountHolds` | the two safety properties of `service_threads` for every number of requests and threads and every limit | below |
| `SpendLedgerProofs!FileInductive`, `LossIsCarriedHolds` | `FileSpec ⇒ LossIsCarried` for every number of calls, files and harms, every price and cap | below |
| `AutoLabelerProofs!LabelerInductive`, `CoverageCountsItsFacts`, `SettingsStayConfirmed` | the safety properties of `labeler_resume` for every set of clusters, drafts, relabel list and conversions, every number of asks and interruptions | below |
| `AutoLabelerProofs!EndedIsFinal` | what has an end row keeps its status, its answer and the facts it was asked about, over every restart | every step that writes about a unit is about `Current`, which has no end row |
| `ArticleProofs!CollectionInductive`, `OneRowPerSummaryHolds`, `RetriedOnceHolds`, `StatsAreTrueHolds` | the three properties of `feeds_retry` for every set of feeds, sites, addresses and summaries, every number of runs, entries and crashes | below |
| `ArticleProofs!RowsInductive`, `OneOriginalHolds`, `VectorIsOfItsBodyHolds` | the safety properties of `articles_life` for every set of rows, texts and workers, every term, batch size and number of faults | below |
| `ArticleProofs!BodyLifeImplemented` | `Spec ⇒ LifeInit ∧ □[LifeNext]` of `BodyLife`, under the refinement mapping | every action is one of `BodyLife`'s or leaves stage, text and term alone |

Each inductive invariant was first checked by TLC, as an invariant of the instance of the component's run.

**SpendLedger.** The caps do not follow from themselves: `BilledWithinCaps` speaks of the provider,
the guard only of the file. `Inductive` adds what connects them. `Covered(l)`: a request that was sent has
an open reservation of its worst price or a settled one of at least its bill. `Fresh`: an attempt that has not
been granted has no line in the file, so a torn tail cannot close a reservation before it exists. `Honest(e)`:
a line in flight carries an amount at least the bill. `Locked`, `Standing`, `Unheard`, `OfNobody` describe
the lock and the tail. With these, `BilledIn ≤ ClaimedIn ≤ SettledIn + OpenIn ≤ cap` for each scope,
the sums moved by lemmas about `Total`: it is monotone and changes by the difference at the one place where a list changes. They are
proved by taking a least counterexample, since an induction scheme over an arbitrary predicate is out of the prover's reach.

**LedgerFile.** `LossIsCarried` speaks of bills, which neither the file nor the watermark knows. `Need` is what they must account for: the worst price
of a call that may still settle, its bill once it cannot. `MarkInv`, `PendingInv` and `LedgerInv` say that the watermark, the one that a writer is about to
write, and the file do so, as long as nothing named in the property has happened. For the file this is not enough of the file as it is, because it may be cut the next moment: `GoodPrefixes` says it of *every prefix
that the diagnosis would not find too short*. A prefix that is shorter than the watermark says is found and must be adopted, and `Missing` then
carries just what the watermark has more. The lemmas on sizes (`Size` grows with every line, a settlement is longer than other lines) show that the
prefixes an append adds are the old ones and the new file. The attempt to prove this corrected the model twice. `LossIsCarried` was false for three harms: a cut, an adopt that dies
before its watermark, and a second cut behind the adopted line leave a ledger that is long enough but lacks the first loss; the case is the same as the other exceptions and now belongs to `regrown`. And
a process could give up a settlement whose line it had just written; `GiveUp` and `Die` now leave the process alone that is in its append (its death is `CrashAfterAppend`).

**NewsletterWorkflow.** The invariant is a map of the graph. `Position` gives for each node a countdown `Left` of
supersteps, from the retry counters, with `steps + Left ≤ MaxSupersteps`: this is what `max_supersteps()` claims to
compute. `Calls`, `Evaluated`, `Gates` and `Undecided` say for each node which calls have been made, which
article set the last verdict is about, and that no outcome has been written.

**GenerationRun.** `OutageIsCut` bounds the failures in a row by the threshold and the number of threads, and no thread knows of another. The
argument is an account: from the threshold on, each failure makes one thread `Harmless` (on its way to stop the run, or told that it has stopped and not
admitted to a request before), and harmless threads stay so. `OutageInv` says that there are at most `Threshold - 1` failures more than harmless threads.
`LateInv` is the same idea for one thread: whoever sent a request after the stop is past every check that could admit it to a second. `WarnedInv`
keeps a call that began after the guard's file appeared before the check that ends it. `PoolInv` says where the clusters are; its
last line, that no more clusters are `Hopeful` than newsletters are wanted once the fill phase began, is why the target is not overshot.

**ClickProfile, FeedCache.** `LockInv`: a transaction that is going to write the row (`Owns`) holds it, so there is one at most. A click transaction then has
the row as it is stored, plus its own click (`ClickAt`); a rebuild that holds the row has read every stored click except those stored without an update
(`RebuildAt`: `Events \ seen ⊆ excused`). Hence `LogInv`: the row is the fold of the log without the excused clicks. `RebuildRepairs` needs both: a
rebuild that wrote leaves none of what it saw excused. For the feed, `Before(k)` is what a list under the key *k* must have seen: *k*, and what was stored before any
request that came in without it. The set can only shrink (`Grows`: a later request comes in with *k*), so a list stored once stays good enough
(`CacheAt`), however late its worker was, and the newest click of the request that finds it is in it.

**RecommendService.** `QueueInv` says that the two queues hold just the rankings and jobs that wait, each once; without it a job could be started twice, and
`pending` would have no meaning. `PendingInv`: `pending` counts the jobs that live and the ended ones whose booking is still owed. `CountInv` adds to the counts that
a late job has those on their way: each thread that is between its look at the flag and its count (`GivingUp`) is one of the company that saw it late.

**ArticleRows.** `OneOriginal` is broken by the commit of a text that another worker held too, several steps after the unique index was asked. `WorkAt` keeps what the
index promised: a row whose update claims a text as the original's is the only one to do so, and no committed original has the text; a copy's original is there. `RowAt` says what the
three jobs rely on about each other: an article that may still be extracted is empty and not locked by the retention job, so a purged body cannot come back; only a closed row has a text, and its hash,
its vector and the text the embedding job read are that text's. `JobInv` has the term of the rows in scope of a purge, which the refinement needs: the commit of `RetentionCommit` is a
`Purge` of `BodyLife` only if the rows it locked long before were due, and the days do not run back.

**FeedCollection.** `OneRowPerSummary` speaks of the committed table, and a commit can break it only through what the
transaction inserted before. So `RowsOnce` says it also of what an open transaction sees, `OnlyNew` that such a
transaction holds no row of an address that is stored, so that the commit makes the table exactly what it saw, and
`Exclusive` that the lock keeps the other job from committing meanwhile. `InsertKeeps` is the lemma about one feed: at most one
of its entries keeps a summary, and that summary is nobody's yet. `Accounted` carries what was read into the transaction and into the
table, `Once` keeps the source recorded before the first request.

**AutoLabeler.** A label counts the facts a coverage question listed, and several groups lie between the question and the label, with restarts in each of them.
It is true because the facts do not change in between, and they do not because of the order of the plan: `PlanShape` says that a group with anything but a cluster of run a comes after the
groups of all of those. With `GroupsBehindEnded` this gives `ClustersFirst`: nothing is asked about a draft before every cluster of run a has ended, and an ended unit is never worked on again, so the facts are
final by then. `EndedCoverageInv` keeps what an end row says of them, `RowsInv` what a label does. `PlanShape` rests on `OrderIsComplete`: ranks in a finite set of numbers are distinct (`RankGrows`), so by the pigeonhole
principle each place of the order is taken. `FlightInv` is the pre-flight alone: the answers it has are to the settings it has.

**Assumptions.** Only the named assumptions of the modules on their constants: naturals, finiteness, positive retry
limits (`MaxWorkAssumption`, `RunAssumption`, `FeedsAssumption`, `LabelerAssumption`, `FileAssumption`, …). TLC evaluates each in every run.

**Only model-checked.** Liveness (`LockIsReleased`, `Terminates`, `EveryClickIsAnswered`, `RunEnds`, `OperatorCanResume`,
`EveryRequestIsServed`, `BacklogDrains`, `EveryArticleIsClosed`, `EveryDraftIsSettled`, and `TermIsKept`, the liveness part of
`ImplementsBodyLife`): the prover has no support for fairness with `ENABLED`. Every safety property of a passing run is
stated by a theorem; of `ImplementsBodyLife` the theorem has the safety part. The violation of `SpendingIsProven` is TLC's. No proof says what a
recursive definition computes for every input beyond the sums of `Tally`.

## 6. What the model shows the code does

**Against its documentation** (run `ledger_regrown`, which must fail; `PROJECT.json` quotes the lines). The header of the ledger says that a
booked amount only shrinks by `reset_day` and that a ledger which cannot prove what was spent refuses the call. The watermark remembers the sum of open
reservations, but `_diagnose` (`spend_ledger.py:726`) compares only the settled total and the size. When the line of an open
reservation was lost in a cut and settlements of calls in flight have made the file long enough again, or when the line became unreadable and
`repair` acknowledged it, the ledger counts as sound: `adopt` sees no problem, nothing is carried over, and the money of a request that
was sent is free to be spent again. `LossIsCarried` (run `ledger_file`, and a theorem) says what does hold: the loss is carried unless the watermark was lost, a line was
scrambled, or the cut file was written to, or cut once more, before the watermark knew of its adopt; also when the file is lost, made anew, cut and adopted several times over.

**Met while modelling, without a run of their own** (there is one property per question, and these are one-step consequences of the code):

- *A lost alert.* A run that closes a dead run's row alerts in its place, but the closing commits first; if the finder dies before
  `notify`, nobody looks again; if its own INSERT raises, its alert names that failure and not the run it found. So too a run whose result
  is recorded and that dies before its alert: its row says `failed`, and a closed row alerts nobody (`FailureIsTold` states what does hold).
- *A lost lock session.* When the server ends the session that holds the lock, the next run starts beside the first body, which does not watch it. The rows stay
  consistent (`BodiesExclusive`, `OneOpenRow`); `OneBodyHolds` states the missing condition.
- *A mismatch that is none.* `rebuild_user_state --check` for a user without a state row has nothing to lock and reports a first click that commits meanwhile.
- *One article counted more than once.* Repeated indices in a sub-group of the cluster evaluator pass both "at least 2 articles" checks.
- *A list that misses its own click.* The request's time is taken before the key is read; a click that commits in between gives the key but is not in the
  short-term vector, and the list is served under that key until it expires.
- *A click that does not change the key.* `last_click_id` is the newest by time of creation: one created earlier and committed later leaves it as it is
  (`sql_repository.py:70`; why `NewestClickCounts` speaks of the newest click by time).
- *A reason that names the wrong stage.* Two empty drafts end a cluster as `judge_unavailable` although the judge was never asked
  (`nodes.py:633`; why `FailureReasonIsTrue` says nothing of that reason).
- *A kill switch file that is the guard's own.* A thread that has passed the guard's look at the file may read it as an operator's
  (`adapters.py:95`; why `GuardStopsNewCalls` speaks of calls that begin later).
- *A late shadow job that counts more than once* toward the breaker, when several log writers see it late at once (`shadow.py:83`; `LateJobsCount` is the exact bound).
- *A torn line that stops the labeler.* `_read_jsonl` (`auto_labeler.py:84`) parses every line, so one that a power loss tore while it was appended makes
  each later start raise until it is mended by hand; the spending ledger, for comparison, diagnoses such a line and has a command for it (`repair`).
- *A link listed twice in one summary feed* with two texts: the insert ignores the second row for its address, but its text counts as taken in the batch
  (`rss_collector.py:136`), so a third entry with that text is closed as a duplicate although no row has the text: the loss that the docstring describes for addresses
  already stored, and which the function prevents only for those. `OneRowPerSummary` says "at most one" for this reason.

## 7. Not modelled

- *Numerics and wording*: embeddings, clustering, scoring, MMR, feature values, faithfulness and tone rules, HTML cleaning, prompts. Their verdicts
  are nondeterministic where a module needs them.
- *Pure I/O*: RSS and HTTP fetching, Slack, the browser.
- *One process, one transaction*: sign-up, log-in, onboarding lists, ranking and fallback batches apart from the lock that serialises them.
- *Offline work*: evaluation other than the labeler, simulator, retired LightGBM trainer, Colab and migration scripts, archived Airflow DAGs. It is by far the larger part of the
  repository's lines, and it is experiments over frozen files: one process each, no state that outlives a step or is shared. This is why the share of lines the map covers is small
  although every subsystem that keeps state has a module.
- *Inside the modelled parts*: argument parsing and `JOBS_DISABLED`, warnings of successful runs, rate limiting, `cluster_history`, impression rows, the batch mode of
  the feed, fatigue, removal of the kill switch file by an operator, the fallback for file systems without hard links, the inner steps of the feed's fallback chain, the policy
  briefing's collector, the labeler's separate commands (`preflight`, `status`) and its purge. New preferences of a user do not change the key of the result cache; the code accepts an old list for its time to live.

## 8. Plan

Order: what stops money and duplicate work first, then what users see, then the data behind it. The modelling part of the plan is done, and the runs ask the questions the project has;
what follows would replace a weaker property by a stronger one before it adds another.

1. *Done*: all models of §2 with their runs; the proofs of §5, which state every safety property of a passing run.
2. *Next, proofs*: the abstract specifications of item 4, with their refinements.
3. *Models left*: `ExplorationSlate` (slots and propensities against enumeration over small slates), the preferences of a user in `FeedCache`.
4. *Abstract specifications worth stating*: a spend account (a balance that only grows, capped) implemented by `SpendLedger`; a profile that is a
   fold of the log, implemented by `ClickProfile` when no update fails.
