----------------------------- MODULE ArticleRows -----------------------------
(***************************************************************************)
(* The rows of news_raw after they were collected, and the three jobs that *)
(* write them at the same time: the body extractor of ingest               *)
(* (ai_workspace/crawler/content_extractor/extractor.py), the embedding    *)
(* job (pipeline/stages.py, jobs/tasks/embed.py) and the retention job     *)
(* (jobs/tasks/retention.py).  Each job runs under its own advisory lock   *)
(* (JobRuns), so there is at most one run of each.  A transaction is a     *)
(* step that takes the row locks and a later step that commits.            *)
(*                                                                         *)
(* How rows get in is FeedCollection; a crash ends a job together with its *)
(* worker processes.                                                       *)
(***************************************************************************)
EXTENDS Integers, FiniteSets, FiniteSetsExt

CONSTANTS
  Rows,          \* raw_news_id, numbers in the order of insertion
  Press,         \* [Rows -> press]
  Exempt,        \* rows of a source that may be redistributed
  Pending,       \* rows of 'direct' feeds: no body yet
  Texts,         \* bodies
  Stored,        \* [Rows \ Pending -> Texts]: rows that came with their body
  NoText,        \* SQL NULL
  Workers,       \* PARALLEL_WORKERS
  MaxAttempts,   \* MAX_EXTRACT_ATTEMPTS
  Breaker,       \* EXTRACT_PRESS_BREAKER_FAILURES
  Term, MinTerm, \* BODY_RETENTION_DAYS and DRY_RUN_MIN_DAYS, in units of age
  Crawled,       \* [Rows -> raw_news_crawled_at]
  LastDay,       \* bound: days the clock runs
  PurgeBatch,    \* --batch-size of retention
  EmbedBatch,    \* batch size of embed
  MaxFaults      \* bound: crashes, failed commits, failed batches

Blank == "blank"   \* the body '' of a row that has none yet, or of which nothing was kept

ASSUME RowsAssumption ==
  /\ Rows \subseteq Nat /\ IsFiniteSet(Rows) /\ DOMAIN Press = Rows /\ Crawled \in [Rows -> Nat]
  /\ Exempt \subseteq Rows /\ Pending \subseteq Rows /\ Stored \in [Rows \ Pending -> Texts]
  /\ \A r, s \in Rows \ Pending : Stored[r] = Stored[s] => r = s
  /\ NoText \notin Texts /\ Blank \notin Texts /\ NoText # Blank
  /\ {Workers, MaxAttempts, Term, MinTerm, PurgeBatch, EmbedBatch} \subseteq Nat \ {0}
  /\ MinTerm <= Term /\ LastDay \in Nat /\ Breaker \in Nat /\ MaxFaults \in Nat

VARIABLES
  status, attempts, body, sha, purged,  \* raw_news_extract_status, _attempts, _content, _sha256, _purged_at
  vector,    \* the text embedding_result was computed from
  day,       \* now, in days
  xrun,      \* an extraction runs: "no", "fresh" (nothing sent yet), "sending", "over" (time budget)
  queue,     \* DispatchPlan._queue: taken in the order of the ids
  work,      \* where the worker of a row is
  draft,     \* what it is about to write, and what it then reports
  fails, tripped,   \* consecutive_failures and tripped of the plan, per press
  rrun,      \* the retention job: "no", "purging", "counting"
  cutoff,    \* rows whose term was over when it started
  batches,   \* max_batches - stats["batches"]
  rhold,     \* rows its open transaction has locked
  eread,     \* embed: the text it read of each row it still has to do
  ehold,     \* rows its open transaction has written
  faults

rowVars == <<status, attempts, body, sha, purged>>
extractVars == <<xrun, queue, work, draft, fails, tripped>>
retentionVars == <<rrun, cutoff, batches, rhold>>
embedVars == <<eread, ehold>>
vars == <<rowVars, vector, day, extractVars, retentionVars, embedVars, faults>>

\* "dropped" stands for 'dropped' and 'empty' alike: closed for good, without a body
Statuses == {"null", "ok", "dropped", "duplicate", "fetch_failed", "error"}
Retryable == {"fetch_failed", "error"}
NoDraft == [status |-> "null", body |-> NoText, site |-> FALSE]
NoRead == [r \in Rows |-> NoText]

HasBody(r) == body[r] \in Texts
Presses == {Press[r] : r \in Rows}
\* raw_news_crawled_at <= now - days, at most one definition of "now" per statement
Older(r, days) == day >= Crawled[r] + days
\* the rows the extractor may still choose, and the retention job must leave
Awaiting(r) ==
  status[r] = "null" \/ (status[r] \in Retryable /\ attempts[r] < MaxAttempts)
\* a row some open transaction of a job other than this one has locked
WorkerHolds(r) == work[r] = "updated"

Init ==
  /\ body = [r \in Rows |-> IF r \in Pending THEN Blank ELSE Stored[r]]
  /\ status = [r \in Rows |-> IF r \in Pending THEN "null" ELSE "ok"]
  /\ sha = [r \in Rows |-> IF r \in Pending THEN NoText ELSE body[r]]
  /\ attempts = [r \in Rows |-> 0] /\ purged = [r \in Rows |-> FALSE]
  /\ vector = [r \in Rows |-> IF r \in Pending THEN NoText ELSE body[r]] /\ day = 0
  /\ xrun = "no" /\ queue = {} /\ work = [r \in Rows |-> "idle"]
  /\ draft = [r \in Rows |-> NoDraft]
  /\ fails = [p \in Presses |-> 0] /\ tripped = {}
  /\ rrun = "no" /\ cutoff = {} /\ batches = 0 /\ rhold = {}
  /\ eread = NoRead /\ ehold = {} /\ faults = 0

NextDay ==
  /\ day < LastDay /\ day' = day + 1
  /\ UNCHANGED <<rowVars, vector, extractVars, retentionVars, embedVars, faults>>

Fault == faults < MaxFaults /\ faults' = faults + 1
-------------------------------------------------------------------------------
(* The extractor: the parent process *)

Targets == {r \in Rows : Awaiting(r) /\ ~purged[r] /\ ~Older(r, Term)}

\* the target query of extract_parallel_with_stats, ordered by raw_news_id
ExtractStart ==
  /\ xrun = "no" /\ Targets # {}
  /\ xrun' = "fresh" /\ queue' = Targets
  /\ fails' = [p \in Presses |-> 0] /\ tripped' = {}
  /\ UNCHANGED <<rowVars, vector, day, work, draft, retentionVars, embedVars, faults>>

InFlight == {r \in Rows : work[r] # "idle"}

(* next_article: what the breaker or the budget defers is not written.     *)
Dispatch ==
  /\ xrun # "no" /\ queue # {} /\ Cardinality(InFlight) < Workers
  /\ LET r == Min(queue)
         deferred == xrun = "over" \/ Press[r] \in tripped
     IN /\ queue' = queue \ {r}
        /\ work' = IF deferred THEN work ELSE [work EXCEPT ![r] = "fetching"]
        /\ xrun' = IF xrun = "fresh" /\ ~deferred THEN "sending" ELSE xrun
  /\ UNCHANGED <<rowVars, vector, day, draft, fails, tripped, retentionVars, embedVars, faults>>

\* ingest leaves the extraction EXTRACT_MIN_BUDGET_S however late it starts: one article is sent
BudgetEnds ==
  /\ xrun = "sending" /\ xrun' = "over"
  /\ UNCHANGED <<rowVars, vector, day, queue, work, draft, fails, tripped, retentionVars, embedVars, faults>>

(* DispatchPlan.record: a failure of the site counts, success resets, the  *)
(* failure of one article and an exception do neither.                     *)
Record(r) ==
  LET p == Press[r] IN
  IF draft[r].status = "fetch_failed" /\ draft[r].site
  THEN /\ fails' = [fails EXCEPT ![p] = @ + 1]
       /\ tripped' = IF Breaker > 0 /\ fails[p] + 1 >= Breaker THEN tripped \cup {p} ELSE tripped
  ELSE /\ fails' = IF draft[r].status \in Retryable THEN fails ELSE [fails EXCEPT ![p] = 0]
       /\ UNCHANGED tripped

Collect(r) ==
  /\ work[r] = "done" /\ Record(r)
  /\ work' = [work EXCEPT ![r] = "idle"] /\ draft' = [draft EXCEPT ![r] = NoDraft]
  /\ UNCHANGED <<rowVars, vector, day, xrun, queue, retentionVars, embedVars, faults>>

ExtractStops ==
  /\ xrun' = "no" /\ queue' = {}
  /\ fails' = [p \in Presses |-> 0] /\ tripped' = {}
  /\ work' = [r \in Rows |-> "idle"] /\ draft' = [r \in Rows |-> NoDraft]
  /\ UNCHANGED <<rowVars, vector, day, retentionVars, embedVars>>

ExtractEnd == xrun # "no" /\ queue = {} /\ InFlight = {} /\ ExtractStops /\ UNCHANGED faults
ExtractCrash == xrun # "no" /\ Fault /\ ExtractStops
-------------------------------------------------------------------------------
(* The extractor: process_single_article in a worker process *)

WorkerStep(r, next, d) ==
  /\ work' = [work EXCEPT ![r] = next] /\ draft' = [draft EXCEPT ![r] = d]
  /\ UNCHANGED <<vector, day, xrun, queue, fails, tripped, retentionVars, embedVars>>

Unlocked(r) == r \notin rhold \cup ehold

(* The page was not received, or nothing of it is kept: the row is updated *)
(* with an empty body.                                                     *)
UpdateEmpty(r) ==
  /\ work[r] = "fetching" /\ Unlocked(r)
  /\ \E s \in {"fetch_failed", "dropped"}, site \in BOOLEAN :
       /\ site => s = "fetch_failed"
       /\ WorkerStep(r, "updated", [status |-> s, body |-> Blank, site |-> site])
  /\ UNCHANGED <<rowVars, faults>>

\* Mutant: an uncommitted row with the same hash counts as the original.
UpdateOkEarly(r, t) ==
  /\ work[r] = "fetching" /\ Unlocked(r)
  /\ IF \E s \in Rows \ {r} : (status[s] = "ok" /\ sha[s] = t) \/ (WorkerHolds(s) /\ draft[s].body = t)
     THEN WorkerStep(r, "copying", [status |-> "duplicate", body |-> t, site |-> FALSE])
     ELSE WorkerStep(r, "updated", [status |-> "ok", body |-> t, site |-> FALSE])
  /\ UNCHANGED <<rowVars, faults>>

(* _record_ok_or_duplicate: uq_news_raw_content_sha256_ok waits for an     *)
(* uncommitted row with the same hash and refuses a committed one.         *)
UpdateOk(r, t) ==
  /\ work[r] = "fetching" /\ Unlocked(r)
  /\ \A s \in Rows : ~(WorkerHolds(s) /\ draft[s].status = "ok" /\ draft[s].body = t)
  /\ IF \E s \in Rows \ {r} : status[s] = "ok" /\ sha[s] = t
     THEN WorkerStep(r, "copying", [status |-> "duplicate", body |-> t, site |-> FALSE])
     ELSE WorkerStep(r, "updated", [status |-> "ok", body |-> t, site |-> FALSE])
  /\ UNCHANGED <<rowVars, faults>>

UpdateDuplicate(r) ==
  /\ work[r] = "copying" /\ Unlocked(r)
  /\ WorkerStep(r, "updated", draft[r])
  /\ UNCHANGED <<rowVars, faults>>

\* Mutant: an article that was not received may be tried for ever.
WriteUncounted(r, d) ==
  /\ status' = [status EXCEPT ![r] = d.status]
  /\ body' = [body EXCEPT ![r] = IF d.status = "ok" THEN d.body ELSE Blank]
  /\ sha' = [sha EXCEPT ![r] = IF d.status \in {"ok", "duplicate"} THEN d.body ELSE NoText]
  /\ UNCHANGED <<attempts, purged>>

\* _record_extraction, committed
Write(r, d) ==
  /\ status' = [status EXCEPT ![r] = d.status]
  /\ body' = [body EXCEPT ![r] = IF d.status = "ok" THEN d.body ELSE Blank]
  /\ sha' = [sha EXCEPT ![r] = IF d.status \in {"ok", "duplicate"} THEN d.body ELSE NoText]
  /\ attempts' = [attempts EXCEPT ![r] = @ + 1]
  /\ UNCHANGED purged

Commit(r) ==
  /\ work[r] = "updated" /\ Write(r, draft[r])
  /\ WorkerStep(r, "done", draft[r])
  /\ UNCHANGED faults

\* an exception anywhere: rollback, and the row is to be closed as 'error'
Raise(r) ==
  /\ work[r] \in {"fetching", "copying", "updated"} /\ Fault
  /\ WorkerStep(r, "failing", [status |-> "error", body |-> Blank, site |-> FALSE])
  /\ UNCHANGED rowVars

\* update and commit: nobody else writes this row, so it does not wait long
RecordError(r) ==
  /\ work[r] = "failing" /\ Unlocked(r)
  /\ Write(r, draft[r]) /\ WorkerStep(r, "done", draft[r]) /\ UNCHANGED faults

\* what raised was the database: the record fails too, and the row stays as it was
RecordErrorFails(r) ==
  /\ work[r] = "failing"
  /\ WorkerStep(r, "done", draft[r]) /\ UNCHANGED <<rowVars, faults>>
-------------------------------------------------------------------------------
(* The retention job *)

\* validate_retention_days, and check_args for a run that writes
ValidDays(days, dry) == days = Term \/ (dry /\ days \in MinTerm..Term)

\* Mutant: whatever is old is purged, also what the extractor may have in hand.
PurgeableWhole(r) == r \notin Exempt
Purgeable(r) == r \notin Exempt /\ (HasBody(r) \/ ~Awaiting(r))
InScope(r) == r \in cutoff /\ body[r] # NoText

(* The cutoff is fixed and the rows are counted; a dry run ends there.     *)
RetentionStart(days, dry) ==
  /\ rrun = "no" /\ ValidDays(days, dry)
  /\ LET old == {r \in Rows : Older(r, days) /\ body[r] # NoText}
         n == Cardinality({r \in old : Purgeable(r)})
     IN /\ ~dry /\ n > 0
        /\ rrun' = "purging" /\ cutoff' = {r \in Rows : Older(r, days)}
        /\ batches' = ((n + PurgeBatch - 1) \div PurgeBatch) + 2
  /\ UNCHANGED <<rowVars, vector, day, extractVars, rhold, embedVars, faults>>

(* The batch query: in the order of the ids, FOR UPDATE SKIP LOCKED.       *)
RetentionLock ==
  /\ rrun = "purging" /\ rhold = {} /\ batches > 0
  /\ LET free == {r \in Rows : InScope(r) /\ Purgeable(r) /\ ~WorkerHolds(r) /\ r \notin ehold}
     IN IF free = {}
        THEN rrun' = "counting" /\ UNCHANGED rhold
        ELSE /\ \E B \in SUBSET free :
                  /\ Cardinality(B) = Min({PurgeBatch, Cardinality(free)})
                  /\ \A r \in B, s \in free \ B : r < s
                  /\ rhold' = B
             /\ UNCHANGED rrun
  /\ UNCHANGED <<rowVars, vector, day, extractVars, cutoff, batches, embedVars, faults>>

\* Mutant: the hash goes with the body.
RetentionCommitForgets ==
  /\ rrun = "purging" /\ rhold # {}
  /\ body' = [r \in Rows |-> IF r \in rhold THEN NoText ELSE body[r]]
  /\ sha' = [r \in Rows |-> IF r \in rhold THEN NoText ELSE sha[r]]
  /\ purged' = [r \in Rows |-> purged[r] \/ r \in rhold]
  /\ rhold' = {} /\ batches' = batches - 1
  /\ rrun' = IF batches = 1 THEN "counting" ELSE rrun
  /\ UNCHANGED <<status, attempts, vector, day, extractVars, cutoff, embedVars, faults>>

(* The hash and the embedding stay.  Since migration d48994e9d26e a body    *)
(* always has a hash, so the batch never has to fill one in.               *)
RetentionCommit ==
  /\ rrun = "purging" /\ rhold # {}
  /\ body' = [r \in Rows |-> IF r \in rhold THEN NoText ELSE body[r]]
  /\ purged' = [r \in Rows |-> purged[r] \/ r \in rhold]
  /\ rhold' = {} /\ batches' = batches - 1
  /\ rrun' = IF batches = 1 THEN "counting" ELSE rrun
  /\ UNCHANGED <<status, attempts, sha, vector, day, extractVars, cutoff, embedVars, faults>>

RetentionStops ==
  /\ rrun' = "no" /\ cutoff' = {} /\ batches' = 0 /\ rhold' = {}
  /\ UNCHANGED <<rowVars, vector, day, extractVars, embedVars>>

\* the remaining bodies are counted for the warning, then the job is done
RetentionEnd == rrun = "counting" /\ RetentionStops /\ UNCHANGED faults
RetentionCrash == rrun # "no" /\ Fault /\ RetentionStops
-------------------------------------------------------------------------------
(* The embedding job: embed_pending_articles *)

EmbedStart ==
  /\ eread = NoRead
  /\ LET todo == {r \in Rows : vector[r] = NoText /\ HasBody(r)} IN
     /\ todo # {}
     /\ eread' = [r \in Rows |-> IF r \in todo THEN body[r] ELSE NoText]
  /\ UNCHANGED <<rowVars, vector, day, extractVars, retentionVars, ehold, faults>>

\* a batch was encoded and its rows are updated; the order is by length, so any batch may be next
EmbedUpdate(B) ==
  /\ ehold = {} /\ B # {} /\ Cardinality(B) <= EmbedBatch
  /\ \A r \in B : eread[r] # NoText /\ r \notin rhold /\ ~WorkerHolds(r)
  /\ ehold' = B
  /\ UNCHANGED <<rowVars, vector, day, extractVars, retentionVars, eread, faults>>

Skip(B) == eread' = [r \in Rows |-> IF r \in B THEN NoText ELSE eread[r]] /\ ehold' = {}

EmbedCommit ==
  /\ ehold # {} /\ Skip(ehold)
  /\ vector' = [r \in Rows |-> IF r \in ehold THEN eread[r] ELSE vector[r]]
  /\ UNCHANGED <<rowVars, day, extractVars, retentionVars, faults>>

\* a batch fails, and the next one is tried
EmbedBatchFails ==
  /\ ehold # {} /\ Fault /\ Skip(ehold)
  /\ UNCHANGED <<rowVars, vector, day, extractVars, retentionVars>>

\* the time budget is over between two batches, or the process dies in one
EmbedStops ==
  /\ eread # NoRead /\ Fault /\ Skip(Rows)
  /\ UNCHANGED <<rowVars, vector, day, extractVars, retentionVars>>
-------------------------------------------------------------------------------
Parent == ExtractStart \/ Dispatch \/ ExtractEnd \/ \E r \in Rows : Collect(r)
Worker(r) ==
  \/ UpdateEmpty(r) \/ (\E t \in Texts : UpdateOk(r, t)) \/ UpdateDuplicate(r)
  \/ Commit(r) \/ RecordError(r)
Retention ==
  \/ \E days \in 1..Term, dry \in BOOLEAN : RetentionStart(days, dry)
  \/ RetentionLock \/ RetentionCommit \/ RetentionEnd
Embed == EmbedStart \/ EmbedCommit \/ \E B \in SUBSET Rows : EmbedUpdate(B)

Next ==
  \/ Parent \/ Retention \/ Embed \/ NextDay
  \/ BudgetEnds \/ ExtractCrash \/ RetentionCrash \/ EmbedBatchFails \/ EmbedStops
  \/ \E r \in Rows : Worker(r) \/ Raise(r) \/ RecordErrorFails(r)

Spec == Init /\ [][Next]_vars

(* supercronic starts every job again and again, and a job that runs goes  *)
(* on; nothing makes a day pass, a step fail or a row be embedded.         *)
Extract == Parent \/ \E r \in Rows : Worker(r)
Fairness == WF_vars(Extract) /\ WF_vars(Retention) /\ WF_vars(EmbedCommit)
FairSpec == Spec /\ Fairness
-------------------------------------------------------------------------------
TypeOK ==
  /\ status \in [Rows -> Statuses] /\ attempts \in [Rows -> 0..MaxAttempts]
  /\ body \in [Rows -> Texts \cup {Blank, NoText}] /\ sha \in [Rows -> Texts \cup {NoText}]
  /\ purged \in [Rows -> BOOLEAN] /\ vector \in [Rows -> Texts \cup {NoText}]
  /\ day \in 0..LastDay
  /\ xrun \in {"no", "fresh", "sending", "over"} /\ queue \subseteq Rows
  /\ work \in [Rows -> {"idle", "fetching", "updated", "copying", "failing", "done"}]
  /\ draft \in [Rows -> [status : Statuses, body : Texts \cup {Blank, NoText}, site : BOOLEAN]]
  /\ fails \in [Presses -> Nat] /\ tripped \subseteq Presses
  /\ rrun \in {"no", "purging", "counting"} /\ cutoff \subseteq Rows /\ batches \in Nat
  /\ rhold \subseteq Rows /\ eread \in [Rows -> Texts \cup {NoText}] /\ ehold \subseteq Rows
  /\ faults \in 0..MaxFaults

CopyHasOriginal(r) ==
  status[r] = "duplicate" => \E s \in Rows : status[s] = "ok" /\ sha[s] = sha[r]
OriginalsDiffer(r, s) ==
  r # s /\ status[r] = "ok" /\ status[s] = "ok" /\ sha[r] # NoText => sha[r] # sha[s]

(* A row that was closed as a copy has exactly one original with the same  *)
(* hash, so an article is never dropped as a copy of itself or of a body   *)
(* that was rolled back, also when two workers hold the same text at once  *)
(* (_record_ok_or_duplicate); and the variables have their types.          *)
OneOriginal ==
  /\ TypeOK
  /\ \A r \in Rows : CopyHasOriginal(r) /\ \A s \in Rows : OriginalsDiffer(r, s)

(* The embedding of a row is the embedding of its body, also when the body *)
(* was purged or written while the batch was being encoded; the hash that  *)
(* stays behind tells which body that was.                                 *)
VectorIsOfItsBody ==
  \A r \in Rows : vector[r] # NoText =>
    vector[r] \in {body[r], sha[r]}

(* Every article of a direct feed is tried until it is closed or out of    *)
(* attempts, or its term is over: neither the breaker of its press nor the *)
(* time budget puts it off for ever.                                       *)
EveryArticleIsClosed == \A r \in Pending : Awaiting(r) ~> (~Awaiting(r) \/ Older(r, Term))

Stage(r) == IF purged[r] THEN "gone" ELSE IF body[r] = Blank THEN "none" ELSE "held"
Life == INSTANCE BodyLife WITH
  stage <- [r \in Rows |-> Stage(r)],
  text <- [r \in Rows |-> IF HasBody(r) THEN body[r] ELSE NoText],
  due <- [r \in Rows |-> Older(r, Term)]

(* The bodies live as BodyLife says: the retention job takes a body only   *)
(* when its term is over, and what it took never comes back, although the  *)
(* extractor writes the same column without looking at the purge mark.     *)
ImplementsBodyLife == Life!LifeSpec
=============================================================================
