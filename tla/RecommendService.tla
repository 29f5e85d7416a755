--------------------------- MODULE RecommendService ---------------------------
(***************************************************************************)
(* The threads behind GET /newsletters/today in realtime mode              *)
(* (backend/app/recsys/service.py, shadow.py): the request handlers and    *)
(* log writers, which share the slots of one thread pool; the pool that    *)
(* ranks; and the pool that computes shadow scores and logged features     *)
(* after the ranking (ADR 0033).                                           *)
(*                                                                         *)
(* A ranked list is cached with the handle of its shadow job, so the log   *)
(* writers of several requests may wait for one job.  A job has the name   *)
(* of the request whose ranking submitted it.  Time is left out: a wait    *)
(* may end at any moment before its result is there, a budget may run out  *)
(* at any moment, and both do in the end.  Threads of the two inner pools  *)
(* may hang for ever.  All requests share one cache key: FeedCache has the *)
(* keys.                                                                   *)
(***************************************************************************)
EXTENDS Naturals, FiniteSets, Sequences

CONSTANTS
  Requests,      \* requests to the feed, and the shadow jobs of their rankings
  NoJob,         \* the handle of a list without shadow work
  NoList,        \* nothing in the cache
  Slots,         \* threads for handlers and log writers (anyio)
  Workers,       \* threads that rank (cfg.workers)
  ShadowWorkers, \* threads for shadow jobs (RECSYS_SHADOW_WORKERS)
  MaxPending,    \* max_pending
  BreakerAfter   \* breaker_after

ASSUME PoolAssumption ==
  /\ NoJob \notin Requests /\ NoList \notin Requests \cup {NoJob}
  /\ {Slots, Workers, ShadowWorkers, MaxPending, BreakerAfter} \subseteq Nat \ {0}
  /\ IsFiniteSet(Requests)

VARIABLES
  step,      \* what the handler, then the log writer of a request does
  handle,    \* the shadow job of the answered list
  ranking,   \* what the ranking pool does for a request
  rankQueue, \* requests waiting for a ranking thread
  cached,    \* the handle of the list in the cache
  job,       \* the life of a shadow job
  jobQueue,  \* jobs waiting for a shadow thread
  expired,   \* jobs at work whose budget is over
  abandoned, \* jobs a log writer has given up
  owed,      \* ended jobs whose done callback has not run
  pending,   \* _pending
  streak,    \* _timeouts_in_a_row
  closed,    \* the clock is before _closed_until
  counts,    \* history: how often a job was counted toward the breaker
  company    \* history: how many log writers were about to give up a job when one did

requestVars == <<step, handle>>
rankVars == <<ranking, rankQueue, cached>>
breakerVars == <<streak, closed, counts>>
jobVars == <<job, jobQueue, expired, abandoned, owed, pending, company>>
vars == <<requestVars, rankVars, breakerVars, jobVars>>

Init ==
  /\ step = [r \in Requests |-> "idle"] /\ handle = [r \in Requests |-> NoJob]
  /\ ranking = [r \in Requests |-> "none"] /\ rankQueue = <<>> /\ cached = NoList
  /\ job = [r \in Requests |-> "none"] /\ jobQueue = <<>>
  /\ expired = {} /\ abandoned = {} /\ owed = {}
  /\ pending = 0 /\ streak = 0 /\ closed = FALSE
  /\ counts = [r \in Requests |-> 0] /\ company = [r \in Requests |-> 0]

InHandler == {"submitted", "fallback"}
InLog == {"waiting", "abandoning"}
SlotFree == Cardinality({r \in Requests : step[r] \in InHandler \cup InLog}) < Slots
\* the queue without r, which is in it at most once
Without(queue, r) ==
  IF \E i \in 1..Len(queue) : queue[i] = r
  THEN LET i == CHOOSE i \in 1..Len(queue) : queue[i] = r
       IN  SubSeq(queue, 1, i - 1) \o SubSeq(queue, i + 1, Len(queue))
  ELSE queue
Goto(r, s) == step' = [step EXCEPT ![r] = s]
Rank(r, s) == ranking' = [ranking EXCEPT ![r] = s]
Job(j, s) == job' = [job EXCEPT ![j] = s]
Busy == {"taken", "running"}
---------------------------------------------------------------------------
(* The handler *)

\* Requests are numbered in the order in which they get a slot.
Enter(r) ==
  /\ step[r] = "idle" /\ SlotFree /\ \A q \in Requests : q < r => step[q] # "idle"
  /\ Goto(r, "submitted") /\ Rank(r, "queued") /\ rankQueue' = Append(rankQueue, r)
  /\ UNCHANGED <<handle, cached, breakerVars, jobVars>>

Answer(r, h) == Goto(r, "answered") /\ handle' = [handle EXCEPT ![r] = h]

\* future.result: the list, or the exception of the ranking.
Receive(r) ==
  /\ step[r] = "submitted" /\ ranking[r] \in {"ranked", "failed"} /\ Rank(r, "none")
  /\ IF ranking[r] = "ranked"
     THEN Answer(r, handle[r])
     ELSE Goto(r, "fallback") /\ UNCHANGED handle
  /\ UNCHANGED <<rankQueue, cached, breakerVars, jobVars>>

\* Mutant: no time limit on the result of the ranking.
WaitForRanking(r) == FALSE /\ UNCHANGED vars

\* The time budget is over; future.cancel() keeps a queued ranking from starting.
Timeout(r) ==
  /\ step[r] = "submitted" /\ ranking[r] \notin {"ranked", "failed"}
  /\ Goto(r, "fallback")
  /\ rankQueue' = Without(rankQueue, r)
  /\ IF ranking[r] = "queued" THEN Rank(r, "none") ELSE UNCHANGED ranking
  /\ UNCHANGED <<handle, cached, breakerVars, jobVars>>

\* _fallback: reads on the request's own session, which need no other thread.
Fall(r) ==
  /\ step[r] = "fallback" /\ Answer(r, NoJob)
  /\ UNCHANGED <<rankVars, breakerVars, jobVars>>
---------------------------------------------------------------------------
(* The ranking pool *)

\* The result is kept for the handler that still waits for it.
Deliver(r, result) == Rank(r, IF step[r] = "submitted" THEN result ELSE "none")
Keep(r, h) == handle' = [handle EXCEPT ![r] = IF step[r] = "submitted" THEN h ELSE @]

\* A free thread takes the next request and looks into the cache, where
\* the list may have passed its time to live.
LookUp(r) ==
  /\ rankQueue # <<>> /\ r = Head(rankQueue) /\ rankQueue' = Tail(rankQueue)
  /\ Cardinality({q \in Requests : ranking[q] = "missed"}) < Workers
  /\ \/ Rank(r, "missed") /\ UNCHANGED handle
     \/ cached # NoList /\ Deliver(r, "ranked") /\ Keep(r, cached)
  /\ UNCHANGED <<step, cached, breakerVars, jobVars>>

\* The ranking raises: an empty list, the deadline between two stages, an error.
RankingFails(r) ==
  /\ ranking[r] = "missed" /\ Deliver(r, "failed")
  /\ UNCHANGED <<requestVars, rankQueue, cached, breakerVars, jobVars>>

\* submit() never waits.  No job for a cold list, after half of the time budget,
\* at the limit, or while the breaker is open.  Then cache.put, also when the
\* request has been answered by now.
Ranked(r) ==
  /\ ranking[r] = "missed" /\ Deliver(r, "ranked")
  /\ \/ cached' = NoJob /\ Keep(r, NoJob) /\ UNCHANGED <<job, jobQueue, pending>>
     \/ /\ pending < MaxPending /\ ~closed
        /\ Job(r, "queued") /\ jobQueue' = Append(jobQueue, r) /\ pending' = pending + 1
        /\ cached' = r /\ Keep(r, r)
  /\ UNCHANGED <<step, rankQueue, breakerVars, expired, abandoned, owed, company>>
---------------------------------------------------------------------------
(* The log writer: log_impressions and DeferredScores.wait.  The rows are      *)
(* written with the last step: one transaction, whose failure is only counted. *)

Logged(r) == Goto(r, "logged") /\ handle' = [handle EXCEPT ![r] = NoJob]

WriteLog(r) ==
  /\ step[r] = "answered" /\ SlotFree
  /\ IF handle[r] = NoJob \/ handle[r] \in abandoned
     THEN Logged(r)
     ELSE Goto(r, "waiting") /\ UNCHANGED handle
  /\ UNCHANGED <<rankVars, breakerVars, jobVars>>

\* The result, the job's exception, or the cancellation by another log writer.
ResultArrives(r) ==
  /\ step[r] = "waiting" /\ job[handle[r]] = "ended" /\ Logged(r)
  /\ UNCHANGED <<rankVars, breakerVars, jobVars>>

\* Mutant: the flag is not looked at.
WaitEndsUnseen(r) ==
  /\ step[r] = "waiting" /\ job[handle[r]] # "ended" /\ Goto(r, "abandoning")
  /\ UNCHANGED <<handle, rankVars, breakerVars, jobVars>>

\* The wait is over: the rest of the job's budget, or the writer's own limit.
\* Then _abandon: the look at the flag, ...
WaitEnds(r) ==
  /\ step[r] = "waiting" /\ job[handle[r]] # "ended"
  /\ IF handle[r] \in abandoned THEN Logged(r) ELSE Goto(r, "abandoning") /\ UNCHANGED handle
  /\ UNCHANGED <<rankVars, breakerVars, jobVars>>

\* _count_toward_breaker
Count(j) ==
  /\ counts' = [counts EXCEPT ![j] = @ + 1]
  /\ IF streak + 1 >= BreakerAfter
     THEN streak' = 0 /\ closed' = TRUE
     ELSE streak' = streak + 1 /\ UNCHANGED closed

\* Mutant: the job is given up but not taken from the queue.
KeepQueued(j) == UNCHANGED <<job, jobQueue, owed>>

\* Mutant: nobody books the end of a cancelled job.
CancelUnbooked(j) ==
  IF job[j] = "queued"
  THEN Job(j, "ended") /\ jobQueue' = Without(jobQueue, j) /\ UNCHANGED owed
  ELSE UNCHANGED <<job, jobQueue, owed>>

\* future.cancel(): a job that has not started never will.
Cancel(j) ==
  IF job[j] = "queued"
  THEN Job(j, "ended") /\ jobQueue' = Without(jobQueue, j) /\ owed' = owed \cup {j}
  ELSE UNCHANGED <<job, jobQueue, owed>>

GivingUp(j) == {r \in Requests : handle[r] = j /\ step[r] = "abandoning"}

\* ... the flag, the cancellation and the count.
Abandon(r) ==
  LET j == handle[r] IN
  /\ step[r] = "abandoning" /\ Logged(r)
  /\ abandoned' = abandoned \cup {j} /\ Cancel(j) /\ Count(j)
  /\ company' = [company EXCEPT ![j] = IF j \in abandoned THEN @ ELSE Cardinality(GivingUp(j))]
  /\ UNCHANGED <<rankVars, expired, pending>>
---------------------------------------------------------------------------
(* The shadow pool *)

TakeJob ==
  /\ jobQueue # <<>>
  /\ Cardinality({j \in Requests : job[j] \in Busy}) < ShadowWorkers
  /\ Job(Head(jobQueue), "taken") /\ jobQueue' = Tail(jobQueue)
  /\ UNCHANGED <<requestVars, rankVars, breakerVars, expired, abandoned, owed, pending, company>>

EndJob(j) == Job(j, "ended") /\ owed' = owed \cup {j} /\ expired' = expired \ {j}

\* _run: a job that is late before it starts is counted and ends without a result.
StartJob(j) ==
  /\ job[j] = "taken"
  /\ IF j \in expired \cup abandoned
     THEN EndJob(j) /\ Count(j)
     ELSE Job(j, "running") /\ UNCHANGED <<expired, owed, breakerVars>>
  /\ UNCHANGED <<requestVars, rankVars, jobQueue, abandoned, pending, company>>

\* The job returns - in time, it ends the row of timeouts - or raises.
Return(j) ==
  /\ job[j] = "running" /\ EndJob(j)
  /\ \/ j \notin expired \cup abandoned /\ streak' = 0
     \/ UNCHANGED streak
  /\ UNCHANGED <<requestVars, rankVars, closed, counts, jobQueue, abandoned, pending, company>>

\* _finished, the callback of the future.
Release(j) ==
  /\ j \in owed /\ owed' = owed \ {j} /\ pending' = pending - 1
  /\ UNCHANGED <<requestVars, rankVars, breakerVars, job, jobQueue, expired, abandoned, company>>

BudgetEnds(j) ==
  /\ job[j] \in {"queued", "taken", "running"} /\ j \notin expired
  /\ expired' = expired \cup {j}
  /\ UNCHANGED <<requestVars, rankVars, breakerVars, job, jobQueue, abandoned, owed, pending, company>>

CoolDown ==
  /\ closed /\ closed' = FALSE
  /\ UNCHANGED <<requestVars, rankVars, streak, counts, jobVars>>
---------------------------------------------------------------------------
Handle(r) == Receive(r) \/ Timeout(r) \/ Fall(r)
RankingStep(r) == LookUp(r) \/ RankingFails(r) \/ Ranked(r)
LogStep(r) == ResultArrives(r) \/ WaitEnds(r) \/ Abandon(r)
JobStep(j) == StartJob(j) \/ Return(j)

Next ==
  \/ \E r \in Requests : Enter(r) \/ Handle(r) \/ RankingStep(r) \/ WriteLog(r) \/ LogStep(r)
  \/ \E j \in Requests : JobStep(j) \/ Release(j) \/ BudgetEnds(j)
  \/ TakeJob \/ CoolDown

Spec == Init /\ [][Next]_vars

\* Handlers and log writers go on once they have a slot, slots are given in
\* order, waits end, and callbacks are called.  Nothing is assumed of the two
\* inner pools: their threads may hang.
Thread(r) == Enter(r) \/ Handle(r) \/ WriteLog(r) \/ LogStep(r)
Fairness == (\A r \in Requests : WF_vars(Thread(r))) /\ WF_vars(\E j \in Requests : Release(j))

FairSpec == Spec /\ Fairness
---------------------------------------------------------------------------
(* Properties *)

\* Every variable keeps its shape; the slots and the ranking threads are not
\* exceeded.
TypeOK ==
  /\ step \in [Requests -> {"idle", "answered", "logged"} \cup InHandler \cup InLog]
  /\ handle \in [Requests -> Requests \cup {NoJob}]
  /\ ranking \in [Requests -> {"none", "queued", "missed", "ranked", "failed"}]
  /\ cached \in Requests \cup {NoJob, NoList}
  /\ job \in [Requests -> {"none", "queued", "ended"} \cup Busy]
  /\ expired \cup abandoned \cup owed \subseteq {j \in Requests : job[j] # "none"}
  /\ streak \in 0 .. BreakerAfter - 1 /\ closed \in BOOLEAN /\ pending \in 0 .. MaxPending
  /\ Cardinality({r \in Requests : step[r] \in InHandler \cup InLog}) <= Slots

\* _pending is the number of the jobs that have not ended and of the ends that
\* are not yet booked: no way a job can end - its result, its exception, its
\* cancellation, once or from two threads - books it twice or never.  (And the types hold.)
PendingIsTrue ==
  TypeOK /\ pending = Cardinality({j \in Requests : job[j] \in {"queued"} \cup Busy} \cup owed)

\* A late job counts toward the breaker once for its own thread and once for
\* each log writer that had found it not given up when the first of them gave
\* it up; who comes later does not count it again, however often the cached
\* list is shown.
LateJobsCount ==
  \A j \in Requests : counts[j] <= 1 + company[j]

\* Whatever the ranking and the shadow threads do, hang included, every
\* request that comes in is answered and every answer is logged: neither
\* pool can take the slots away (ADR 0033: a slow or failing shadow does not
\* turn requests into fallbacks; the log writer waits no longer than its cap).
EveryRequestIsServed ==
  <>(\A r \in Requests : step[r] = "logged")

\* A job that a log writer waits for does not hold a place in the backlog for
\* ever when the shadow thread hangs on another one: it is running, or gone.
BacklogDrains ==
  \A j \in Requests :
    (\E r \in Requests : step[r] = "waiting" /\ handle[r] = j)
      ~> (job[j] \in Busy \/ (job[j] = "ended" /\ j \notin owed))

=============================================================================
