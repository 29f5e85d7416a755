---------------------------- MODULE GenerationRun ----------------------------
(***************************************************************************)
(* One run of newsletter generation: the pool of worker threads that takes *)
(* the clusters (ai_workspace/pipeline/stages.py, run_clusters_bounded),   *)
(* the LLM client each of them calls (core/llm/adapters.py), and what may  *)
(* stop the run between two of their steps: the run stop every thread of   *)
(* the process shares, the circuit breaker (core/llm/budget.py) and the    *)
(* kill switch file that other programs share (core/llm/kill_switch.py).   *)
(*                                                                         *)
(* What a cluster does between two calls is NewsletterWorkflow, what a     *)
(* reservation is answered with is SpendLedger; both are free here.        *)
(***************************************************************************)
EXTENDS Integers, FiniteSets, FiniteSetsExt

CONSTANTS
  Workers,      \* threads of the pool (NEWSLETTER_WORKERS)
  Clusters,     \* number of clusters, numbered in the order they are tried
  Limit,        \* --limit: the first clusters, which are tried in any case
  MinTarget,    \* newsletters the rest is to fill up to; 0: never
  MaxRetries,   \* requests of one call
  MaxSchema,    \* MAX_LLM_SCHEMA_RETRIES
  Threshold,    \* consecutive failures that open the circuit; 0: never
  MaxCalls      \* bound: LLM calls of one cluster

ASSUME RunAssumption ==
  /\ Workers # {} /\ IsFiniteSet(Workers)
  /\ Clusters \in Nat \ {0} /\ Limit \in 1..Clusters /\ MinTarget \in Nat
  /\ MaxRetries \in Nat \ {0} /\ MaxSchema \in Nat /\ Threshold \in Nat /\ MaxCalls \in Nat

VARIABLES
  stop,       \* _run_stop: why the run has stopped
  file,       \* kill switch file: by the spend guard, by another program, or none
  failures,   \* _consecutive_failures
  waiting,    \* clusters handed to the pool that no thread has taken
  submitted,  \* clusters 1..submitted were handed to the pool so far
  phase,      \* the run itself
  outcome,    \* outcomes
  step,       \* where each thread is
  cluster,    \* the cluster it works on
  tries,      \* requests of its call so far
  bad,        \* schema_failures of its call
  calls,      \* calls of its cluster so far
  warned,     \* history: its call began when the run had stopped or the guard's file was there
  late,       \* history: requests it sent after the run had stopped
  refused     \* history: what a "kill_switch" answer each cluster got came from

poolVars == <<waiting, submitted, phase>>
callVars == <<cluster, tries, bad, calls, warned>>
vars == <<stop, file, failures, poolVars, outcome, step, callVars, late, refused>>

Running == "none"
Reasons == {"exceeded", "unavailable", "circuit"}
Statuses == {"completed", "failed", "error", "stopped", "not_started"}
Steps == {"idle", "working", "run", "file", "kill", "run_again", "file_again", "reserve",
          "sent", "engage", "open", "backoff", "raised"}
Completed == {c \in 1..Clusters : outcome[c] = "completed"}

Init ==
  /\ stop = Running /\ failures = 0           \* begin_run
  /\ file \in {"none", "guard", "other"}
  /\ waiting = 1..Limit /\ submitted = Limit /\ phase = "running"
  /\ outcome = [c \in 1..Clusters |-> "none"] /\ refused = [c \in 1..Clusters |-> "never"]
  /\ step = [w \in Workers |-> "idle"] /\ cluster = [w \in Workers |-> 0]
  /\ tries = [w \in Workers |-> 0] /\ bad = [w \in Workers |-> 0] /\ calls = [w \in Workers |-> 0]
  /\ warned = [w \in Workers |-> FALSE] /\ late = [w \in Workers |-> 0]

Goto(w, s) == step' = [step EXCEPT ![w] = s]

\* _latch: the first reason stays.
Latch(reason) == stop' = IF stop = Running THEN reason ELSE stop
---------------------------------------------------------------------------
(* The pool *)

\* safe(): nothing is started once the run has stopped.
Take(w) ==
  /\ step[w] = "idle"
  /\ \E c \in waiting :
       /\ \A d \in waiting : c <= d
       /\ waiting' = waiting \ {c}
       /\ IF stop # Running
          THEN outcome' = [outcome EXCEPT ![c] = "not_started"] /\ UNCHANGED <<step, cluster, calls>>
          ELSE /\ Goto(w, "working") /\ UNCHANGED outcome
               /\ cluster' = [cluster EXCEPT ![w] = c] /\ calls' = [calls EXCEPT ![w] = 0]
  /\ UNCHANGED <<stop, file, failures, submitted, phase, tries, bad, warned, late, refused>>

End(w, status) ==
  /\ outcome' = [outcome EXCEPT ![cluster[w]] = status]
  /\ Goto(w, "idle") /\ cluster' = [cluster EXCEPT ![w] = 0] /\ calls' = [calls EXCEPT ![w] = 0]
  /\ warned' = [warned EXCEPT ![w] = FALSE]
  /\ UNCHANGED <<file, failures, poolVars, tries, bad, late, refused>>

\* The workflow of the cluster is over, or it failed.
Finish(w) ==
  /\ step[w] = "working"
  /\ \E status \in {"completed", "failed", "error"} : End(w, status)
  /\ UNCHANGED stop

\* An LLMRunStop passes through the workflow: "stopped", and every thread is told.
CatchStop(w) ==
  /\ step[w] = "raised"
  /\ End(w, "stopped")
  /\ Latch("exceeded")

Idle == waiting = {} /\ \A w \in Workers : step[w] = "idle"

\* Mutant: the clusters of a stopped run that are left are not reported.
OverUnlessNewsletters == IF stop = Running \/ Completed # {} THEN "finished" ELSE "aborted"

Over == IF stop = Running THEN "finished" ELSE "aborted"    \* aborted: PipelineStopped

BatchSize == Min({MinTarget - Cardinality(Completed), Cardinality(Workers), Clusters - submitted})

\* All of a batch is done: fill up to the target, or come to the end.
NextBatch ==
  /\ phase = "running" /\ Idle
  /\ IF MinTarget = 0 \/ submitted = Clusters \/ stop # Running \/ MinTarget <= Cardinality(Completed)
     THEN phase' = Over /\ UNCHANGED <<waiting, submitted>>
     ELSE /\ waiting' = (submitted + 1)..(submitted + BatchSize)
          /\ submitted' = submitted + BatchSize
          /\ UNCHANGED phase
  /\ UNCHANGED <<stop, file, failures, outcome, step, callVars, late, refused>>
---------------------------------------------------------------------------
(* complete() *)

\* The workflow calls the model.
Call(w) ==
  /\ step[w] = "working" /\ calls[w] < MaxCalls
  /\ Goto(w, "run")
  /\ tries' = [tries EXCEPT ![w] = 0] /\ bad' = [bad EXCEPT ![w] = 0]
  /\ warned' = [warned EXCEPT ![w] = stop # Running \/ file = "guard"]
  /\ UNCHANGED <<stop, file, failures, poolVars, outcome, cluster, calls, late, refused>>

\* The call returns a result, good or bad.
Return(w) == /\ Goto(w, "working") /\ calls' = [calls EXCEPT ![w] = @ + 1]
             /\ warned' = [warned EXCEPT ![w] = FALSE]

\* Mutant: a call that has begun is not checked again.
CheckRunOnce(w) ==
  /\ step[w] \in {"run", "run_again"}
  /\ Goto(w, IF step[w] = "run_again" THEN "file_again" ELSE IF stop # Running THEN "raised" ELSE "file")
  /\ UNCHANGED <<stop, file, failures, poolVars, outcome, callVars, late, refused>>

\* ensure_run_active, first half: has the run stopped?  Checked when the call
\* begins, and again before every request.
CheckRun(w) ==
  /\ step[w] \in {"run", "run_again"}
  /\ Goto(w, IF stop # Running THEN "raised" ELSE IF step[w] = "run" THEN "file" ELSE "file_again")
  /\ UNCHANGED <<stop, file, failures, poolVars, outcome, callVars, late, refused>>

\* Mutant: whose file it is does not matter to the guard.
CheckNoFile(w) ==
  /\ step[w] \in {"file", "file_again"}
  /\ Goto(w, IF step[w] = "file" THEN "kill" ELSE "reserve")
  /\ UNCHANGED <<stop, file, failures, poolVars, outcome, callVars, late, refused>>

\* Second half: is there a kill switch file of a spend guard?
CheckFile(w) ==
  /\ step[w] \in {"file", "file_again"}
  /\ IF file = "guard"
     THEN Latch("exceeded") /\ Goto(w, "raised")
     ELSE Goto(w, IF step[w] = "file" THEN "kill" ELSE "reserve") /\ UNCHANGED stop
  /\ UNCHANGED <<file, failures, poolVars, outcome, callVars, late, refused>>

\* check_kill_switch, once per call: the workflow goes on with what it can do alone.
CheckKill(w) ==
  /\ step[w] = "kill"
  /\ IF file = "none"
     THEN Goto(w, "run_again") /\ UNCHANGED <<calls, warned, refused>>
     ELSE /\ Return(w)
          /\ refused' = [refused EXCEPT ![cluster[w]] =
               IF file = "other" THEN "other" ELSE IF warned[w] THEN "guard_ignored" ELSE "guard"]
  /\ UNCHANGED <<stop, file, failures, poolVars, outcome, cluster, tries, bad, late>>

\* begin_attempt: the ledger grants the worst case of the request, refuses it
\* for one of the caps, or cannot tell.  Only the caps of the day and of the
\* total make the file, and the run is stopped first.
Reserve(w) ==
  /\ step[w] = "reserve"
  /\ \/ /\ Goto(w, "sent") /\ tries' = [tries EXCEPT ![w] = @ + 1]
        /\ late' = [late EXCEPT ![w] = IF stop # Running THEN @ + 1 ELSE @]
        /\ UNCHANGED stop
     \/ Latch("exceeded") /\ Goto(w, "engage") /\ UNCHANGED <<tries, late>>
     \/ /\ \E reason \in {"exceeded", "unavailable"} : Latch(reason)
        /\ Goto(w, "raised") /\ UNCHANGED <<tries, late>>
  /\ UNCHANGED <<file, failures, poolVars, outcome, cluster, bad, calls, warned, refused>>

\* engage_kill_switch: a file that is there already stays; none can be made
\* where the directory cannot be written.
Engage(w) ==
  /\ step[w] = "engage"
  /\ \/ file' = IF file = "none" THEN "guard" ELSE file
     \/ UNCHANGED file
  /\ Goto(w, "raised")
  /\ UNCHANGED <<stop, failures, poolVars, outcome, callVars, late, refused>>

\* Answered, cut at the length, or filtered: settled, and the breaker starts anew.
Answered(w) ==
  /\ step[w] = "sent"
  /\ failures' = 0
  /\ Return(w)
  /\ UNCHANGED <<stop, file, poolVars, outcome, cluster, tries, bad, late, refused>>

\* An answer that does not follow the schema: healthy, but paid for each time.
BadAnswer(w) ==
  /\ step[w] = "sent"
  /\ failures' = 0
  /\ bad' = [bad EXCEPT ![w] = @ + 1]
  /\ IF bad[w] + 1 > MaxSchema THEN Return(w) ELSE Goto(w, "backoff") /\ UNCHANGED <<calls, warned>>
  /\ UNCHANGED <<stop, file, poolVars, outcome, cluster, tries, late, refused>>

\* Mutant: the circuit opens at the threshold and never after it.
OpensOnce(n) == Threshold > 0 /\ n = Threshold

Opens(n) == Threshold > 0 /\ n >= Threshold

\* HTTP 5xx, a timeout, a broken connection.
ServerFails(w) ==
  /\ step[w] = "sent"
  /\ failures' = failures + 1
  /\ Goto(w, IF Opens(failures + 1) THEN "open" ELSE "backoff")
  /\ UNCHANGED <<stop, file, poolVars, outcome, callVars, late, refused>>

\* HTTP 402: the account is empty.
AccountEmpty(w) ==
  /\ step[w] = "sent"
  /\ Goto(w, "open")
  /\ UNCHANGED <<stop, file, failures, poolVars, outcome, callVars, late, refused>>

\* HTTP 429 is tried again, any other refusal or error is the result.
Rejected(w) ==
  /\ step[w] = "sent"
  /\ \/ Goto(w, "backoff") /\ UNCHANGED <<calls, warned>>
     \/ Return(w)
  /\ UNCHANGED <<stop, file, failures, poolVars, outcome, cluster, tries, bad, late, refused>>

\* _note_outcome has let the lock go: the run is stopped in a step of its own.
Open(w) ==
  /\ step[w] = "open"
  /\ Latch("circuit") /\ Goto(w, "raised")
  /\ UNCHANGED <<file, failures, poolVars, outcome, callVars, late, refused>>

\* Mutant: only the deadline ends a call.
RetryForever(w) ==
  /\ step[w] = "backoff"
  /\ Goto(w, "run_again") /\ UNCHANGED <<calls, warned>>
  /\ tries' = [tries EXCEPT ![w] = 0]
  /\ UNCHANGED <<stop, file, failures, poolVars, outcome, cluster, bad, late, refused>>

\* _wait_before_retry: the next request, or the end of the call at the deadline.
Retry(w) ==
  /\ step[w] = "backoff"
  /\ \/ tries[w] < MaxRetries /\ Goto(w, "run_again") /\ UNCHANGED <<calls, warned>>
     \/ Return(w)
  /\ UNCHANGED <<stop, file, failures, poolVars, outcome, cluster, tries, bad, late, refused>>
---------------------------------------------------------------------------
Respond(w) == Answered(w) \/ BadAnswer(w) \/ ServerFails(w) \/ AccountEmpty(w) \/ Rejected(w)
Work(w) ==
  \/ Take(w) \/ Finish(w) \/ CatchStop(w) \/ Call(w)
  \/ CheckRun(w) \/ CheckFile(w) \/ CheckKill(w) \/ Reserve(w) \/ Engage(w)
  \/ Respond(w) \/ Open(w) \/ Retry(w)

\* Another process reaches a cap, or another program pulls the switch.
EngageElsewhere ==
  /\ file = "none" /\ phase = "running"
  /\ file' \in {"guard", "other"}
  /\ UNCHANGED <<stop, failures, poolVars, outcome, step, callVars, late, refused>>

Done == phase # "running" /\ UNCHANGED vars

Next == (\E w \in Workers : Work(w)) \/ NextBatch \/ EngageElsewhere \/ Done

Spec == Init /\ [][Next]_vars

\* Threads are scheduled and every request is answered or times out.
Fairness == (\A w \in Workers : WF_vars(Work(w))) /\ WF_vars(NextBatch)
FairSpec == Spec /\ Fairness
---------------------------------------------------------------------------
(* Properties *)

\* Every variable keeps its shape, and the calls their limits.
TypeOK ==
  /\ stop \in Reasons \cup {Running} /\ file \in {"none", "guard", "other"} /\ failures \in Nat
  /\ submitted \in Limit..Clusters /\ waiting \subseteq 1..submitted
  /\ phase \in {"running", "finished", "aborted"}
  /\ outcome \in [1..Clusters -> Statuses \cup {"none"}]
  /\ refused \in [1..Clusters -> {"never", "other", "guard", "guard_ignored"}]
  /\ step \in [Workers -> Steps] /\ cluster \in [Workers -> 0..Clusters]
  /\ tries \in [Workers -> 0..MaxRetries] /\ bad \in [Workers -> 0..(MaxSchema + 1)]
  /\ calls \in [Workers -> 0..MaxCalls]
  /\ warned \in [Workers -> BOOLEAN] /\ late \in [Workers -> Nat]

\* Once the run has stopped each thread sends at most the one request it had
\* been admitted for; retries and other clusters send none.
StopIsFinal == \A w \in Workers : late[w] <= 1

\* An outage costs no more than the threshold and one request of every other
\* thread: failures in a row never exceed that, however the threads interleave
\* between counting a failure and stopping the run.
OutageIsCut == Threshold > 0 => failures <= Threshold + Cardinality(Workers) - 1

\* A call that begins after the guard has stopped the run, here or through the
\* file of another process, is never answered with "kill_switch", which would
\* send the cluster on to its local fallbacks.
GuardStopsNewCalls == \A c \in 1..Clusters : refused[c] # "guard_ignored"

\* The run accounts for every cluster it has handed out, and a run that is not
\* reported as stopped has cut no cluster short and has the newsletters it
\* should have, as far as there are clusters, and when it had to fill up to
\* the target, no more than that.  (And the types hold.)
EveryClusterIsAccounted ==
  /\ TypeOK
  /\ phase # "running" => \A c \in 1..Clusters : outcome[c] # "none" <=> c <= submitted
  /\ phase = "finished" =>
       /\ \A c \in 1..Clusters : outcome[c] \notin {"stopped", "not_started"}
       /\ Cardinality(Completed) >= MinTarget \/ submitted = Clusters
  /\ submitted > Limit => Cardinality(Completed) <= MinTarget

\* Every run comes to its end.
RunEnds == phase = "running" ~> phase # "running"

=============================================================================
