------------------------------ MODULE JobRuns ------------------------------
(***************************************************************************)
(* One execution of a scheduled job (jobs/runtime.py, jobs/store.py).      *)
(*                                                                         *)
(* Every execution opens one dedicated autocommit connection and uses it   *)
(* for a session level advisory lock and for its row of job_runs.  The     *)
(* body of the job works through other connections.  Executions of the     *)
(* same job race (cron, a manual run, a restarted container), processes    *)
(* are killed, receive SIGTERM between any two statements, and database    *)
(* sessions are lost while the process lives on.                           *)
(*                                                                         *)
(* An execution writes at most one row, so rows are indexed by execution.  *)
(***************************************************************************)
EXTENDS Integers

CONSTANTS
  Execs,        \* the executions of one job
  MaxWork,      \* bound: progress units a body reports in its stats
  SessionsDie   \* whether a session may be lost while its process lives

ASSUME MaxWorkAssumption == MaxWork \in Nat
ASSUME SessionsDieAssumption == SessionsDie \in BOOLEAN

VARIABLES
  pc,        \* pc[e]: the next statement of run_job for execution e
  session,   \* session[e]: e's database session as the server sees it
  holder,    \* the set of executions whose session holds the advisory lock
  row,       \* row[e]: status of the row e wrote in job_runs
  work,      \* work[e]: ctx.stats, as the progress the body has made
  saved,     \* saved[e]: the stats stored in e's row
  outcome,   \* outcome[e]: how the body of e ended
  found,     \* found[e]: the rows abandon_stale closed for e
  alerts,    \* alerts[e]: the kinds of alert e has sent
  exit,      \* exit[e]: exit code, -1 while e has none
  cut        \* history: the executions killed, or interrupted outside the body

vars == <<pc, session, holder, row, work, saved, outcome, found, alerts, exit, cut>>

NoExit == -1
ExitStopped == 3

PC == {"idle", "lock", "record", "abandon", "start", "tell", "body",
       "finish", "report", "unlock", "close", "ended", "crashed"}
Outcomes == {"none", "succeeded", "skipped", "stopped", "error", "terminated"}
Closed == {"succeeded", "failed", "skipped", "abandoned"}

\* Defective variants of some definitions stand before them, named after the
\* defect; the properties below are shown to notice each.

\* The status _execute records for an outcome of the body.
StatusOf(o) == IF o \in {"succeeded", "skipped"} THEN o ELSE "failed"

\* The exit code of the JobResult _execute returns.
ExitOf(o) == IF o \in {"succeeded", "skipped"} THEN 0
             ELSE IF o = "stopped" THEN ExitStopped ELSE 1

TypeOK ==
  /\ pc \in [Execs -> PC]
  /\ session \in [Execs -> {"none", "open", "gone"}]
  /\ holder \in SUBSET Execs
  /\ row \in [Execs -> {"none", "running"} \cup Closed]
  /\ work \in [Execs -> Nat]
  /\ saved \in [Execs -> Nat]
  /\ outcome \in [Execs -> Outcomes]
  /\ found \in [Execs -> SUBSET Execs]
  /\ alerts \in [Execs -> SUBSET {"failed", "found"}]
  /\ exit \in [Execs -> {NoExit, 0, 1, ExitStopped}]
  /\ cut \in SUBSET Execs

Init ==
  /\ pc = [e \in Execs |-> "idle"]
  /\ session = [e \in Execs |-> "none"]
  /\ holder = {}
  /\ row = [e \in Execs |-> "none"]
  /\ work = [e \in Execs |-> 0]
  /\ saved = [e \in Execs |-> 0]
  /\ outcome = [e \in Execs |-> "none"]
  /\ found = [e \in Execs |-> {}]
  /\ alerts = [e \in Execs |-> {}]
  /\ exit = [e \in Execs |-> NoExit]
  /\ cut = {}

Goto(e, l) == pc' = [pc EXCEPT ![e] = l]
Alert(e, kind) == alerts' = [alerts EXCEPT ![e] = @ \cup {kind}]
Live(e) == session[e] = "open"
Stale == {f \in Execs : row[f] = "running"}

-----------------------------------------------------------------------------
(* run_job: connecting and taking the lock                                 *)

Connect(e) ==
  /\ pc[e] = "idle"
  /\ session' = [session EXCEPT ![e] = "open"]
  /\ Goto(e, "lock")
  /\ UNCHANGED <<holder, row, work, saved, outcome, found, alerts, exit, cut>>

ConnectFails(e) ==
  /\ pc[e] = "idle"
  /\ Goto(e, "ended")
  /\ Alert(e, "failed")
  /\ exit' = [exit EXCEPT ![e] = 1]
  /\ UNCHANGED <<session, holder, row, work, saved, outcome, found, cut>>

TryLockPerRun(e) ==
  /\ pc[e] = "lock" /\ Live(e)
  /\ holder' = holder \cup {e}
  /\ Goto(e, "abandon")
  /\ UNCHANGED <<session, row, work, saved, outcome, found, alerts, exit, cut>>

\* pg_try_advisory_lock never waits: the lock is taken or the run is skipped.
TryLock(e) ==
  /\ pc[e] = "lock" /\ Live(e)
  /\ \/ /\ holder = {}
        /\ holder' = {e}
        /\ Goto(e, "abandon")
     \/ /\ holder # {}
        /\ Goto(e, "record")
        /\ UNCHANGED holder
  /\ UNCHANGED <<session, row, work, saved, outcome, found, alerts, exit, cut>>

LockFails(e) ==
  /\ pc[e] = "lock"
  /\ Goto(e, "close")
  /\ Alert(e, "failed")
  /\ exit' = [exit EXCEPT ![e] = 1]
  /\ UNCHANGED <<session, holder, row, work, saved, outcome, found, cut>>

\* A skipped execution writes its closed row without holding the lock; a
\* failure to write it is logged and changes nothing else.
RecordSkip(e) ==
  /\ pc[e] = "record"
  /\ \/ Live(e) /\ row' = [row EXCEPT ![e] = "skipped"]
     \/ UNCHANGED row
  /\ exit' = [exit EXCEPT ![e] = 0]
  /\ Goto(e, "close")
  /\ UNCHANGED <<session, holder, work, saved, outcome, found, alerts, cut>>

-----------------------------------------------------------------------------
(* _run_with_store: opening the row                                        *)

AbandonStaleForgotten(e) ==
  /\ pc[e] = "abandon" /\ Live(e)
  /\ Goto(e, "start")
  /\ UNCHANGED <<session, holder, row, work, saved, outcome, found, alerts, exit, cut>>

AbandonStale(e) ==
  /\ pc[e] = "abandon" /\ Live(e)
  /\ row' = [f \in Execs |-> IF f \in Stale THEN "abandoned" ELSE row[f]]
  /\ found' = [found EXCEPT ![e] = Stale]
  /\ Goto(e, "start")
  /\ UNCHANGED <<session, holder, work, saved, outcome, alerts, exit, cut>>

Start(e) ==
  /\ pc[e] = "start" /\ Live(e)
  /\ row' = [row EXCEPT ![e] = "running"]
  /\ Goto(e, "tell")
  /\ UNCHANGED <<session, holder, work, saved, outcome, found, alerts, exit, cut>>

TellAbandonedUnlocks(e) ==
  /\ pc[e] = "tell"
  /\ holder' = holder \ {e}
  /\ Goto(e, "body")
  /\ UNCHANGED <<session, row, work, saved, outcome, found, alerts, exit, cut>>

TellAbandonedInStats(e) ==
  /\ pc[e] = "tell"
  /\ Goto(e, "body")
  /\ UNCHANGED <<session, holder, row, work, saved, outcome, found, alerts, exit, cut>>

\* The finder alerts for runs that could not alert for themselves.
TellAbandoned(e) ==
  /\ pc[e] = "tell"
  /\ IF found[e] = {} THEN UNCHANGED alerts ELSE Alert(e, "found")
  /\ Goto(e, "body")
  /\ UNCHANGED <<session, holder, row, work, saved, outcome, found, exit, cut>>

BookkeepingFailsSilently(e) ==
  /\ pc[e] \in {"abandon", "start", "finish"}
  /\ exit' = [exit EXCEPT ![e] = 0]
  /\ Goto(e, "unlock")
  /\ UNCHANGED <<session, holder, row, work, saved, outcome, found, alerts, cut>>

\* abandon_stale, start or finish raises: the handler alerts and unlocks.
BookkeepingFails(e) ==
  /\ pc[e] \in {"abandon", "start", "finish"}
  /\ Alert(e, "failed")
  /\ exit' = [exit EXCEPT ![e] = 1]
  /\ Goto(e, "unlock")
  /\ UNCHANGED <<session, holder, row, work, saved, outcome, found, cut>>

-----------------------------------------------------------------------------
(* _execute: the body and its result                                       *)

Work(e) ==
  /\ pc[e] = "body" /\ work[e] < MaxWork
  /\ work' = [work EXCEPT ![e] = @ + 1]
  /\ UNCHANGED <<pc, session, holder, row, saved, outcome, found, alerts, exit, cut>>

\* ctx.checkpoint(): the UPDATE has status = 'running' in its WHERE clause;
\* over a lost session it raises, and the error is swallowed.
Checkpoint(e) ==
  /\ pc[e] = "body" /\ Live(e) /\ row[e] = "running"
  /\ saved' = [saved EXCEPT ![e] = work[e]]
  /\ UNCHANGED <<pc, session, holder, row, work, outcome, found, alerts, exit, cut>>

BodyEnds(e) ==
  /\ pc[e] = "body"
  /\ \E o \in {"succeeded", "skipped", "stopped", "error"} :
       outcome' = [outcome EXCEPT ![e] = o]
  /\ Goto(e, "finish")
  /\ UNCHANGED <<session, holder, row, work, saved, found, alerts, exit, cut>>

\* finish() names the row by id only: its UPDATE does not look at the status.
Finish(e) ==
  /\ pc[e] = "finish" /\ Live(e)
  /\ row' = [row EXCEPT ![e] = StatusOf(outcome[e])]
  /\ saved' = [saved EXCEPT ![e] = work[e]]
  /\ Goto(e, "report")
  /\ UNCHANGED <<session, holder, work, outcome, found, alerts, exit, cut>>

Report(e) ==
  /\ pc[e] = "report"
  /\ IF StatusOf(outcome[e]) = "failed" THEN Alert(e, "failed") ELSE UNCHANGED alerts
  /\ exit' = [exit EXCEPT ![e] = ExitOf(outcome[e])]
  /\ Goto(e, "unlock")
  /\ UNCHANGED <<session, holder, row, work, saved, outcome, found, cut>>

-----------------------------------------------------------------------------
(* leaving: the two finally blocks                                         *)

\* A failing unlock is logged; closing the session releases the lock anyway.
Unlock(e) ==
  /\ pc[e] = "unlock"
  /\ \/ Live(e) /\ holder' = holder \ {e}
     \/ UNCHANGED holder
  /\ Goto(e, "close")
  /\ UNCHANGED <<session, row, work, saved, outcome, found, alerts, exit, cut>>

EndSessionKeepsLock(e) ==
  /\ session' = [session EXCEPT ![e] = "gone"]
  /\ UNCHANGED holder

EndSession(e) ==
  /\ session' = [session EXCEPT ![e] = "gone"]
  /\ holder' = holder \ {e}

Close(e) ==
  /\ pc[e] = "close"
  /\ EndSession(e)
  /\ Goto(e, "ended")
  /\ UNCHANGED <<row, work, saved, outcome, found, alerts, exit, cut>>

-----------------------------------------------------------------------------
(* the environment                                                         *)

\* SIGTERM or SIGINT becomes JobTerminated in the main thread.  In the body it
\* is an outcome; anywhere else no handler but the finally blocks sees it,
\* and the interpreter exits with a traceback (exit code 1).
Signal(e) ==
  \/ /\ pc[e] = "body"
     /\ outcome' = [outcome EXCEPT ![e] = "terminated"]
     /\ Goto(e, "finish")
     /\ UNCHANGED <<session, holder, row, work, saved, found, alerts, exit, cut>>
  \/ /\ pc[e] \in {"lock", "record", "abandon", "start", "tell", "finish",
                   "report", "unlock", "close"}
     /\ \/ pc[e] \in {"abandon", "start", "tell", "finish", "report"}
           /\ Goto(e, "unlock")
        \/ pc[e] \in {"lock", "record", "abandon", "unlock"} /\ Goto(e, "close")
        \/ pc[e] = "close" /\ Goto(e, "crashed")
     /\ exit' = [exit EXCEPT ![e] = 1]
     /\ cut' = cut \cup {e}
     /\ UNCHANGED <<session, holder, row, work, saved, outcome, found, alerts>>

\* SIGKILL, the OOM killer, power loss.  The server still sees the session.
Crash(e) ==
  /\ pc[e] \notin {"idle", "ended", "crashed"}
  /\ Goto(e, "crashed")
  /\ cut' = cut \cup {e}
  /\ UNCHANGED <<session, holder, row, work, saved, outcome, found, alerts, exit>>

\* The server notices that the client of a session is gone.
ServerReaps(e) ==
  /\ pc[e] = "crashed" /\ Live(e)
  /\ EndSession(e)
  /\ UNCHANGED <<pc, row, work, saved, outcome, found, alerts, exit, cut>>

\* A server restart, a terminated backend or a broken network ends a session
\* of a process that keeps running.  psycopg2 does not reconnect.
SessionLost(e) ==
  /\ SessionsDie
  /\ pc[e] \notin {"idle", "ended", "crashed"} /\ Live(e)
  /\ EndSession(e)
  /\ UNCHANGED <<pc, row, work, saved, outcome, found, alerts, exit, cut>>

Arrive(e) == Connect(e) \/ ConnectFails(e)

Step(e) ==
  \/ TryLock(e) \/ LockFails(e)
  \/ RecordSkip(e) \/ AbandonStale(e) \/ Start(e) \/ TellAbandoned(e)
  \/ BookkeepingFails(e) \/ BodyEnds(e) \/ Finish(e) \/ Report(e)
  \/ Unlock(e) \/ Close(e)

Environment(e) == Signal(e) \/ Crash(e) \/ ServerReaps(e) \/ SessionLost(e)

Next == \E e \in Execs : Arrive(e) \/ Step(e) \/ Work(e) \/ Checkpoint(e) \/ Environment(e)

Spec == Init /\ [][Next]_vars

\* A started execution keeps taking steps and its body ends; the server notices
\* a dead client.  Nothing makes an execution start.
FairSpec == Spec /\ \A e \in Execs : WF_vars(Step(e)) /\ WF_vars(ServerReaps(e))
-----------------------------------------------------------------------------
(* properties                                                              *)

\* job_runs never shows two open rows of one job: the lock and the writes share
\* one session, so an execution that lost the lock can no longer write either.
OneOpenRow == \A e, f \in Stale : e = f

\* Once a row is closed nothing rewrites its status or its stats, although
\* finish() would overwrite any status and a zombie body still checkpoints.
ClosedRowsAreFinal ==
  [][\A e \in Execs : row[e] \in Closed => row'[e] = row[e] /\ saved'[e] = saved[e]]_vars

\* Exit code 0 after the body ran means the row says so: the scheduler never
\* sees success for a run whose row is open, failed or abandoned.
ExitZeroIsRecorded ==
  \A e \in Execs :
    exit[e] = 0 /\ outcome[e] # "none" => row[e] = outcome[e] /\ saved[e] = work[e]

\* A run that was through without being killed or interrupted, and that did not
\* end well, has said so, wherever it failed: connecting, locking, opening the
\* row, in the body, closing the row.
EndingIsTold ==
  \A e \in Execs : pc[e] = "ended" /\ e \notin cut =>
    \/ exit[e] = 0 /\ outcome[e] \in {"none", "succeeded", "skipped"}
    \/ "failed" \in alerts[e]

\* A run that was found open makes the run that found it alert (of its own
\* failure, if its INSERT raises), unless that one is killed in turn before it
\* could: an abandoned row is never found again, so nobody else would.
AbandonedIsTold ==
  \A e \in Execs : row[e] = "abandoned" =>
    \E f \in Execs : e \in found[f] /\ (pc[f] \in {"start", "tell"} \/ f \in cut \/ alerts[f] # {})

\* A process that died after a body that did not succeed left a trace: an
\* alert, a failed row, or a row the next execution will find.
DeathLeavesATrace ==
  \A e \in Execs :
    pc[e] \in {"ended", "crashed"} /\ outcome[e] \in {"stopped", "error", "terminated"} =>
      "failed" \in alerts[e] \/ row[e] \in {"failed", "running", "abandoned"}

\* No failure of a job stays silent (run_job, _run_with_store, _execute): the
\* run tells it, the run that finds it tells it, or job_runs shows it.
FailureIsTold == EndingIsTold /\ AbandonedIsTold /\ DeathLeavesATrace

Inside(e) == pc[e] = "body"

\* The lock excludes: of the bodies of one job that run at the same time at
\* most one still has the session it took the lock with.
BodiesExclusive ==
  \A e, f \in Execs : Inside(e) /\ Live(e) /\ Inside(f) /\ Live(f) => e = f

\* runtime.py: "holding the lock, no other execution of the job exists".  Two
\* bodies of one job never run at the same time.
OneBody == \A e, f \in Execs : Inside(e) /\ Inside(f) => e = f

\* The table this protocol maintains is the registry its readers rely on.
Registry == INSTANCE RunRegistry
ImplementsRegistry == Registry!Spec

\* However an execution ends, the lock it took does not outlive it for ever:
\* a later execution of the job is not skipped because of a dead one.
LockIsReleased == \A e \in Execs : e \in holder ~> e \notin holder
=============================================================================
