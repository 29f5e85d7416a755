---------------------------- MODULE RunRegistry ----------------------------
(***************************************************************************)
(* What the job_runs table promises its readers (daily_report, the runbook *)
(* queries, the dashboards) about one job: a row is written once as        *)
(* running or skipped, a running row is closed once, and a new row is      *)
(* opened only when no other row of the job is open.  Nothing is said here *)
(* about locks, sessions or processes: JobRuns.tla implements this.        *)
(***************************************************************************)

CONSTANTS
  Execs   \* the executions of one job; each writes at most one row

VARIABLE row   \* row[e]: the status of the row execution e wrote

Closed == {"succeeded", "failed", "skipped", "abandoned"}
Status == {"none", "running"} \cup Closed

Init == row = [e \in Execs |-> "none"]

Running == {e \in Execs : row[e] = "running"}

\* A row is opened only when the job has no open row.
Open(e) ==
  /\ Running = {}
  /\ row[e] = "none"
  /\ row' = [row EXCEPT ![e] = "running"]

\* The execution closes its own row with its result.
CloseRow(e) ==
  /\ row[e] = "running"
  /\ \E s \in {"succeeded", "failed", "skipped"} : row' = [row EXCEPT ![e] = s]

\* An execution that found the lock taken writes a closed row.
Skip(e) ==
  /\ row[e] = "none"
  /\ row' = [row EXCEPT ![e] = "skipped"]

\* Every open row is closed on behalf of executions that can no longer do it.
Abandon ==
  /\ Running # {}
  /\ row' = [e \in Execs |-> IF row[e] = "running" THEN "abandoned" ELSE row[e]]

Next == Abandon \/ \E e \in Execs : Open(e) \/ CloseRow(e) \/ Skip(e)

Spec == Init /\ [][Next]_row
=============================================================================
