--------------------------- MODULE JobRunsProofs ---------------------------
(***************************************************************************)
(* Theorems about JobRuns for every set of executions, every bound on the  *)
(* work of a body, and whether or not sessions are lost.                   *)
(*                                                                         *)
(* The argument: writing a row needs a live session, and between taking    *)
(* the lock and releasing it a live session is the holder of the lock.  So *)
(* at most one execution can be between abandon_stale and finish() with    *)
(* the ability to write, whatever its peers believe about themselves.      *)
(***************************************************************************)
EXTENDS JobRuns, TLAPS

\* The lock is exclusive and belongs to a live session.
LockInv ==
  /\ \A e, f \in holder : e = f
  /\ \A e \in holder : Live(e)

\* The statements between taking the lock and releasing it.
Critical == {"abandon", "start", "tell", "body", "finish", "report", "unlock"}

\* An execution in its critical statements either holds the lock or cannot write.
HoldsInv == \A e \in Execs : pc[e] \in Critical /\ Live(e) => e \in holder

\* Before Start the execution has no row; from Start to Finish a writer's row is open.
RowInv ==
  \A e \in Execs :
    /\ pc[e] \in {"idle", "lock", "record", "abandon", "start"} => row[e] = "none"
    /\ pc[e] \in {"tell", "body", "finish"} /\ Live(e) => row[e] = "running"

\* Between abandon_stale and the INSERT nothing can open a row.
NoneOpenInv == \A e \in Execs : pc[e] = "start" /\ Live(e) => Stale = {}

\* The inductive invariant.
IInv == TypeOK /\ LockInv /\ HoldsInv /\ RowInv /\ NoneOpenInv /\ OneOpenRow

\* The initial state satisfies the invariant.
LEMMA InitIInv == Init => IInv
  BY DEF Init, IInv, TypeOK, LockInv, HoldsInv, RowInv, NoneOpenInv, OneOpenRow,
         Stale, Live, PC, Outcomes, Closed, NoExit, Critical

\* Every step preserves the types.
LEMMA TypeStep == TypeOK /\ [Next]_vars => TypeOK'
<1> SUFFICES ASSUME TypeOK, [Next]_vars PROVE TypeOK'
  OBVIOUS
<1> USE DEF TypeOK, PC, Outcomes, Closed, NoExit, ExitStopped
<1>1. CASE UNCHANGED vars
  BY <1>1 DEF vars
<1>2. ASSUME NEW e \in Execs, Arrive(e) PROVE TypeOK'
  BY <1>2 DEF Arrive, Connect, ConnectFails, Goto, Alert
<1>3. ASSUME NEW e \in Execs, Step(e) PROVE TypeOK'
  <2>1. CASE TryLock(e) \/ LockFails(e) \/ RecordSkip(e)
    BY <2>1 DEF TryLock, LockFails, RecordSkip, Goto, Alert
  <2>2. CASE AbandonStale(e)
    <3>1. row' \in [Execs -> {"none", "running"} \cup Closed]
      BY <2>2 DEF AbandonStale
    <3>2. found' \in [Execs -> SUBSET Execs]
      BY <2>2 DEF AbandonStale, Stale
    <3> QED BY <2>2, <3>1, <3>2 DEF AbandonStale, Goto
  <2>3. CASE Start(e) \/ BookkeepingFails(e)
    BY <2>3 DEF Start, BookkeepingFails, Goto, Alert
  <2>4. CASE TellAbandoned(e)
    BY <2>4 DEF TellAbandoned, Goto, Alert
  <2>5. CASE BodyEnds(e)
    BY <2>5 DEF BodyEnds, Goto
  <2>6. CASE Finish(e)
    BY <2>6 DEF Finish, Goto, StatusOf
  <2>7. CASE Report(e)
    BY <2>7 DEF Report, Goto, Alert, ExitOf
  <2>8. CASE Unlock(e) \/ Close(e)
    BY <2>8 DEF Unlock, Close, EndSession, Goto
  <2> QED BY <1>3, <2>1, <2>2, <2>3, <2>4, <2>5, <2>6, <2>7, <2>8 DEF Step
<1>4. ASSUME NEW e \in Execs, Work(e) \/ Checkpoint(e) PROVE TypeOK'
  BY <1>4 DEF Work, Checkpoint
<1>5. ASSUME NEW e \in Execs, Environment(e) PROVE TypeOK'
  BY <1>5 DEF Environment, Signal, Crash, ServerReaps, SessionLost, EndSession, Goto
<1> QED BY <1>1, <1>2, <1>3, <1>4, <1>5 DEF Next

\* Every step preserves the rest of the invariant.
LEMMA IInvStep == IInv /\ [Next]_vars => IInv'
<1> SUFFICES ASSUME IInv, [Next]_vars PROVE IInv'
  OBVIOUS
<1>0. TypeOK'
  BY TypeStep DEF IInv
<1> USE DEF TypeOK
<1>1. CASE UNCHANGED vars
  BY <1>0, <1>1 DEF vars, IInv, LockInv, HoldsInv, RowInv, NoneOpenInv, OneOpenRow, Stale, Live
<1> DEFINE Rest == LockInv /\ HoldsInv /\ RowInv /\ NoneOpenInv /\ OneOpenRow
<1> USE DEF IInv, LockInv, HoldsInv, RowInv, NoneOpenInv, OneOpenRow, Stale, Live, Critical, Goto
<1>2. ASSUME NEW e \in Execs, Arrive(e) PROVE Rest'
  BY <1>2 DEF Arrive, Connect, ConnectFails
<1>3. ASSUME NEW e \in Execs, Step(e) PROVE Rest'
  <2>1. CASE TryLock(e)
    BY <2>1 DEF TryLock
  <2>2. CASE LockFails(e) \/ RecordSkip(e)
    BY <2>2 DEF LockFails, RecordSkip
  <2>3. CASE AbandonStale(e)
    <3>1. holder = {e}
      BY <2>3 DEF AbandonStale
    <3>2. Stale' = {}
      BY <2>3 DEF AbandonStale
    <3>3. \A f \in Execs : row[f] = "none" => row'[f] = "none"
      BY <2>3 DEF AbandonStale
    <3>4. \A f \in Execs \ {e} : ~(pc[f] \in Critical /\ Live(f))
      BY <3>1
    <3>5. /\ pc' = [pc EXCEPT ![e] = "start"]
          /\ pc[e] = "abandon"
          /\ UNCHANGED <<session, holder>>
      BY <2>3 DEF AbandonStale
    <3>6. RowInv'
      BY <3>3, <3>4, <3>5
    <3>7. LockInv' /\ HoldsInv'
      BY <2>3, <3>5 DEF AbandonStale
    <3> QED BY <3>2, <3>6, <3>7
  <2>4. CASE Start(e)
    <3>1. Stale = {}
      BY <2>4 DEF Start
    <3>2. holder = {e}
      BY <2>4 DEF Start
    <3>3. \A f \in Execs : row'[f] = IF f = e THEN "running" ELSE row[f]
      BY <2>4 DEF Start
    <3>4. OneOpenRow'
      BY <3>1, <3>3
    <3> QED BY <2>4, <3>2, <3>3, <3>4 DEF Start
  <2>5. CASE TellAbandoned(e) \/ BookkeepingFails(e) \/ BodyEnds(e) \/ Report(e)
    BY <2>5 DEF TellAbandoned, BookkeepingFails, BodyEnds, Report
  <2>6. CASE Finish(e)
    <3>1. \A f \in Execs : row'[f] = IF f = e THEN StatusOf(outcome[e]) ELSE row[f]
      BY <2>6 DEF Finish
    <3>2. StatusOf(outcome[e]) # "running"
      BY DEF StatusOf
    <3> QED BY <2>6, <3>1, <3>2 DEF Finish
  <2>7. CASE Unlock(e) \/ Close(e)
    BY <2>7 DEF Unlock, Close, EndSession
  <2> QED BY <1>3, <2>1, <2>2, <2>3, <2>4, <2>5, <2>6, <2>7 DEF Step
<1>4. ASSUME NEW e \in Execs, Work(e) \/ Checkpoint(e) PROVE Rest'
  BY <1>4 DEF Work, Checkpoint
<1>5. ASSUME NEW e \in Execs, Environment(e) PROVE Rest'
  <2>1. CASE Signal(e)
    BY <1>5, <2>1 DEF Signal
  <2>2. CASE Crash(e)
    BY <2>2 DEF Crash
  <2>3. CASE ServerReaps(e) \/ SessionLost(e)
    BY <2>3 DEF ServerReaps, SessionLost, EndSession
  <2> QED BY <1>5, <2>1, <2>2, <2>3 DEF Environment
<1> QED BY <1>0, <1>1, <1>2, <1>3, <1>4, <1>5 DEF Next

\* The inductive invariant holds in every reachable state.
THEOREM Invariance == Spec => []IInv
<1> QED BY InitIInv, IInvStep, PTL DEF Spec

\* Types of the variables, for every reachable state.
THEOREM TypeCorrect == Spec => []TypeOK
<1>1. IInv => TypeOK
  BY DEF IInv
<1> QED BY <1>1, Invariance, PTL

\* job_runs never shows two open rows of one job (jobs/store.py: one session
\* carries both the advisory lock and the writes).
THEOREM OneOpenRowHolds == Spec => []OneOpenRow
<1>1. IInv => OneOpenRow
  BY DEF IInv
<1> QED BY <1>1, Invariance, PTL
\* Only these steps write job_runs, and what they write.
LEMMA RowWrites ==
  ASSUME IInv, [Next]_vars
  PROVE  \/ UNCHANGED <<row, saved>>
         \/ \E e \in Execs : RecordSkip(e) /\ row[e] = "none"
         \/ \E e \in Execs : AbandonStale(e)
         \/ \E e \in Execs : Start(e) /\ row[e] = "none" /\ Stale = {}
         \/ \E e \in Execs : Checkpoint(e)
         \/ \E e \in Execs : Finish(e) /\ row[e] = "running"
<1>1. CASE UNCHANGED vars
  BY <1>1 DEF vars
<1>2. ASSUME NEW e \in Execs, Arrive(e) \/ Environment(e) \/ Work(e)
      PROVE  UNCHANGED <<row, saved>>
  BY <1>2 DEF Arrive, Connect, ConnectFails, Environment, Signal, Crash, ServerReaps,
              SessionLost, Work
<1>3. ASSUME NEW e \in Execs, Step(e)
      PROVE  \/ UNCHANGED <<row, saved>>
             \/ RecordSkip(e) /\ row[e] = "none"
             \/ AbandonStale(e)
             \/ Start(e) /\ row[e] = "none" /\ Stale = {}
             \/ Finish(e) /\ row[e] = "running"
  <2>1. CASE TryLock(e) \/ LockFails(e) \/ TellAbandoned(e) \/ BookkeepingFails(e)
             \/ BodyEnds(e) \/ Report(e) \/ Unlock(e) \/ Close(e)
    BY <2>1 DEF TryLock, LockFails, TellAbandoned, BookkeepingFails, BodyEnds, Report,
                Unlock, Close
  <2>2. CASE RecordSkip(e)
    BY <2>2 DEF RecordSkip, IInv, RowInv
  <2>3. CASE Start(e)
    BY <2>3 DEF Start, IInv, RowInv, NoneOpenInv
  <2>4. CASE Finish(e)
    BY <2>4 DEF Finish, IInv, RowInv
  <2> QED BY <1>3, <2>1, <2>2, <2>3, <2>4 DEF Step
<1> QED BY <1>1, <1>2, <1>3 DEF Next

\* Once a row is closed neither its status nor its stats are written again,
\* although finish() does not look at the status it overwrites.
THEOREM ClosedRowsAreFinalHolds == Spec => ClosedRowsAreFinal
<1> DEFINE Frozen == \A e \in Execs :
              row[e] \in Closed => row'[e] = row[e] /\ saved'[e] = saved[e]
<1>1. ASSUME IInv, [Next]_vars PROVE [Frozen]_vars
  <2> USE IInv DEF IInv, TypeOK, Closed
  <2>1. CASE UNCHANGED <<row, saved>>
    BY <2>1
  <2>2. ASSUME NEW e \in Execs, RecordSkip(e), row[e] = "none" PROVE Frozen
    BY <2>2 DEF RecordSkip
  <2>3. ASSUME NEW e \in Execs, AbandonStale(e) PROVE Frozen
    BY <2>3 DEF AbandonStale, Stale
  <2>4. ASSUME NEW e \in Execs, Start(e), row[e] = "none" PROVE Frozen
    BY <2>4 DEF Start
  <2>5. ASSUME NEW e \in Execs, Checkpoint(e) PROVE Frozen
    BY <2>5 DEF Checkpoint
  <2>6. ASSUME NEW e \in Execs, Finish(e), row[e] = "running" PROVE Frozen
    BY <2>6 DEF Finish
  <2> QED BY <1>1, RowWrites, <2>1, <2>2, <2>3, <2>4, <2>5, <2>6
<1> QED BY <1>1, Invariance, PTL DEF Spec, ClosedRowsAreFinal

\* The execution protocol implements the registry that readers of job_runs rely on.
THEOREM RegistryImplemented == Spec => ImplementsRegistry
<1>1. Init => Registry!Init
  BY DEF Init, Registry!Init
<1>2. ASSUME IInv, [Next]_vars PROVE [Registry!Next]_row
  <2> USE IInv DEF IInv, TypeOK, Closed
  <2>1. CASE UNCHANGED <<row, saved>>
    BY <2>1
  <2>2. ASSUME NEW e \in Execs, RecordSkip(e), row[e] = "none" PROVE [Registry!Next]_row
    BY <2>2 DEF RecordSkip, Registry!Next, Registry!Skip
  <2>3. ASSUME NEW e \in Execs, AbandonStale(e) PROVE [Registry!Next]_row
    <3>1. Registry!Running = Stale
      BY DEF Registry!Running, Stale
    <3>2. CASE Stale = {}
      <4>1. row' = row
        BY <2>3, <3>2 DEF AbandonStale, Stale
      <4> QED BY <4>1
    <3>3. CASE Stale # {}
      <4>1. row' = [f \in Execs |-> IF row[f] = "running" THEN "abandoned" ELSE row[f]]
        BY <2>3 DEF AbandonStale, Stale
      <4> QED BY <3>1, <3>3, <4>1 DEF Registry!Next, Registry!Abandon
    <3> QED BY <3>2, <3>3
  <2>4. ASSUME NEW e \in Execs, Start(e), row[e] = "none", Stale = {} PROVE [Registry!Next]_row
    BY <2>4 DEF Start, Stale, Registry!Next, Registry!Open, Registry!Running
  <2>5. ASSUME NEW e \in Execs, Checkpoint(e) PROVE [Registry!Next]_row
    BY <2>5 DEF Checkpoint
  <2>6. ASSUME NEW e \in Execs, Finish(e), row[e] = "running" PROVE [Registry!Next]_row
    BY <2>6 DEF Finish, StatusOf, Outcomes, Registry!Next, Registry!CloseRow
  <2> QED BY <1>2, RowWrites, <2>1, <2>2, <2>3, <2>4, <2>5, <2>6
<1> QED BY <1>1, <1>2, Invariance, PTL DEF Spec, ImplementsRegistry, Registry!Spec

\* At most one body of a job runs with the session it took the lock with,
\* whatever happens to sessions and processes.
THEOREM BodiesExclusiveHolds == Spec => []BodiesExclusive
<1>1. IInv => BodiesExclusive
  BY DEF IInv, LockInv, HoldsInv, BodiesExclusive, Inside, Critical, Live
<1> QED BY <1>1, Invariance, PTL

\* Statements at which a process still believes it has a session.
Connected == Critical \cup {"lock", "record", "close"}

\* Without session loss that belief is right.
LiveInv == \A e \in Execs : pc[e] \in Connected => Live(e)

\* The comment in jobs/runtime.py ("holding the lock, no other execution of the
\* job exists") holds exactly under its unstated condition: no session is lost
\* while its process lives on.
THEOREM OneBodyHolds ==
  ASSUME ~SessionsDie
  PROVE  Spec => []OneBody
<1>1. Init => LiveInv
  BY DEF Init, LiveInv, Connected, Critical
<1>2. ASSUME IInv, LiveInv, [Next]_vars PROVE LiveInv'
  <2> USE <1>2 DEF IInv, TypeOK, LiveInv, Connected, Critical, Live, Goto
  <2>1. CASE UNCHANGED vars
    BY <2>1 DEF vars
  <2>2. ASSUME NEW e \in Execs, Arrive(e) PROVE LiveInv'
    BY <2>2 DEF Arrive, Connect, ConnectFails
  <2>3. ASSUME NEW e \in Execs, Step(e) PROVE LiveInv'
    <3>1. CASE Close(e)
      BY <3>1 DEF Close, EndSession
    <3>2. CASE Step(e) /\ ~Close(e)
      BY <3>2 DEF Step, TryLock, LockFails, RecordSkip, AbandonStale, Start, TellAbandoned,
                  BookkeepingFails, BodyEnds, Finish, Report, Unlock
    <3> QED BY <2>3, <3>1, <3>2
  <2>4. ASSUME NEW e \in Execs, Work(e) \/ Checkpoint(e) PROVE LiveInv'
    BY <2>4 DEF Work, Checkpoint
  <2>5. ASSUME NEW e \in Execs, Environment(e) PROVE LiveInv'
    BY <2>5, ~SessionsDie DEF Environment, Signal, Crash, ServerReaps, SessionLost, EndSession
  <2> QED BY <1>2, <2>1, <2>2, <2>3, <2>4, <2>5 DEF Next
<1>3. IInv /\ LiveInv => OneBody
  BY DEF IInv, LockInv, HoldsInv, LiveInv, OneBody, Inside, Connected, Critical, Live
<1> QED BY <1>1, <1>2, <1>3, Invariance, PTL DEF Spec

-------------------------------------------------------------------------------
(* What an execution leaves behind *)

\* The statements before the exit code is known, and before the body has ended.
Undecided == {"idle", "lock", "record", "abandon", "start", "tell", "body", "finish", "report"}
BeforeEnd == Undecided \ {"finish", "report"}
Bad == {"stopped", "error", "terminated"}

\* The statements after the exit code is known.
Leaving == {"unlock", "close", "ended"}
Told(e) == \/ exit[e] = 0 /\ outcome[e] \in {"none", "succeeded", "skipped"}
           \/ "failed" \in alerts[e]

\* What each execution has recorded of itself at each statement: nothing before
\* its body ended, an open or abandoned row until Finish, the outcome after it;
\* and once its exit code is known it has told its failure, or was interrupted.
RecordInv ==
  \A e \in Execs :
    /\ pc[e] \in Undecided => exit[e] = NoExit
    /\ pc[e] \in BeforeEnd => outcome[e] = "none"
    /\ pc[e] \in {"finish", "report"} => outcome[e] # "none"
    /\ pc[e] \in {"tell", "body", "finish"} => row[e] \in {"running", "abandoned"}
    /\ pc[e] = "report" => row[e] = StatusOf(outcome[e]) /\ saved[e] = work[e]
    /\ exit[e] = 0 /\ outcome[e] # "none" => row[e] = outcome[e] /\ row[e] \in Closed /\ saved[e] = work[e]
    /\ outcome[e] \in Bad => row[e] \in {"failed", "running", "abandoned"}
    /\ pc[e] \in Leaving /\ e \notin cut => Told(e)

\* A step of one execution changes of another at most its row, from running to abandoned.
LEMMA OthersKeep ==
  ASSUME TypeOK, NEW e \in Execs, Arrive(e) \/ Step(e) \/ Work(e) \/ Checkpoint(e) \/ Environment(e),
         NEW f \in Execs \ {e}
  PROVE  /\ pc'[f] = pc[f] /\ outcome'[f] = outcome[f] /\ exit'[f] = exit[f]
         /\ work'[f] = work[f] /\ saved'[f] = saved[f]
         /\ row'[f] = row[f] \/ (row[f] = "running" /\ row'[f] = "abandoned")
         /\ alerts'[f] = alerts[f] /\ found'[f] = found[f] /\ (f \in cut' <=> f \in cut)
<1> USE DEF TypeOK, Goto, Alert
<1>1. CASE Arrive(e)
  BY <1>1 DEF Arrive, Connect, ConnectFails
<1>2. CASE Step(e)
  <2>1. CASE AbandonStale(e)
    BY <2>1 DEF AbandonStale, Stale
  <2>2. CASE Step(e) /\ ~AbandonStale(e)
    BY <2>2 DEF Step, TryLock, LockFails, RecordSkip, Start, TellAbandoned,
                BookkeepingFails, BodyEnds, Finish, Report, Unlock, Close
  <2> QED BY <1>2, <2>1, <2>2
<1>3. CASE Work(e) \/ Checkpoint(e)
  BY <1>3 DEF Work, Checkpoint
<1>4. CASE Environment(e)
  BY <1>4 DEF Environment, Signal, Crash, ServerReaps, SessionLost
<1> QED BY <1>1, <1>2, <1>3, <1>4

\* Every step keeps the records.
LEMMA RecordStep == ASSUME IInv, RecordInv, [Next]_vars PROVE RecordInv'
<1> USE DEF IInv, TypeOK, RecordInv, Undecided, BeforeEnd, Bad, Closed, NoExit, StatusOf, Leaving, Told
<1>1. CASE UNCHANGED vars
  BY <1>1 DEF vars
<1> DEFINE Of(e) ==
      /\ pc[e] \in Undecided => exit[e] = NoExit
      /\ pc[e] \in BeforeEnd => outcome[e] = "none"
      /\ pc[e] \in {"finish", "report"} => outcome[e] # "none"
      /\ pc[e] \in {"tell", "body", "finish"} => row[e] \in {"running", "abandoned"}
      /\ pc[e] = "report" => row[e] = StatusOf(outcome[e]) /\ saved[e] = work[e]
      /\ exit[e] = 0 /\ outcome[e] # "none" => row[e] = outcome[e] /\ row[e] \in Closed /\ saved[e] = work[e]
      /\ outcome[e] \in Bad => row[e] \in {"failed", "running", "abandoned"}
      /\ pc[e] \in Leaving /\ e \notin cut => Told(e)
<1>2. ASSUME NEW e \in Execs, Arrive(e) \/ Step(e) \/ Work(e) \/ Checkpoint(e) \/ Environment(e)
      PROVE  RecordInv'
  <2>1. \A f \in Execs \ {e} : Of(f)'
    BY <1>2, OthersKeep DEF Outcomes
  <2>2. Of(e)'
    <3> USE DEF Goto, Alert
    <3>1. CASE Arrive(e)
      BY <3>1 DEF Arrive, Connect, ConnectFails
    <3>2. CASE TryLock(e) \/ LockFails(e)
      BY <3>2 DEF TryLock, LockFails
    <3>3. CASE RecordSkip(e)
      BY <3>3 DEF RecordSkip
    <3>4. CASE AbandonStale(e)
      BY <3>4 DEF AbandonStale, Stale
    <3>5. CASE Start(e) \/ TellAbandoned(e)
      BY <3>5 DEF Start, TellAbandoned
    <3>6. CASE BookkeepingFails(e)
      BY <3>6 DEF BookkeepingFails
    <3>7. CASE BodyEnds(e)
      BY <3>7 DEF BodyEnds
    <3>8. CASE Finish(e)
      BY <3>8 DEF Finish
    <3>9. CASE Report(e)
      BY <3>9 DEF Report, ExitOf, ExitStopped, Outcomes
    <3>10. CASE Unlock(e) \/ Close(e)
      BY <3>10 DEF Unlock, Close
    <3>11. CASE Work(e) \/ Checkpoint(e)
      BY <3>11 DEF Work, Checkpoint
    <3>12. CASE Environment(e)
      BY <3>12 DEF Environment, Signal, Crash, ServerReaps, SessionLost
    <3> QED BY <1>2, <3>1, <3>2, <3>3, <3>4, <3>5, <3>6, <3>7, <3>8, <3>9, <3>10, <3>11, <3>12 DEF Step
  <2> QED BY <2>1, <2>2
<1> QED BY <1>1, <1>2 DEF Next

LEMMA RecordInvariance == Spec => []RecordInv
<1>1. Init => RecordInv
  BY DEF Init, RecordInv, Undecided, BeforeEnd, Bad, Leaving, NoExit
<1> QED BY <1>1, RecordStep, Invariance, PTL DEF Spec

\* The scheduler never sees exit code 0 of a run whose body ran and whose row
\* says something else, or nothing yet, whatever died or raised on the way.
THEOREM ExitZeroIsRecordedHolds == Spec => []ExitZeroIsRecorded
<1>1. RecordInv => ExitZeroIsRecorded
  BY DEF RecordInv, ExitZeroIsRecorded
<1> QED BY <1>1, RecordInvariance, PTL

\* Who found nothing yet has no findings, and every abandoned row has its finder.
FoundInv ==
  /\ \A f \in Execs : pc[f] \in {"idle", "lock", "record", "abandon"} => found[f] = {}
  /\ AbandonedIsTold

\* A finder tells before it goes on to its body; findings and alerts are kept.
LEMMA FoundStep == ASSUME TypeOK, FoundInv, [Next]_vars PROVE FoundInv'
<1> USE DEF TypeOK, FoundInv, AbandonedIsTold
<1>1. CASE UNCHANGED vars
  BY <1>1 DEF vars
<1>2. ASSUME NEW e \in Execs, Arrive(e) \/ Step(e) \/ Work(e) \/ Checkpoint(e) \/ Environment(e)
      PROVE  FoundInv'
  <2> USE DEF Goto, Alert
  <2>1. CASE AbandonStale(e)
    <3>1. found' = [found EXCEPT ![e] = Stale] /\ pc' = [pc EXCEPT ![e] = "start"] /\ found[e] = {}
          /\ UNCHANGED <<alerts, cut>>
      BY <2>1 DEF AbandonStale
    <3>2. \A g \in Execs : row'[g] = "abandoned" => g \in Stale \/ row[g] = "abandoned"
      BY <2>1 DEF AbandonStale
    <3>3. Stale \in SUBSET Execs
      BY DEF Stale
    <3> QED BY <3>1, <3>2, <3>3
  <2>2. CASE ~AbandonStale(e)
    <3>1. found' = found
      BY <1>2, <2>2 DEF Arrive, Connect, ConnectFails, Step, TryLock, LockFails, RecordSkip, Start, TellAbandoned,
            BookkeepingFails, BodyEnds, Finish, Report, Unlock, Close, Work, Checkpoint, Environment, Signal, Crash,
            ServerReaps, SessionLost
    <3>2. \A g \in Execs : row'[g] = "abandoned" => row[g] = "abandoned"
      BY <1>2, <2>2 DEF Arrive, Connect, ConnectFails, Step, TryLock, LockFails, RecordSkip, Start, TellAbandoned,
            BookkeepingFails, BodyEnds, Finish, Report, Unlock, Close, Work, Checkpoint, Environment, Signal, Crash,
            ServerReaps, SessionLost, StatusOf
    <3>3. \A f \in Execs \ {e} : pc'[f] = pc[f] /\ alerts'[f] = alerts[f] /\ (f \in cut' <=> f \in cut)
      BY <1>2, OthersKeep
    <3>4. /\ pc'[e] \in {"idle", "lock", "record", "abandon"} => pc[e] \in {"idle", "lock", "record", "abandon"}
          /\ alerts[e] \subseteq alerts'[e] /\ (e \in cut => e \in cut')
          /\ pc[e] \in {"start", "tell"} /\ found[e] # {} =>
               pc'[e] \in {"start", "tell"} \/ e \in cut' \/ alerts'[e] # {}
      <4>1. CASE Arrive(e) \/ Work(e) \/ Checkpoint(e)
        BY <4>1 DEF Arrive, Connect, ConnectFails, Work, Checkpoint
      <4>2. CASE TryLock(e) \/ LockFails(e) \/ RecordSkip(e) \/ Start(e)
        BY <4>2 DEF TryLock, LockFails, RecordSkip, Start
      <4>3. CASE TellAbandoned(e) \/ BookkeepingFails(e)
        <5>1. CASE TellAbandoned(e) /\ found[e] = {}
          BY <5>1 DEF TellAbandoned
        <5>2. CASE TellAbandoned(e) /\ found[e] # {}
          <6>1. alerts'[e] = alerts[e] \cup {"found"} /\ pc'[e] = "body" /\ cut' = cut
            BY <5>2 DEF TellAbandoned
          <6> QED BY <6>1
        <5>3. CASE BookkeepingFails(e)
          <6>1. alerts'[e] = alerts[e] \cup {"failed"} /\ pc'[e] = "unlock" /\ cut' = cut
            BY <5>3 DEF BookkeepingFails
          <6> QED BY <6>1
        <5> QED BY <4>3, <5>1, <5>2, <5>3
      <4>4. CASE BodyEnds(e) \/ Finish(e) \/ Report(e) \/ Unlock(e) \/ Close(e)
        BY <4>4 DEF BodyEnds, Finish, Report, Unlock, Close
      <4>5. CASE Environment(e)
        BY <4>5 DEF Environment, Signal, Crash, ServerReaps, SessionLost
      <4> QED BY <1>2, <2>2, <4>1, <4>2, <4>3, <4>4, <4>5 DEF Step
    <3>5. \A f \in Execs : pc'[f] \in {"idle", "lock", "record", "abandon"} => found'[f] = {}
      BY <3>1, <3>3, <3>4
    <3>6. ASSUME NEW g \in Execs, row'[g] = "abandoned"
          PROVE  \E f \in Execs : g \in found'[f] /\ (pc'[f] \in {"start", "tell"} \/ f \in cut' \/ alerts'[f] # {})
      <4>1. PICK f \in Execs : g \in found[f] /\ (pc[f] \in {"start", "tell"} \/ f \in cut \/ alerts[f] # {})
        BY <3>2, <3>6
      <4>2. g \in found'[f] /\ (pc'[f] \in {"start", "tell"} \/ f \in cut' \/ alerts'[f] # {})
        BY <3>1, <3>3, <3>4, <4>1
      <4> QED BY <4>2
    <3> QED BY <3>5, <3>6
  <2> QED BY <2>1, <2>2
<1> QED BY <1>1, <1>2 DEF Next

\* No failure of a job stays silent: the run that failed has alerted, the run
\* that found it does, or job_runs shows it, wherever processes die.
THEOREM FailureIsToldHolds == Spec => []FailureIsTold
<1>1. Init => FoundInv
  BY DEF Init, FoundInv, AbandonedIsTold
<1>2. TypeOK /\ FoundInv /\ [Next]_vars => FoundInv'
  BY FoundStep
<1>3. RecordInv /\ FoundInv => FailureIsTold
  BY DEF RecordInv, FoundInv, Bad, Leaving, Told, FailureIsTold, EndingIsTold, DeathLeavesATrace
<1> QED BY <1>1, <1>2, <1>3, TypeCorrect, RecordInvariance, PTL DEF Spec
=============================================================================
