-------------------------- MODULE GenerationRunProofs --------------------------
(***************************************************************************)
(* Theorems about GenerationRun for every number of threads, clusters,     *)
(* retries and failures: what a stopped run may still send, how long an    *)
(* outage may go on, that no call goes on without the model because of a   *)
(* spend guard's file, and the account the run gives of its clusters.      *)
(***************************************************************************)
EXTENDS GenerationRun, FiniteSetTheorems, TLAPS

-------------------------------------------------------------------------------
(* The inductive invariant *)

\* steps of a call that has not sent its next request yet
Asking == {"run", "file", "kill", "run_again", "file_again", "reserve"}
\* steps at which a request may still go out although the run has stopped
Admitted == {"file_again", "reserve", "sent"}

\* A thread has a cluster while it is not idle, and a call keeps its limits.
CallInv ==
  \A w \in Workers :
    /\ step[w] = "idle" <=> cluster[w] = 0
    /\ step[w] \in Asking => tries[w] < MaxRetries
    /\ step[w] \notin {"idle", "working"} => bad[w] <= MaxSchema /\ calls[w] < MaxCalls

\* A thread that has sent a request after the stop is past every check that
\* could admit it to another one.
LateInv ==
  \A w \in Workers :
    late[w] > 0 => /\ late[w] = 1 /\ stop # Running
                   /\ step[w] \notin {"file", "kill", "file_again", "reserve"}

\* Threads that add no failure any more: on their way to stop the run, or told
\* that it has stopped and not admitted to a request before that.
Harmless == {w \in Workers : step[w] = "open" \/ (stop # Running /\ step[w] \notin Admitted)}

\* Each failure from the threshold on has made one more thread harmless.
OutageInv == Threshold > 0 => failures <= Threshold - 1 + Cardinality(Harmless)

\* A call that began too late comes no further than the check that ends it.
WarnedInv ==
  \A w \in Workers : warned[w] =>
    \/ step[w] = "raised"
    \/ step[w] = "run" /\ (stop # Running \/ file = "guard")
    \/ step[w] = "file" /\ file = "guard"

Handed == {cluster[w] : w \in Workers}
\* clusters that have a newsletter or may still get one
Hopeful == {c \in 1..Clusters : outcome[c] = "completed" \/ c \in waiting \/ c \in Handed}

\* Where the clusters are, and why the run is over.
PoolInv ==
  /\ \A c \in 1..Clusters :
       /\ c > submitted => outcome[c] = "none"
       /\ c <= submitted /\ outcome[c] = "none" => c \in waiting \/ c \in Handed
       /\ outcome[c] \in {"stopped", "not_started"} => stop # Running
  /\ \A w \in Workers : cluster[w] <= submitted
  /\ phase # "running" => Idle
  /\ phase = "finished" => /\ stop = Running
                           /\ Cardinality(Completed) >= MinTarget \/ submitted = Clusters
  /\ submitted > Limit => Cardinality(Hopeful) <= MinTarget

IInv == TypeOK /\ CallInv /\ LateInv /\ OutageInv /\ WarnedInv /\ PoolInv

-------------------------------------------------------------------------------
(* Lemmas *)

\* The clusters with a newsletter can be counted.
LEMMA CompletedCount ==
  ASSUME TypeOK
  PROVE  IsFiniteSet(Completed) /\ Cardinality(Completed) \in Nat
<1>1. Clusters \in Int /\ IsFiniteSet(1..Clusters)
  BY RunAssumption, FS_Interval
<1>2. Completed \in SUBSET (1..Clusters)
  BY DEF Completed
<1>3. IsFiniteSet(Completed)
  BY <1>1, <1>2, FS_Subset
<1> QED BY <1>3, FS_CardinalityType

\* A batch has a cluster at least, and neither more than are left nor more
\* than newsletters are missing.
LEMMA BatchBounds ==
  ASSUME TypeOK, submitted # Clusters, ~ (MinTarget <= Cardinality(Completed))
  PROVE  /\ BatchSize \in Nat \ {0}
         /\ BatchSize <= Clusters - submitted
         /\ BatchSize <= MinTarget - Cardinality(Completed)
<1> DEFINE T == {MinTarget - Cardinality(Completed), Cardinality(Workers), Clusters - submitted}
<1>1. MinTarget - Cardinality(Completed) \in Nat \ {0}
  BY CompletedCount, RunAssumption
<1>2. Cardinality(Workers) \in Nat \ {0}
  BY RunAssumption, FS_CardinalityType, FS_EmptySet
<1>3. Clusters - submitted \in Nat \ {0}
  BY RunAssumption DEF TypeOK
<1>4. Min(T) \in T /\ \A k \in T : Min(T) <= k
  <2>1. PICK m \in T : \A k \in T : m =< k
    BY <1>1, <1>2, <1>3
  <2> HIDE DEF T
  <2> QED BY <2>1 DEF Min
<1> QED BY <1>1, <1>2, <1>3, <1>4 DEF BatchSize

-------------------------------------------------------------------------------
(* Types and the limits of a call *)

LEMMA InitIInv == Init => IInv
<1> SUFFICES ASSUME Init PROVE IInv
  OBVIOUS
<1> USE RunAssumption DEF RunAssumption
<1>1. TypeOK
  BY DEF Init, TypeOK, Running, Reasons, Statuses, Steps
<1>2. CallInv /\ LateInv /\ WarnedInv
  BY DEF Init, CallInv, LateInv, WarnedInv, Asking, Running
<1>3. OutageInv
  <2>1. Harmless \in SUBSET Workers
    BY DEF Harmless
  <2>2. IsFiniteSet(Harmless)
    BY <2>1, FS_Subset
  <2>3. Cardinality(Harmless) \in Nat
    BY <2>2, FS_CardinalityType
  <2> QED BY <2>3 DEF Init, OutageInv
<1>4. PoolInv
  BY DEF Init, PoolInv, Running
<1> QED BY <1>1, <1>2, <1>3, <1>4 DEF IInv

\* A call that is not over has a cluster and may count one more.
LEMMA InCall ==
  ASSUME TypeOK, CallInv, NEW w \in Workers, step[w] \notin {"idle", "working"}
  PROVE  /\ cluster[w] \in 1..Clusters
         /\ calls[w] + 1 \in 0..MaxCalls /\ bad[w] + 1 \in 0..(MaxSchema + 1)
<1>1. cluster[w] \in 0..Clusters /\ calls[w] \in 0..MaxCalls /\ bad[w] \in 0..(MaxSchema + 1)
  BY DEF TypeOK
<1>2. cluster[w] # 0 /\ bad[w] <= MaxSchema /\ calls[w] < MaxCalls
  BY DEF CallInv
<1> QED BY <1>1, <1>2, RunAssumption

LEMMA TypeStep ==
  ASSUME TypeOK, CallInv, [Next]_vars
  PROVE  TypeOK' /\ CallInv'
<1> USE RunAssumption DEF RunAssumption
<1>1. ASSUME NEW w \in Workers, Take(w) PROVE TypeOK' /\ CallInv'
  <2>1. PICK c \in waiting :
        /\ step[w] = "idle" /\ waiting' = waiting \ {c}
        /\ \/ outcome' = [outcome EXCEPT ![c] = "not_started"] /\ UNCHANGED <<step, cluster, calls>>
           \/ /\ step' = [step EXCEPT ![w] = "working"] /\ UNCHANGED outcome
              /\ cluster' = [cluster EXCEPT ![w] = c] /\ calls' = [calls EXCEPT ![w] = 0]
        /\ UNCHANGED <<stop, file, failures, submitted, phase, tries, bad, warned, late, refused>>
    BY <1>1 DEF Take, Goto
  <2>2. c \in 1..Clusters
    BY DEF TypeOK
  <2>3. CASE outcome' = [outcome EXCEPT ![c] = "not_started"] /\ UNCHANGED <<step, cluster, calls>>
    BY <2>2, <2>1, <2>3 DEF TypeOK, CallInv, Statuses
  <2>4. CASE /\ step' = [step EXCEPT ![w] = "working"] /\ UNCHANGED outcome
             /\ cluster' = [cluster EXCEPT ![w] = c] /\ calls' = [calls EXCEPT ![w] = 0]
    <3>1. TypeOK'
      <4>1. step' \in [Workers -> Steps] /\ cluster' \in [Workers -> 0..Clusters]
        BY <2>2, <2>4 DEF TypeOK, Steps
      <4>2. calls' \in [Workers -> 0..MaxCalls] /\ waiting' \subseteq 1..submitted
        BY <2>1, <2>4 DEF TypeOK
      <4> QED BY <2>1, <2>4, <4>1, <4>2 DEF TypeOK
    <3>2. CallInv'
      BY <2>2, <2>1, <2>4 DEF TypeOK, CallInv, Asking
    <3> QED BY <3>1, <3>2
  <2> QED BY <2>1, <2>3, <2>4
<1>2. ASSUME NEW w \in Workers, NEW status \in Statuses, step[w] # "idle", End(w, status),
             stop' \in {stop, "exceeded"} PROVE TypeOK' /\ CallInv'
  <2>1. cluster[w] \in 1..Clusters
    BY <1>2 DEF TypeOK, CallInv
  <2>2. TypeOK'
    BY <1>2, <2>1 DEF TypeOK, End, Goto, poolVars, Reasons, Steps
  <2>3. CallInv'
    BY <1>2 DEF TypeOK, CallInv, End, Goto, Asking
  <2> QED BY <2>2, <2>3
<1>3. ASSUME NEW w \in Workers, Finish(w) PROVE TypeOK' /\ CallInv'
  <2>1. PICK status \in {"completed", "failed", "error"} : End(w, status)
    BY <1>3 DEF Finish
  <2>2. status \in Statuses /\ step[w] # "idle" /\ stop' \in {stop, "exceeded"}
    BY <1>3 DEF Finish, Statuses
  <2> QED BY <1>2, <2>1, <2>2
<1>4. ASSUME NEW w \in Workers, CatchStop(w) PROVE TypeOK' /\ CallInv'
  <2>1. "stopped" \in Statuses /\ step[w] # "idle" /\ End(w, "stopped") /\ stop' \in {stop, "exceeded"}
    BY <1>4 DEF CatchStop, Latch, Statuses
  <2> QED BY <1>2, <2>1
<1>5. ASSUME NextBatch PROVE TypeOK' /\ CallInv'
  <2>1. CASE UNCHANGED <<waiting, submitted>> /\ phase' = Over
    BY <1>5, <2>1 DEF NextBatch, Over, TypeOK, CallInv, callVars
  <2>2. CASE ~ (UNCHANGED <<waiting, submitted>> /\ phase' = Over)
    <3>1. /\ submitted # Clusters /\ ~ (MinTarget <= Cardinality(Completed))
          /\ waiting' = (submitted + 1)..(submitted + BatchSize)
          /\ submitted' = submitted + BatchSize /\ UNCHANGED phase
          /\ UNCHANGED <<stop, file, failures, outcome, step, cluster, tries, bad, calls, warned, late, refused>>
      BY <1>5, <2>2 DEF NextBatch, callVars
    <3>2. BatchSize \in Nat \ {0} /\ BatchSize <= Clusters - submitted
      BY <3>1, BatchBounds
    <3>3. submitted' \in Limit..Clusters /\ waiting' \subseteq 1..submitted'
      BY <3>1, <3>2 DEF TypeOK
    <3> QED BY <3>1, <3>3 DEF TypeOK, CallInv
  <2> QED BY <2>1, <2>2
<1>6. ASSUME EngageElsewhere \/ Done \/ UNCHANGED vars PROVE TypeOK' /\ CallInv'
  BY <1>6 DEF EngageElsewhere, Done, vars, poolVars, callVars, TypeOK, CallInv
<1>7. ASSUME NEW w \in Workers, Call(w) PROVE TypeOK' /\ CallInv'
  <2>1. TypeOK'
    <3>1. (stop # Running \/ file = "guard") \in BOOLEAN
      OBVIOUS
    <3>2. \E b \in BOOLEAN : warned' = [warned EXCEPT ![w] = b]
      BY <1>7, <3>1 DEF Call
    <3>3. /\ step' = [step EXCEPT ![w] = "run"]
          /\ tries' = [tries EXCEPT ![w] = 0] /\ bad' = [bad EXCEPT ![w] = 0]
          /\ UNCHANGED <<stop, file, failures, waiting, submitted, phase, outcome, cluster, calls, late, refused>>
      BY <1>7 DEF Call, Goto, poolVars
    <3> QED BY <3>2, <3>3 DEF TypeOK, Steps
  <2>2. CallInv'
    BY <1>7 DEF TypeOK, CallInv, Call, Goto, Asking
  <2> QED BY <2>1, <2>2
<1>8. ASSUME NEW w \in Workers, CheckRun(w) \/ CheckFile(w) PROVE TypeOK' /\ CallInv'
  <2>1. TypeOK'
    <3>1. PICK s \in Steps : step' = [step EXCEPT ![w] = s]
      BY <1>8 DEF CheckRun, CheckFile, Goto, Steps
    <3>2. stop' \in {stop, "exceeded"}
      BY <1>8 DEF CheckRun, CheckFile, Latch
    <3>3. UNCHANGED <<file, failures, waiting, submitted, phase, outcome, cluster, tries, bad, calls, warned, late, refused>>
      BY <1>8 DEF CheckRun, CheckFile, poolVars, callVars
    <3> QED BY <3>1, <3>2, <3>3 DEF TypeOK, Reasons
  <2>2. CallInv'
    BY <1>8 DEF TypeOK, CallInv, CheckRun, CheckFile, Goto, callVars, Asking
  <2> QED BY <2>1, <2>2
<1>9. ASSUME NEW w \in Workers, CheckKill(w) PROVE TypeOK' /\ CallInv'
  <2>1. cluster[w] \in 1..Clusters /\ calls[w] + 1 \in 0..MaxCalls
    BY <1>9, InCall DEF CheckKill
  <2>3. TypeOK'
    <3>1. /\ UNCHANGED <<stop, file, failures, waiting, submitted, phase, outcome, cluster, tries, bad, late>>
          /\ \/ step' = [step EXCEPT ![w] = "run_again"] /\ UNCHANGED <<calls, warned, refused>>
             \/ /\ step' = [step EXCEPT ![w] = "working"] /\ calls' = [calls EXCEPT ![w] = calls[w] + 1]
                /\ warned' = [warned EXCEPT ![w] = FALSE]
                /\ \E r \in {"other", "guard", "guard_ignored"} : refused' = [refused EXCEPT ![cluster[w]] = r]
      BY <1>9 DEF CheckKill, Return, Goto, poolVars
    <3>2. step' \in [Workers -> Steps]
      BY <3>1 DEF TypeOK, Steps
    <3>3. calls' \in [Workers -> 0..MaxCalls]
      BY <2>1, <3>1 DEF TypeOK
    <3>4. warned' \in [Workers -> BOOLEAN]
      BY <3>1 DEF TypeOK
    <3>5. refused' \in [1..Clusters -> {"never", "other", "guard", "guard_ignored"}]
      BY <2>1, <3>1 DEF TypeOK
    <3> QED BY <3>1, <3>2, <3>3, <3>4, <3>5 DEF TypeOK
  <2>4. CallInv'
    BY <1>9 DEF TypeOK, CallInv, CheckKill, Return, Goto, Asking
  <2> QED BY <2>3, <2>4
<1>10. ASSUME NEW w \in Workers, Reserve(w) PROVE TypeOK' /\ CallInv'
  <2>1. tries[w] + 1 \in 0..MaxRetries /\ late[w] + 1 \in Nat
    BY <1>10 DEF TypeOK, CallInv, Reserve, Asking
  <2>2. TypeOK'
    <3>1. PICK s \in Steps : step' = [step EXCEPT ![w] = s]
      BY <1>10 DEF Reserve, Goto, Steps
    <3>2. stop' \in {stop, "exceeded", "unavailable"}
      BY <1>10 DEF Reserve, Latch
    <3>3. UNCHANGED <<file, failures, waiting, submitted, phase, outcome, cluster, bad, calls, warned, refused>>
      BY <1>10 DEF Reserve, poolVars
    <3>4. \/ UNCHANGED <<tries, late>>
          \/ /\ tries' = [tries EXCEPT ![w] = tries[w] + 1]
             /\ \E n \in {late[w], late[w] + 1} : late' = [late EXCEPT ![w] = n]
      BY <1>10 DEF Reserve
    <3>5. tries' \in [Workers -> 0..MaxRetries]
      BY <2>1, <3>4 DEF TypeOK
    <3>6. late' \in [Workers -> Nat]
      <4>1. late[w] \in Nat
        BY DEF TypeOK
      <4>2. late' = late \/ \E n \in Nat : late' = [late EXCEPT ![w] = n]
        BY <2>1, <3>4, <4>1
      <4> QED BY <4>2 DEF TypeOK
    <3> QED BY <3>1, <3>2, <3>3, <3>5, <3>6 DEF TypeOK, Reasons
  <2>3. CallInv'
    BY <1>10 DEF TypeOK, CallInv, Reserve, Goto, Asking
  <2> QED BY <2>2, <2>3
<1>11. ASSUME NEW w \in Workers, Engage(w) \/ Open(w) \/ ServerFails(w) \/ AccountEmpty(w) PROVE TypeOK' /\ CallInv'
  <2>1. failures + 1 \in Nat
    BY DEF TypeOK
  <2>2. TypeOK'
    <3>1. PICK s \in Steps : step' = [step EXCEPT ![w] = s]
      BY <1>11 DEF Engage, Open, ServerFails, AccountEmpty, Goto, Steps
    <3>2. /\ stop' \in {stop, "circuit"} /\ failures' \in {failures, failures + 1} /\ file' \in {file, "guard"}
          /\ UNCHANGED <<waiting, submitted, phase, outcome, cluster, tries, bad, calls, warned, late, refused>>
      BY <1>11 DEF Engage, Open, ServerFails, AccountEmpty, Latch, poolVars, callVars
    <3> QED BY <2>1, <3>1, <3>2 DEF TypeOK, Reasons
  <2>3. CallInv'
    BY <1>11 DEF TypeOK, CallInv, Engage, Open, ServerFails, AccountEmpty, Goto, callVars, Asking
  <2> QED BY <2>2, <2>3
<1>12. ASSUME NEW w \in Workers, Answered(w) \/ BadAnswer(w) \/ Rejected(w) \/ Retry(w) PROVE TypeOK' /\ CallInv'
  <2>1. /\ step[w] \notin {"idle", "working"}
        /\ calls[w] + 1 \in 0..MaxCalls /\ bad[w] + 1 \in 0..(MaxSchema + 1)
    <3>1. step[w] \notin {"idle", "working"}
      BY <1>12 DEF Answered, BadAnswer, Rejected, Retry
    <3> QED BY <3>1, InCall
  <2>2. TypeOK'
    <3>1. PICK s \in Steps : step' = [step EXCEPT ![w] = s]
      BY <1>12 DEF Answered, BadAnswer, Rejected, Retry, Return, Goto, Steps
    <3>2. /\ failures' \in {failures, 0}
          /\ UNCHANGED <<stop, file, waiting, submitted, phase, outcome, cluster, tries, late, refused>>
      BY <1>12 DEF Answered, BadAnswer, Rejected, Retry, poolVars
    <3>3. bad' = bad \/ bad' = [bad EXCEPT ![w] = bad[w] + 1]
      BY <1>12 DEF Answered, BadAnswer, Rejected, Retry
    <3>4. \/ UNCHANGED <<calls, warned>>
          \/ calls' = [calls EXCEPT ![w] = calls[w] + 1] /\ warned' = [warned EXCEPT ![w] = FALSE]
      BY <1>12 DEF Answered, BadAnswer, Rejected, Retry, Return
    <3>8. failures' \in Nat
      BY <3>2 DEF TypeOK
    <3>5. /\ stop' \in Reasons \cup {Running} /\ file' \in {"none", "guard", "other"}
          /\ submitted' \in Limit..Clusters /\ waiting' \subseteq 1..submitted'
          /\ phase' \in {"running", "finished", "aborted"}
          /\ outcome' \in [1..Clusters -> Statuses \cup {"none"}]
          /\ refused' \in [1..Clusters -> {"never", "other", "guard", "guard_ignored"}]
          /\ cluster' \in [Workers -> 0..Clusters] /\ tries' \in [Workers -> 0..MaxRetries]
          /\ late' \in [Workers -> Nat]
      BY <3>2 DEF TypeOK
    <3>6. step' \in [Workers -> Steps] /\ bad' \in [Workers -> 0..(MaxSchema + 1)]
      BY <2>1, <3>1, <3>3 DEF TypeOK
    <3>7. calls' \in [Workers -> 0..MaxCalls] /\ warned' \in [Workers -> BOOLEAN]
      BY <2>1, <3>4 DEF TypeOK
    <3> QED BY <3>5, <3>6, <3>7, <3>8 DEF TypeOK
  <2>3. CASE Answered(w) \/ Rejected(w)
    <3>1. CallInv'
      BY <2>1, <2>3 DEF TypeOK, CallInv, Answered, Rejected, Return, Goto, Asking
    <3> QED BY <2>2, <3>1
  <2>4. CASE BadAnswer(w)
    <3>1. /\ \A v \in Workers \ {w} : step'[v] = step[v] /\ bad'[v] = bad[v] /\ calls'[v] = calls[v]
          /\ UNCHANGED <<cluster, tries>>
          /\ \/ step'[w] = "working"
             \/ step'[w] = "backoff" /\ calls'[w] = calls[w] /\ bad'[w] = bad[w] + 1 /\ ~ (bad[w] + 1 > MaxSchema)
      BY <2>4 DEF BadAnswer, Return, Goto, TypeOK
    <3>2. step[w] = "sent"
      BY <2>4 DEF BadAnswer
    <3>3. bad[w] \in Nat
      BY DEF TypeOK
    <3>4. CallInv'
      BY <3>1, <3>2, <3>3 DEF CallInv, Asking
    <3> QED BY <2>2, <3>4
  <2>5. CASE Retry(w)
    <3>1. CallInv'
      BY <2>1, <2>5 DEF TypeOK, CallInv, Retry, Return, Goto, Asking
    <3> QED BY <2>2, <3>1
  <2> QED BY <1>12, <2>3, <2>4, <2>5
<1> QED BY <1>1, <1>3, <1>4, <1>5, <1>6, <1>7, <1>8, <1>9, <1>10, <1>11, <1>12 DEF Next, Work, Respond


-------------------------------------------------------------------------------
(* What a step of one thread leaves alone *)

LEMMA ThreadFrame ==
  ASSUME TypeOK, NEW w \in Workers, Work(w)
  PROVE  /\ \A v \in Workers : v # w =>
              /\ step'[v] = step[v] /\ cluster'[v] = cluster[v]
              /\ late'[v] = late[v] /\ warned'[v] = warned[v]
         /\ stop # Running => stop' = stop
         /\ file = "guard" => file' = "guard"
         /\ UNCHANGED <<phase, submitted>>
<1> DEFINE Frame == /\ \A v \in Workers : v # w =>
                         /\ step'[v] = step[v] /\ cluster'[v] = cluster[v]
                         /\ late'[v] = late[v] /\ warned'[v] = warned[v]
                    /\ stop # Running => stop' = stop
                    /\ file = "guard" => file' = "guard"
                    /\ UNCHANGED <<phase, submitted>>
<1>1. ASSUME Take(w) PROVE Frame
  BY <1>1 DEF Take, Goto, TypeOK
<1>2. ASSUME Finish(w) PROVE Frame
  BY <1>2 DEF Finish, End, Goto, poolVars, TypeOK
<1>3. ASSUME CatchStop(w) PROVE Frame
  BY <1>3 DEF CatchStop, End, Goto, Latch, poolVars, TypeOK
<1>4. ASSUME Call(w) PROVE Frame
  BY <1>4 DEF Call, Goto, poolVars, TypeOK
<1>5. ASSUME CheckRun(w) PROVE Frame
  BY <1>5 DEF CheckRun, Goto, poolVars, callVars, TypeOK
<1>6. ASSUME CheckFile(w) PROVE Frame
  BY <1>6 DEF CheckFile, Goto, Latch, poolVars, callVars, TypeOK
<1>7. ASSUME CheckKill(w) PROVE Frame
  BY <1>7 DEF CheckKill, Return, Goto, poolVars, TypeOK
<1>8. ASSUME Reserve(w) PROVE Frame
  BY <1>8 DEF Reserve, Goto, Latch, poolVars, TypeOK
<1>9. ASSUME Engage(w) PROVE Frame
  BY <1>9 DEF Engage, Goto, poolVars, callVars, TypeOK
<1>10. ASSUME Answered(w) PROVE Frame
  BY <1>10 DEF Answered, Return, Goto, poolVars, TypeOK
<1>11. ASSUME BadAnswer(w) PROVE Frame
  BY <1>11 DEF BadAnswer, Return, Goto, poolVars, TypeOK
<1>12. ASSUME ServerFails(w) PROVE Frame
  BY <1>12 DEF ServerFails, Goto, poolVars, callVars, TypeOK
<1>13. ASSUME AccountEmpty(w) PROVE Frame
  BY <1>13 DEF AccountEmpty, Goto, poolVars, callVars, TypeOK
<1>14. ASSUME Rejected(w) PROVE Frame
  BY <1>14 DEF Rejected, Return, Goto, poolVars, TypeOK
<1>15. ASSUME Open(w) PROVE Frame
  BY <1>15 DEF Open, Goto, Latch, poolVars, callVars, TypeOK
<1>16. ASSUME Retry(w) PROVE Frame
  BY <1>16 DEF Retry, Return, Goto, poolVars, TypeOK
<1> QED BY <1>1, <1>2, <1>3, <1>4, <1>5, <1>6, <1>7, <1>8, <1>9, <1>10, <1>11, <1>12, <1>13, <1>14, <1>15, <1>16 DEF Work, Respond

-------------------------------------------------------------------------------
(* A stopped run *)

LEMMA LateStep ==
  ASSUME TypeOK, LateInv, [Next]_vars
  PROVE  LateInv'
<1>1. ASSUME NEW w \in Workers, Work(w) PROVE LateInv'
  <2> DEFINE Kept == late'[w] > 0 => /\ late'[w] = 1 /\ stop' # Running
                                     /\ step'[w] \notin {"file", "kill", "file_again", "reserve"}
  <2>1. ASSUME Take(w) PROVE Kept
    BY <2>1 DEF Take, Goto, TypeOK, LateInv
  <2>2. ASSUME Finish(w) PROVE Kept
    BY <2>2 DEF Finish, End, Goto, poolVars, TypeOK, LateInv
  <2>3. ASSUME CatchStop(w) PROVE Kept
    BY <2>3 DEF CatchStop, End, Goto, Latch, poolVars, TypeOK, LateInv
  <2>4. ASSUME Call(w) PROVE Kept
    BY <2>4 DEF Call, Goto, poolVars, TypeOK, LateInv
  <2>5. ASSUME CheckRun(w) PROVE Kept
    BY <2>5 DEF CheckRun, Goto, poolVars, callVars, TypeOK, LateInv
  <2>6. ASSUME CheckFile(w) PROVE Kept
    BY <2>6 DEF CheckFile, Goto, Latch, poolVars, callVars, TypeOK, LateInv
  <2>7. ASSUME CheckKill(w) PROVE Kept
    BY <2>7 DEF CheckKill, Return, Goto, poolVars, TypeOK, LateInv
  <2>8. ASSUME Reserve(w) PROVE Kept
    BY <2>8 DEF Reserve, Goto, Latch, poolVars, TypeOK, LateInv
  <2>9. ASSUME Engage(w) PROVE Kept
    BY <2>9 DEF Engage, Goto, poolVars, callVars, TypeOK, LateInv
  <2>10. ASSUME Answered(w) PROVE Kept
    BY <2>10 DEF Answered, Return, Goto, poolVars, TypeOK, LateInv
  <2>11. ASSUME BadAnswer(w) PROVE Kept
    BY <2>11 DEF BadAnswer, Return, Goto, poolVars, TypeOK, LateInv
  <2>12. ASSUME ServerFails(w) PROVE Kept
    BY <2>12 DEF ServerFails, Goto, poolVars, callVars, TypeOK, LateInv
  <2>13. ASSUME AccountEmpty(w) PROVE Kept
    BY <2>13 DEF AccountEmpty, Goto, poolVars, callVars, TypeOK, LateInv
  <2>14. ASSUME Rejected(w) PROVE Kept
    BY <2>14 DEF Rejected, Return, Goto, poolVars, TypeOK, LateInv
  <2>15. ASSUME Open(w) PROVE Kept
    BY <2>15 DEF Open, Goto, Latch, poolVars, callVars, TypeOK, LateInv
  <2>16. ASSUME Retry(w) PROVE Kept
    BY <2>16 DEF Retry, Return, Goto, poolVars, TypeOK, LateInv
  <2>17. Kept
    BY <1>1, <2>1, <2>2, <2>3, <2>4, <2>5, <2>6, <2>7, <2>8, <2>9, <2>10, <2>11, <2>12, <2>13, <2>14, <2>15, <2>16 DEF Work, Respond
  <2> HIDE DEF Kept
  <2> QED BY <1>1, <2>17, ThreadFrame DEF LateInv, Kept
<1>2. ASSUME NextBatch \/ EngageElsewhere \/ Done \/ UNCHANGED vars PROVE LateInv'
  BY <1>2 DEF NextBatch, EngageElsewhere, Done, vars, LateInv
<1> QED BY <1>1, <1>2 DEF Next


-------------------------------------------------------------------------------
(* An outage *)

\* Harmless can be counted, and there are no more harmless threads than threads.
LEMMA HarmlessCount ==
  /\ IsFiniteSet(Harmless) /\ Cardinality(Harmless) \in Nat
  /\ Cardinality(Harmless) <= Cardinality(Workers)
<1>1. Harmless \in SUBSET Workers /\ IsFiniteSet(Workers)
  BY RunAssumption DEF Harmless
<1>2. IsFiniteSet(Harmless) /\ Cardinality(Harmless) <= Cardinality(Workers)
  BY <1>1, FS_Subset
<1> QED BY <1>2, FS_CardinalityType

\* A thread that is harmless stays so.
LEMMA HarmlessStays ==
  ASSUME TypeOK, NEW w \in Workers, Work(w)
  PROVE  Harmless \subseteq Harmless'
<1> DEFINE Stays == w \in Harmless => step'[w] = "open" \/ (stop' # Running /\ step'[w] \notin Admitted)
<1>1. ASSUME Take(w) PROVE Stays
  BY <1>1 DEF Take, Goto, TypeOK, Harmless, Admitted, Running
<1>2. ASSUME Finish(w) PROVE Stays
  BY <1>2 DEF Finish, End, Goto, poolVars, TypeOK, Harmless, Admitted, Running
<1>3. ASSUME CatchStop(w) PROVE Stays
  BY <1>3 DEF CatchStop, End, Goto, Latch, poolVars, TypeOK, Harmless, Admitted, Running
<1>4. ASSUME Call(w) PROVE Stays
  BY <1>4 DEF Call, Goto, poolVars, TypeOK, Harmless, Admitted, Running
<1>5. ASSUME CheckRun(w) PROVE Stays
  BY <1>5 DEF CheckRun, Goto, poolVars, callVars, TypeOK, Harmless, Admitted, Running
<1>6. ASSUME CheckFile(w) PROVE Stays
  BY <1>6 DEF CheckFile, Goto, Latch, poolVars, callVars, TypeOK, Harmless, Admitted, Running
<1>7. ASSUME CheckKill(w) PROVE Stays
  BY <1>7 DEF CheckKill, Return, Goto, poolVars, TypeOK, Harmless, Admitted, Running
<1>8. ASSUME Reserve(w) PROVE Stays
  BY <1>8 DEF Reserve, Goto, Latch, poolVars, TypeOK, Harmless, Admitted, Running
<1>9. ASSUME Engage(w) PROVE Stays
  BY <1>9 DEF Engage, Goto, poolVars, callVars, TypeOK, Harmless, Admitted, Running
<1>10. ASSUME Answered(w) PROVE Stays
  BY <1>10 DEF Answered, Return, Goto, poolVars, TypeOK, Harmless, Admitted, Running
<1>11. ASSUME BadAnswer(w) PROVE Stays
  BY <1>11 DEF BadAnswer, Return, Goto, poolVars, TypeOK, Harmless, Admitted, Running
<1>12. ASSUME ServerFails(w) PROVE Stays
  BY <1>12 DEF ServerFails, Goto, poolVars, callVars, TypeOK, Harmless, Admitted, Running
<1>13. ASSUME AccountEmpty(w) PROVE Stays
  BY <1>13 DEF AccountEmpty, Goto, poolVars, callVars, TypeOK, Harmless, Admitted, Running
<1>14. ASSUME Rejected(w) PROVE Stays
  BY <1>14 DEF Rejected, Return, Goto, poolVars, TypeOK, Harmless, Admitted, Running
<1>15. ASSUME Open(w) PROVE Stays
  BY <1>15 DEF Open, Goto, Latch, poolVars, callVars, TypeOK, Harmless, Admitted, Running
<1>16. ASSUME Retry(w) PROVE Stays
  BY <1>16 DEF Retry, Return, Goto, poolVars, TypeOK, Harmless, Admitted, Running
<1>17. Stays
  BY <1>1, <1>2, <1>3, <1>4, <1>5, <1>6, <1>7, <1>8, <1>9, <1>10, <1>11, <1>12, <1>13, <1>14, <1>15, <1>16 DEF Work, Respond
<1>18. ASSUME NEW v \in Harmless, v # w PROVE v \in Harmless'
  <2>1. v \in Workers /\ step'[v] = step[v] /\ (stop # Running => stop' = stop)
    BY <1>18, ThreadFrame DEF Harmless
  <2> QED BY <2>1 DEF Harmless
<1> QED BY <1>17, <1>18 DEF Harmless

\* The breaker counts up in one place only.
LEMMA FailuresStep ==
  ASSUME TypeOK, NEW w \in Workers, Work(w)
  PROVE  ServerFails(w) \/ failures' = failures \/ failures' = 0
BY DEF Work, Respond, Take, Finish, CatchStop, End, Call, CheckRun, CheckFile, CheckKill, Reserve,
       Engage, Answered, BadAnswer, AccountEmpty, Rejected, Open, Retry

LEMMA OutageStep ==
  ASSUME TypeOK, OutageInv, [Next]_vars
  PROVE  OutageInv'
<1> SUFFICES ASSUME Threshold > 0
             PROVE  failures' <= Threshold - 1 + Cardinality(Harmless')
  BY DEF OutageInv
<1>1. /\ Threshold \in Nat /\ failures \in Nat
      /\ failures <= Threshold - 1 + Cardinality(Harmless)
  BY RunAssumption DEF TypeOK, OutageInv
<1>2. ASSUME NEW w \in Workers, Work(w) PROVE failures' <= Threshold - 1 + Cardinality(Harmless')
  <2>1. Harmless' \in SUBSET Workers /\ IsFiniteSet(Workers)
    BY RunAssumption DEF Harmless
  <2>2. IsFiniteSet(Harmless')
    BY <2>1, FS_Subset
  <2>3. Cardinality(Harmless) <= Cardinality(Harmless') /\ Cardinality(Harmless') \in Nat
    BY <1>2, <2>2, HarmlessStays, FS_Subset, FS_CardinalityType
  <2>4. Cardinality(Harmless) \in Nat
    BY HarmlessCount
  <2>5. CASE failures' = failures \/ failures' = 0
    BY <1>1, <2>3, <2>4, <2>5
  <2>6. CASE ServerFails(w) /\ ~ Opens(failures + 1)
    <3>1. failures' = failures + 1 /\ failures + 1 < Threshold
      BY <1>1, <2>6 DEF ServerFails, Opens
    <3> QED BY <1>1, <2>3, <3>1
  <2>7. CASE ServerFails(w) /\ Opens(failures + 1)
    <3>1. failures' = failures + 1 /\ w \notin Harmless /\ w \in Harmless'
      BY <2>7 DEF ServerFails, Goto, TypeOK, Harmless, Admitted
    <3>2. Harmless \cup {w} \in SUBSET Harmless'
      BY <1>2, <3>1, HarmlessStays
    <3>3. Cardinality(Harmless \cup {w}) = Cardinality(Harmless) + 1
      BY <3>1, HarmlessCount, FS_AddElement
    <3>4. Cardinality(Harmless \cup {w}) <= Cardinality(Harmless')
      BY <2>2, <3>2, FS_Subset
    <3> QED BY <1>1, <2>3, <2>4, <3>1, <3>3, <3>4
  <2> QED BY <1>2, <2>5, <2>6, <2>7, FailuresStep
<1>3. ASSUME NextBatch \/ EngageElsewhere \/ Done \/ UNCHANGED vars
      PROVE  failures' <= Threshold - 1 + Cardinality(Harmless')
  <2>1. failures' = failures /\ step' = step /\ stop' = stop
    BY <1>3 DEF NextBatch, EngageElsewhere, Done, vars
  <2>2. Harmless' = Harmless
    BY <2>1 DEF Harmless
  <2> QED BY <1>1, <2>1, <2>2
<1> QED BY <1>2, <1>3 DEF Next

-------------------------------------------------------------------------------
(* The file of a spend guard *)

LEMMA WarnedStep ==
  ASSUME TypeOK, CallInv, WarnedInv, GuardStopsNewCalls, [Next]_vars
  PROVE  WarnedInv' /\ GuardStopsNewCalls'
<1>1. ASSUME NEW w \in Workers, Work(w) PROVE WarnedInv' /\ GuardStopsNewCalls'
  <2> DEFINE Kept == warned'[w] => \/ step'[w] = "raised"
                                   \/ step'[w] = "run" /\ (stop' # Running \/ file' = "guard")
                                   \/ step'[w] = "file" /\ file' = "guard"
  <2>1. ASSUME Take(w) PROVE Kept
    BY <2>1 DEF Take, Goto, TypeOK, WarnedInv
  <2>2. ASSUME Finish(w) PROVE Kept
    BY <2>2 DEF Finish, End, Goto, poolVars, TypeOK, WarnedInv
  <2>3. ASSUME CatchStop(w) PROVE Kept
    BY <2>3 DEF CatchStop, End, Goto, Latch, poolVars, TypeOK, WarnedInv
  <2>4. ASSUME Call(w) PROVE Kept
    BY <2>4 DEF Call, Goto, poolVars, TypeOK, WarnedInv
  <2>5. ASSUME CheckRun(w) PROVE Kept
    BY <2>5 DEF CheckRun, Goto, poolVars, callVars, TypeOK, WarnedInv
  <2>6. ASSUME CheckFile(w) PROVE Kept
    BY <2>6 DEF CheckFile, Goto, Latch, poolVars, callVars, TypeOK, WarnedInv
  <2>7. ASSUME CheckKill(w) PROVE Kept
    BY <2>7 DEF CheckKill, Return, Goto, poolVars, TypeOK, WarnedInv
  <2>8. ASSUME Reserve(w) PROVE Kept
    BY <2>8 DEF Reserve, Goto, Latch, poolVars, TypeOK, WarnedInv
  <2>9. ASSUME Engage(w) PROVE Kept
    BY <2>9 DEF Engage, Goto, poolVars, callVars, TypeOK, WarnedInv
  <2>10. ASSUME Answered(w) PROVE Kept
    BY <2>10 DEF Answered, Return, Goto, poolVars, TypeOK, WarnedInv
  <2>11. ASSUME BadAnswer(w) PROVE Kept
    BY <2>11 DEF BadAnswer, Return, Goto, poolVars, TypeOK, WarnedInv
  <2>12. ASSUME ServerFails(w) PROVE Kept
    BY <2>12 DEF ServerFails, Goto, poolVars, callVars, TypeOK, WarnedInv
  <2>13. ASSUME AccountEmpty(w) PROVE Kept
    BY <2>13 DEF AccountEmpty, Goto, poolVars, callVars, TypeOK, WarnedInv
  <2>14. ASSUME Rejected(w) PROVE Kept
    BY <2>14 DEF Rejected, Return, Goto, poolVars, TypeOK, WarnedInv
  <2>15. ASSUME Open(w) PROVE Kept
    BY <2>15 DEF Open, Goto, Latch, poolVars, callVars, TypeOK, WarnedInv
  <2>16. ASSUME Retry(w) PROVE Kept
    BY <2>16 DEF Retry, Return, Goto, poolVars, TypeOK, WarnedInv
  <2>17. Kept
    BY <1>1, <2>1, <2>2, <2>3, <2>4, <2>5, <2>6, <2>7, <2>8, <2>9, <2>10, <2>11, <2>12, <2>13, <2>14, <2>15, <2>16 DEF Work, Respond
  <2> HIDE DEF Kept
  <2>18. WarnedInv'
    BY <1>1, <2>17, ThreadFrame DEF WarnedInv, Kept
  <2>19. GuardStopsNewCalls'
    <3>1. CASE CheckKill(w)
      <4>1. step[w] = "kill" /\ cluster[w] \in 1..Clusters
        BY <3>1, InCall DEF CheckKill
      <4>2. ~ warned[w]
        BY <4>1 DEF WarnedInv
      <4>3. refused' = refused \/ \E r \in {"other", "guard"} : refused' = [refused EXCEPT ![cluster[w]] = r]
        BY <3>1, <4>2 DEF CheckKill
      <4> QED BY <4>3 DEF GuardStopsNewCalls, TypeOK
    <3>2. CASE refused' = refused
      BY <3>2 DEF GuardStopsNewCalls
    <3> QED BY <1>1, <3>1, <3>2 DEF Work, Respond, Take, Finish, CatchStop, End, Call, CheckRun, CheckFile,
              Reserve, Engage, Answered, BadAnswer, ServerFails, AccountEmpty, Rejected, Open, Retry
  <2> QED BY <2>18, <2>19
<1>2. ASSUME NextBatch \/ EngageElsewhere \/ Done \/ UNCHANGED vars PROVE WarnedInv' /\ GuardStopsNewCalls'
  BY <1>2 DEF NextBatch, EngageElsewhere, Done, vars, callVars, WarnedInv, GuardStopsNewCalls
<1> QED BY <1>1, <1>2 DEF Next


-------------------------------------------------------------------------------
(* The account of the clusters *)

\* A thread that does anything has something to do.
LEMMA WorkIsNotIdle ==
  ASSUME NEW w \in Workers, Work(w)
  PROVE  ~ Idle
BY DEF Work, Respond, Take, Finish, CatchStop, Call, CheckRun, CheckFile, CheckKill, Reserve,
       Engage, Answered, BadAnswer, ServerFails, AccountEmpty, Rejected, Open, Retry, Idle

\* Which clusters are where changes in two ways only: a thread takes the next
\* one, or it ends its own.
PoolSteps(w) ==
  \/ UNCHANGED <<waiting, outcome, cluster>>
  \/ \E c \in waiting :
       /\ waiting' = waiting \ {c}
       /\ \/ stop # Running /\ outcome' = [outcome EXCEPT ![c] = "not_started"] /\ UNCHANGED cluster
          \/ cluster[w] = 0 /\ cluster' = [cluster EXCEPT ![w] = c] /\ UNCHANGED outcome
  \/ \E status \in Statuses :
       /\ cluster[w] \in 1..Clusters /\ (status \in {"stopped", "not_started"} => stop' # Running)
       /\ outcome' = [outcome EXCEPT ![cluster[w]] = status]
       /\ cluster' = [cluster EXCEPT ![w] = 0] /\ UNCHANGED waiting

LEMMA WorkPool ==
  ASSUME TypeOK, CallInv, NEW w \in Workers, Work(w)
  PROVE  PoolSteps(w)
<1>1. CASE Take(w)
  <2>1. cluster[w] = 0
    BY <1>1 DEF Take, CallInv
  <2> QED BY <1>1, <2>1 DEF Take, PoolSteps
<1>2. CASE Finish(w) \/ CatchStop(w)
  <2>1. cluster[w] \in 1..Clusters
    <3>1. cluster[w] \in 0..Clusters /\ cluster[w] # 0
      BY <1>2 DEF Finish, CatchStop, TypeOK, CallInv
    <3> QED BY <3>1, RunAssumption
  <2>2. \E status \in Statuses : /\ status \in {"stopped", "not_started"} => stop' # Running
                                 /\ outcome' = [outcome EXCEPT ![cluster[w]] = status]
    BY <1>2 DEF Finish, CatchStop, End, Latch, Statuses, Running
  <2>3. cluster' = [cluster EXCEPT ![w] = 0] /\ UNCHANGED waiting
    BY <1>2 DEF Finish, CatchStop, End, poolVars
  <2> QED BY <2>1, <2>2, <2>3 DEF PoolSteps
<1>3. CASE UNCHANGED <<waiting, outcome, cluster>>
  BY <1>3 DEF PoolSteps
<1> QED BY <1>1, <1>2, <1>3 DEF Work, Respond, Call, CheckRun, CheckFile, CheckKill, Reserve,
       Engage, Answered, BadAnswer, ServerFails, AccountEmpty, Rejected, Open, Retry, poolVars, callVars

\* The clusters a newsletter may still come of become no more.
LEMMA HopefulShrinks ==
  ASSUME TypeOK, NEW w \in Workers, PoolSteps(w)
  PROVE  Hopeful' \subseteq Hopeful
<1> SUFFICES ASSUME NEW d \in 1..Clusters, d \in Hopeful' PROVE d \in Hopeful
  BY DEF Hopeful
<1>1. outcome'[d] = "completed" \/ d \in waiting' \/ \E v \in Workers : cluster'[v] = d
  BY DEF Hopeful, Handed
<1>2. (\E v \in Workers : cluster[v] = d) => d \in Hopeful
  BY DEF Hopeful, Handed
<1>3. outcome[d] = "completed" \/ d \in waiting => d \in Hopeful
  BY DEF Hopeful
<1>4. d # 0
  BY RunAssumption
<1> QED BY <1>1, <1>2, <1>3, <1>4 DEF PoolSteps, TypeOK

\* What is known of each cluster stays true.
LEMMA ClustersStep ==
  ASSUME TypeOK, NEW w \in Workers, PoolSteps(w), PoolInv,
         UNCHANGED submitted, stop # Running => stop' = stop,
         NEW d \in 1..Clusters
  PROVE  /\ d > submitted => outcome'[d] = "none"
         /\ d <= submitted /\ outcome'[d] = "none" => d \in waiting' \/ \E v \in Workers : cluster'[v] = d
         /\ outcome'[d] \in {"stopped", "not_started"} => stop' # Running
<1>1. /\ d > submitted => outcome[d] = "none"
      /\ d <= submitted /\ outcome[d] = "none" => d \in waiting \/ \E v \in Workers : cluster[v] = d
      /\ outcome[d] \in {"stopped", "not_started"} => stop # Running
  BY DEF PoolInv, Handed
<1>2. d # 0 /\ submitted \in Nat /\ d \in Nat
  BY RunAssumption DEF TypeOK
<1>3. CASE UNCHANGED <<waiting, outcome, cluster>>
  BY <1>1, <1>3
<1>4. ASSUME NEW c \in waiting, waiting' = waiting \ {c}, stop # Running,
             outcome' = [outcome EXCEPT ![c] = "not_started"], UNCHANGED cluster
      PROVE  /\ d > submitted => outcome'[d] = "none"
             /\ d <= submitted /\ outcome'[d] = "none" => d \in waiting' \/ \E v \in Workers : cluster'[v] = d
             /\ outcome'[d] \in {"stopped", "not_started"} => stop' # Running
  <2>1. c \in 1..submitted /\ c \in 1..Clusters
    BY RunAssumption DEF TypeOK
  <2> QED BY <1>1, <1>2, <1>4, <2>1 DEF TypeOK
<1>5. ASSUME NEW c \in waiting, waiting' = waiting \ {c}, cluster[w] = 0,
             cluster' = [cluster EXCEPT ![w] = c], UNCHANGED outcome
      PROVE  /\ d > submitted => outcome'[d] = "none"
             /\ d <= submitted /\ outcome'[d] = "none" => d \in waiting' \/ \E v \in Workers : cluster'[v] = d
             /\ outcome'[d] \in {"stopped", "not_started"} => stop' # Running
  <2>1. cluster'[w] = c /\ \A v \in Workers : v # w => cluster'[v] = cluster[v]
    BY <1>5 DEF TypeOK
  <2> QED BY <1>1, <1>2, <1>5, <2>1
<1>6. ASSUME NEW status \in Statuses, cluster[w] \in 1..Clusters,
             status \in {"stopped", "not_started"} => stop' # Running,
             outcome' = [outcome EXCEPT ![cluster[w]] = status],
             cluster' = [cluster EXCEPT ![w] = 0], UNCHANGED waiting, cluster[w] <= submitted
      PROVE  /\ d > submitted => outcome'[d] = "none"
             /\ d <= submitted /\ outcome'[d] = "none" => d \in waiting' \/ \E v \in Workers : cluster'[v] = d
             /\ outcome'[d] \in {"stopped", "not_started"} => stop' # Running
  <2>1. outcome'[cluster[w]] = status /\ status # "none" /\ \A e \in 1..Clusters : e # cluster[w] => outcome'[e] = outcome[e]
    BY <1>6 DEF TypeOK, Statuses
  <2>2. \A v \in Workers : v # w => cluster'[v] = cluster[v]
    BY <1>6 DEF TypeOK
  <2>3. cluster[w] \in Nat
    BY <1>6
  <2> QED BY <1>1, <1>2, <1>6, <2>1, <2>2, <2>3
<1>7. ASSUME cluster[w] \in 1..Clusters PROVE cluster[w] <= submitted
  BY DEF PoolInv
<1> QED BY <1>3, <1>4, <1>5, <1>6, <1>7 DEF PoolSteps


LEMMA WorkKeepsPool ==
  ASSUME TypeOK, CallInv, PoolInv, NEW w \in Workers, Work(w)
  PROVE  PoolInv'
<1>1. /\ PoolSteps(w) /\ UNCHANGED <<phase, submitted>> /\ (stop # Running => stop' = stop)
      /\ phase = "running"
  BY WorkPool, ThreadFrame, WorkIsNotIdle DEF PoolInv
<1>2. \A d \in 1..Clusters :
        /\ d > submitted' => outcome'[d] = "none"
        /\ d <= submitted' /\ outcome'[d] = "none" => d \in waiting' \/ d \in Handed'
        /\ outcome'[d] \in {"stopped", "not_started"} => stop' # Running
  BY <1>1, ClustersStep DEF Handed
<1>3. \A v \in Workers : cluster'[v] <= submitted'
  <2>1. \A c \in waiting : c <= submitted
    BY RunAssumption DEF TypeOK
  <2>2. 0 <= submitted
    BY RunAssumption DEF TypeOK
  <2>3. \A v \in Workers : cluster[v] <= submitted
    BY DEF PoolInv
  <2> QED BY <1>1, <2>1, <2>2, <2>3 DEF PoolSteps, TypeOK
<1>4. submitted' > Limit => Cardinality(Hopeful') <= MinTarget
  <2>1. Hopeful \in SUBSET (1..Clusters) /\ IsFiniteSet(1..Clusters)
    BY RunAssumption, FS_Interval DEF Hopeful
  <2>2. IsFiniteSet(Hopeful)
    BY <2>1, FS_Subset
  <2>3. Hopeful' \in SUBSET Hopeful
    BY <1>1, HopefulShrinks
  <2>4. Cardinality(Hopeful') <= Cardinality(Hopeful) /\ IsFiniteSet(Hopeful')
    BY <2>2, <2>3, FS_Subset
  <2>5. Cardinality(Hopeful') \in Nat /\ Cardinality(Hopeful) \in Nat /\ MinTarget \in Nat
    BY <2>2, <2>4, FS_CardinalityType, RunAssumption
  <2> QED BY <1>1, <2>4, <2>5 DEF PoolInv
<1> QED BY <1>1, <1>2, <1>3, <1>4 DEF PoolInv

LEMMA BatchKeepsPool ==
  ASSUME TypeOK, CallInv, PoolInv, NextBatch
  PROVE  PoolInv'
<1>1. Idle /\ UNCHANGED <<stop, outcome, step, cluster>> /\ phase = "running"
  BY DEF NextBatch, callVars
<1>2. waiting = {} /\ (\A v \in Workers : cluster[v] = 0)
  BY <1>1 DEF Idle, CallInv
<1>3. Completed' = Completed /\ Handed' = Handed
  BY <1>1 DEF Completed, Handed
<1>4. CASE phase' = Over /\ UNCHANGED <<waiting, submitted>> /\
           (MinTarget = 0 \/ submitted = Clusters \/ stop # Running \/ MinTarget <= Cardinality(Completed))
  <2>1. Idle' /\ Hopeful' = Hopeful
    BY <1>1, <1>3, <1>4 DEF Idle, Hopeful
  <2>2. Cardinality(Completed) \in Nat /\ MinTarget \in Nat
    BY CompletedCount, RunAssumption
  <2>3. phase' = "finished" => /\ stop' = Running
                               /\ Cardinality(Completed') >= MinTarget \/ submitted' = Clusters
    BY <1>1, <1>3, <1>4, <2>2 DEF Over
  <2> QED BY <1>1, <1>3, <1>4, <2>1, <2>3 DEF PoolInv
<1>5. CASE /\ submitted # Clusters /\ ~ (MinTarget <= Cardinality(Completed)) /\ UNCHANGED phase
           /\ waiting' = (submitted + 1)..(submitted + BatchSize) /\ submitted' = submitted + BatchSize
  <2>1. /\ BatchSize \in Nat \ {0} /\ BatchSize <= MinTarget - Cardinality(Completed)
        /\ submitted \in Nat /\ Cardinality(Completed) \in Nat /\ IsFiniteSet(Completed)
        /\ MinTarget \in Nat /\ \A d \in 1..Clusters : d \in Nat
    <3>1. submitted \in Nat /\ MinTarget \in Nat /\ \A d \in 1..Clusters : d \in Nat
      BY RunAssumption DEF TypeOK
    <3>2. Cardinality(Completed) \in Nat /\ IsFiniteSet(Completed)
      BY CompletedCount
    <3>3. BatchSize \in Nat \ {0} /\ BatchSize <= MinTarget - Cardinality(Completed)
      BY <1>5, BatchBounds
    <3> QED BY <3>1, <3>2, <3>3
  <2>2. \A d \in 1..Clusters :
          /\ d > submitted' => outcome'[d] = "none"
          /\ d <= submitted' /\ outcome'[d] = "none" => d \in waiting' \/ d \in Handed'
          /\ outcome'[d] \in {"stopped", "not_started"} => stop' # Running
    BY <1>1, <1>2, <1>3, <1>5, <2>1 DEF PoolInv
  <2>3. \A v \in Workers : cluster'[v] <= submitted'
    BY <1>1, <1>2, <1>5, <2>1
  <2>4. Cardinality(Hopeful') <= MinTarget
    <3>1. 0 \notin 1..Clusters
      BY RunAssumption
    <3>2. Hopeful' \in SUBSET (Completed \cup waiting')
      BY <1>1, <1>2, <1>3, <3>1 DEF Hopeful, Handed, Completed
    <3>3. IsFiniteSet(waiting') /\ Cardinality(waiting') = BatchSize
      BY <1>5, <2>1, FS_Interval
    <3>4. /\ IsFiniteSet(Completed \cup waiting')
          /\ Cardinality(Completed \cup waiting')
               = Cardinality(Completed) + BatchSize - Cardinality(Completed \cap waiting')
      BY <2>1, <3>3, FS_Union
    <3>5. Cardinality(Completed \cap waiting') \in Nat
      <4>1. IsFiniteSet(Completed \cap waiting')
        BY <2>1, FS_Subset
      <4> QED BY <4>1, FS_CardinalityType
    <3>6. IsFiniteSet(Hopeful') /\ Cardinality(Hopeful') <= Cardinality(Completed \cup waiting')
      BY <3>2, <3>4, FS_Subset
    <3>7. Cardinality(Hopeful') \in Nat
      BY <3>6, FS_CardinalityType
    <3> QED BY <2>1, <3>4, <3>5, <3>6, <3>7
  <2> QED BY <1>1, <1>5, <2>2, <2>3, <2>4 DEF PoolInv
<1> QED BY <1>4, <1>5 DEF NextBatch

-------------------------------------------------------------------------------
(* Theorems *)

LEMMA Invariance == Spec => [](IInv /\ GuardStopsNewCalls)
<1>1. Init => IInv /\ GuardStopsNewCalls
  <2>1. Init => GuardStopsNewCalls
    BY DEF Init, GuardStopsNewCalls
  <2> QED BY <2>1, InitIInv
<1>2. IInv /\ GuardStopsNewCalls /\ [Next]_vars => (IInv /\ GuardStopsNewCalls)'
  <2> SUFFICES ASSUME IInv, GuardStopsNewCalls, [Next]_vars PROVE (IInv /\ GuardStopsNewCalls)'
    OBVIOUS
  <2>1. TypeOK /\ CallInv /\ LateInv /\ OutageInv /\ WarnedInv /\ PoolInv
    BY DEF IInv
  <2>2. TypeOK' /\ CallInv' /\ LateInv' /\ OutageInv' /\ WarnedInv' /\ GuardStopsNewCalls'
    BY <2>1, TypeStep, LateStep, OutageStep, WarnedStep
  <2>3. CASE EngageElsewhere \/ Done \/ UNCHANGED vars
    <3>1. UNCHANGED <<stop, waiting, submitted, phase, outcome, step, cluster>>
      BY <2>3 DEF EngageElsewhere, Done, vars, poolVars, callVars
    <3>2. Idle' = Idle /\ Completed' = Completed /\ Handed' = Handed /\ Hopeful' = Hopeful
      BY <3>1 DEF Idle, Completed, Handed, Hopeful
    <3> QED BY <2>1, <2>2, <3>1, <3>2 DEF PoolInv, IInv
  <2>4. PoolInv'
    <3>1. ASSUME ~ (EngageElsewhere \/ Done \/ UNCHANGED vars) PROVE PoolInv'
      BY <2>1, <3>1, WorkKeepsPool, BatchKeepsPool DEF Next
    <3> QED BY <2>3, <3>1 DEF IInv
  <2> QED BY <2>2, <2>4 DEF IInv
<1> QED BY <1>1, <1>2, PTL DEF Spec

\* Every variable keeps its shape and every call its limits, for every number
\* of retries, answers that break the schema, and calls.
THEOREM TypeCorrect == Spec => []TypeOK
<1>1. IInv => TypeOK
  BY DEF IInv
<1> QED BY <1>1, Invariance, PTL

\* However many threads a run has, each sends at most the one request it was
\* admitted for before the run was stopped.
THEOREM StopIsFinalHolds == Spec => []StopIsFinal
<1>1. IInv => StopIsFinal
  <2> SUFFICES ASSUME IInv, NEW w \in Workers PROVE late[w] <= 1
    BY DEF StopIsFinal
  <2>1. late[w] \in Nat /\ (late[w] > 0 => late[w] = 1)
    BY DEF IInv, TypeOK, LateInv
  <2> QED BY <2>1
<1> QED BY <1>1, Invariance, PTL

\* An outage costs the threshold and one request of every other thread at most,
\* for every threshold and every number of threads.
THEOREM OutageIsCutHolds == Spec => []OutageIsCut
<1>1. IInv => OutageIsCut
  <2> SUFFICES ASSUME IInv, Threshold > 0 PROVE failures <= Threshold + Cardinality(Workers) - 1
    BY DEF OutageIsCut
  <2>1. failures <= Threshold - 1 + Cardinality(Harmless) /\ failures \in Nat /\ Threshold \in Nat
    BY RunAssumption DEF IInv, OutageInv, TypeOK
  <2>2. /\ Cardinality(Harmless) \in Nat /\ Cardinality(Workers) \in Nat
        /\ Cardinality(Harmless) <= Cardinality(Workers)
    BY HarmlessCount, RunAssumption, FS_CardinalityType
  <2> QED BY <2>1, <2>2
<1> QED BY <1>1, Invariance, PTL

\* No call that began when the guard had stopped the run goes on without the
\* model: check_kill_switch never answers what ensure_run_active must stop.
THEOREM GuardStopsNewCallsHolds == Spec => []GuardStopsNewCalls
BY Invariance, PTL

\* Every cluster that was handed out ends with an outcome, a run that is not
\* reported as stopped cut none short and has its newsletters, and filling up
\* never makes more of them than the target.
THEOREM EveryClusterIsAccountedHolds == Spec => []EveryClusterIsAccounted
<1>1. IInv => EveryClusterIsAccounted
  <2> SUFFICES ASSUME IInv PROVE EveryClusterIsAccounted
    OBVIOUS
  <2>1. TypeOK /\ CallInv /\ PoolInv
    BY DEF IInv
  <2>2. \A d \in 1..Clusters : d \in Nat /\ d # 0 /\ submitted \in Nat
    BY <2>1, RunAssumption DEF TypeOK
  <2>3. phase # "running" => \A c \in 1..Clusters : outcome[c] # "none" <=> c <= submitted
    <3> SUFFICES ASSUME phase # "running", NEW c \in 1..Clusters PROVE outcome[c] # "none" <=> c <= submitted
      OBVIOUS
    <3>1. waiting = {} /\ \A v \in Workers : cluster[v] = 0
      BY <2>1 DEF PoolInv, Idle, CallInv
    <3>2. c \notin waiting /\ c \notin Handed
      BY <2>2, <3>1 DEF Handed
    <3> QED BY <2>1, <2>2, <3>2 DEF PoolInv
  <2>4. phase = "finished" =>
          /\ \A c \in 1..Clusters : outcome[c] \notin {"stopped", "not_started"}
          /\ Cardinality(Completed) >= MinTarget \/ submitted = Clusters
    BY <2>1 DEF PoolInv
  <2>5. submitted > Limit => Cardinality(Completed) <= MinTarget
    <3>1. Hopeful \in SUBSET (1..Clusters) /\ IsFiniteSet(1..Clusters) /\ Completed \in SUBSET Hopeful
      BY RunAssumption, FS_Interval DEF Hopeful, Completed
    <3>2. IsFiniteSet(Hopeful) /\ Cardinality(Completed) <= Cardinality(Hopeful)
      BY <3>1, FS_Subset
    <3>3. Cardinality(Hopeful) \in Nat /\ Cardinality(Completed) \in Nat /\ MinTarget \in Nat
      BY <2>1, <3>2, FS_CardinalityType, CompletedCount, RunAssumption
    <3> QED BY <2>1, <3>2, <3>3 DEF PoolInv
  <2> QED BY <2>1, <2>3, <2>4, <2>5 DEF EveryClusterIsAccounted
<1> QED BY <1>1, Invariance, PTL

===============================================================================
