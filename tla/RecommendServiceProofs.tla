------------------------ MODULE RecommendServiceProofs ------------------------
(***************************************************************************)
(* Theorems about RecommendService for every number of requests, threads   *)
(* and limits: the count of pending shadow jobs is true, and a late job    *)
(* counts toward the breaker as often as it should.                        *)
(***************************************************************************)
EXTENDS RecommendService, FiniteSetTheorems, SequenceTheorems, TLAPS

-------------------------------------------------------------------------------
(* The inductive invariant *)

\* The queue holds the members of M, each once.
IsQueue(queue, M) ==
  /\ queue \in Seq(M)
  /\ \A i, j \in 1..Len(queue) : queue[i] = queue[j] => i = j
  /\ \A r \in M : \E i \in 1..Len(queue) : queue[i] = r

Live == {j \in Requests : job[j] \in {"queued"} \cup Busy}
Queued == {r \in Requests : ranking[r] = "queued"}
QueuedJobs == {j \in Requests : job[j] = "queued"}
QueueInv == IsQueue(rankQueue, Queued) /\ IsQueue(jobQueue, QueuedJobs)

\* A request that has not come in, or whose ranking goes on, has no job yet; a
\* handle that is kept is the handle of a job.
HandleInv ==
  /\ \A r \in Requests :
       /\ step[r] = "idle" => ranking[r] = "none"
       /\ step[r] = "idle" \/ ranking[r] \in {"queued", "missed"} => job[r] = "none"
       /\ handle[r] # NoJob => job[handle[r]] # "none"
       /\ step[r] \in InLog => handle[r] # NoJob
  /\ cached \in Requests => job[cached] # "none"

\* The ends that are not booked are ends.
PendingInv ==
  /\ \A j \in owed : job[j] = "ended"
  /\ pending = Cardinality(Live \cup owed)

\* The counts a job has and the counts that are on their way to it.
Late(j) == IF job[j] = "ended" THEN 1 ELSE 0
CountAt(j) ==
  /\ counts[j] \in Nat /\ company[j] \in Nat
  /\ IF j \in abandoned
     THEN counts[j] + Cardinality(GivingUp(j)) <= Late(j) + company[j]
     ELSE counts[j] <= Late(j)
CountInv ==
  /\ counts \in [Requests -> Nat] /\ company \in [Requests -> Nat]
  /\ \A j \in Requests : CountAt(j)

IInv == TypeOK /\ QueueInv /\ HandleInv /\ PendingInv /\ CountInv

-------------------------------------------------------------------------------
(* Queues *)

LEMMA EmptyIsQueue == IsQueue(<<>>, {})
BY DEF IsQueue

LEMMA AppendIsQueue ==
  ASSUME NEW queue, NEW M, IsQueue(queue, M), NEW r, r \notin M
  PROVE  IsQueue(Append(queue, r), M \cup {r})
<1> DEFINE S == M \cup {r}
           a == Append(queue, r)
<1>1. queue \in Seq(M) /\ queue \in Seq(S) /\ r \in S /\ Len(queue) \in Nat
      /\ \A i \in 1..Len(queue) : queue[i] \in M
  BY SeqMonotonic, ElementOfSeq, LenProperties DEF IsQueue
<1>2. /\ a \in Seq(S) /\ Len(a) = Len(queue) + 1
      /\ \A i \in 1..Len(queue) : a[i] = queue[i]
      /\ a[Len(queue) + 1] = r
  <2> HIDE DEF S
  <2> QED BY <1>1, AppendProperties
<1> HIDE DEF a
<1>3. \A i, j \in 1..Len(a) : a[i] = a[j] => i = j
  <2> SUFFICES ASSUME NEW i \in 1..Len(a), NEW j \in 1..Len(a), a[i] = a[j] PROVE i = j
    OBVIOUS
  <2>1. i \in 1..Len(queue) \/ i = Len(queue) + 1
    BY <1>1, <1>2
  <2>2. j \in 1..Len(queue) \/ j = Len(queue) + 1
    BY <1>1, <1>2
  <2> QED BY <1>1, <1>2, <2>1, <2>2 DEF IsQueue
<1>4. \A m \in S : \E i \in 1..Len(a) : a[i] = m
  <2>1. Len(queue) + 1 \in 1..Len(a) /\ \A i \in 1..Len(queue) : i \in 1..Len(a)
    BY <1>1, <1>2
  <2> QED BY <1>2, <2>1 DEF IsQueue
<1> QED BY <1>2, <1>3, <1>4 DEF IsQueue, a

LEMMA TailIsQueue ==
  ASSUME NEW queue, NEW M, IsQueue(queue, M), queue # <<>>
  PROVE  Head(queue) \in M /\ IsQueue(Tail(queue), M \ {Head(queue)})
<1> DEFINE h == Head(queue)
           t == Tail(queue)
<1>1. /\ queue \in Seq(M) /\ Len(queue) \in Nat /\ Len(queue) > 0 /\ h = queue[1]
      /\ h \in M /\ t \in Seq(M) /\ Len(t) = Len(queue) - 1
      /\ \A i \in 1..Len(t) : t[i] = queue[i + 1]
  BY HeadTailProperties, LenProperties, EmptySeq DEF IsQueue
<1> HIDE DEF h, t
<1>2. \A i \in 1..Len(t) : i + 1 \in 1..Len(queue) /\ t[i] = queue[i + 1] /\ t[i] \in M /\ t[i] # h
  <2> SUFFICES ASSUME NEW i \in 1..Len(t)
               PROVE  i + 1 \in 1..Len(queue) /\ t[i] = queue[i + 1] /\ t[i] \in M /\ t[i] # h
    OBVIOUS
  <2>1. i + 1 \in 1..Len(queue) /\ 1 \in 1..Len(queue) /\ i + 1 # 1 /\ t[i] = queue[i + 1]
    BY <1>1
  <2>2. queue[i + 1] \in M
    BY <1>1, <2>1, ElementOfSeq
  <2>3. queue[i + 1] # queue[1]
    BY <2>1 DEF IsQueue
  <2> QED BY <1>1, <2>1, <2>2, <2>3
<1>3. t \in Seq(M \ {h})
  BY <1>1, <1>2, IsASeq, LenProperties
<1>4. \A i, j \in 1..Len(t) : t[i] = t[j] => i = j
  <2> SUFFICES ASSUME NEW i \in 1..Len(t), NEW j \in 1..Len(t), t[i] = t[j] PROVE i = j
    OBVIOUS
  <2>1. i + 1 = j + 1
    BY <1>2 DEF IsQueue
  <2> QED BY <1>1, <2>1
<1>5. ASSUME NEW m \in M \ {h} PROVE \E i \in 1..Len(t) : t[i] = m
  <2>1. PICK i \in 1..Len(queue) : queue[i] = m
    BY DEF IsQueue
  <2>2. i # 1 /\ i - 1 \in 1..Len(t) /\ (i - 1) + 1 = i
    BY <1>1, <2>1
  <2> QED BY <1>2, <2>1, <2>2
<1> QED BY <1>1, <1>3, <1>4, <1>5 DEF IsQueue, h, t

LEMMA WithoutIsQueue ==
  ASSUME NEW queue, NEW M, IsQueue(queue, M), NEW r
  PROVE  IsQueue(Without(queue, r), M \ {r})
<1> DEFINE n == Len(queue)
<1>1. queue \in Seq(M) /\ n \in Nat /\ \A k \in 1..n : queue[k] \in M
  BY ElementOfSeq, LenProperties DEF IsQueue
<1>2. CASE ~ \E k \in 1..n : queue[k] = r
  <2>1. r \notin M
    BY <1>2 DEF IsQueue
  <2>2. Without(queue, r) = queue /\ M \ {r} = M
    BY <1>2, <2>1 DEF Without
  <2> QED BY <2>2
<1>3. CASE \E k \in 1..n : queue[k] = r
  <2> DEFINE i == CHOOSE k \in 1..n : queue[k] = r
             front == SubSeq(queue, 1, i - 1)
             back == SubSeq(queue, i + 1, n)
             w == front \o back
  <2>1. i \in 1..n /\ queue[i] = r
    BY <1>3
  <2>2. Without(queue, r) = w
    BY <1>3 DEF Without
  <2> HIDE DEF i
  <2>3. /\ front \in Seq(M) /\ Len(front) = i - 1
        /\ \A k \in 1..i - 1 : front[k] = queue[k]
    <3>1. 1 \in Int /\ i - 1 \in Int /\ \A k \in 1..i - 1 : queue[k] \in M
      BY <1>1, <2>1
    <3>2. /\ front \in Seq(M) /\ Len(front) = (IF 1 <= i - 1 THEN (i - 1) - 1 + 1 ELSE 0)
          /\ \A k \in 1..(i - 1) - 1 + 1 : front[k] = queue[1 + k - 1]
      BY <3>1, SubSeqProperties
    <3> QED BY <1>1, <2>1, <3>2
  <2>4. /\ back \in Seq(M) /\ Len(back) = n - i
        /\ \A k \in 1..n - i : back[k] = queue[i + k]
    <3>1. i + 1 \in Int /\ n \in Int /\ \A k \in i + 1..n : queue[k] \in M
      BY <1>1, <2>1
    <3>2. /\ back \in Seq(M) /\ Len(back) = (IF i + 1 <= n THEN n - (i + 1) + 1 ELSE 0)
          /\ \A k \in 1..n - (i + 1) + 1 : back[k] = queue[(i + 1) + k - 1]
      BY <3>1, SubSeqProperties
    <3> QED BY <1>1, <2>1, <3>2
  <2> HIDE DEF front, back
  <2>5. /\ w \in Seq(M) /\ Len(w) = n - 1
        /\ \A k \in 1..n - 1 : w[k] = IF k < i THEN queue[k] ELSE queue[k + 1]
    <3>1. /\ w \in Seq(M) /\ Len(w) = Len(front) + Len(back)
          /\ \A k \in 1..Len(front) + Len(back) : w[k] = IF k <= Len(front) THEN front[k] ELSE back[k - Len(front)]
      BY <2>3, <2>4, ConcatProperties, Zenon
    <3>2. Len(front) + Len(back) = n - 1
      BY <1>1, <2>1, <2>3, <2>4
    <3>3. ASSUME NEW k \in 1..n - 1 PROVE w[k] = IF k < i THEN queue[k] ELSE queue[k + 1]
      <4>1. CASE k < i
        <5>1. k <= Len(front) /\ k \in 1..i - 1
          BY <1>1, <2>1, <2>3, <4>1
        <5> QED BY <2>3, <3>1, <3>2, <4>1, <5>1
      <4>2. CASE ~ (k < i)
        <5>1. ~ (k <= Len(front)) /\ k - Len(front) \in 1..n - i /\ i + (k - Len(front)) = k + 1
          BY <1>1, <2>1, <2>3, <4>2
        <5> QED BY <2>4, <3>1, <3>2, <4>2, <5>1
      <4> QED BY <4>1, <4>2
    <3> QED BY <3>1, <3>2, <3>3
  <2> HIDE DEF w
  <2>6. \A k \in 1..n : queue[k] = r => k = i
    BY <2>1 DEF IsQueue
  <2>7. w \in Seq(M \ {r})
    <3>1. \A k \in 1..n - 1 : w[k] \in M \ {r}
      BY <1>1, <2>1, <2>5, <2>6
    <3> QED BY <2>5, <3>1, IsASeq, LenProperties
  <2>8. ASSUME NEW k \in 1..Len(w), NEW l \in 1..Len(w), w[k] = w[l] PROVE k = l
    <3> DEFINE at(x) == IF x < i THEN x ELSE x + 1
    <3>1. at(k) \in 1..n /\ at(l) \in 1..n /\ (at(k) = at(l) => k = l)
      BY <1>1, <2>1, <2>5
    <3>2. w[k] = queue[at(k)] /\ w[l] = queue[at(l)]
      BY <1>1, <2>1, <2>5
    <3> HIDE DEF at
    <3>3. at(k) = at(l)
      BY <2>8, <3>1, <3>2 DEF IsQueue
    <3> QED BY <3>1, <3>3
  <2>9. ASSUME NEW m \in M \ {r} PROVE \E k \in 1..Len(w) : w[k] = m
    <3>1. PICK k \in 1..n : queue[k] = m
      BY DEF IsQueue
    <3>2. k # i
      BY <2>1, <3>1
    <3>3. CASE k < i
      BY <1>1, <2>1, <2>5, <3>1, <3>3
    <3>4. CASE k > i
      <4>1. k - 1 \in 1..n - 1 /\ ~ (k - 1 < i) /\ (k - 1) + 1 = k
        BY <1>1, <2>1, <3>4
      <4> QED BY <2>5, <3>1, <4>1
    <3> QED BY <2>1, <3>2, <3>3, <3>4
  <2> QED BY <2>2, <2>7, <2>8, <2>9 DEF IsQueue
<1> QED BY <1>2, <1>3

-------------------------------------------------------------------------------
(* What the steps have in common *)

Slotted == {r \in Requests : step[r] \in InHandler \cup InLog}

LEMMA SlotsKept ==
  ASSUME TypeOK, Slotted' \subseteq Slotted
  PROVE  Cardinality(Slotted') <= Slots
<1>1. IsFiniteSet(Slotted) /\ Cardinality(Slotted) <= Slots /\ Slots \in Nat
  <2>1. Slotted \subseteq Requests
    BY DEF Slotted
  <2> QED BY <2>1, PoolAssumption, FS_Subset DEF TypeOK, Slotted
<1>2. IsFiniteSet(Slotted') /\ Cardinality(Slotted') <= Cardinality(Slotted)
  BY <1>1, FS_Subset
<1> QED BY <1>1, <1>2, FS_CardinalityType

LEMMA SlotTaken ==
  ASSUME TypeOK, SlotFree, NEW r \in Requests, Slotted' \subseteq Slotted \cup {r}
  PROVE  Cardinality(Slotted') <= Slots
<1>1. IsFiniteSet(Slotted) /\ Cardinality(Slotted) < Slots /\ Slots \in Nat
  <2>1. Slotted \subseteq Requests
    BY DEF Slotted
  <2> QED BY <2>1, PoolAssumption, FS_Subset DEF SlotFree, Slotted
<1>2. IsFiniteSet(Slotted \cup {r}) /\ Cardinality(Slotted \cup {r}) <= Cardinality(Slotted) + 1
  BY <1>1, FS_AddElement, FS_CardinalityType
<1>3. Cardinality(Slotted') <= Cardinality(Slotted \cup {r}) /\ IsFiniteSet(Slotted')
  BY <1>2, FS_Subset
<1> QED BY <1>1, <1>2, <1>3, FS_CardinalityType

\* A step that books nothing and lets no job begin or end.
LEMMA PendingKept ==
  ASSUME PendingInv, UNCHANGED <<job, owed, pending>>
  PROVE  PendingInv'
BY DEF PendingInv, Live

\* A step that counts nothing and lets nobody start to give up a job that has
\* been given up.
LEMMA CountKept ==
  ASSUME CountInv, UNCHANGED <<counts, company, abandoned>>,
         \A j \in Requests : job[j] = "ended" => job'[j] = "ended",
         \A j \in abandoned : GivingUp(j)' \subseteq GivingUp(j)
  PROVE  CountInv'
<1> SUFFICES ASSUME NEW j \in Requests PROVE CountAt(j)'
  BY DEF CountInv
<1>1. CountAt(j) /\ Late(j) \in {0, 1} /\ Late(j)' \in {0, 1} /\ Late(j) <= Late(j)'
  BY DEF CountInv, Late
<1>2. CASE j \in abandoned
  <2>1. IsFiniteSet(GivingUp(j))
    BY PoolAssumption, FS_Subset DEF GivingUp
  <2>2. /\ Cardinality(GivingUp(j)') <= Cardinality(GivingUp(j))
        /\ Cardinality(GivingUp(j)') \in Nat /\ Cardinality(GivingUp(j)) \in Nat
    BY <1>2, <2>1, FS_Subset, FS_CardinalityType
  <2> QED BY <1>1, <1>2, <2>2 DEF CountAt
<1>3. CASE j \notin abandoned
  BY <1>1, <1>3 DEF CountAt
<1> QED BY <1>2, <1>3

LEMMA InitIInv == Init => IInv
<1> SUFFICES ASSUME Init PROVE IInv
  OBVIOUS
<1> USE PoolAssumption DEF Init
<1>1. TypeOK
  <2>1. {r \in Requests : step[r] \in InHandler \cup InLog} = {}
    BY DEF InHandler, InLog
  <2>2. Cardinality({}) = 0
    BY FS_EmptySet
  <2>3. Slots \in Nat \ {0} /\ BreakerAfter \in Nat \ {0} /\ MaxPending \in Nat \ {0}
    OBVIOUS
  <2>4. streak \in 0 .. BreakerAfter - 1 /\ pending \in 0 .. MaxPending /\ 0 <= Slots
    BY <2>3
  <2>5. expired \cup abandoned \cup owed \subseteq {j \in Requests : job[j] # "none"}
    OBVIOUS
  <2> QED BY <2>1, <2>2, <2>4, <2>5 DEF TypeOK
<1>2. QueueInv
  <2>1. Queued = {} /\ QueuedJobs = {}
    BY DEF Queued, QueuedJobs
  <2> QED BY <2>1, EmptyIsQueue DEF QueueInv
<1>3. HandleInv
  BY DEF HandleInv, InLog
<1>4. PendingInv
  <2>1. Live \cup owed = {}
    BY DEF Live, Busy
  <2> QED BY <2>1, FS_EmptySet DEF PendingInv
<1>5. CountInv
  BY DEF CountInv, CountAt, Late
<1> QED BY <1>1, <1>2, <1>3, <1>4, <1>5 DEF IInv

LEMMA BookedIsFinite == TypeOK => IsFiniteSet(Live \cup owed)
<1>1. TypeOK => Live \cup owed \subseteq Requests
  BY DEF TypeOK, Live
<1> QED BY <1>1, PoolAssumption, FS_Subset

LEMMA CountTypes ==
  ASSUME TypeOK, NEW j, Count(j)
  PROVE  streak' \in 0 .. BreakerAfter - 1 /\ closed' \in BOOLEAN
<1>1. BreakerAfter \in Nat \ {0} /\ streak \in 0 .. BreakerAfter - 1 /\ closed \in BOOLEAN
  BY PoolAssumption DEF TypeOK
<1>2. CASE streak + 1 >= BreakerAfter
  BY <1>1, <1>2 DEF Count
<1>3. CASE ~ (streak + 1 >= BreakerAfter)
  BY <1>1, <1>3 DEF Count
<1> QED BY <1>2, <1>3

-------------------------------------------------------------------------------
(* The steps *)

LEMMA EnterStep ==
  ASSUME IInv, NEW r \in Requests, Enter(r)
  PROVE  IInv'
<1>1. TypeOK /\ QueueInv /\ HandleInv /\ PendingInv /\ CountInv
  BY DEF IInv
<1>2. UNCHANGED <<handle, cached, job, jobQueue, expired, abandoned, owed, pending, streak, closed, counts, company>>
  BY DEF Enter, Goto, Rank, requestVars, rankVars, breakerVars, jobVars
<1>3. TypeOK'
  <2>1. Slotted' \subseteq Slotted \cup {r}
    BY <1>1, <1>2 DEF Enter, Goto, Rank, TypeOK, Slotted, InHandler, InLog
  <2>2. Cardinality(Slotted') <= Slots
    BY <1>1, <2>1, SlotTaken DEF Enter
  <2> QED BY <1>1, <1>2, <2>2, PoolAssumption DEF Enter, Goto, Rank, TypeOK, Slotted, Busy, InHandler, InLog
<1>4. QueueInv'
  <2>1. IsQueue(rankQueue', Queued')
    <3>1. Queued' = Queued \cup {r} /\ r \notin Queued
      BY <1>1, <1>2 DEF Enter, Rank, TypeOK, HandleInv, Queued
    <3> QED BY <1>1, <3>1, AppendIsQueue DEF Enter, QueueInv
  <2>2. IsQueue(jobQueue', QueuedJobs')
    BY <1>1, <1>2 DEF QueueInv, QueuedJobs
  <2> QED BY <2>1, <2>2 DEF QueueInv
<1>5. HandleInv'
  BY <1>1, <1>2, PoolAssumption DEF Enter, Goto, Rank, TypeOK, HandleInv, InHandler, InLog, Busy
<1>6. PendingInv'
  BY <1>1, <1>2, PendingKept
<1>7. CountInv'
  <2>1. \A j \in abandoned : GivingUp(j)' \subseteq GivingUp(j)
    BY <1>1, <1>2 DEF Enter, Goto, Rank, TypeOK, GivingUp, InHandler, InLog
  <2> QED BY <1>1, <1>2, <2>1, CountKept
<1> QED BY <1>3, <1>4, <1>5, <1>6, <1>7 DEF IInv

LEMMA ReceiveStep ==
  ASSUME IInv, NEW r \in Requests, Receive(r)
  PROVE  IInv'
<1>1. TypeOK /\ QueueInv /\ HandleInv /\ PendingInv /\ CountInv
  BY DEF IInv
<1>2. UNCHANGED <<rankQueue, cached, job, jobQueue, expired, abandoned, owed, pending, streak, closed, counts, company>>
  BY DEF Receive, Goto, Rank, Answer, requestVars, rankVars, breakerVars, jobVars
<1>3. TypeOK'
  <2>1. Slotted' \subseteq Slotted
    BY <1>1, <1>2 DEF Receive, Goto, Rank, Answer, TypeOK, Slotted, InHandler, InLog
  <2>2. Cardinality(Slotted') <= Slots
    BY <1>1, <2>1, SlotsKept
  <2> QED BY <1>1, <1>2, <2>2, PoolAssumption DEF Receive, Goto, Rank, Answer, TypeOK, Slotted, Busy, InHandler, InLog
<1>4. QueueInv'
  <2>1. IsQueue(rankQueue', Queued')
    <3>1. Queued' = Queued
      BY <1>1, <1>2 DEF Receive, Goto, Rank, Answer, TypeOK, Queued
    <3> QED BY <1>1, <1>2, <3>1 DEF QueueInv
  <2>2. IsQueue(jobQueue', QueuedJobs')
    BY <1>1, <1>2 DEF QueueInv, QueuedJobs
  <2> QED BY <2>1, <2>2 DEF QueueInv
<1>5. HandleInv'
  BY <1>1, <1>2, PoolAssumption DEF Receive, Goto, Rank, Answer, TypeOK, HandleInv, InHandler, InLog, Busy
<1>6. PendingInv'
  BY <1>1, <1>2, PendingKept
<1>7. CountInv'
  <2>1. \A j \in abandoned : GivingUp(j)' \subseteq GivingUp(j)
    BY <1>1, <1>2 DEF Receive, Goto, Rank, Answer, TypeOK, GivingUp, InHandler, InLog
  <2> QED BY <1>1, <1>2, <2>1, CountKept
<1> QED BY <1>3, <1>4, <1>5, <1>6, <1>7 DEF IInv

LEMMA TimeoutStep ==
  ASSUME IInv, NEW r \in Requests, Timeout(r)
  PROVE  IInv'
<1>1. TypeOK /\ QueueInv /\ HandleInv /\ PendingInv /\ CountInv
  BY DEF IInv
<1>2. UNCHANGED <<handle, cached, job, jobQueue, expired, abandoned, owed, pending, streak, closed, counts, company>>
  BY DEF Timeout, Goto, Rank, requestVars, rankVars, breakerVars, jobVars
<1>3. TypeOK'
  <2>1. Slotted' \subseteq Slotted
    BY <1>1, <1>2 DEF Timeout, Goto, Rank, TypeOK, Slotted, InHandler, InLog
  <2>2. Cardinality(Slotted') <= Slots
    BY <1>1, <2>1, SlotsKept
  <2> QED BY <1>1, <1>2, <2>2, PoolAssumption DEF Timeout, Goto, Rank, TypeOK, Slotted, Busy, InHandler, InLog
<1>4. QueueInv'
  <2>1. IsQueue(rankQueue', Queued')
    <3>1. Queued' = Queued \ {r}
      BY <1>1, <1>2 DEF Timeout, Rank, TypeOK, Queued
    <3> QED BY <1>1, <3>1, WithoutIsQueue DEF Timeout, QueueInv
  <2>2. IsQueue(jobQueue', QueuedJobs')
    BY <1>1, <1>2 DEF QueueInv, QueuedJobs
  <2> QED BY <2>1, <2>2 DEF QueueInv
<1>5. HandleInv'
  BY <1>1, <1>2, PoolAssumption DEF Timeout, Goto, Rank, TypeOK, HandleInv, InHandler, InLog, Busy
<1>6. PendingInv'
  BY <1>1, <1>2, PendingKept
<1>7. CountInv'
  <2>1. \A j \in abandoned : GivingUp(j)' \subseteq GivingUp(j)
    BY <1>1, <1>2 DEF Timeout, Goto, Rank, TypeOK, GivingUp, InHandler, InLog
  <2> QED BY <1>1, <1>2, <2>1, CountKept
<1> QED BY <1>3, <1>4, <1>5, <1>6, <1>7 DEF IInv

LEMMA FallStep ==
  ASSUME IInv, NEW r \in Requests, Fall(r)
  PROVE  IInv'
<1>1. TypeOK /\ QueueInv /\ HandleInv /\ PendingInv /\ CountInv
  BY DEF IInv
<1>2. UNCHANGED <<ranking, rankQueue, cached, job, jobQueue, expired, abandoned, owed, pending, streak, closed, counts, company>>
  BY DEF Fall, Goto, Answer, requestVars, rankVars, breakerVars, jobVars
<1>3. TypeOK'
  <2>1. Slotted' \subseteq Slotted
    BY <1>1, <1>2 DEF Fall, Goto, Answer, TypeOK, Slotted, InHandler, InLog
  <2>2. Cardinality(Slotted') <= Slots
    BY <1>1, <2>1, SlotsKept
  <2> QED BY <1>1, <1>2, <2>2, PoolAssumption DEF Fall, Goto, Answer, TypeOK, Slotted, Busy, InHandler, InLog
<1>4. QueueInv'
  BY <1>1, <1>2 DEF QueueInv, Queued, QueuedJobs
<1>5. HandleInv'
  BY <1>1, <1>2, PoolAssumption DEF Fall, Goto, Answer, TypeOK, HandleInv, InHandler, InLog, Busy
<1>6. PendingInv'
  BY <1>1, <1>2, PendingKept
<1>7. CountInv'
  <2>1. \A j \in abandoned : GivingUp(j)' \subseteq GivingUp(j)
    BY <1>1, <1>2 DEF Fall, Goto, Answer, TypeOK, GivingUp, InHandler, InLog
  <2> QED BY <1>1, <1>2, <2>1, CountKept
<1> QED BY <1>3, <1>4, <1>5, <1>6, <1>7 DEF IInv

LEMMA LookUpStep ==
  ASSUME IInv, NEW r \in Requests, LookUp(r)
  PROVE  IInv'
<1>1. TypeOK /\ QueueInv /\ HandleInv /\ PendingInv /\ CountInv
  BY DEF IInv
<1>2. UNCHANGED <<step, cached, job, jobQueue, expired, abandoned, owed, pending, streak, closed, counts, company>>
  BY DEF LookUp, Rank, Deliver, Keep, requestVars, rankVars, breakerVars, jobVars
<1>3. TypeOK'
  <2>1. Slotted' \subseteq Slotted
    BY <1>2 DEF Slotted
  <2>2. Cardinality(Slotted') <= Slots
    BY <1>1, <2>1, SlotsKept
  <2>3. ranking' \in [Requests -> {"none", "queued", "missed", "ranked", "failed"}]
    <3>1. \E s \in {"missed", "ranked", "none"} : ranking' = [ranking EXCEPT ![r] = s]
      BY DEF LookUp, Rank, Deliver
    <3> QED BY <1>1, <3>1 DEF TypeOK
  <2>4. handle' \in [Requests -> Requests \cup {NoJob}]
    <3>1. CASE UNCHANGED handle
      BY <1>1, <3>1 DEF TypeOK
    <3>2. CASE cached # NoList /\ Keep(r, cached)
      <4>1. cached \in Requests \cup {NoJob}
        BY <1>1, <3>2 DEF TypeOK
      <4> QED BY <1>1, <3>2, <4>1 DEF Keep, TypeOK
    <3> QED BY <3>1, <3>2 DEF LookUp
  <2> QED BY <1>1, <1>2, <2>2, <2>3, <2>4 DEF TypeOK, Slotted
<1>4. QueueInv'
  <2>1. IsQueue(rankQueue', Queued')
    <3>1. Queued' = Queued \ {r}
      BY <1>1, <1>2 DEF LookUp, Rank, Deliver, TypeOK, Queued
    <3> QED BY <1>1, <3>1, TailIsQueue DEF LookUp, QueueInv
  <2>2. IsQueue(jobQueue', QueuedJobs')
    BY <1>1, <1>2 DEF QueueInv, QueuedJobs
  <2> QED BY <2>1, <2>2 DEF QueueInv
<1>5. HandleInv'
  <2>1. ranking[r] = "queued" /\ job[r] = "none" /\ step[r] # "idle"
    <3>1. r \in Queued
      BY <1>1, TailIsQueue DEF LookUp, QueueInv
    <3> QED BY <1>1, <3>1 DEF Queued, HandleInv
  <2>2. \A q \in Requests : q # r => ranking'[q] = ranking[q] /\ handle'[q] = handle[q]
    BY <1>1, <1>2 DEF LookUp, Rank, Deliver, Keep, TypeOK
  <2>3. handle'[r] # NoJob => job[handle'[r]] # "none"
    <3>1. handle'[r] = handle[r] \/ (handle'[r] = cached /\ cached # NoList)
      BY <1>1 DEF LookUp, Keep, TypeOK
    <3> QED BY <1>1, <3>1 DEF TypeOK, HandleInv
  <2>4. step[r] \in InLog => handle'[r] # NoJob
    BY <1>1 DEF LookUp, Keep, TypeOK, HandleInv, InLog
  <2> QED BY <1>1, <1>2, <2>1, <2>2, <2>3, <2>4 DEF HandleInv
<1>6. PendingInv'
  BY <1>1, <1>2, PendingKept
<1>7. CountInv'
  <2>1. \A j \in abandoned : GivingUp(j)' \subseteq GivingUp(j)
    BY <1>1, <1>2 DEF LookUp, Rank, Deliver, Keep, TypeOK, GivingUp, InHandler, InLog
  <2> QED BY <1>1, <1>2, <2>1, CountKept
<1> QED BY <1>3, <1>4, <1>5, <1>6, <1>7 DEF IInv

LEMMA RankingFailsStep ==
  ASSUME IInv, NEW r \in Requests, RankingFails(r)
  PROVE  IInv'
<1>1. TypeOK /\ QueueInv /\ HandleInv /\ PendingInv /\ CountInv
  BY DEF IInv
<1>2. UNCHANGED <<step, handle, rankQueue, cached, job, jobQueue, expired, abandoned, owed, pending, streak, closed, counts, company>>
  BY DEF RankingFails, Rank, Deliver, requestVars, rankVars, breakerVars, jobVars
<1>3. TypeOK'
  <2>1. Slotted' \subseteq Slotted
    BY <1>2 DEF Slotted
  <2>2. Cardinality(Slotted') <= Slots
    BY <1>1, <2>1, SlotsKept
  <2> QED BY <1>1, <1>2, <2>2, PoolAssumption DEF RankingFails, Rank, Deliver, TypeOK, Slotted, Busy, InHandler, InLog
<1>4. QueueInv'
  <2>1. IsQueue(rankQueue', Queued')
    <3>1. Queued' = Queued
      BY <1>1, <1>2 DEF RankingFails, Rank, Deliver, TypeOK, Queued
    <3> QED BY <1>1, <1>2, <3>1 DEF QueueInv
  <2>2. IsQueue(jobQueue', QueuedJobs')
    BY <1>1, <1>2 DEF QueueInv, QueuedJobs
  <2> QED BY <2>1, <2>2 DEF QueueInv
<1>5. HandleInv'
  BY <1>1, <1>2, PoolAssumption DEF RankingFails, Rank, Deliver, TypeOK, HandleInv, InHandler, InLog, Busy
<1>6. PendingInv'
  BY <1>1, <1>2, PendingKept
<1>7. CountInv'
  <2>1. \A j \in abandoned : GivingUp(j)' \subseteq GivingUp(j)
    BY <1>2 DEF GivingUp
  <2> QED BY <1>1, <1>2, <2>1, CountKept
<1> QED BY <1>3, <1>4, <1>5, <1>6, <1>7 DEF IInv

LEMMA RankedStep ==
  ASSUME IInv, NEW r \in Requests, Ranked(r)
  PROVE  IInv'
<1>1. TypeOK /\ QueueInv /\ HandleInv /\ PendingInv /\ CountInv
  BY DEF IInv
<1>2. UNCHANGED <<step, rankQueue, expired, abandoned, owed, streak, closed, counts, company>>
  BY DEF Ranked, Rank, Deliver, Keep, Job, requestVars, rankVars, breakerVars, jobVars
<1>3. TypeOK'
  <2>1. Slotted' \subseteq Slotted
    BY <1>2 DEF Slotted
  <2>2. Cardinality(Slotted') <= Slots
    BY <1>1, <2>1, SlotsKept
  <2>3. ranking' \in [Requests -> {"none", "queued", "missed", "ranked", "failed"}]
    BY <1>1 DEF Ranked, Rank, Deliver, TypeOK
  <2>4. handle' \in [Requests -> Requests \cup {NoJob}] /\ cached' \in Requests \cup {NoJob, NoList}
    BY <1>1 DEF Ranked, Keep, TypeOK
  <2>5. /\ job' \in [Requests -> {"none", "queued", "ended"} \cup Busy]
        /\ \A q \in Requests : job[q] # "none" => job'[q] # "none"
    BY <1>1 DEF Ranked, Job, TypeOK
  <2>6. pending' \in 0 .. MaxPending
    <3>1. MaxPending \in Nat
      BY PoolAssumption
    <3> QED BY <1>1, <3>1 DEF Ranked, TypeOK
  <2> QED BY <1>1, <1>2, <2>2, <2>3, <2>4, <2>5, <2>6 DEF TypeOK, Slotted
<1>4. QueueInv'
  <2>1. IsQueue(rankQueue', Queued')
    <3>1. Queued' = Queued
      BY <1>1, <1>2 DEF Ranked, Rank, Deliver, Keep, Job, TypeOK, Queued
    <3> QED BY <1>1, <1>2, <3>1 DEF QueueInv
  <2>2. IsQueue(jobQueue', QueuedJobs')
    <3>1. CASE UNCHANGED <<job, jobQueue>>
      BY <1>1, <3>1 DEF QueueInv, QueuedJobs
    <3>2. CASE Job(r, "queued") /\ jobQueue' = Append(jobQueue, r)
      <4>1. QueuedJobs' = QueuedJobs \cup {r} /\ r \notin QueuedJobs
        BY <1>1, <1>2, <3>2 DEF Ranked, Job, TypeOK, HandleInv, QueuedJobs
      <4> QED BY <1>1, <3>2, <4>1, AppendIsQueue DEF QueueInv
    <3> QED BY <3>1, <3>2 DEF Ranked
  <2> QED BY <2>1, <2>2 DEF QueueInv
<1>5. HandleInv'
  BY <1>1, <1>2, PoolAssumption DEF Ranked, Rank, Deliver, Keep, Job, TypeOK, HandleInv, InHandler, InLog, Busy
<1>6. PendingInv'
  <2>1. CASE UNCHANGED <<job, pending>>
    BY <1>1, <1>2, <2>1, PendingKept
  <2>2. CASE Job(r, "queued") /\ pending' = pending + 1
    <3>1. job[r] = "none" /\ job' = [job EXCEPT ![r] = "queued"]
      BY <1>1, <2>2 DEF Ranked, HandleInv, Job
    <3>2. Live' \cup owed' = (Live \cup owed) \cup {r} /\ r \notin Live \cup owed
      BY <1>1, <1>2, <3>1 DEF Live, Busy, TypeOK, PendingInv
    <3>3. \A j \in owed' : job'[j] = "ended"
      BY <1>1, <1>2, <3>1 DEF TypeOK, PendingInv
    <3> QED BY <1>1, <2>2, <3>2, <3>3, BookedIsFinite, FS_AddElement DEF PendingInv
  <2> QED BY <2>1, <2>2 DEF Ranked
<1>7. CountInv'
  <2>1. \A j \in abandoned : GivingUp(j)' \subseteq GivingUp(j)
    BY <1>1, <1>2 DEF Ranked, Rank, Deliver, Keep, Job, TypeOK, GivingUp, InHandler, InLog
  <2>2. \A j \in Requests : job[j] = "ended" => job'[j] = "ended"
    BY <1>1, <1>2 DEF Ranked, Rank, Deliver, Keep, Job, TypeOK, HandleInv, Busy
  <2> QED BY <1>1, <1>2, <2>1, <2>2, CountKept
<1> QED BY <1>3, <1>4, <1>5, <1>6, <1>7 DEF IInv

LEMMA WriteLogStep ==
  ASSUME IInv, NEW r \in Requests, WriteLog(r)
  PROVE  IInv'
<1>1. TypeOK /\ QueueInv /\ HandleInv /\ PendingInv /\ CountInv
  BY DEF IInv
<1>2. UNCHANGED <<ranking, rankQueue, cached, job, jobQueue, expired, abandoned, owed, pending, streak, closed, counts, company>>
  BY DEF WriteLog, Goto, Logged, requestVars, rankVars, breakerVars, jobVars
<1>3. TypeOK'
  <2>1. Slotted' \subseteq Slotted \cup {r}
    BY <1>1, <1>2 DEF WriteLog, Goto, Logged, TypeOK, Slotted, InHandler, InLog
  <2>2. Cardinality(Slotted') <= Slots
    BY <1>1, <2>1, SlotTaken DEF WriteLog
  <2> QED BY <1>1, <1>2, <2>2, PoolAssumption DEF WriteLog, Goto, Logged, TypeOK, Slotted, Busy, InHandler, InLog
<1>4. QueueInv'
  BY <1>1, <1>2 DEF QueueInv, Queued, QueuedJobs
<1>5. HandleInv'
  BY <1>1, <1>2, PoolAssumption DEF WriteLog, Goto, Logged, TypeOK, HandleInv, InHandler, InLog, Busy
<1>6. PendingInv'
  BY <1>1, <1>2, PendingKept
<1>7. CountInv'
  <2>1. \A j \in abandoned : GivingUp(j)' \subseteq GivingUp(j)
    BY <1>1, <1>2 DEF WriteLog, Goto, Logged, TypeOK, GivingUp, InHandler, InLog
  <2> QED BY <1>1, <1>2, <2>1, CountKept
<1> QED BY <1>3, <1>4, <1>5, <1>6, <1>7 DEF IInv

LEMMA ResultArrivesStep ==
  ASSUME IInv, NEW r \in Requests, ResultArrives(r)
  PROVE  IInv'
<1>1. TypeOK /\ QueueInv /\ HandleInv /\ PendingInv /\ CountInv
  BY DEF IInv
<1>2. UNCHANGED <<ranking, rankQueue, cached, job, jobQueue, expired, abandoned, owed, pending, streak, closed, counts, company>>
  BY DEF ResultArrives, Goto, Logged, requestVars, rankVars, breakerVars, jobVars
<1>3. TypeOK'
  <2>1. Slotted' \subseteq Slotted
    BY <1>1, <1>2 DEF ResultArrives, Goto, Logged, TypeOK, Slotted, InHandler, InLog
  <2>2. Cardinality(Slotted') <= Slots
    BY <1>1, <2>1, SlotsKept
  <2> QED BY <1>1, <1>2, <2>2, PoolAssumption DEF ResultArrives, Goto, Logged, TypeOK, Slotted, Busy, InHandler, InLog
<1>4. QueueInv'
  BY <1>1, <1>2 DEF QueueInv, Queued, QueuedJobs
<1>5. HandleInv'
  BY <1>1, <1>2, PoolAssumption DEF ResultArrives, Goto, Logged, TypeOK, HandleInv, InHandler, InLog, Busy
<1>6. PendingInv'
  BY <1>1, <1>2, PendingKept
<1>7. CountInv'
  <2>1. \A j \in abandoned : GivingUp(j)' \subseteq GivingUp(j)
    BY <1>1, <1>2 DEF ResultArrives, Goto, Logged, TypeOK, GivingUp, InHandler, InLog
  <2> QED BY <1>1, <1>2, <2>1, CountKept
<1> QED BY <1>3, <1>4, <1>5, <1>6, <1>7 DEF IInv

LEMMA WaitEndsStep ==
  ASSUME IInv, NEW r \in Requests, WaitEnds(r)
  PROVE  IInv'
<1>1. TypeOK /\ QueueInv /\ HandleInv /\ PendingInv /\ CountInv
  BY DEF IInv
<1>2. UNCHANGED <<ranking, rankQueue, cached, job, jobQueue, expired, abandoned, owed, pending, streak, closed, counts, company>>
  BY DEF WaitEnds, Goto, Logged, requestVars, rankVars, breakerVars, jobVars
<1>3. TypeOK'
  <2>1. Slotted' \subseteq Slotted
    BY <1>1, <1>2 DEF WaitEnds, Goto, Logged, TypeOK, Slotted, InHandler, InLog
  <2>2. Cardinality(Slotted') <= Slots
    BY <1>1, <2>1, SlotsKept
  <2> QED BY <1>1, <1>2, <2>2, PoolAssumption DEF WaitEnds, Goto, Logged, TypeOK, Slotted, Busy, InHandler, InLog
<1>4. QueueInv'
  BY <1>1, <1>2 DEF QueueInv, Queued, QueuedJobs
<1>5. HandleInv'
  BY <1>1, <1>2, PoolAssumption DEF WaitEnds, Goto, Logged, TypeOK, HandleInv, InHandler, InLog, Busy
<1>6. PendingInv'
  BY <1>1, <1>2, PendingKept
<1>7. CountInv'
  <2>1. \A j \in abandoned : GivingUp(j)' \subseteq GivingUp(j)
    BY <1>1, <1>2 DEF WaitEnds, Goto, Logged, TypeOK, GivingUp, InHandler, InLog
  <2> QED BY <1>1, <1>2, <2>1, CountKept
<1> QED BY <1>3, <1>4, <1>5, <1>6, <1>7 DEF IInv

LEMMA AbandonStep ==
  ASSUME IInv, NEW r \in Requests, Abandon(r)
  PROVE  IInv'
<1>1. TypeOK /\ QueueInv /\ HandleInv /\ PendingInv /\ CountInv
  BY DEF IInv
<1>2. UNCHANGED <<ranking, rankQueue, cached, expired, pending>>
  BY DEF Abandon, Goto, Logged, Cancel, Count, Job, requestVars, rankVars, breakerVars, jobVars
<1>3. TypeOK'
  <2>1. Slotted' \subseteq Slotted
    BY <1>1, <1>2 DEF Abandon, Goto, Logged, Cancel, Count, Job, TypeOK, Slotted, InHandler, InLog
  <2>2. Cardinality(Slotted') <= Slots
    BY <1>1, <2>1, SlotsKept
  <2> DEFINE j == handle[r]
  <2>3. j \in Requests /\ job[j] # "none"
    BY <1>1 DEF Abandon, TypeOK, HandleInv, InLog
  <2> HIDE DEF j
  <2>4. step' \in [Requests -> {"idle", "answered", "logged"} \cup InHandler \cup InLog]
        /\ handle' \in [Requests -> Requests \cup {NoJob}]
    BY <1>1 DEF Abandon, Logged, Goto, TypeOK
  <2>5. /\ job' \in [Requests -> {"none", "queued", "ended"} \cup Busy]
        /\ \A q \in Requests : job[q] # "none" => job'[q] # "none"
        /\ abandoned' = abandoned \cup {j} /\ owed' \subseteq owed \cup {j}
    BY <1>1 DEF Abandon, Cancel, Job, TypeOK, j
  <2>6. streak' \in 0 .. BreakerAfter - 1 /\ closed' \in BOOLEAN
    BY <1>1, PoolAssumption, CountTypes DEF Abandon
  <2> QED BY <1>1, <1>2, <2>2, <2>3, <2>4, <2>5, <2>6 DEF TypeOK, Slotted
<1>4. QueueInv'
  <2>1. IsQueue(rankQueue', Queued')
    BY <1>1, <1>2 DEF QueueInv, Queued
  <2>2. IsQueue(jobQueue', QueuedJobs')
    <3> DEFINE j == handle[r]
    <3>1. CASE job[j] = "queued"
      <4>1. job' = [job EXCEPT ![j] = "ended"] /\ jobQueue' = Without(jobQueue, j)
        BY <3>1 DEF Abandon, Cancel, Job
      <4>2. QueuedJobs' = QueuedJobs \ {j}
        BY <1>1, <4>1 DEF TypeOK, QueuedJobs
      <4> QED BY <1>1, <4>1, <4>2, WithoutIsQueue DEF QueueInv
    <3>2. CASE job[j] # "queued"
      BY <1>1, <3>2 DEF Abandon, Cancel, QueueInv, QueuedJobs
    <3> QED BY <3>1, <3>2
  <2> QED BY <2>1, <2>2 DEF QueueInv
<1>5. HandleInv'
  BY <1>1, <1>2, PoolAssumption DEF Abandon, Goto, Logged, Cancel, Count, Job, TypeOK, HandleInv, InHandler, InLog, Busy
<1>6. PendingInv'
  <2> DEFINE j == handle[r]
  <2>1. CASE job[j] = "queued"
    <3>1. job' = [job EXCEPT ![j] = "ended"] /\ owed' = owed \cup {j} /\ j \in Requests
      BY <1>1, <2>1 DEF Abandon, Cancel, Job, TypeOK, HandleInv, InLog
    <3>2. Live' \cup owed' = Live \cup owed /\ \A i \in owed' : job'[i] = "ended"
      BY <1>1, <2>1, <3>1 DEF Live, Busy, TypeOK, PendingInv
    <3> QED BY <1>1, <1>2, <3>2 DEF PendingInv
  <2>2. CASE job[j] # "queued"
    BY <1>1, <1>2, <2>2, PendingKept DEF Abandon, Cancel
  <2> QED BY <2>1, <2>2
<1>7. CountInv'
  <2>1. PICK j \in Requests : j = handle[r]
    BY <1>1 DEF Abandon, TypeOK, HandleInv, InLog
  <2>2. /\ counts' = [counts EXCEPT ![j] = counts[j] + 1] /\ abandoned' = abandoned \cup {j}
        /\ company' = [company EXCEPT ![j] = IF j \in abandoned THEN company[j] ELSE Cardinality(GivingUp(j))]
    BY <2>1 DEF Abandon, Count
  <2>3. r \in GivingUp(j) /\ \A i \in Requests : GivingUp(i)' = GivingUp(i) \ {r}
    BY <1>1, <2>1 DEF Abandon, Logged, Goto, TypeOK, GivingUp
  <2>4. \A i \in Requests : IsFiniteSet(GivingUp(i))
    BY PoolAssumption, FS_Subset DEF GivingUp
  <2>5. /\ Cardinality(GivingUp(j)) \in Nat /\ Cardinality(GivingUp(j)') = Cardinality(GivingUp(j)) - 1
    BY <2>1, <2>3, <2>4, FS_RemoveElement, FS_CardinalityType
  <2>6. counts' \in [Requests -> Nat] /\ company' \in [Requests -> Nat]
    BY <1>1, <2>1, <2>2, <2>5 DEF CountInv
  <2>7. \A i \in Requests : Late(i) \in {0, 1} /\ Late(i)' \in {0, 1} /\ Late(i) <= Late(i)'
    <3>1. \A i \in Requests : job[i] = "ended" => job'[i] = "ended"
      BY <1>1 DEF Abandon, Cancel, Job, TypeOK
    <3> QED BY <3>1 DEF Late
  <2>8. CountAt(j)'
    BY <1>1, <2>1, <2>2, <2>5, <2>6, <2>7 DEF CountInv, CountAt
  <2>9. ASSUME NEW i \in Requests, i # j PROVE CountAt(i)'
    <3>1. GivingUp(i)' = GivingUp(i)
      BY <2>3, <2>9 DEF GivingUp
    <3>2. counts'[i] = counts[i] /\ company'[i] = company[i] /\ (i \in abandoned' <=> i \in abandoned)
      BY <1>1, <2>2, <2>9 DEF CountInv
    <3>3. Cardinality(GivingUp(i)) \in Nat
      BY <2>4, FS_CardinalityType
    <3> QED BY <1>1, <2>6, <2>7, <3>1, <3>2, <3>3 DEF CountInv, CountAt
  <2> QED BY <2>6, <2>8, <2>9 DEF CountInv
<1> QED BY <1>3, <1>4, <1>5, <1>6, <1>7 DEF IInv

LEMMA TakeJobStep ==
  ASSUME IInv, TakeJob
  PROVE  IInv'
<1>1. TypeOK /\ QueueInv /\ HandleInv /\ PendingInv /\ CountInv
  BY DEF IInv
<1>2. UNCHANGED <<step, handle, ranking, rankQueue, cached, expired, abandoned, owed, pending, streak, closed, counts, company>>
  BY DEF TakeJob, Job, requestVars, rankVars, breakerVars, jobVars
<1>3. TypeOK'
  <2>1. Slotted' \subseteq Slotted
    BY <1>2 DEF Slotted
  <2>2. Cardinality(Slotted') <= Slots
    BY <1>1, <2>1, SlotsKept
  <2> QED BY <1>1, <1>2, <2>2, PoolAssumption DEF TakeJob, Job, TypeOK, Slotted, Busy, InHandler, InLog
<1>4. QueueInv'
  <2>1. IsQueue(rankQueue', Queued')
    BY <1>1, <1>2 DEF QueueInv, Queued
  <2>2. IsQueue(jobQueue', QueuedJobs')
    <3>1. QueuedJobs' = QueuedJobs \ {Head(jobQueue)}
      BY <1>1, <1>2 DEF TakeJob, Job, TypeOK, QueuedJobs
    <3> QED BY <1>1, <3>1, TailIsQueue DEF TakeJob, QueueInv
  <2> QED BY <2>1, <2>2 DEF QueueInv
<1>5. HandleInv'
  <2>1. Head(jobQueue) \in Requests /\ job[Head(jobQueue)] = "queued"
    <3>1. Head(jobQueue) \in QueuedJobs
      BY <1>1, TailIsQueue DEF TakeJob, QueueInv
    <3> QED BY <3>1 DEF QueuedJobs
  <2>2. job' = [job EXCEPT ![Head(jobQueue)] = "taken"]
    BY DEF TakeJob, Job
  <2>3. \A j \in Requests : job'[j] = "none" <=> job[j] = "none"
    BY <1>1, <2>1, <2>2 DEF TypeOK
  <2> QED BY <1>1, <1>2, <2>3 DEF HandleInv, TypeOK
<1>6. PendingInv'
  <2>1. Head(jobQueue) \in Requests /\ job[Head(jobQueue)] = "queued"
    <3>1. Head(jobQueue) \in QueuedJobs
      BY <1>1, TailIsQueue DEF TakeJob, QueueInv
    <3> QED BY <3>1 DEF QueuedJobs
  <2>2. job' = [job EXCEPT ![Head(jobQueue)] = "taken"]
    BY DEF TakeJob, Job
  <2>3. Live' = Live /\ \A j \in owed' : job'[j] = "ended"
    BY <1>1, <1>2, <2>1, <2>2 DEF Live, Busy, TypeOK, PendingInv
  <2> QED BY <1>1, <1>2, <2>3 DEF PendingInv
<1>7. CountInv'
  <2>1. Head(jobQueue) \in Requests /\ job[Head(jobQueue)] = "queued"
    <3>1. Head(jobQueue) \in QueuedJobs
      BY <1>1, TailIsQueue DEF TakeJob, QueueInv
    <3> QED BY <3>1 DEF QueuedJobs
  <2>2. job' = [job EXCEPT ![Head(jobQueue)] = "taken"]
    BY DEF TakeJob, Job
  <2>3. \A j \in Requests : job[j] = "ended" => job'[j] = "ended"
    BY <1>1, <2>1, <2>2 DEF TypeOK
  <2>4. \A j \in abandoned : GivingUp(j)' \subseteq GivingUp(j)
    BY <1>2 DEF GivingUp
  <2> QED BY <1>1, <1>2, <2>3, <2>4, CountKept
<1> QED BY <1>3, <1>4, <1>5, <1>6, <1>7 DEF IInv

LEMMA StartJobStep ==
  ASSUME IInv, NEW j \in Requests, StartJob(j)
  PROVE  IInv'
<1>1. TypeOK /\ QueueInv /\ HandleInv /\ PendingInv /\ CountInv
  BY DEF IInv
<1>2. UNCHANGED <<step, handle, ranking, rankQueue, cached, jobQueue, abandoned, pending, company>>
  BY DEF StartJob, Job, EndJob, Count, requestVars, rankVars, breakerVars, jobVars
<1>3. TypeOK'
  <2>1. Slotted' \subseteq Slotted
    BY <1>2 DEF Slotted
  <2>2. Cardinality(Slotted') <= Slots
    BY <1>1, <2>1, SlotsKept
  <2>3. /\ job' \in [Requests -> {"none", "queued", "ended"} \cup Busy]
        /\ \A q \in Requests : job[q] # "none" => job'[q] # "none"
        /\ expired' \subseteq expired /\ owed' \subseteq owed \cup {j} /\ job[j] # "none"
    BY <1>1 DEF StartJob, EndJob, Job, TypeOK, Busy
  <2>4. streak' \in 0 .. BreakerAfter - 1 /\ closed' \in BOOLEAN
    <3>1. UNCHANGED <<streak, closed>> \/ Count(j)
      BY DEF StartJob, breakerVars
    <3> QED BY <1>1, <3>1, CountTypes DEF TypeOK
  <2> QED BY <1>1, <1>2, <2>2, <2>3, <2>4 DEF TypeOK, Slotted
<1>4. QueueInv'
  <2>1. IsQueue(rankQueue', Queued')
    BY <1>1, <1>2 DEF QueueInv, Queued
  <2>2. IsQueue(jobQueue', QueuedJobs')
    <3>1. QueuedJobs' = QueuedJobs
      BY <1>1, <1>2 DEF StartJob, Job, EndJob, Count, TypeOK, QueuedJobs, Busy
    <3> QED BY <1>1, <1>2, <3>1 DEF QueueInv
  <2> QED BY <2>1, <2>2 DEF QueueInv
<1>5. HandleInv'
  BY <1>1, <1>2, PoolAssumption DEF StartJob, Job, EndJob, Count, TypeOK, HandleInv, InHandler, InLog, Busy
<1>6. PendingInv'
  <2>1. /\ job[j] = "taken"
        /\ \/ job' = [job EXCEPT ![j] = "ended"] /\ owed' = owed \cup {j}
           \/ job' = [job EXCEPT ![j] = "running"] /\ owed' = owed
    BY DEF StartJob, EndJob, Job
  <2>2. Live' \cup owed' = Live \cup owed /\ \A i \in owed' : job'[i] = "ended"
    BY <1>1, <2>1 DEF Live, Busy, TypeOK, PendingInv
  <2> QED BY <1>1, <1>2, <2>2 DEF PendingInv
<1>7. CountInv'
  <2>1. job[j] = "taken" /\ \A i \in Requests : GivingUp(i)' = GivingUp(i)
    BY <1>2 DEF StartJob, GivingUp
  <2>2. CASE j \notin expired \cup abandoned
    <3>1. UNCHANGED counts /\ job' = [job EXCEPT ![j] = "running"]
      BY <2>2 DEF StartJob, breakerVars, Job
    <3>2. \A i \in Requests : job[i] = "ended" => job'[i] = "ended"
      BY <1>1, <2>1, <3>1 DEF TypeOK
    <3>3. \A i \in abandoned : GivingUp(i)' \subseteq GivingUp(i)
      BY <1>1, <2>1 DEF TypeOK
    <3> QED BY <1>1, <1>2, <3>1, <3>2, <3>3, CountKept
  <2>3. CASE j \in expired \cup abandoned
    <3>1. counts' = [counts EXCEPT ![j] = counts[j] + 1] /\ job' = [job EXCEPT ![j] = "ended"]
      BY <2>3 DEF StartJob, EndJob, Job, Count
    <3>2. counts' \in [Requests -> Nat]
      BY <1>1, <3>1 DEF CountInv
    <3>3. Late(j) = 0 /\ Late(j)' = 1 /\ \A i \in Requests : i # j => Late(i)' = Late(i)
      BY <1>1, <2>1, <3>1 DEF TypeOK, Late
    <3>4. \A i \in Requests : Cardinality(GivingUp(i)) \in Nat
      BY PoolAssumption, FS_Subset, FS_CardinalityType DEF GivingUp
    <3>5. CountAt(j)'
      BY <1>1, <1>2, <2>1, <3>1, <3>2, <3>3, <3>4 DEF CountInv, CountAt
    <3>6. ASSUME NEW i \in Requests, i # j PROVE CountAt(i)'
      BY <1>1, <1>2, <2>1, <3>1, <3>2, <3>3, <3>6 DEF CountInv, CountAt
    <3> QED BY <1>1, <1>2, <3>2, <3>5, <3>6 DEF CountInv
  <2> QED BY <2>2, <2>3
<1> QED BY <1>3, <1>4, <1>5, <1>6, <1>7 DEF IInv

LEMMA ReturnStep ==
  ASSUME IInv, NEW j \in Requests, Return(j)
  PROVE  IInv'
<1>1. TypeOK /\ QueueInv /\ HandleInv /\ PendingInv /\ CountInv
  BY DEF IInv
<1>2. UNCHANGED <<step, handle, ranking, rankQueue, cached, jobQueue, abandoned, pending, closed, counts, company>>
  BY DEF Return, Job, EndJob, requestVars, rankVars, breakerVars, jobVars
<1>3. TypeOK'
  <2>1. Slotted' \subseteq Slotted
    BY <1>2 DEF Slotted
  <2>2. Cardinality(Slotted') <= Slots
    BY <1>1, <2>1, SlotsKept
  <2> QED BY <1>1, <1>2, <2>2, PoolAssumption DEF Return, Job, EndJob, TypeOK, Slotted, Busy, InHandler, InLog
<1>4. QueueInv'
  <2>1. IsQueue(rankQueue', Queued')
    BY <1>1, <1>2 DEF QueueInv, Queued
  <2>2. IsQueue(jobQueue', QueuedJobs')
    <3>1. QueuedJobs' = QueuedJobs
      BY <1>1, <1>2 DEF Return, Job, EndJob, TypeOK, QueuedJobs, Busy
    <3> QED BY <1>1, <1>2, <3>1 DEF QueueInv
  <2> QED BY <2>1, <2>2 DEF QueueInv
<1>5. HandleInv'
  BY <1>1, <1>2, PoolAssumption DEF Return, Job, EndJob, TypeOK, HandleInv, InHandler, InLog, Busy
<1>6. PendingInv'
  BY <1>1, <1>2 DEF Return, Job, EndJob, TypeOK, PendingInv, Live, Busy
<1>7. CountInv'
  <2>1. \A k \in abandoned : GivingUp(k)' \subseteq GivingUp(k)
    BY <1>2 DEF GivingUp
  <2>2. \A k \in Requests : job[k] = "ended" => job'[k] = "ended"
    BY <1>1, <1>2 DEF Return, Job, EndJob, TypeOK, HandleInv, Busy
  <2> QED BY <1>1, <1>2, <2>1, <2>2, CountKept
<1> QED BY <1>3, <1>4, <1>5, <1>6, <1>7 DEF IInv

LEMMA ReleaseStep ==
  ASSUME IInv, NEW j \in Requests, Release(j)
  PROVE  IInv'
<1>1. TypeOK /\ QueueInv /\ HandleInv /\ PendingInv /\ CountInv
  BY DEF IInv
<1>2. UNCHANGED <<step, handle, ranking, rankQueue, cached, job, jobQueue, expired, abandoned, streak, closed, counts, company>>
  BY DEF Release, requestVars, rankVars, breakerVars, jobVars
<1>3. TypeOK'
  <2>1. Slotted' \subseteq Slotted
    BY <1>2 DEF Slotted
  <2>2. Cardinality(Slotted') <= Slots
    BY <1>1, <2>1, SlotsKept
  <2>3. pending >= 1
    <3>1. Live \cup owed # {}
      BY DEF Release
    <3> QED BY <1>1, <3>1, BookedIsFinite, FS_EmptySet, FS_CardinalityType DEF PendingInv, TypeOK
  <2>4. pending' \in 0 .. MaxPending
    <3>1. MaxPending \in Nat /\ pending' = pending - 1
      BY PoolAssumption DEF Release
    <3> QED BY <1>1, <2>3, <3>1 DEF TypeOK
  <2>5. owed' \subseteq owed
    BY DEF Release
  <2> QED BY <1>1, <1>2, <2>2, <2>4, <2>5 DEF TypeOK, Slotted
<1>4. QueueInv'
  BY <1>1, <1>2 DEF QueueInv, Queued, QueuedJobs
<1>5. HandleInv'
  BY <1>1, <1>2, PoolAssumption DEF Release, TypeOK, HandleInv, InHandler, InLog, Busy
<1>6. PendingInv'
  <2>1. Live' \cup owed' = (Live \cup owed) \ {j} /\ j \in Live \cup owed /\ owed' \subseteq owed
    BY <1>1, <1>2 DEF Release, Live, Busy, PendingInv
  <2>2. pending' = pending - 1
    BY DEF Release
  <2> QED BY <1>1, <1>2, <2>1, <2>2, BookedIsFinite, FS_RemoveElement DEF PendingInv
<1>7. CountInv'
  <2>1. \A k \in abandoned : GivingUp(k)' \subseteq GivingUp(k)
    BY <1>2 DEF GivingUp
  <2> QED BY <1>1, <1>2, <2>1, CountKept
<1> QED BY <1>3, <1>4, <1>5, <1>6, <1>7 DEF IInv

LEMMA BudgetEndsStep ==
  ASSUME IInv, NEW j \in Requests, BudgetEnds(j)
  PROVE  IInv'
<1>1. TypeOK /\ QueueInv /\ HandleInv /\ PendingInv /\ CountInv
  BY DEF IInv
<1>2. UNCHANGED <<step, handle, ranking, rankQueue, cached, job, jobQueue, abandoned, owed, pending, streak, closed, counts, company>>
  BY DEF BudgetEnds, requestVars, rankVars, breakerVars, jobVars
<1>3. TypeOK'
  <2>1. Slotted' \subseteq Slotted
    BY <1>2 DEF Slotted
  <2>2. Cardinality(Slotted') <= Slots
    BY <1>1, <2>1, SlotsKept
  <2> QED BY <1>1, <1>2, <2>2, PoolAssumption DEF BudgetEnds, TypeOK, Slotted, Busy, InHandler, InLog
<1>4. QueueInv'
  BY <1>1, <1>2 DEF QueueInv, Queued, QueuedJobs
<1>5. HandleInv'
  BY <1>1, <1>2, PoolAssumption DEF BudgetEnds, TypeOK, HandleInv, InHandler, InLog, Busy
<1>6. PendingInv'
  BY <1>1, <1>2, PendingKept
<1>7. CountInv'
  <2>1. \A k \in abandoned : GivingUp(k)' \subseteq GivingUp(k)
    BY <1>2 DEF GivingUp
  <2> QED BY <1>1, <1>2, <2>1, CountKept
<1> QED BY <1>3, <1>4, <1>5, <1>6, <1>7 DEF IInv

LEMMA CoolDownStep ==
  ASSUME IInv, CoolDown
  PROVE  IInv'
<1>1. TypeOK /\ QueueInv /\ HandleInv /\ PendingInv /\ CountInv
  BY DEF IInv
<1>2. UNCHANGED <<step, handle, ranking, rankQueue, cached, job, jobQueue, expired, abandoned, owed, pending, streak, counts, company>>
  BY DEF CoolDown, requestVars, rankVars, breakerVars, jobVars
<1>3. TypeOK'
  <2>1. Slotted' \subseteq Slotted
    BY <1>2 DEF Slotted
  <2>2. Cardinality(Slotted') <= Slots
    BY <1>1, <2>1, SlotsKept
  <2> QED BY <1>1, <1>2, <2>2, PoolAssumption DEF CoolDown, TypeOK, Slotted, Busy, InHandler, InLog
<1>4. QueueInv'
  BY <1>1, <1>2 DEF QueueInv, Queued, QueuedJobs
<1>5. HandleInv'
  BY <1>1, <1>2, PoolAssumption DEF CoolDown, TypeOK, HandleInv, InHandler, InLog, Busy
<1>6. PendingInv'
  BY <1>1, <1>2, PendingKept
<1>7. CountInv'
  <2>1. \A k \in abandoned : GivingUp(k)' \subseteq GivingUp(k)
    BY <1>2 DEF GivingUp
  <2> QED BY <1>1, <1>2, <2>1, CountKept
<1> QED BY <1>3, <1>4, <1>5, <1>6, <1>7 DEF IInv

LEMMA Invariant == Spec => []IInv
<1>1. ASSUME IInv, [Next]_vars PROVE IInv'
  <2>1. ASSUME NEW r \in Requests,
               Enter(r) \/ Handle(r) \/ RankingStep(r) \/ WriteLog(r) \/ LogStep(r)
        PROVE  IInv'
    BY <1>1, <2>1, EnterStep, ReceiveStep, TimeoutStep, FallStep, LookUpStep, RankingFailsStep, RankedStep,
       WriteLogStep, ResultArrivesStep, WaitEndsStep, AbandonStep DEF Handle, RankingStep, LogStep
  <2>2. ASSUME NEW j \in Requests, JobStep(j) \/ Release(j) \/ BudgetEnds(j) PROVE IInv'
    BY <1>1, <2>2, StartJobStep, ReturnStep, ReleaseStep, BudgetEndsStep DEF JobStep
  <2>3. CASE UNCHANGED vars
    <3>1. UNCHANGED <<step, handle, ranking, rankQueue, cached, job, jobQueue, expired, abandoned, owed, pending,
                      streak, closed, counts, company>>
      BY <2>3 DEF vars, requestVars, rankVars, breakerVars, jobVars
    <3>2. TypeOK' /\ QueueInv' /\ HandleInv' /\ PendingInv'
      BY <1>1, <3>1 DEF IInv, TypeOK, QueueInv, Queued, QueuedJobs, HandleInv, PendingInv, Live
    <3>3. CountInv'
      <4>1. \A k \in abandoned : GivingUp(k)' \subseteq GivingUp(k)
        BY <3>1 DEF GivingUp
      <4> QED BY <1>1, <3>1, <4>1, CountKept DEF IInv
    <3> QED BY <3>2, <3>3 DEF IInv
  <2> QED BY <1>1, <2>1, <2>2, <2>3, TakeJobStep, CoolDownStep DEF Next
<1> QED BY <1>1, InitIInv, PTL DEF Spec

-------------------------------------------------------------------------------
(* The theorems *)

\* _pending is true (ShadowRunner.submit, _run, _finished, DeferredScores._abandon):
\* whatever threads end a job, it leaves the backlog exactly once.
THEOREM PendingIsTrueHolds == Spec => []PendingIsTrue
<1>1. IInv => PendingIsTrue
  BY DEF IInv, PendingInv, PendingIsTrue, Live
<1> QED BY <1>1, Invariant, PTL

\* The breaker counts a late job once for its thread and once for each log
\* writer that gave it up without knowing of the others (_count_toward_breaker),
\* never again when its cached list is shown later.
THEOREM LateJobsCountHolds == Spec => []LateJobsCount
<1>1. IInv => LateJobsCount
  <2> SUFFICES ASSUME IInv, NEW j \in Requests PROVE counts[j] <= 1 + company[j]
    BY DEF LateJobsCount
  <2>1. CountAt(j) /\ Late(j) \in {0, 1} /\ counts[j] \in Nat /\ company[j] \in Nat
    BY DEF IInv, CountInv, Late
  <2>2. Cardinality(GivingUp(j)) \in Nat
    BY PoolAssumption, FS_Subset, FS_CardinalityType DEF GivingUp
  <2> QED BY <2>1, <2>2 DEF CountAt
<1> QED BY <1>1, Invariant, PTL

===============================================================================
