---------------------------- MODULE ClickProfile ----------------------------
(***************************************************************************)
(* The long-term profile of ONE user (user_profile_state) as a cache of    *)
(* the user's click log: the click transactions of the API                 *)
(* (backend/app/api/log.py, backend/app/recsys/profile_store.py) beside    *)
(* the job that rebuilds the state from the log                            *)
(* (jobs/tasks/rebuild_user_state.py).                                     *)
(*                                                                         *)
(* A step is one SQL statement, or the Python between two of them.         *)
(* PostgreSQL is modelled at READ COMMITTED, from what the code relies on: *)
(* a statement sees what was committed before it began, FOR UPDATE waits   *)
(* for the holder of the row, an INSERT ... ON CONFLICT DO NOTHING waits   *)
(* for an uncommitted insertion of the same key, and ROLLBACK TO SAVEPOINT *)
(* gives up what was inserted and locked since the savepoint.              *)
(*                                                                         *)
(* A state is how often each click was added to it and the time of the     *)
(* latest: vector, length and category counts are functions of those.      *)
(***************************************************************************)
EXTENDS Integers, FiniteSets, FiniteSetsExt

CONSTANTS
  Clicks,     \* requests to POST /logs/newsletter/click
  Rebuilds,   \* calls of rebuild_user for this user
  Nobody

ASSUME NobodyAssumption == Nobody \notin Clicks \cup Rebuilds /\ Clicks \cap Rebuilds = {}

VARIABLES
  clock,     \* the time; grows with every row the API creates
  event,     \* event of the click row: "click" or "detail_view"
  at,        \* created_at of the click row, taken when the object is made
  embedded,  \* the clicks whose newsletter has an embedding by now
  log,       \* committed rows of user_newsletter_ctr_log
  row,       \* committed row of user_profile_state
  holder,    \* who has locked the row, or inserted it and not committed yet
  at_step,   \* where each click transaction and each rebuild is
  mine,      \* the state each of them has read, or will write
  write,     \* rebuild: not --check
  seen,      \* rebuild: the clicks _EVENTS_SQL returned
  outcome,   \* rebuild: what rebuild_user returned
  excused    \* history: committed clicks that no update and no rebuild has added

vars == <<clock, event, at, embedded, log, row, holder, at_step, mine, write, seen, outcome, excused>>
Actors == Clicks \cup Rebuilds
requestVars == <<clock, event, at>>
tableVars == <<log, row, excused>>
jobVars == <<write, seen, outcome>>

NoTime == 0
Empty == [exists |-> TRUE, count |-> [c \in Clicks |-> 0], last |-> NoTime]
NoRow == [exists |-> FALSE, count |-> Empty.count, last |-> NoTime]
Events == {c \in log : event[c] = "click" /\ c \in embedded}    \* what _EVENTS_SQL selects
Later(t, u) == IF t > u THEN t ELSE u
LatestOf(S) == IF S = {} THEN NoTime ELSE Max({at[c] : c \in S})
Fresh(S) == [exists |-> TRUE, count |-> [c \in Clicks |-> IF c \in S THEN 1 ELSE 0], last |-> LatestOf(S)]
SameState(s, t) == s.count = t.count /\ s.last = t.last

Init ==
  /\ clock = 0
  /\ event = [c \in Clicks |-> "click"] /\ at = [c \in Clicks |-> NoTime]
  /\ embedded \in SUBSET Clicks
  /\ log = {} /\ row = NoRow /\ holder = Nobody
  /\ at_step = [p \in Actors |-> "idle"] /\ mine = [p \in Actors |-> NoRow]
  /\ write = [r \in Rebuilds |-> TRUE] /\ seen = [r \in Rebuilds |-> {}]
  /\ outcome = [r \in Rebuilds |-> "none"]
  /\ excused = {}

Goto(p, step) == at_step' = [at_step EXCEPT ![p] = step]
\* What the transaction or its savepoint held is given up, what it read is gone.
Release(p) ==
  /\ holder' = IF holder = p THEN Nobody ELSE holder
  /\ mine' = [mine EXCEPT ![p] = NoRow]

\* The generation workflow stores the embedding after the newsletter itself.
EmbedItem(c) ==
  /\ c \notin embedded
  /\ embedded' = embedded \cup {c}
  /\ UNCHANGED <<requestVars, tableVars, holder, at_step, mine, jobVars>>
---------------------------------------------------------------------------
(* The click API *)

\* The row object is made: created_at is now.
Create(c) ==
  /\ at_step[c] = "idle"
  /\ clock' = clock + 1 /\ at' = [at EXCEPT ![c] = clock + 1]
  /\ \E kind \in {"click", "detail_view"} : event' = [event EXCEPT ![c] = kind]
  /\ Goto(c, "created")
  /\ UNCHANGED <<embedded, tableVars, holder, mine, jobVars>>

\* session.flush(): the row is inserted and not yet committed.  Then
\* apply_click reads the embedding; without one there is nothing to add.
Flush(c) ==
  /\ at_step[c] = "created"
  /\ Goto(c, IF event[c] = "click" /\ c \in embedded THEN "locking" ELSE "committing")
  /\ UNCHANGED <<requestVars, embedded, tableVars, holder, mine, jobVars>>

\* Mutant: FOR UPDATE is forgotten.
LockWithoutWaiting(p, found, none) ==
  /\ at_step[p] = "locking"
  /\ mine' = [mine EXCEPT ![p] = IF row.exists THEN row ELSE Empty]
  /\ Goto(p, IF row.exists THEN found ELSE none)
  /\ UNCHANGED <<requestVars, embedded, tableVars, holder, jobVars>>

\* _LOCK_SQL: FOR UPDATE waits for a committed row and does not see the
\* uncommitted row of somebody else.
Lock(p, found, none) ==
  /\ at_step[p] = "locking"
  /\ \/ /\ row.exists /\ holder = Nobody
        /\ holder' = p /\ mine' = [mine EXCEPT ![p] = row]
        /\ Goto(p, found)
     \/ /\ ~row.exists /\ holder # p
        /\ mine' = [mine EXCEPT ![p] = Empty]
        /\ Goto(p, none)
        /\ UNCHANGED holder
  /\ UNCHANGED <<requestVars, embedded, tableVars, jobVars>>

\* _INSERT_SQL, and _LOCK_SQL once more on the row p has just inserted.
InsertRow(p, found) ==
  /\ at_step[p] = "inserting"
  /\ \/ row.exists /\ Goto(p, "locking") /\ UNCHANGED holder
     \/ ~row.exists /\ holder = Nobody /\ holder' = p /\ Goto(p, found)
  /\ UNCHANGED <<requestVars, embedded, tableVars, mine, jobVars>>

\* apply_event and _UPDATE_SQL.
Apply(c) ==
  /\ at_step[c] = "applying"
  /\ mine' = [mine EXCEPT ![c] = [exists |-> TRUE, last |-> Later(mine[c].last, at[c]),
                                  count |-> [mine[c].count EXCEPT ![c] = @ + 1]]]
  /\ Goto(c, "committing")
  /\ UNCHANGED <<requestVars, embedded, tableVars, holder, jobVars>>

\* Any statement of apply_click may fail: back to the savepoint, the click is kept.
UpdateFails(c) ==
  /\ at_step[c] \in {"locking", "inserting", "applying"}
  /\ Release(c)
  /\ Goto(c, "committing")
  /\ UNCHANGED <<requestVars, embedded, tableVars, jobVars>>

\* With the update, if it got that far.
CommitClick(c) ==
  /\ at_step[c] = "committing"
  /\ log' = log \cup {c}
  /\ row' = IF mine[c].exists THEN mine[c] ELSE row
  /\ excused' = IF event[c] = "click" /\ ~mine[c].exists THEN excused \cup {c} ELSE excused
  /\ Release(c) /\ Goto(c, "done")
  /\ UNCHANGED <<requestVars, embedded, jobVars>>

\* The worker or the connection dies: the whole transaction is undone.
AbortClick(c) ==
  /\ at_step[c] \in {"created", "locking", "inserting", "applying", "committing"}
  /\ Release(c) /\ Goto(c, "aborted")
  /\ UNCHANGED <<requestVars, embedded, tableVars, jobVars>>
---------------------------------------------------------------------------
(* rebuild_user *)

Start(r) ==
  /\ at_step[r] = "idle"
  /\ \E w \in BOOLEAN : write' = [write EXCEPT ![r] = w]
  /\ Goto(r, "locking")
  /\ UNCHANGED <<requestVars, embedded, tableVars, holder, mine, seen, outcome>>

\* Mutant: the job does not insert a missing row.
LockOnlyExisting(r) == Lock(r, "reading", "reading")

\* _locked_state(create=write): --check neither inserts nor locks a missing row.
LockState(r) == Lock(r, "reading", IF write[r] THEN "inserting" ELSE "reading")

\* recompute()
ReadLog(r) ==
  /\ at_step[r] = "reading"
  /\ seen' = [seen EXCEPT ![r] = Events]
  /\ Goto(r, "comparing")
  /\ UNCHANGED <<requestVars, embedded, tableVars, holder, mine, write, outcome>>

\* Unchanged, rebuilt or, with --check, a mismatch that is only reported.
Compare(r) ==
  LET fresh == Fresh(seen[r]) IN
  /\ at_step[r] = "comparing"
  /\ outcome' = [outcome EXCEPT ![r] = IF SameState(mine[r], fresh) THEN "unchanged"
                                       ELSE IF write[r] THEN "rebuilt" ELSE "mismatch"]
  /\ mine' = [mine EXCEPT ![r] = IF write[r] THEN fresh ELSE @]
  /\ Goto(r, "finishing")
  /\ UNCHANGED <<requestVars, embedded, tableVars, holder, write, seen>>

\* Mutant: the transaction of a rebuild is left open.
CommitLater(r) ==
  /\ at_step[r] = "finishing"
  /\ Goto(r, "done")
  /\ UNCHANGED <<requestVars, embedded, tableVars, holder, mine, jobVars>>

\* The end of engine.begin(): commit, and the row is free again.
CommitRebuild(r) ==
  /\ at_step[r] = "finishing"
  /\ row' = IF write[r] THEN mine[r] ELSE row
  /\ excused' = IF write[r] THEN excused \ seen[r] ELSE excused
  /\ Release(r) /\ Goto(r, "done")
  /\ UNCHANGED <<requestVars, embedded, log, jobVars>>

AbortRebuild(r) ==
  /\ at_step[r] \in {"locking", "inserting", "reading", "comparing", "finishing"}
  /\ Release(r) /\ Goto(r, "aborted")
  /\ outcome' = [outcome EXCEPT ![r] = "none"]
  /\ UNCHANGED <<requestVars, embedded, tableVars, write, seen>>
---------------------------------------------------------------------------
LockProfile(c) == Lock(c, "applying", "inserting")
InsertProfile(c) == InsertRow(c, "applying")
InsertState(r) == InsertRow(r, "reading")
ClickWork(c) == Flush(c) \/ LockProfile(c) \/ InsertProfile(c) \/ Apply(c) \/ CommitClick(c)
RebuildWork(r) == LockState(r) \/ InsertState(r) \/ ReadLog(r) \/ Compare(r) \/ CommitRebuild(r)

Done == (\A p \in Actors : at_step[p] \in {"idle", "done", "aborted"}) /\ UNCHANGED vars

Next ==
  \/ \E c \in Clicks : EmbedItem(c) \/ Create(c) \/ ClickWork(c) \/ UpdateFails(c) \/ AbortClick(c)
  \/ \E r \in Rebuilds : Start(r) \/ RebuildWork(r) \/ AbortRebuild(r)
  \/ Done

Spec == Init /\ [][Next]_vars

\* A transaction that has begun goes on: the statements of a session run, and
\* a lock that is free is granted.  Nothing has to fail.
Fairness ==
  /\ \A c \in Clicks : WF_vars(ClickWork(c))
  /\ \A r \in Rebuilds : WF_vars(RebuildWork(r))
FairSpec == Spec /\ Fairness
---------------------------------------------------------------------------
(* Properties *)

States == [exists : BOOLEAN, count : [Clicks -> {0, 1}], last : 0..clock]

\* Every variable keeps its shape; nothing counts twice, no time is in the future.
TypeOK ==
  /\ clock \in Nat
  /\ event \in [Clicks -> {"click", "detail_view"}] /\ at \in [Clicks -> 0..clock]
  /\ embedded \subseteq Clicks /\ log \subseteq Clicks /\ excused \subseteq Clicks
  /\ row \in States /\ mine \in [Actors -> States]
  /\ holder \in Actors \cup {Nobody}
  /\ at_step \in [Actors -> {"idle", "created", "locking", "inserting", "applying", "committing",
                             "reading", "comparing", "finishing", "done", "aborted"}]
  /\ write \in [Rebuilds -> BOOLEAN] /\ seen \in [Rebuilds -> SUBSET Clicks]
  /\ outcome \in [Rebuilds -> {"none", "unchanged", "rebuilt", "mismatch"}]

\* The state is the log: every stored click with an embedding is in it exactly
\* once, whatever click transactions and rebuilds overlap, except those whose
\* own update failed or found no embedding, until a rebuild has read them.
\* No update is lost, none is applied twice.  (And the types hold.)
ProfileIsTheLog ==
  TypeOK /\ \A c \in Clicks : row.count[c] = IF c \in Events \ excused THEN 1 ELSE 0

\* A rebuild repairs: when it has committed, every click that was stored when
\* it began to read the log is in the state for good.
RebuildRepairs ==
  \A r \in Rebuilds : at_step[r] = "done" /\ write[r] => \A c \in seen[r] : row.count[c] = 1

\* Every request that began is answered, however the transactions queue up.
EveryClickIsAnswered ==
  \A c \in Clicks : at_step[c] = "created" ~> at_step[c] \in {"done", "aborted"}

=============================================================================
