---------------------------- MODULE SpendLedger ----------------------------
(***************************************************************************)
(* The LLM spend ledger (core/llm/spend_ledger.py) as its callers use it:  *)
(* every request to a provider reserves its worst cost on an append-only   *)
(* file before it is sent and settles its real cost afterwards.            *)
(*                                                                         *)
(* The file is modelled by what reading it yields (_State, here led) and   *)
(* by the unterminated line at its end (tail).  Appends happen under a     *)
(* lock on the file, may be cut short by a crash or a full disk, and leave *)
(* a tail that the next append terminates.  Loss and replacement of the    *)
(* file are the subject of LedgerFile.  Time is abstracted: any open       *)
(* reservation may have outlived its TTL.                                  *)
(***************************************************************************)
EXTENDS Integers, Tally

CONSTANTS
  N,              \* number of attempts, that is, of requests to a provider
  Runs, Days,     \* run labels and calendar days
  Calls,          \* the requests an attempt may make: worst cost, run, day
  TotalCap, DayCap, RunCap,
  Overrun,        \* how far a bill may exceed the estimated worst cost
  ErrorsAreFree   \* whether the provider bills no request that fails

ASSUME NAssumption == N \in Nat
ASSUME CallsAssumption == Calls \subseteq [worst : Nat, run : Runs, day : Days]
ASSUME CapsAssumption == TotalCap \in Nat /\ DayCap \in Nat /\ RunCap \in Nat
ASSUME OverrunAssumption == Overrun \in Nat
ASSUME ErrorsAreFreeAssumption == ErrorsAreFree \in BOOLEAN

VARIABLES
  call,     \* call[a]: the request of attempt a (a constant of the behaviour)
  pc,       \* pc[a]: the next step of attempt a
  holder,   \* the attempt whose thread holds the file lock, 0 if none
  led,      \* what reading the terminated lines of the file yields
  tail,     \* the event of a complete but unterminated last line, if any
  view,     \* view[a]: what a's process read when it last refreshed
  granted,  \* the attempts whose reserve() returned a Reservation
  billed,   \* billed[a]: what the provider ends up charging for a
  claim     \* claim[a]: the cost a's settlement states, worst until then

vars == <<call, pc, holder, led, tail, view, granted, billed, claim>>

Attempts == 1..N
Nobody == 0
Worst(a) == call[a].worst
OfRun(r) == {a \in Attempts : call[a].run = r}
OfDay(d) == {a \in Attempts : call[a].day = d}
Lesser(m, n) == IF m <= n THEN m ELSE n

-----------------------------------------------------------------------------
(* The events of the file and what reading them yields                     *)

ReserveOf(a) == [ev |-> "reserve", id |-> a, nusd |-> Worst(a)]
ExpireOf(a) == [ev |-> "expire", id |-> a, nusd |-> Worst(a)]
CommitOf(a, n) == [ev |-> "commit", id |-> a, nusd |-> n]
ResetOf(d) == [ev |-> "reset_day", day |-> d]
\* A line that changes no sum: a refusal, or a torn line acknowledged as such.
Inert == [ev |-> "refuse"]

Events == [ev : {"reserve", "expire", "commit"}, id : Attempts, nusd : Nat]
          \cup [ev : {"reset_day"}, day : Days] \cup {Inert}

States == [open : SUBSET Attempts, closed : SUBSET Attempts, settled : [Attempts -> Nat],
           total : Nat, byRun : [Runs -> Nat], byDay : [Days -> Nat]]

EmptyLedger ==
  [open |-> {}, closed |-> {}, settled |-> [a \in Attempts |-> 0], total |-> 0,
   byRun |-> [r \in Runs |-> 0], byDay |-> [d \in Days |-> 0]]

Raised(f, k, n) == [f EXCEPT ![k] = @ + n]

\* charge(), with the reservation closed at n in all.
CloseAt(l, a, n, extra) ==
  [open |-> l.open \ {a}, closed |-> l.closed \cup {a},
   settled |-> [l.settled EXCEPT ![a] = n], total |-> l.total + extra,
   byRun |-> Raised(l.byRun, call[a].run, extra), byDay |-> Raised(l.byDay, call[a].day, extra)]

SettleTwice(l, a, n) == CloseAt(l, a, n, n)
SettleLatest(l, a, n) == CloseAt(l, a, n, n - l.settled[a])
\* _settle: a reservation that is settled again (late after its expiry, or
\* twice) is only ever raised.  settled[a] is 0 until a is closed.
Extra(l, a, n) == IF n > l.settled[a] THEN n - l.settled[a] ELSE 0
Settle(l, a, n) == CloseAt(l, a, l.settled[a] + Extra(l, a, n), Extra(l, a, n))

\* _State.apply
Apply(l, e) ==
  CASE e.ev = "reserve" -> IF e.id \in l.closed THEN l ELSE [l EXCEPT !.open = @ \cup {e.id}]
    [] e.ev \in {"expire", "commit"} -> Settle(l, e.id, e.nusd)
    [] e.ev = "reset_day" -> [l EXCEPT !.byDay[e.day] = 0]
    [] OTHER -> l

\* _append terminates the line a cut write left, then writes its own; both
\* are read back.
Appended(l, t, e) == Apply(Apply(l, t), e)

-----------------------------------------------------------------------------
(* Sums over the attempts of a scope                                       *)

SumIn(f, S) == Total([a \in Attempts |-> IF a \in S THEN f[a] ELSE 0], N)
WorstOf == [a \in Attempts |-> Worst(a)]
OpenIn(l, S) == SumIn(WorstOf, l.open \cap S)
SettledIn(l, S) == SumIn(l.settled, S)
\* What the granted attempts of S may still cost, and what they do cost, short
\* of overruns.
Claim(a) == Lesser(claim[a], Worst(a))
ClaimedIn(S) == SumIn([a \in Attempts |-> Claim(a)], granted \cap S)
BilledIn(S) == SumIn([a \in Attempts |-> Lesser(billed[a], Worst(a))], S)

\* reserve(): settled spending + open reservations + this request, per scope.
WithinCaps(l, a) ==
  /\ l.total + OpenIn(l, Attempts) + Worst(a) <= TotalCap
  /\ l.byDay[call[a].day] + OpenIn(l, OfDay(call[a].day)) + Worst(a) <= DayCap
  /\ l.byRun[call[a].run] + OpenIn(l, OfRun(call[a].run)) + Worst(a) <= RunCap

-----------------------------------------------------------------------------
PC == {"new", "reserving", "refused", "granted", "sent", "answered", "settling",
       "done", "unsettled", "dead"}
InLock == {"reserving", "settling"}
Final == {"refused", "done", "unsettled", "dead"}

TypeOK ==
  /\ call \in [Attempts -> Calls]
  /\ pc \in [Attempts -> PC]
  /\ holder \in Attempts \cup {Nobody}
  /\ led \in States
  /\ tail \in Events
  /\ view \in [Attempts -> States]
  /\ granted \in SUBSET Attempts
  /\ billed \in [Attempts -> Nat]
  /\ claim \in [Attempts -> Nat]

Init ==
  /\ call \in [Attempts -> Calls]
  /\ pc = [a \in Attempts |-> "new"]
  /\ holder = Nobody
  /\ led = EmptyLedger
  /\ tail = Inert
  /\ view = [a \in Attempts |-> EmptyLedger]
  /\ granted = {}
  /\ billed = [a \in Attempts |-> 0]
  /\ claim = [a \in Attempts |-> Worst(a)]

Goto(a, l) == pc' = [pc EXCEPT ![a] = l]
\* Closing the descriptor releases the lock; what was read is read again later.
Unlock(a) ==
  /\ holder' = IF holder = a THEN Nobody ELSE holder
  /\ view' = [view EXCEPT ![a] = EmptyLedger]

Write(e) == led' = Appended(led, tail, e) /\ tail' = Inert

\* A write that a crash or a full disk cut short: nothing landed, or the tail
\* was terminated and a new tail is left, which may be the whole event.
CutWrite(e) ==
  \/ UNCHANGED <<led, tail>>
  \/ led' = Apply(led, tail) /\ tail' \in {Inert, e}

AcquireShared(a) ==
  /\ pc[a] \in {"new", "answered"}
  /\ holder' = a
  /\ view' = [view EXCEPT ![a] = led]
  /\ Goto(a, IF pc[a] = "new" THEN "reserving" ELSE "settling")
  /\ UNCHANGED <<call, led, tail, granted, billed, claim>>

\* _locked and _refresh: the lock is held, the file has been read.
Acquire(a) ==
  /\ pc[a] \in {"new", "answered"}
  /\ holder = Nobody
  /\ holder' = a
  /\ view' = [view EXCEPT ![a] = led]
  /\ Goto(a, IF pc[a] = "new" THEN "reserving" ELSE "settling")
  /\ UNCHANGED <<call, led, tail, granted, billed, claim>>

\* The lock timed out or the ledger cannot prove what was spent: no request.
Unavailable(a) ==
  /\ pc[a] \in {"new", "reserving"}
  /\ Goto(a, "refused") /\ Unlock(a)
  /\ UNCHANGED <<call, led, tail, granted, billed, claim>>

\* _expire_stale writes one line per reservation that outlived its TTL.
Expire(a, b) ==
  /\ pc[a] = "reserving" /\ b \in view[a].open
  /\ Write(ExpireOf(b))
  /\ view' = [view EXCEPT ![a] = led']
  /\ UNCHANGED <<call, pc, holder, granted, billed, claim>>

ExpireFails(a, b) ==
  /\ pc[a] = "reserving" /\ b \in view[a].open
  /\ CutWrite(ExpireOf(b)) \/ Write(ExpireOf(b))
  /\ Goto(a, "refused") /\ Unlock(a)
  /\ UNCHANGED <<call, granted, billed, claim>>

\* The reservation is on disk and read back before the caller may send.
Reserve(a) ==
  /\ pc[a] = "reserving" /\ WithinCaps(view[a], a)
  /\ Write(ReserveOf(a))
  /\ granted' = granted \cup {a}
  /\ Goto(a, "granted") /\ Unlock(a)
  /\ UNCHANGED <<call, billed, claim>>

\* The line is cut, or lands and a later step of _append fails: not granted.
ReserveFails(a) ==
  /\ pc[a] = "reserving" /\ WithinCaps(view[a], a)
  /\ CutWrite(ReserveOf(a)) \/ Write(ReserveOf(a))
  /\ Goto(a, "refused") /\ Unlock(a)
  /\ UNCHANGED <<call, granted, billed, claim>>

Refuse(a) ==
  /\ pc[a] = "reserving" /\ ~ WithinCaps(view[a], a)
  /\ CutWrite(Inert) \/ Write(Inert)
  /\ Goto(a, "refused") /\ Unlock(a)
  /\ UNCHANGED <<call, granted, billed, claim>>

-----------------------------------------------------------------------------
(* the request                                                             *)

\* billed is the charge the provider will arrive at, whether or not anybody
\* is left to hear of it.
Send(a) ==
  /\ pc[a] = "granted"
  /\ Goto(a, "sent")
  /\ \E n \in 0..(Worst(a) + Overrun) : billed' = [billed EXCEPT ![a] = n]
  /\ UNCHANGED <<call, holder, led, tail, view, granted, claim>>

Outcomes == {"response", "no_usage", "http_error", "no_reply"}

BasisOfSilenceIsFree(o) ==
  IF o = "response" THEN "actual" ELSE IF o = "no_usage" THEN "reserved" ELSE "not_billed"

\* billing_basis: reported usage, a failure known to be free, else the worst.
Basis(o) ==
  IF o = "response" THEN "actual"
  ELSE IF o = "http_error" /\ ErrorsAreFree THEN "not_billed" ELSE "reserved"

\* The usage a response reports is never below the bill: billable_tokens takes
\* the largest reading.  A timeout or a lost connection says nothing.
Answer(a) ==
  /\ pc[a] = "sent"
  /\ \E o \in Outcomes, usage \in billed[a]..(Worst(a) + Overrun) :
       /\ o = "http_error" /\ ErrorsAreFree => billed[a] = 0
       /\ Basis(o) # "actual" => usage = billed[a]
       /\ claim' = [claim EXCEPT ![a] = IF Basis(o) = "actual" THEN usage
                                        ELSE IF Basis(o) = "not_billed" THEN 0 ELSE Worst(a)]
  /\ Goto(a, "answered")
  /\ UNCHANGED <<call, holder, led, tail, view, granted, billed>>

SettleAttempt(a) ==
  /\ pc[a] = "settling"
  /\ Write(CommitOf(a, claim[a]))
  /\ Goto(a, "done") /\ Unlock(a)
  /\ UNCHANGED <<call, granted, billed, claim>>

\* Attempt.settle swallows the error: the reservation stays open.
SettleFails(a) ==
  /\ pc[a] \in {"answered", "settling"}
  /\ \/ UNCHANGED <<led, tail>>
     \/ pc[a] = "settling" /\ (CutWrite(CommitOf(a, claim[a])) \/ Write(CommitOf(a, claim[a])))
  /\ Goto(a, "unsettled") /\ Unlock(a)
  /\ UNCHANGED <<call, granted, billed, claim>>

-----------------------------------------------------------------------------
\* The process dies between two steps; the kernel releases its lock.  Deaths in
\* the middle of a write are the Fails actions.
Crash(a) ==
  /\ pc[a] \notin Final \cup {"new"}
  /\ Goto(a, "dead") /\ Unlock(a)
  /\ UNCHANGED <<call, led, tail, granted, billed, claim>>

\* reset_day, by hand.
ResetDay(d) ==
  /\ holder = Nobody
  /\ Write(ResetOf(d))
  /\ UNCHANGED <<call, pc, holder, view, granted, billed, claim>>

Advance(a) ==
  \/ Acquire(a) \/ Unavailable(a)
  \/ Reserve(a) \/ ReserveFails(a) \/ Refuse(a)
  \/ Send(a) \/ Answer(a) \/ SettleAttempt(a) \/ SettleFails(a)

Next ==
  \/ \E a \in Attempts :
       \/ Advance(a) \/ Crash(a)
       \/ \E b \in Attempts : Expire(a, b) \/ ExpireFails(a, b)
  \/ \E d \in Days : ResetDay(d)

Spec == Init /\ [][Next]_vars
-----------------------------------------------------------------------------
(* properties                                                              *)

\* What the open reservation or the settlement of a counts for in l.
Booked(l, a) == IF a \in l.open THEN Worst(a) ELSE l.settled[a]
\* Settled spending of day d that reset_day took out of the day's window.
Forgiven(l, d) == SettledIn(l, OfDay(d)) - l.byDay[d]

\* The point of the ledger: whatever crashes, times out or is retried, the
\* provider never bills more than the total and the run cap allow, not
\* counting what a single request cost beyond its own estimate.
BilledWithinCaps ==
  /\ BilledIn(Attempts) <= TotalCap
  /\ \A r \in Runs : BilledIn(OfRun(r)) <= RunCap

\* The same for a day, where only reset_day makes room again.
BilledWithinDay == \A d \in Days : BilledIn(OfDay(d)) <= DayCap + Forgiven(led, d)

\* No request goes unbooked: whatever was sent stays on the ledger with at
\* least its bill, also when its process died or its settlement got lost, and a
\* settlement that was written counts in full, also after an expiry.
SentIsBooked ==
  \A a \in Attempts :
    /\ billed[a] > 0 => a \in led.open \cup led.closed
    /\ Lesser(billed[a], Worst(a)) <= Booked(led, a)
    /\ pc[a] = "done" => claim[a] <= led.settled[a]

\* The tables of a ledger state agree.
Books(l) ==
  /\ l.open \cap l.closed = {}
  /\ l.total = SettledIn(l, Attempts)
  /\ \A r \in Runs : l.byRun[r] = SettledIn(l, OfRun(r))
  /\ \A d \in Days : l.byDay[d] <= SettledIn(l, OfDay(d))

\* A reservation that expired and settled late, or settled twice, is counted
\* once in every table.
BooksBalance == Books(led)

\* The header of the file: an amount once counted does not shrink; a settled
\* amount never falls and a closed reservation never opens again.
SettledNeverFalls ==
  [][/\ \A a \in Attempts : led.settled[a] <= led'.settled[a]
     /\ led.closed \subseteq led'.closed]_vars

-----------------------------------------------------------------------------
(* the inductive invariant behind them                                     *)

\* Where the attempts stand: who was granted, what is claimed and billed.
Standing ==
  \A a \in Attempts :
    /\ pc[a] \in {"new", "reserving", "refused"} => a \notin granted
    /\ pc[a] \in {"granted", "sent", "answered", "settling", "done", "unsettled"} => a \in granted
    /\ pc[a] \notin {"answered", "settling", "done", "unsettled", "dead"} => claim[a] = Worst(a)
    /\ a \notin granted => billed[a] = 0
    /\ Lesser(billed[a], Worst(a)) <= Claim(a)
    /\ pc[a] = "done" => claim[a] <= led.settled[a]

\* One process at a time has the file, and what it read is what the file says.
Locked ==
  \A a \in Attempts : /\ pc[a] \in InLock => holder = a
                      /\ pc[a] = "reserving" => view[a] = led

\* The file says nothing of an attempt before its own line is written.
Unheard(l, a) == a \notin l.open \cup l.closed
OfNobody(e, a) == e.ev \in {"reserve", "expire", "commit"} => e.id # a
Fresh ==
  \A a \in Attempts : pc[a] \in {"new", "reserving"} => Unheard(led, a) /\ OfNobody(tail, a)

\* Every granted attempt is on the ledger with what it may still cost, and no
\* pending line would close it for less.
Covered(l) == \A a \in granted : ~ Unheard(l, a) /\ Claim(a) <= Booked(l, a)
Honest(e) == e.ev \in {"expire", "commit"} /\ e.id \in granted => Claim(e.id) <= e.nusd

ClaimsWithinCaps ==
  /\ ClaimedIn(Attempts) <= TotalCap
  /\ \A r \in Runs : ClaimedIn(OfRun(r)) <= RunCap
  /\ \A d \in Days : ClaimedIn(OfDay(d)) <= DayCap + Forgiven(led, d)

Inductive ==
  /\ TypeOK /\ Standing /\ Locked /\ Fresh
  /\ Books(led) /\ Covered(led) /\ Honest(tail)
  /\ ClaimsWithinCaps
=============================================================================
