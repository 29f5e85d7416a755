----------------------------- MODULE LedgerFile -----------------------------
(***************************************************************************)
(* The file behind the LLM spend ledger (core/llm/spend_ledger.py), when   *)
(* it gets lost, cut, scrambled or replaced: the watermark kept outside    *)
(* its directory, the diagnosis every call makes, and the commands by      *)
(* which an operator resumes (init, repair, adopt of spend_cli).           *)
(*                                                                         *)
(* SpendLedger has the concurrency of the callers and the three caps; here *)
(* the lock is one writer between its append and its watermark, and the    *)
(* total is the only scope.  Every call costs WorstCost at most.  A line   *)
(* has the sizes the code gives it only in so far as a settlement is       *)
(* longer than the other lines.                                            *)
(***************************************************************************)
EXTENDS Sequences, FiniteSets, Tally

CONSTANTS
  Count,       \* number of calls
  WorstCost,   \* the worst cost of a call
  Cap,         \* the total cap
  MaxFiles,    \* bound: how often init makes a ledger
  MaxDamages   \* bound: how often the disk, a crash or a hand does harm

ASSUME FileAssumption == {Count, WorstCost, Cap, MaxFiles, MaxDamages} \subseteq Nat

VARIABLES
  path,      \* the id of the ledger at the path, NoFile if there is none
  made,      \* how many ledgers were made
  lines,     \* its terminated lines
  dangling,  \* whether an unterminated line follows them
  mark,      \* the watermark
  writer,    \* who has appended and not yet moved the watermark
  stage,     \* the next step of a call
  bill,      \* what the provider charges for a call
  damages,   \* how much harm was done
  adopting,  \* history: the ledger has the line of an adopt, and the
             \* watermark does not know it yet
  regrown,   \* history: a cut ledger grew again before it was adopted, or
             \* was cut again after an adopt that died before its watermark,
             \* or one of its lines was scrambled
  forgotten  \* history: the watermark was lost

fileVars == <<path, made, lines, dangling>>
harmVars == <<damages, adopting, regrown, forgotten>>
ledgerVars == <<fileVars, mark, writer, stage, bill, harmVars>>

Ids == 1..Count
Operator == 0
NoFile == 0
NoMark == [id |-> NoFile]  \* no file
BadMark == [id |-> -1]     \* a file that cannot be read
Known(m) == m \notin {NoMark, BadMark}
NoWriter == [who |-> -1]
Idle == writer = NoWriter
---------------------------------------------------------------------------
(* Reading a ledger *)

InitLine == [ev |-> "init"]
ReserveLine(a) == [ev |-> "reserve", id |-> a]
CommitLine(a, n) == [ev |-> "commit", id |-> a, nusd |-> n]
ExpireLine(a) == [ev |-> "expire", id |-> a, nusd |-> WorstCost]
AdoptLine(n) == [ev |-> "adopt", carried |-> n]
SeenLine(at) == [ev |-> "seen", offsets |-> at]  \* torn and repair
RefuseLine == [ev |-> "refuse"]
BadLine == [ev |-> "bad"]                        \* a line that cannot be read

Reserved(s, a) == \E i \in DOMAIN s : s[i].ev = "reserve" /\ s[i].id = a
\* An expired reservation that is settled late is only ever raised.
SettledAt(s, a) ==
  {0} \cup {s[i].nusd : i \in {j \in DOMAIN s : s[j].ev \in {"commit", "expire"} /\ s[j].id = a}}
Settled(s, a) == CHOOSE n \in SettledAt(s, a) : \A m \in SettledAt(s, a) : m <= n
Open(s) == {a \in Ids : Reserved(s, a) /\ Settled(s, a) = 0}
Carried(s) == Total([i \in DOMAIN s |-> IF s[i].ev = "adopt" THEN s[i].carried ELSE 0], Len(s))
Committed(s) == Carried(s) + Total([a \in Ids |-> Settled(s, a)], Count)
OpenSum(s) == Total([a \in Ids |-> IF a \in Open(s) THEN WorstCost ELSE 0], Count)
Used(s) == Committed(s) + OpenSum(s)

Unacked(s) ==
  {i \in DOMAIN s : s[i].ev = "bad" /\ \A j \in DOMAIN s : s[j].ev = "seen" => i \notin s[j].offsets}
HasHeader(s) == s # <<>> /\ s[1].ev = "init"
Size(s, cut) ==
  2 * Len(s) + Cardinality({i \in DOMAIN s : s[i].ev = "commit"}) + (IF cut THEN 1 ELSE 0)
Snapshot(id, s) == [id |-> id, size |-> Size(s, FALSE), committed |-> Committed(s), open |-> OpenSum(s)]

\* _diagnose, in its order.
Diagnose(id, s, cut, m) ==
  CASE id = NoFile -> "missing"
    [] ~HasHeader(s) -> "uninitialized"
    [] Unacked(s) # {} -> "corrupt"
    [] ~Known(m) -> "no_watermark"
    [] m.id # id -> "replaced"
    [] Size(s, cut) < m.size -> "shrunk"
    [] Committed(s) < m.committed -> "behind"
    [] OTHER -> "none"
Problem == Diagnose(path, lines, dangling, mark)
\* The ledger is shorter than the watermark remembers it.
Cut == Known(mark) /\ mark.id = path /\ Size(lines, dangling) < mark.size
---------------------------------------------------------------------------
(* Writing a ledger *)

\* A line that a dead writer left is ended and acknowledged first.
Ended == IF dangling THEN Append(Append(lines, BadLine), SeenLine({Len(lines) + 1})) ELSE lines
Extended(e) == Append(Ended, e)

\* _append: the lines are on disk; the watermark follows if the ledger is
\* sound, or if the command says so.  The lock is held until then.
WriteLine(who, e, then, always) ==
  /\ Idle /\ path # NoFile
  /\ lines' = Extended(e) /\ dangling' = FALSE
  /\ IF always \/ Diagnose(path, lines', FALSE, mark) = "none"
       THEN /\ writer' = [who |-> who, then |-> then, mark |-> Snapshot(path, lines')]
            /\ UNCHANGED stage
       ELSE /\ stage' = IF who = Operator THEN stage ELSE [stage EXCEPT ![who] = then]
            /\ UNCHANGED writer
  /\ UNCHANGED <<path, made, mark, bill, damages, forgotten>>

MoveMark ==
  /\ ~Idle /\ mark' = writer.mark /\ writer' = NoWriter
  /\ stage' = IF writer.who = Operator THEN stage ELSE [stage EXCEPT ![writer.who] = writer.then]
  /\ adopting' = FALSE /\ UNCHANGED <<fileVars, bill, damages, regrown, forgotten>>

\* reserve() refuses on any problem.  Calls are numbered in their order.
Turn(a) == stage[a] = "new" /\ Problem = "none" /\ \A b \in Ids : b < a => stage[b] # "new"

ReserveCall(a) ==
  /\ Turn(a) /\ Used(lines) + WorstCost <= Cap
  /\ WriteLine(a, ReserveLine(a), "granted", FALSE) /\ UNCHANGED <<adopting, regrown>>

RefuseCall(a) ==
  /\ Turn(a) /\ Used(lines) + WorstCost > Cap
  /\ WriteLine(a, RefuseLine, "refused", FALSE) /\ UNCHANGED <<adopting, regrown>>

ExpireCall(a, b) ==
  /\ Turn(a) /\ b \in Open(lines)
  /\ WriteLine(a, ExpireLine(b), "new", FALSE) /\ UNCHANGED <<adopting, regrown>>

SendCall(a) ==
  /\ stage[a] = "granted" /\ stage' = [stage EXCEPT ![a] = "sent"]
  /\ \E n \in 1..WorstCost : bill' = [bill EXCEPT ![a] = n]
  /\ UNCHANGED <<fileVars, mark, writer, harmVars>>

\* settle() writes its line whatever the problem is.
SettleCall(a) ==
  /\ stage[a] = "sent" /\ WriteLine(a, CommitLine(a, bill[a]), "settled", FALSE)
  /\ regrown' = (regrown \/ Cut) /\ UNCHANGED adopting

\* The ledger is missing: the settlement is given up, the call is over.
GiveUp(a) ==
  /\ stage[a] = "sent" /\ path = NoFile /\ writer.who # a
  /\ stage' = [stage EXCEPT ![a] = "unsettled"]
  /\ UNCHANGED <<fileVars, mark, writer, bill, harmVars>>
---------------------------------------------------------------------------
(* The operator's commands.  Each takes longer than the rest of an append. *)

MakeFile ==
  /\ Idle /\ path = NoFile /\ made < MaxFiles
  /\ made' = made + 1 /\ path' = made + 1 /\ lines' = <<InitLine>> /\ dangling' = FALSE

Writing(m) == [who |-> Operator, then |-> "done", mark |-> m]

InitFileAnew ==
  /\ MakeFile /\ writer' = Writing(Snapshot(path', lines'))
  /\ UNCHANGED <<mark, stage, bill, harmVars>>

\* init: a watermark that is there, readable or not, is left alone.
InitFile ==
  /\ MakeFile
  /\ writer' = IF mark = NoMark THEN Writing(Snapshot(path', lines')) ELSE NoWriter
  /\ UNCHANGED <<mark, stage, bill, harmVars>>

\* A file without a header is moved out of the way, as the message says.
MoveAside ==
  /\ Idle /\ Problem = "uninitialized" /\ path' = NoFile /\ lines' = <<>> /\ dangling' = FALSE
  /\ UNCHANGED <<made, mark, writer, stage, bill, harmVars>>

Repair ==
  /\ HasHeader(lines) /\ Unacked(lines) # {} /\ WriteLine(Operator, SeenLine(Unacked(lines)), "done", FALSE)
  /\ regrown' = (regrown \/ Cut) /\ UNCHANGED adopting

\* What the watermark remembers and the ledger does not have.
Missing ==
  IF ~Known(mark) THEN 0
  ELSE LET used == mark.committed + mark.open
       IN  IF mark.id # path THEN used ELSE IF used > Used(lines) THEN used - Used(lines) ELSE 0

AdoptKnown ==
  /\ HasHeader(lines) /\ Unacked(lines) = {} /\ Problem # "none" /\ Known(mark)
  /\ WriteLine(Operator, AdoptLine(Missing), "done", TRUE) /\ adopting' = TRUE /\ UNCHANGED regrown

Adopt ==
  /\ HasHeader(lines) /\ Unacked(lines) = {} /\ Problem # "none"
  /\ WriteLine(Operator, AdoptLine(Missing), "done", TRUE) /\ adopting' = TRUE /\ UNCHANGED regrown
---------------------------------------------------------------------------
(* Harm *)

Harm == damages < MaxDamages /\ damages' = damages + 1

\* The file is deleted, with a writer in the middle of its append or not.
Lose ==
  /\ Harm /\ path # NoFile /\ path' = NoFile /\ lines' = <<>> /\ dangling' = FALSE
  /\ UNCHANGED <<made, mark, writer, stage, bill, adopting, regrown, forgotten>>

\* An older copy comes back, or the end of the file is lost, in a line or
\* between two.
CutFile ==
  /\ Harm /\ Idle /\ path # NoFile
  /\ \E n \in 0..(Len(lines) - 1), cut \in BOOLEAN : lines' = SubSeq(lines, 1, n) /\ dangling' = cut
  /\ regrown' = (regrown \/ (adopting /\ Known(mark) /\ mark.id = path))
  /\ UNCHANGED <<path, made, mark, writer, stage, bill, adopting, forgotten>>

Scramble ==
  /\ Harm /\ Idle /\ path # NoFile /\ regrown' = TRUE
  /\ \E i \in DOMAIN lines : lines[i].ev # "bad" /\ lines' = [lines EXCEPT ![i] = BadLine]
  /\ UNCHANGED <<path, made, dangling, mark, writer, stage, bill, adopting, forgotten>>

LoseMark ==
  /\ Harm /\ Known(mark) /\ forgotten' = TRUE /\ mark' \in {NoMark, BadMark}
  /\ UNCHANGED <<fileVars, writer, stage, bill, adopting, regrown>>

\* The process that wrote, or the operator's, dies before the watermark.
CrashAfterAppend ==
  /\ Harm /\ ~Idle /\ writer' = NoWriter
  /\ stage' = IF writer.who = Operator THEN stage ELSE [stage EXCEPT ![writer.who] = "dead"]
  /\ UNCHANGED <<fileVars, mark, bill, adopting, regrown, forgotten>>

\* A process dies between two steps of its call; it may be writing a line.
Die(a) ==
  /\ Harm /\ stage[a] \in {"new", "granted", "sent"} /\ (stage[a] = "new" => Turn(a)) /\ stage' = [stage EXCEPT ![a] = "dead"]
  /\ writer.who # a
  /\ \/ UNCHANGED <<lines, dangling, regrown>>
     \/ /\ Idle /\ path # NoFile /\ stage[a] # "granted"
        /\ dangling' = TRUE /\ regrown' = (regrown \/ Cut)
        /\ \/ ~dangling /\ lines' = lines
           \/ dangling /\ lines' \in {Append(lines, BadLine), Ended}
  /\ UNCHANGED <<path, made, mark, writer, bill, adopting, forgotten>>
---------------------------------------------------------------------------
Line ==
       [ev : {"init", "refuse", "bad"}]
  \cup [ev : {"reserve"}, id : Ids]
  \cup [ev : {"commit", "expire"}, id : Ids, nusd : 0..WorstCost]
  \cup [ev : {"adopt"}, carried : Nat]
  \cup [ev : {"seen"}, offsets : SUBSET Nat]
Mark(ids) == {NoMark, BadMark} \cup [id : 1..ids, size : Nat, committed : Nat, open : Nat]
Stages == {"new", "refused", "granted", "sent", "settled", "unsettled", "dead"}

FileTypeOK ==
  /\ made \in 0..MaxFiles /\ path \in 0..made /\ dangling \in BOOLEAN
  /\ lines \in Seq(Line) /\ mark \in Mark(made)
  /\ writer \in {NoWriter} \cup [who : {Operator} \cup Ids, then : {"done"} \cup Stages, mark : Mark(made)]
  /\ stage \in [Ids -> Stages] /\ bill \in [Ids -> 0..WorstCost] /\ damages \in 0..MaxDamages
  /\ {adopting, regrown, forgotten} \subseteq BOOLEAN

FileInit ==
  /\ path = NoFile /\ made = 0 /\ lines = <<>> /\ dangling = FALSE
  /\ mark = NoMark /\ writer = NoWriter
  /\ stage = [a \in Ids |-> "new"] /\ bill = [a \in Ids |-> 0]
  /\ damages = 0 /\ adopting = FALSE /\ regrown = FALSE /\ forgotten = FALSE

Commands == InitFile \/ MoveAside \/ Repair \/ Adopt
CallSteps(a) == ReserveCall(a) \/ RefuseCall(a) \/ SendCall(a) \/ SettleCall(a) \/ GiveUp(a) \/ \E b \in Ids : ExpireCall(a, b)
Harms == Lose \/ CutFile \/ Scramble \/ LoseMark \/ CrashAfterAppend \/ \E a \in Ids : Die(a)

FileNext == MoveMark \/ Commands \/ (\E a \in Ids : CallSteps(a)) \/ Harms
FileSpec == FileInit /\ [][FileNext]_ledgerVars /\ WF_ledgerVars(MoveMark \/ Commands)
---------------------------------------------------------------------------
(* properties *)

Billed == Total(bill, Count)
Granting(a) == stage[a] = "new" /\ Idle /\ Reserved(lines', a) /\ ~Reserved(lines, a)

\* A ledger that was lost, made anew, restored from an older copy or cut is in
\* use again only with all that the provider has billed, the bills of calls
\* that were in flight or died with it included; unless the watermark was lost
\* too, a line was scrambled, a call in flight or a repair wrote to the cut
\* ledger before it was adopted, or it was cut again after an adopt that died
\* before its watermark.  (And the variables have their types.)
LossIsCarried ==
  /\ []FileTypeOK
  /\ [][\A a \in Ids : Granting(a) => regrown \/ forgotten \/ Used(lines) >= Billed]_ledgerVars

\* The header of the file: a ledger that cannot prove what was spent so far
\* refuses the call, also when it was cut.
SpendingIsProven ==
  [][\A a \in Ids : Granting(a) => forgotten \/ Used(lines) >= Billed]_ledgerVars

\* The commands the messages name get the ledger into use again, whatever
\* harm was done and however often they died, while there are ids left.
OperatorCanResume == <>[](Problem = "none" \/ (Problem \in {"missing", "uninitialized"} /\ made = MaxFiles))
=============================================================================
