---------------------------- MODULE AutoLabeler ----------------------------
(***************************************************************************)
(* The automatic labeler of the E0 evaluation                              *)
(* (evaluation/llm/auto_labeler.py, ADR 0009 A8.13): one process asks a    *)
(* paid model about clusters and drafts, unit by unit, in two runs a and   *)
(* b, and can be killed and started again at any point.  What it knows     *)
(* after a restart is what its append-only files and its manifest say.     *)
(*                                                                         *)
(* A response is its number among the answers of its unit, so a unit that  *)
(* is asked again gets another response.  The retries of the transport are *)
(* part of the action that waits for the response, a refusal of the        *)
(* spending guard is an Interruption, and texts are left out.              *)
(***************************************************************************)
EXTENDS Integers, Sequences, FiniteSets, FiniteSetsExt

CONSTANTS
  Items,            \* the clusters of the package, numbers
  Outputs,          \* the drafts, numbers
  ItemOf,           \* the cluster of a draft
  Relabel,          \* clusters and drafts that run b labels first (relabel.json)
  Converted,        \* drafts with a saved conversion
  MaxAsks,          \* rule_repair_attempts + 1
  MaxInterruptions  \* bound: deaths, refusals, failed pre-flights

ASSUME LabelerAssumption ==
  /\ IsFiniteSet(Items \cup Outputs) /\ Items \cup Outputs \subseteq Nat
  /\ Items \cap Outputs = {} /\ ItemOf \in [Outputs -> Items]
  /\ Converted \subseteq Outputs /\ Relabel \subseteq Items \cup Outputs
  /\ MaxAsks \in Nat \ {0} /\ MaxInterruptions \in Nat

VARIABLES
  ended,       \* units.jsonl: the status in the end row of a unit
  answer,      \* rationales.jsonl: the last response of a unit
  facts,       \* cluster_labels.jsonl: the response the key facts of a cluster are from, if there is a row
  rows,        \* output_labels.jsonl
  manifest,    \* manifest.json: the settings, and whether the pre-flight was passed
  proc,        \* the process
  settings,    \* GeminiTransport: schema mode and spelling of the thinking level
  candidates,  \* pre-flight: the settings still to be tried
  results,     \* pre-flight: per kind, in order, the settings it was answered under
  group,       \* the group of units the process works on
  step,        \* where it is with that group
  asks,        \* responses to the questions about the unit at hand
  interrupted, \* history: interruptions
  basis        \* history: the facts that a coverage question listed

fileVars == <<ended, answer, facts, rows, manifest>>
flightVars == <<settings, candidates, results>>
planVars == <<group, step, asks>>
vars == <<fileVars, proc, flightVars, planVars, interrupted, basis>>

Runs == {"a", "b"}
DraftKinds == <<"output", "coverage", "tone">>
Kinds == <<"cluster">> \o DraftKinds
Unit(r, k, t) == [run |-> r, kind |-> k, target |-> t]
Units == [run : Runs, kind : {"cluster"}, target : Items]
         \cup [run : Runs, kind : Range(DraftKinds), target : Outputs]
None == "none"
NoFacts == 0
NoRow == <<>>
---------------------------------------------------------------------------
(* The plan: groups of units *)

Rank(x, S) == Cardinality({y \in S : y <= x})
InOrder(S) == [k \in 1..Cardinality(S) |-> CHOOSE x \in S : Rank(x, S) = k]
Clusters(r, S) == [k \in DOMAIN InOrder(S) |-> <<Unit(r, "cluster", InOrder(S)[k])>>]
Draft(r, o) == [k \in DOMAIN DraftKinds |-> Unit(r, DraftKinds[k], o)]
Drafts(r, S) == [k \in DOMAIN InOrder(S) |-> Draft(r, InOrder(S)[k])]

PlanA == Clusters("a", Items) \o Drafts("a", Outputs)
PlanBFirst == Clusters("b", Items \cap Relabel) \o Drafts("b", Outputs \cap Relabel)

\* The extension: item by item, what is left of the cluster and of its drafts.
DraftsLeft(i) == {o \in Outputs \ Relabel : ItemOf[o] = i}
RestOf(i) ==
  LET drafts == InOrder(DraftsLeft(i))
  IN (IF i \in Relabel THEN <<>> ELSE <<Unit("b", "cluster", i)>>)
     \o [k \in 1..3 * Len(drafts) |-> Draft("b", drafts[1 + ((k - 1) \div 3)])[1 + ((k - 1) % 3)]]
ItemsLeft == {i \in Items : i \notin Relabel \/ DraftsLeft(i) # {}}
PlanBRest == [k \in DOMAIN InOrder(ItemsLeft) |-> RestOf(InOrder(ItemsLeft)[k])]

Plan == PlanA \o PlanBFirst \o PlanBRest
InExtension(g) == g > Len(PlanA \o PlanBFirst)
---------------------------------------------------------------------------
Init ==
  /\ ended = [u \in Units |-> None] /\ answer = [u \in Units |-> 0]
  /\ facts = [r \in Runs |-> [i \in Items |-> {}]] /\ rows = [r \in Runs |-> [o \in Outputs |-> NoRow]]
  /\ settings = <<"json_schema", "lower">> /\ manifest = [settings |-> settings, ok |-> FALSE]
  /\ proc = "down" /\ candidates = <<>> /\ results = <<>>
  /\ group = 1 /\ step = "enter" /\ asks = 0 /\ interrupted = 0
  /\ basis = [u \in Units |-> {}]

\* The process ends and the operator starts it again: the files stay.
Counted ==
  interrupted < MaxInterruptions /\ interrupted' = interrupted + 1
Down == proc' = "down" /\ group' = 1 /\ step' = "enter" /\ asks' = 0
---------------------------------------------------------------------------
(* The pre-flight: one call of each kind *)

\* The registered fallbacks, one change at a time and both together last.
Candidates(s) ==
  LET mode == <<"json_mode", s[2]>>
      spelling == <<s[1], "upper">>
      both == <<"json_mode", "upper">>
      differs == s[1] = "json_schema" /\ s[2] = "lower"
  IN SelectSeq(<<mode, spelling>>, LAMBDA c : c # s) \o (IF differs THEN <<both>> ELSE <<>>)

\* main: the pre-flight is repeated until one was passed.
Start ==
  /\ proc = "down" /\ settings' = manifest.settings
  /\ IF manifest.ok THEN proc' = "up" /\ UNCHANGED <<candidates, results>>
     ELSE proc' = "preflight" /\ candidates' = Candidates(manifest.settings) /\ results' = <<>>
  /\ UNCHANGED <<fileVars, planVars, interrupted, basis>>

Flying == proc = "preflight" /\ Len(results) < Len(Kinds)

PreflightAnswer ==
  /\ Flying
  /\ \E ok \in BOOLEAN :
       /\ results' = Append(results, [settings |-> settings, ok |-> ok])
       /\ IF ok THEN UNCHANGED interrupted ELSE Counted
  /\ UNCHANGED <<fileVars, proc, settings, candidates, planVars, basis>>

\* Mutant: what was answered under the settings before stays.
PreflightRefusedKept ==
  /\ Flying /\ candidates # <<>>
  /\ settings' = Head(candidates) /\ candidates' = Tail(candidates) /\ UNCHANGED results
  /\ UNCHANGED <<fileVars, proc, planVars, interrupted, basis>>

\* HTTP 400: all four kinds again under the next candidate.
PreflightRefused ==
  /\ Flying /\ candidates # <<>>
  /\ settings' = Head(candidates) /\ candidates' = Tail(candidates) /\ results' = <<>>
  /\ UNCHANGED <<fileVars, proc, planVars, interrupted, basis>>

Passed == \A k \in DOMAIN results : results[k].ok

PreflightEnds ==
  /\ proc = "preflight" /\ Len(results) = Len(Kinds)
  /\ manifest' = [settings |-> settings, ok |-> Passed]
  /\ IF Passed THEN proc' = "up" /\ UNCHANGED planVars ELSE Down
  /\ UNCHANGED <<ended, answer, facts, rows, flightVars, interrupted, basis>>
---------------------------------------------------------------------------
(* One unit *)

\* The places of a group whose unit has no end row, and the first of them.
Pending(g) == {k \in DOMAIN Plan[g] : ended[Plan[g][k]] = None}

OnUnit(s) == proc = "up" /\ group <= Len(Plan) /\ Pending(group) # {} /\ step = s
Current == Plan[group][Min(Pending(group))]

\* Both runs are about the facts of run a (coverage_key_facts_from).
BasisRun(r) == "a"
FactsOf(r, o) == facts[BasisRun(r)][ItemOf[o]]

End(u, status) == ended' = [ended EXCEPT ![u] = status] /\ step' = "next" /\ asks' = 0

\* Coverage and tone of a draft without a label are of no use.
Unlabeled(u) ==
  u.kind \in {"coverage", "tone"} /\ ended[[u EXCEPT !.kind = "output"]] \notin {None, "labeled"}
NothingToAsk(u) ==
  \/ u.kind = "coverage" /\ FactsOf(u.run, u.target) \in {{}, {NoFacts}}
  \/ u.kind = "tone" /\ u.target \notin Converted

Skip ==
  /\ OnUnit("next") /\ (Unlabeled(Current) \/ NothingToAsk(Current))
  /\ End(Current, IF Unlabeled(Current) THEN "skipped" ELSE "not_applicable")
  /\ UNCHANGED <<answer, facts, rows, manifest, proc, flightVars, group, interrupted, basis>>

\* run_unit up to the first request.
Ask ==
  /\ OnUnit("next") /\ ~Unlabeled(Current) /\ ~NothingToAsk(Current)
  /\ step' = "asked"
  /\ basis' = IF Current.kind = "coverage"
              THEN [basis EXCEPT ![Current] = FactsOf(Current.run, Current.target)] ELSE basis
  /\ UNCHANGED <<fileVars, proc, flightVars, group, asks, interrupted>>

\* A response that breaks the schema or a rule is asked for once more.
AskAgain ==
  /\ OnUnit("asked") /\ asks + 1 < MaxAsks /\ asks' = asks + 1
  /\ UNCHANGED <<fileVars, proc, flightVars, group, step, interrupted, basis>>

\* Cut off or filtered at once, or broken for the last time.
NoLabel ==
  /\ OnUnit("asked") /\ End(Current, "invalid")
  /\ UNCHANGED <<answer, facts, rows, manifest, proc, flightVars, group, interrupted, basis>>

Respond ==
  /\ OnUnit("asked") /\ answer' = [answer EXCEPT ![Current] = @ + 1] /\ step' = "stored"
  /\ UNCHANGED <<ended, facts, rows, manifest, proc, flightVars, group, asks, interrupted, basis>>

\* The label of a cluster is a row of its own; it may have no key facts.
LabelCluster ==
  /\ OnUnit("stored") /\ Current.kind = "cluster"
  /\ \E n \in {NoFacts, answer[Current]} : facts' = [facts EXCEPT ![Current.run][Current.target] = {n}]
  /\ step' = "labelled"
  /\ UNCHANGED <<ended, answer, rows, manifest, proc, flightVars, group, asks, interrupted, basis>>

EndUnit ==
  /\ OnUnit(IF Current.kind = "cluster" THEN "labelled" ELSE "stored")
  /\ End(Current, "labeled")
  /\ UNCHANGED <<answer, facts, rows, manifest, proc, flightVars, group, interrupted, basis>>
---------------------------------------------------------------------------
(* Groups *)

AllEnded(r, o) == \A k \in Range(DraftKinds) : ended[Unit(r, k, o)] # None

\* Mutant: coverage that is unknown counts as none.
ComposableUnknown(r, o) == AllEnded(r, o) /\ ended[Unit(r, "output", o)] = "labeled"

\* A draft whose coverage is unknown has no label.
Composable(r, o) ==
  /\ AllEnded(r, o) /\ ended[Unit(r, "output", o)] = "labeled"
  /\ \/ ended[Unit(r, "coverage", o)] = "labeled"
     \/ ended[Unit(r, "coverage", o)] = "not_applicable" /\ FactsOf(r, o) # {}

\* What the label of a draft is put together from.
Label(r, o) ==
  [output |-> answer[Unit(r, "output", o)],
   tone |-> IF ended[Unit(r, "tone", o)] = "labeled" THEN answer[Unit(r, "tone", o)] ELSE 0,
   covered |-> IF ended[Unit(r, "coverage", o)] = "labeled" THEN answer[Unit(r, "coverage", o)] ELSE 0,
   facts |-> FactsOf(r, o)]

\* The places of a group whose draft could have its label and has none.
Unwritten(g) ==
  {k \in DOMAIN Plan[g] : LET u == Plan[g][k] IN
     u.kind = "output" /\ rows[u.run][u.target] = NoRow /\ Composable(u.run, u.target)}

AtGroup == proc = "up" /\ group <= Len(Plan)
NextGroup == group' = group + 1 /\ step' = "enter"

\* Mutant: an item of the extension without a question left is passed by.
EnterPassingDone ==
  /\ AtGroup /\ step = "enter"
  /\ IF InExtension(group) /\ Pending(group) = {} THEN NextGroup ELSE step' = "next" /\ UNCHANGED group
  /\ UNCHANGED <<fileVars, proc, flightVars, asks, interrupted, basis>>

\* Also a group that an earlier process has asked all of: labels may be missing.
Enter ==
  /\ AtGroup /\ step = "enter" /\ step' = "next"
  /\ UNCHANGED <<fileVars, proc, flightVars, group, asks, interrupted, basis>>

\* The worst case of what an item of the extension still needs might cross
\* the soft cap.
SoftStop ==
  /\ AtGroup /\ step = "enter" /\ InExtension(group) /\ Pending(group) # {} /\ proc' = "finished"
  /\ UNCHANGED <<fileVars, flightVars, planVars, interrupted, basis>>

\* The labels of a group are written one by one, after its last unit.
LabelDraft ==
  /\ AtGroup /\ step = "next" /\ Pending(group) = {} /\ Unwritten(group) # {}
  /\ LET u == Plan[group][Min(Unwritten(group))]
     IN rows' = [rows EXCEPT ![u.run][u.target] = Label(u.run, u.target)]
  /\ UNCHANGED <<ended, answer, facts, manifest, proc, flightVars, planVars, interrupted, basis>>

EndGroup ==
  /\ AtGroup /\ step = "next" /\ Pending(group) = {} /\ Unwritten(group) = {} /\ NextGroup
  /\ UNCHANGED <<fileVars, proc, flightVars, asks, interrupted, basis>>

Finish ==
  /\ proc = "up" /\ group > Len(Plan) /\ proc' = "finished"
  /\ UNCHANGED <<fileVars, flightVars, planVars, interrupted, basis>>

\* Death, a refusal of the guard, an error that is not retried.
Interrupt ==
  /\ proc \in {"preflight", "up"} /\ Counted /\ Down
  /\ UNCHANGED <<fileVars, flightVars, basis>>

Work ==
  \/ Start \/ PreflightAnswer \/ PreflightRefused \/ PreflightEnds
  \/ Skip \/ Ask \/ AskAgain \/ NoLabel \/ Respond \/ LabelCluster \/ EndUnit
  \/ Enter \/ SoftStop \/ LabelDraft \/ EndGroup \/ Finish
Next == Work \/ Interrupt
Spec == Init /\ [][Next]_vars

\* Every wait of the process ends: requests have a timeout and a number of
\* attempts, and the operator starts it again.
Fairness == WF_vars(Work)
FairSpec == Spec /\ Fairness
---------------------------------------------------------------------------
TypeOK ==
  /\ ended \in [Units -> {None, "labeled", "invalid", "skipped", "not_applicable"}]
  /\ answer \in [Units -> Nat] /\ facts \in [Runs -> [Items -> SUBSET Nat]]
  /\ proc \in {"down", "preflight", "up", "finished"} /\ group \in 1..Len(Plan) + 1
  /\ step \in {"enter", "next", "asked", "stored", "labelled"} /\ asks \in 0..MaxAsks

\* The numbers in the label of a draft count the facts that its coverage
\* question listed, and both runs count the facts of run a: a cluster that is
\* labelled again after a death may not move them under a finished answer
\* (coverage_facts is read when asking and once more when assembling).  (And
\* the types hold.)
CoverageFitsFacts ==
  /\ TypeOK
  /\ \A r \in Runs, o \in Outputs : rows[r][o] # NoRow =>
       /\ rows[r][o].facts = facts["a"][ItemOf[o]]
       /\ rows[r][o].facts = IF rows[r][o].covered # 0 THEN basis[Unit(r, "coverage", o)] ELSE {NoFacts}

\* What the process asks with is what all four kinds were answered under in
\* the pre-flight that the manifest records, also after a restart.
SettingsAreConfirmed ==
  proc = "up" => /\ manifest = [settings |-> settings, ok |-> TRUE]
                 /\ results # <<>> => \A k \in DOMAIN results : results[k] = [settings |-> settings, ok |-> TRUE]

\* When the interruptions stop, the labeler ends, and every draft it was
\* through with has its label if its answers allow one, whichever process
\* asked for them (generate, run, assemble_output).
DraftsPassed == {u \in Units : u.kind = "output" /\ \E g \in 1..Len(Plan) : g < group /\ u \in Range(Plan[g])}
EveryDraftIsSettled ==
  <>(/\ proc = "finished"
     /\ \A u \in DraftsPassed : AllEnded(u.run, u.target)
          /\ (Composable(u.run, u.target) => rows[u.run][u.target] = Label(u.run, u.target)))
=============================================================================
