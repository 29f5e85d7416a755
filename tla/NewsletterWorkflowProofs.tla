---------------------- MODULE NewsletterWorkflowProofs ----------------------
(***************************************************************************)
(* Theorems about NewsletterWorkflow for every cluster, every answer and   *)
(* every retry setting.                                                    *)
(*                                                                         *)
(* The argument is a map of the graph: for every node, what is known when  *)
(* the node is about to run.  Position counts down the supersteps that the *)
(* three retry counters leave; Calls says why a call that was blocked leads to a node  *)
(* that calls nothing; Gates says which draft the report and the judgement *)
(* are about.                                                              *)
(***************************************************************************)
EXTENDS NewsletterWorkflow, TLAPS

Early == {"init_cluster", "eval_cluster", "handle_cluster_fail"}
Drafting == {"generate_newsletter", "check_faithfulness", "eval_newsletter"}
Late == {"embed_newsletter", "convert_tone", "check_tone_drift", "save_newsletter"}

\* The supersteps that can still follow: the countdown behind max_supersteps().
Tail == 4 + 2 * MaxToneRetries
Left ==
  CASE node = "init_cluster"        -> MaxSupersteps
    [] node = "eval_cluster"        -> 1 + 2 * (MaxClusterRetries - clusterRetries) + 3 * DraftsAllowed + Tail
    [] node = "handle_cluster_fail" -> 2 * (MaxClusterRetries - clusterRetries) + 3 * DraftsAllowed + Tail
    [] node = "generate_newsletter" -> 3 * (DraftsAllowed - drafts) + Tail
    [] node = "check_faithfulness"  -> 2 + 3 * (DraftsAllowed - drafts) + Tail
    [] node = "eval_newsletter"     -> 1 + 3 * (DraftsAllowed - drafts) + Tail
    [] node = "embed_newsletter"    -> Tail
    [] node = "convert_tone"        -> 3 + 2 * (MaxToneRetries - toneRetries)
    [] node = "check_tone_drift"    -> 2 + 2 * (MaxToneRetries - toneRetries)
    [] node \in {"save_newsletter", "handle_max_retries"} -> 1
    [] OTHER -> 0

\* The supersteps made and those that can follow fit in the limit.
Position ==
  /\ steps + Left <= MaxSupersteps
  /\ drafts <= DraftsAllowed
  /\ node = "generate_newsletter" => drafts < DraftsAllowed
  /\ node \in Early => drafts = 0

\* A node that calls the evaluator, the generator or the judge runs only while
\* no such call has been blocked.
Calls ==
  /\ node \in {"init_cluster", "eval_cluster", "generate_newsletter", "eval_newsletter"} \cup Late
       => blockedBy = None
  /\ node = "handle_cluster_fail" => blockedBy = clusterEval.llmFailure
  /\ node = "check_faithfulness" => blockedBy = draft.blocked
  /\ wasted = FALSE

\* The evaluation a failed evaluation is handled with is of these articles.
Evaluated ==
  node = "handle_cluster_fail" =>
    \A a \in Cluster : clusterEval.outliers[a] <= articles[a]

DraftIsLast == drafts > 0 /\ (draft = NoDraft \/ draft.number = drafts)
ReportIsLast ==
  /\ draft = NoDraft \/ mode.faith = "off" => report = NoReport
  /\ draft # NoDraft /\ mode.faith # "off" =>
       /\ report.of = drafts /\ report.gatePassed
       /\ mode.faith = "enforce" => report.passed

\* Which draft the gates have seen at each node.
Gates ==
  /\ node \in Early => judgement = NoJudgement
  /\ node \in Drafting => judgement.llmFailure = None
  /\ node = "check_faithfulness" => DraftIsLast /\ (draft.blocked # None => draft.fallback)
  /\ node = "eval_newsletter" => DraftIsLast /\ ReportIsLast /\ ~draft.fallback
  /\ node \in Late =>
       /\ draft # NoDraft /\ draft.number = drafts /\ drafts > 0 /\ ~draft.fallback /\ ReportIsLast
       /\ judgement.of = drafts /\ judgement.scored
       /\ mode.judge = "enforce" => judgement.decision = "PASS"
  /\ node = "handle_max_retries" /\ GateFailed =>
       /\ report.of = drafts /\ draft.number = drafts /\ ~report.passed
       /\ blockedBy = report.llmFailure /\ judgement.llmFailure = None
       /\ \/ report.reason = "faithfulness" /\ ~draft.fallback
          \/ report.reason = "generator_fallback" /\ draft.fallback
  /\ node = "handle_max_retries" /\ ~GateFailed =>
       /\ judgement.of = drafts /\ blockedBy = judgement.llmFailure
       /\ judgement.decision = "FAIL"
       /\ judgement.scored => mode.judge = "enforce"

\* Until the last node nothing is decided; the drift gate saw what is saved.
Undecided ==
  /\ node \notin Final => reason = None /\ ~skipped /\ ~failed /\ saved = NothingSaved
  /\ node = "save_newsletter" /\ mode.tone = "enforce" => ~converted.drifted
  /\ node = "check_tone_drift" => converted # NoText

IInv == /\ TypeOK /\ Position /\ Calls /\ Evaluated /\ Gates /\ Undecided
        /\ StepsWithinLimit /\ PublishedIsVetted /\ FailureReasonIsTrue /\ ToneKeepsFacts

LEMMA Limit ==
  /\ DraftsAllowed \in Nat /\ DraftsAllowed >= 1 /\ MaxDrafts <= DraftsAllowed
  /\ MaxSupersteps = 6 + 2 * MaxClusterRetries + 3 * DraftsAllowed + 2 * MaxToneRetries
  /\ MaxSupersteps \in Nat
  BY SettingsAssumption DEF DraftsAllowed, MaxSupersteps

\* The empty records are records.
LEMMA Empties ==
  /\ NoArticles \in Articles /\ NoDraft \in Drafts /\ NoReport \in Reports
  /\ NoJudgement \in Judgements /\ NoText \in Texts /\ NothingSaved \in Rows
  /\ Failing(NoArticles) \in Evaluations /\ None \in Whys
  BY DEF NoArticles, Articles, NoDraft, Drafts, NoReport, Reports, NoJudgement, Judgements, NoText,
         Texts, NothingSaved, Rows, Failing, Evaluations, Whys, Reasons, None

\* The countdown never goes below zero (stated of both ends of a step).
LEMMA LeftIsNatural ==
  /\ TypeOK /\ drafts <= DraftsAllowed => Left \in Nat
  /\ TypeOK' /\ drafts' <= DraftsAllowed => Left' \in Nat
<1>1. TypeOK /\ drafts <= DraftsAllowed => Left \in Nat
  BY Limit, SettingsAssumption DEF TypeOK, Left, Tail, Nodes, Final
<1>2. TypeOK' /\ drafts' <= DraftsAllowed => Left' \in Nat
  BY Limit, SettingsAssumption DEF TypeOK, Left, Tail, Nodes, Final
<1> QED BY <1>1, <1>2

\* A step that counts down stays within the limit.
LEMMA CountsDown ==
  ASSUME TypeOK, Position, TypeOK', drafts' <= DraftsAllowed, steps' = steps + 1, Left' <= Left - 1
  PROVE  steps' + Left' <= MaxSupersteps
<1>1. steps \in Nat /\ Left \in Nat /\ Left' \in Nat
  BY LeftIsNatural, Limit DEF TypeOK, Position
<1> QED BY <1>1, Limit DEF Position

LEMMA InitIInv == Init => IInv
<1> SUFFICES ASSUME Init PROVE IInv
  OBVIOUS
<1> USE Limit, SettingsAssumption DEF Init
<1>1. TypeOK
  <2>1. steps \in 0..(MaxSupersteps + 1) /\ clusterRetries \in 0..MaxClusterRetries
        /\ toneRetries \in 0..MaxToneRetries
    OBVIOUS
  <2>2. skipped \in BOOLEAN /\ failed \in BOOLEAN /\ toneFallback \in BOOLEAN /\ wasted \in BOOLEAN
    OBVIOUS
  <2>3. node \in Nodes \cup Final /\ reason \in Reasons
    BY Empties DEF Nodes, Reasons
  <2> QED BY <2>1, <2>2, <2>3, Empties DEF TypeOK
<1>2. Position /\ Calls /\ Evaluated /\ StepsWithinLimit
  BY DEF Position, Left, Calls, Evaluated, Early, Late, StepsWithinLimit
<1>3. Gates /\ Undecided
  BY DEF Gates, Undecided, Early, Drafting, Late, Final, GateFailed, NoReport
<1>4. PublishedIsVetted /\ FailureReasonIsTrue /\ ToneKeepsFacts
  BY DEF PublishedIsVetted, FailureReasonIsTrue, ToneKeepsFacts, Published, NoRetryReasons, None
<1> QED BY <1>1, <1>2, <1>3, <1>4 DEF IInv
\* A step of the graph moves on by one superstep while the limit is kept.
LEMMA OneStep ==
  ASSUME NEW n, steps \in 0..(MaxSupersteps + 1), StepsWithinLimit, Goto(n)
  PROVE  node' = n /\ steps' = steps + 1 /\ mode' = mode /\ steps' \in 0..(MaxSupersteps + 1)
  BY Limit DEF Goto, StepsWithinLimit

\* What holds at the end holds trivially before it.
LEMMA BeforeTheEnd ==
  ASSUME TypeOK', Position', Undecided', node' \notin Final
  PROVE  StepsWithinLimit' /\ PublishedIsVetted' /\ FailureReasonIsTrue' /\ ToneKeepsFacts'
<1>1. StepsWithinLimit'
  BY LeftIsNatural, Limit DEF TypeOK, Position, StepsWithinLimit
<1>2. reason' = None /\ saved' = NothingSaved
  BY DEF Undecided
<1>3. PublishedIsVetted' /\ ToneKeepsFacts'
  BY <1>2 DEF PublishedIsVetted, ToneKeepsFacts, Published
<1>4. FailureReasonIsTrue'
  BY <1>2 DEF FailureReasonIsTrue, Final, NoRetryReasons, None
<1> QED BY <1>1, <1>3, <1>4

LEMMA FirstCount ==
  ASSUME NEW a \in Nat, NEW b \in Nat, NEW d \in Nat, NEW r \in 0..a
  PROVE  1 + 2 * (a - r) + 3 * d + (4 + 2 * b) <= 5 + 2 * a + 3 * d + 2 * b
<1>1. 2 * (a - r) <= 2 * a
  OBVIOUS
<1> QED BY <1>1

LEMMA InitClusterStep == IInv /\ InitCluster => IInv'
<1> SUFFICES ASSUME IInv, InitCluster PROVE IInv'
  OBVIOUS
<1>0. node' = "eval_cluster" /\ steps' = steps + 1 /\ mode' = mode /\ steps' \in 0..(MaxSupersteps + 1)
  BY OneStep DEF InitCluster, IInv, TypeOK
<1>1. TypeOK'
  <2>1. articles' \in Articles
    BY DEF InitCluster, Articles
  <2> QED BY <1>0, <2>1 DEF InitCluster, IInv, TypeOK, Nodes, draftVars, toneVars, outcomeVars, callVars
<1>2. Position'
  <2>1. Left = MaxSupersteps /\ drafts' = 0 /\ clusterRetries' \in 0..MaxClusterRetries
    BY DEF InitCluster, IInv, Position, Left, Early, TypeOK, draftVars
  <2>2. Left' = 1 + 2 * (MaxClusterRetries - clusterRetries') + 3 * DraftsAllowed + Tail
    BY <1>0 DEF Left
  <2>3. Left' <= Left - 1
    <3>1. Left = 6 + 2 * MaxClusterRetries + 3 * DraftsAllowed + 2 * MaxToneRetries
      BY <2>1, Limit
    <3>2. 1 + 2 * (MaxClusterRetries - clusterRetries') + 3 * DraftsAllowed + (4 + 2 * MaxToneRetries)
            <= 5 + 2 * MaxClusterRetries + 3 * DraftsAllowed + 2 * MaxToneRetries
      BY <2>1, Limit, SettingsAssumption, FirstCount
    <3>3. Left' <= 5 + 2 * MaxClusterRetries + 3 * DraftsAllowed + 2 * MaxToneRetries
      BY <2>2, <3>2 DEF Tail
    <3>4. 5 + 2 * MaxClusterRetries + 3 * DraftsAllowed + 2 * MaxToneRetries = Left - 1
      BY <3>1, Limit, SettingsAssumption
    <3> QED BY <3>3, <3>4
  <2> QED BY <1>0, <1>1, <2>1, <2>3, CountsDown, Limit DEF IInv, Position
<1>3. Calls' /\ Evaluated'
  BY <1>0 DEF InitCluster, IInv, Calls, Evaluated, callVars, Late
<1>4. Gates'
  BY <1>0 DEF InitCluster, IInv, Gates, Early, Drafting, Late, draftVars
<1>5. Undecided'
  BY <1>0 DEF InitCluster, IInv, Undecided, Final, outcomeVars
<1> QED BY <1>0, <1>1, <1>2, <1>3, <1>4, <1>5, BeforeTheEnd DEF IInv, Final

\* What the evaluation of a cluster leaves behind, whatever was answered.
LEMMA Evaluation ==
  ASSUME TypeOK, StepsWithinLimit, EvalCluster, blockedBy = None, wasted = FALSE
  PROVE  /\ steps' = steps + 1 /\ mode' = mode /\ steps' \in 0..(MaxSupersteps + 1)
         /\ clusterEval' \in Evaluations /\ blockedBy' \in Whys /\ wasted' = FALSE
         /\ \A a \in Cluster : clusterEval'.outliers[a] <= articles[a]
         /\ \/ node' = "generate_newsletter" /\ blockedBy' = None
            \/ node' = "handle_cluster_fail" /\ blockedBy' = clusterEval'.llmFailure
<1>1. articles \in Articles /\ steps \in 0..(MaxSupersteps + 1)
  BY DEF TypeOK
<1>2. \A a \in Cluster : NoArticles[a] <= articles[a]
  BY <1>1 DEF Articles, NoArticles
<1>3. CASE TooFew
  <2>1. clusterEval' = Failing(articles) /\ node' = "handle_cluster_fail" /\ blockedBy' = None
        /\ wasted' = FALSE
    BY <1>3 DEF TooFew, Goto, callVars
  <2>2. clusterEval' \in Evaluations /\ clusterEval'.outliers = NoArticles /\ clusterEval'.llmFailure = None
    BY <1>1, <2>1, Empties DEF Failing, Evaluations
  <2> QED BY <1>1, <1>2, <1>3, <2>1, <2>2, OneStep, Empties DEF TooFew
<1>4. CASE EvalPasses
  <2>1. clusterEval' = [Failing(articles) EXCEPT !.decision = "PASS"] /\ node' = "generate_newsletter"
        /\ blockedBy' = None /\ wasted' = FALSE
    BY <1>4 DEF EvalPasses, Goto, Called
  <2>2. clusterEval' \in Evaluations /\ clusterEval'.outliers = NoArticles
    BY <1>1, <2>1, Empties DEF Failing, Evaluations
  <2> QED BY <1>1, <1>2, <1>4, <2>1, <2>2, OneStep, Empties DEF EvalPasses
<1>5. CASE EvalFails
  <2>1. PICK out \in Removable(articles), g \in Groups(articles), stray \in BOOLEAN :
          clusterEval' = [Failing(articles) EXCEPT !.outliers = out, !.group = g,
                                                   !.named = (stray \/ out # NoArticles)]
    BY <1>5 DEF EvalFails
  <2>2. out \in Articles /\ g \in Articles /\ \A a \in Cluster : out[a] <= articles[a]
    BY SettingsAssumption DEF Removable, Groups, Articles
  <2>3. node' = "handle_cluster_fail" /\ blockedBy' = None /\ wasted' = FALSE
    BY <1>5 DEF EvalFails, Goto, Called
  <2>4. (stray \/ out # NoArticles) \in BOOLEAN
    OBVIOUS
  <2>5. clusterEval' \in Evaluations /\ clusterEval'.outliers = out /\ clusterEval'.llmFailure = None
    BY <1>1, <2>1, <2>2, <2>4, Empties DEF Failing, Evaluations
  <2> QED BY <1>1, <1>5, <2>2, <2>3, <2>5, OneStep, Empties DEF EvalFails
<1>6. CASE EvalUnanswered
  <2>1. PICK why \in Whys : clusterEval' = [Failing(articles) EXCEPT !.llmFailure = why] /\ Called(why)
    BY <1>6 DEF EvalUnanswered
  <2>2. node' = "handle_cluster_fail" /\ blockedBy' = why /\ wasted' = FALSE
    BY <1>6, <2>1 DEF EvalUnanswered, Goto, Called
  <2>3. clusterEval' \in Evaluations /\ clusterEval'.outliers = NoArticles /\ clusterEval'.llmFailure = why
    BY <1>1, <2>1, Empties DEF Failing, Evaluations
  <2> QED BY <1>1, <1>2, <1>6, <2>2, <2>3, OneStep DEF EvalUnanswered
<1> QED BY <1>3, <1>4, <1>5, <1>6 DEF EvalCluster

LEMMA EvalClusterStep == IInv /\ EvalCluster => IInv'
<1> SUFFICES ASSUME IInv, EvalCluster PROVE IInv'
  OBVIOUS
<1>a. /\ TypeOK /\ node = "eval_cluster" /\ blockedBy = None /\ wasted = FALSE /\ drafts = 0
      /\ Position /\ Gates /\ Undecided /\ StepsWithinLimit
  BY DEF IInv, EvalCluster, Calls, Position, Early
<1>b. /\ articles' = articles /\ clusterRetries' = clusterRetries /\ draft' = draft /\ drafts' = drafts
      /\ report' = report /\ judgement' = judgement /\ UNCHANGED <<converted, toneRetries, toneFallback>>
      /\ reason' = reason /\ skipped' = skipped /\ failed' = failed /\ saved' = saved
  BY DEF EvalCluster, draftVars, toneVars, outcomeVars
<1>0. /\ steps' = steps + 1 /\ mode' = mode /\ steps' \in 0..(MaxSupersteps + 1)
      /\ clusterEval' \in Evaluations /\ blockedBy' \in Whys /\ wasted' = FALSE
      /\ \A a \in Cluster : clusterEval'.outliers[a] <= articles[a]
      /\ \/ node' = "generate_newsletter" /\ blockedBy' = None
         \/ node' = "handle_cluster_fail" /\ blockedBy' = clusterEval'.llmFailure
  BY <1>a, Evaluation
<1>1. TypeOK'
  BY <1>0, <1>a, <1>b DEF TypeOK, Nodes
<1>2. Position'
  <2>1. Left = 1 + 2 * (MaxClusterRetries - clusterRetries) + 3 * DraftsAllowed + Tail
    BY <1>a DEF Left
  <2>2. \/ Left' = 2 * (MaxClusterRetries - clusterRetries) + 3 * DraftsAllowed + Tail
        \/ Left' = 3 * (DraftsAllowed - 0) + Tail
    BY <1>0, <1>a, <1>b DEF Left
  <2>3. Left' <= Left - 1
    BY <1>a, <2>1, <2>2, Limit, SettingsAssumption DEF TypeOK, Tail
  <2> QED BY <1>0, <1>a, <1>b, <1>1, <2>3, CountsDown, Limit DEF Position
<1>3. Calls' /\ Evaluated'
  BY <1>0, <1>b DEF Calls, Evaluated, Late
<1>4. Gates'
  BY <1>0, <1>a, <1>b DEF Gates, Early, Drafting, Late, NoJudgement
<1>5. Undecided'
  BY <1>0, <1>a, <1>b DEF Undecided, Final
<1> QED BY <1>0, <1>1, <1>2, <1>3, <1>4, <1>5, BeforeTheEnd DEF IInv, Final

\* A row that is not inserted breaks no promise about what is inserted.
LEMMA NothingPublished ==
  ASSUME saved' = NothingSaved
  PROVE  PublishedIsVetted' /\ ToneKeepsFacts'
  BY DEF PublishedIsVetted, ToneKeepsFacts, Published

\* The last superstep of a cluster.
LEMMA Ending ==
  ASSUME IInv, node \in Nodes, TypeOK', node' \in Final, steps' = steps + 1, drafts' = drafts,
         wasted' = FALSE, PublishedIsVetted', FailureReasonIsTrue', ToneKeepsFacts'
  PROVE  IInv'
<1>1. TypeOK /\ Position /\ drafts' <= DraftsAllowed
  BY DEF IInv, Position
<1>2. Left' = 0
  BY DEF Left, Final
<1>3. Left >= 1
  BY <1>1, Limit, SettingsAssumption DEF TypeOK, Position, Left, Tail, Nodes
<1>4. Left' <= Left - 1
  BY <1>1, <1>2, <1>3, LeftIsNatural
<1>5. steps' + Left' <= MaxSupersteps
  BY <1>1, <1>4, CountsDown
<1>6. Position'
  BY <1>1, <1>5 DEF Position, Final, Early
<1>7. StepsWithinLimit'
  BY <1>2, <1>5, Limit DEF TypeOK, StepsWithinLimit
<1>8. Calls' /\ Evaluated' /\ Gates' /\ Undecided'
  BY DEF Calls, Evaluated, Gates, Undecided, Early, Drafting, Late, Final
<1> QED BY <1>6, <1>7, <1>8 DEF IInv

LEMMA HandleClusterFailStep == IInv /\ HandleClusterFail => IInv'
<1> SUFFICES ASSUME IInv, HandleClusterFail PROVE IInv'
  OBVIOUS
<1>a. /\ TypeOK /\ node = "handle_cluster_fail" /\ blockedBy = clusterEval.llmFailure /\ wasted = FALSE
      /\ drafts = 0 /\ reason = None /\ ~skipped /\ ~failed /\ saved = NothingSaved /\ node \in Nodes
      /\ judgement = NoJudgement /\ StepsWithinLimit /\ Position
      /\ \A a \in Cluster : clusterEval.outliers[a] <= articles[a]
  BY DEF IInv, HandleClusterFail, Calls, Position, Early, Undecided, Gates, Evaluated, Nodes, Final
<1>b. /\ clusterEval' = clusterEval /\ draft' = draft /\ drafts' = drafts /\ report' = report
      /\ judgement' = judgement /\ converted' = converted /\ toneRetries' = toneRetries
      /\ toneFallback' = toneFallback /\ saved' = saved /\ blockedBy' = blockedBy /\ wasted' = wasted
  BY DEF HandleClusterFail, draftVars, toneVars, callVars
<1>c. /\ node' = IF skipped' \/ reason' \in NoRetryReasons THEN "END" ELSE "eval_cluster"
      /\ steps' = steps + 1 /\ mode' = mode /\ steps' \in 0..(MaxSupersteps + 1)
  BY <1>a, OneStep DEF HandleClusterFail, TypeOK
<1>1. CASE EvalBlocked
  <2>1. /\ reason' = blockedBy /\ failed' = TRUE /\ skipped' = skipped /\ articles' = articles
        /\ clusterRetries' = clusterRetries /\ blockedBy \in NoRetryReasons
    BY <1>a, <1>1 DEF EvalBlocked, TypeOK, Whys
  <2>2. node' = "END"
    BY <1>c, <2>1
  <2>3. TypeOK'
    BY <1>a, <1>b, <1>c, <2>1, <2>2 DEF TypeOK, Final, Reasons, Whys
  <2>4. FailureReasonIsTrue'
    BY <1>b, <2>1 DEF FailureReasonIsTrue, NoRetryReasons, None
  <2> QED BY <1>a, <1>b, <1>c, <2>2, <2>3, <2>4, NothingPublished, Ending DEF Final
<1>2. CASE SkipCluster
  <2>1. /\ reason' = None /\ failed' = failed /\ skipped' = TRUE /\ articles' = articles
        /\ clusterRetries' = clusterRetries /\ blockedBy = None
    BY <1>a, <1>2 DEF SkipCluster
  <2>2. node' = "END"
    BY <1>c, <2>1
  <2>3. TypeOK'
    BY <1>a, <1>b, <1>c, <2>1, <2>2 DEF TypeOK, Final
  <2>4. FailureReasonIsTrue'
    BY <1>b, <2>1 DEF FailureReasonIsTrue, NoRetryReasons, None
  <2> QED BY <1>a, <1>b, <1>c, <2>2, <2>3, <2>4, NothingPublished, Ending DEF Final
<1>3. CASE Narrow
  <2>1. /\ reason' = None /\ failed' = failed /\ skipped' = skipped /\ blockedBy = None
        /\ clusterRetries' = clusterRetries + 1 /\ clusterRetries < MaxClusterRetries
        /\ articles' \in {clusterEval.group, Without(articles, clusterEval.outliers)}
    BY <1>a, <1>3 DEF Narrow
  <2>2. node' = "eval_cluster"
    BY <1>a, <1>c, <2>1 DEF NoRetryReasons, None
  <2>3. TypeOK'
    <3>1. articles' \in Articles
      <4>1. clusterEval.group \in Articles /\ clusterEval.outliers \in Articles /\ articles \in Articles
        BY <1>a DEF TypeOK, Evaluations
      <4>2. Without(articles, clusterEval.outliers) \in Articles
        BY <1>a, <4>1 DEF Without, Articles
      <4> QED BY <2>1, <4>1, <4>2
    <3>2. clusterRetries' \in 0..MaxClusterRetries
      BY <1>a, <2>1, SettingsAssumption DEF TypeOK
    <3> QED BY <1>a, <1>b, <1>c, <2>1, <2>2, <3>1, <3>2 DEF TypeOK, Nodes
  <2>4. Position'
    <3>1. Left = 2 * (MaxClusterRetries - clusterRetries) + 3 * DraftsAllowed + Tail
      BY <1>a DEF Left
    <3>2. Left' = 1 + 2 * (MaxClusterRetries - (clusterRetries + 1)) + 3 * DraftsAllowed + Tail
      BY <2>1, <2>2 DEF Left
    <3>3. Left' <= Left - 1
      BY <1>a, <3>1, <3>2, Limit, SettingsAssumption DEF TypeOK, Tail
    <3> QED BY <1>a, <1>b, <1>c, <2>2, <2>3, <3>3, CountsDown, Limit DEF Position
  <2>5. Calls' /\ Evaluated' /\ Undecided'
    BY <1>a, <1>b, <2>1, <2>2 DEF Calls, Evaluated, Undecided, Late, Final
  <2>6. Gates'
    BY <1>a, <1>b, <2>2 DEF Gates, Early, Drafting, Late
  <2> QED BY <2>2, <2>3, <2>4, <2>5, <2>6, BeforeTheEnd DEF IInv, Final
<1> QED BY <1>1, <1>2, <1>3 DEF HandleClusterFail

\* What a draft looks like, whatever the two calls of the generator answered.
LEMMA Generation ==
  ASSUME TypeOK, GenerateNewsletter, blockedBy = None, wasted = FALSE
  PROVE  /\ draft' \in Drafts /\ drafts' = drafts + 1 /\ wasted' = FALSE
         /\ blockedBy' \in Whys /\ blockedBy' = draft'.blocked
         /\ draft' = NoDraft \/ draft'.number = drafts'
         /\ draft'.blocked # None => draft'.fallback
<1>1. drafts \in Nat /\ drafts' = drafts + 1 /\ None \notin NoRetryReasons
  BY DEF TypeOK, GenerateNewsletter, NoRetryReasons, None
<1>2. CASE NothingWritten
  BY <1>1, <1>2, Empties DEF NothingWritten, Called, NoDraft
<1>3. CASE ContentBlocked
  <2>1. PICK why \in NoRetryReasons :
          draft' = [number |-> drafts + 1, fallback |-> TRUE, blocked |-> why] /\ Called(why)
    BY <1>3 DEF ContentBlocked
  <2>2. blockedBy' = why /\ wasted' = FALSE /\ why \in Whys
    BY <2>1 DEF Called, Whys
  <2> QED BY <1>1, <2>1, <2>2 DEF Drafts
<1>4. CASE ContentThenMeta
  <2>1. PICK contentOk \in BOOLEAN, metaOk \in BOOLEAN, why \in Whys :
          /\ metaOk => why = None
          /\ draft' = [number |-> drafts + 1, fallback |-> ~(contentOk /\ metaOk), blocked |-> why]
          /\ Called(why)
    BY <1>4 DEF ContentThenMeta
  <2>2. blockedBy' = why /\ wasted' = FALSE
    BY <2>1 DEF Called
  <2>3. (~(contentOk /\ metaOk)) \in BOOLEAN
    OBVIOUS
  <2>4. draft' \in Drafts /\ draft'.number = drafts + 1 /\ draft'.blocked = why
    BY <1>1, <2>1, <2>3 DEF Drafts
  <2>5. why # None => draft'.fallback
    BY <2>1
  <2> QED BY <1>1, <2>2, <2>4, <2>5
<1> QED BY <1>2, <1>3, <1>4 DEF GenerateNewsletter

LEMMA GenerateNewsletterStep == IInv /\ GenerateNewsletter => IInv'
<1> SUFFICES ASSUME IInv, GenerateNewsletter PROVE IInv'
  OBVIOUS
<1>a. /\ TypeOK /\ node = "generate_newsletter" /\ blockedBy = None /\ wasted = FALSE
      /\ drafts < DraftsAllowed /\ reason = None /\ ~skipped /\ ~failed /\ saved = NothingSaved
      /\ judgement.llmFailure = None /\ StepsWithinLimit /\ Position
  BY DEF IInv, GenerateNewsletter, Calls, Position, Undecided, Gates, Drafting, Final
<1>b. /\ articles' = articles /\ clusterEval' = clusterEval /\ clusterRetries' = clusterRetries
      /\ report' = report /\ judgement' = judgement /\ converted' = converted
      /\ toneRetries' = toneRetries /\ toneFallback' = toneFallback /\ reason' = reason
      /\ skipped' = skipped /\ failed' = failed /\ saved' = saved
  BY DEF GenerateNewsletter, clusterVars, toneVars, outcomeVars
<1>c. node' = "check_faithfulness" /\ steps' = steps + 1 /\ mode' = mode /\ steps' \in 0..(MaxSupersteps + 1)
  BY <1>a, OneStep DEF GenerateNewsletter, TypeOK
<1>d. /\ draft' \in Drafts /\ drafts' = drafts + 1 /\ wasted' = FALSE
      /\ blockedBy' \in Whys /\ blockedBy' = draft'.blocked
      /\ draft' = NoDraft \/ draft'.number = drafts'
      /\ draft'.blocked # None => draft'.fallback
  BY <1>a, Generation
<1>1. TypeOK'
  <2>1. drafts' \in Nat
    BY <1>a, <1>d DEF TypeOK
  <2> QED BY <1>a, <1>b, <1>c, <1>d, <2>1 DEF TypeOK, Nodes
<1>2. Position'
  <2>1. Left = 3 * (DraftsAllowed - drafts) + Tail /\ drafts \in Nat
    BY <1>a DEF Left, TypeOK
  <2>2. Left' = 2 + 3 * (DraftsAllowed - (drafts + 1)) + Tail
    BY <1>c, <1>d DEF Left
  <2>3. Left' <= Left - 1 /\ drafts' <= DraftsAllowed
    BY <1>a, <1>d, <2>1, <2>2, Limit, SettingsAssumption DEF Tail
  <2> QED BY <1>a, <1>c, <1>1, <2>3, CountsDown DEF Position, Early
<1>3. Calls' /\ Evaluated' /\ Undecided'
  BY <1>a, <1>b, <1>c, <1>d DEF Calls, Evaluated, Undecided, Late, Final
<1>4. Gates'
  <2>1. DraftIsLast'
    BY <1>1, <1>d, <1>a DEF DraftIsLast, TypeOK
  <2> QED BY <1>a, <1>b, <1>c, <1>d, <2>1 DEF Gates, Early, Drafting, Late
<1> QED BY <1>1, <1>2, <1>3, <1>4, <1>c, BeforeTheEnd DEF IInv, Final

\* What the gate leaves behind, and where the graph goes on from it.
LEMMA Gate ==
  ASSUME TypeOK, CheckFaithfulness, DraftIsLast, draft.blocked # None => draft.fallback
  PROVE  /\ report' \in Reports
         /\ node' \in {"eval_newsletter", "handle_max_retries", "generate_newsletter"}
         /\ node' = "eval_newsletter" =>
              /\ ~draft.fallback /\ draft.blocked = None
              /\ draft = NoDraft \/ mode.faith = "off" => report' = NoReport
              /\ draft # NoDraft /\ mode.faith # "off" =>
                   /\ report'.of = drafts /\ report'.gatePassed
                   /\ mode.faith = "enforce" => report'.passed
         /\ node' = "generate_newsletter" => draft.blocked = None /\ drafts < MaxDrafts
         /\ node' = "handle_max_retries" =>
              /\ report' # NoReport /\ ~report'.gatePassed /\ ~report'.passed
              /\ report'.of = drafts /\ draft.number = drafts /\ draft.blocked = report'.llmFailure
              /\ \/ report'.reason = "faithfulness" /\ ~draft.fallback
                 \/ report'.reason = "generator_fallback" /\ draft.fallback
<1>1. /\ draft \in Drafts /\ drafts \in Nat /\ mode \in Modes /\ draft.blocked \in Whys
      /\ node' = RouteAfterFaithfulness /\ (~DraftsExhausted => drafts < MaxDrafts)
  BY SettingsAssumption DEF TypeOK, Drafts, CheckFaithfulness, Goto, DraftsExhausted
<1>2. NoDraft.fallback = FALSE /\ NoDraft.blocked = None
  BY DEF NoDraft
<1>3. CASE FallbackReport
  <2>1. /\ draft.fallback /\ draft # NoDraft /\ draft.number = drafts
        /\ report' = [of |-> drafts, gatePassed |-> FALSE, passed |-> FALSE,
                      reason |-> "generator_fallback", llmFailure |-> draft.blocked]
    BY <1>2, <1>3 DEF FallbackReport, DraftIsLast
  <2>2. /\ report' \in Reports /\ report' # NoReport
        /\ report'.of = drafts /\ report'.gatePassed = FALSE /\ report'.passed = FALSE
        /\ report'.reason = "generator_fallback" /\ report'.llmFailure = draft.blocked
    BY <1>1, <2>1 DEF Reports, Reasons, NoReport, None
  <2>3. node' = IF draft.blocked # None \/ DraftsExhausted THEN "handle_max_retries"
                                                           ELSE "generate_newsletter"
    BY <1>1, <2>2 DEF RouteAfterFaithfulness
  <2> QED BY <1>1, <2>1, <2>2, <2>3
<1>4. CASE Unchecked
  <2>1. report' = NoReport /\ node' = "eval_newsletter"
    BY <1>1, <1>4 DEF Unchecked, RouteAfterFaithfulness
  <2>2. draft = NoDraft \/ (~draft.fallback /\ mode.faith = "off")
    BY <1>4 DEF Unchecked
  <2>3. ~draft.fallback /\ draft.blocked = None
    BY <1>2, <2>2
  <2> QED BY <2>1, <2>2, <2>3, Empties
<1>5. CASE GateReport
  <2>1. PICK ok \in BOOLEAN :
          report' = [of |-> draft.number, gatePassed |-> ok \/ mode.faith = "shadow", passed |-> ok,
                     reason |-> IF ok THEN None ELSE "faithfulness", llmFailure |-> None]
    BY <1>5 DEF GateReport
  <2>2. draft # NoDraft /\ ~draft.fallback /\ mode.faith # "off" /\ draft.number = drafts
        /\ draft.blocked = None /\ drafts > 0
    BY <1>5 DEF GateReport, DraftIsLast
  <2>3. (ok \/ mode.faith = "shadow") \in BOOLEAN
    OBVIOUS
  <2>4. /\ report'.of = drafts /\ report'.gatePassed = (ok \/ mode.faith = "shadow")
        /\ report'.passed = ok /\ report'.reason = (IF ok THEN None ELSE "faithfulness")
        /\ report'.llmFailure = None /\ report' # NoReport
    BY <1>1, <2>1, <2>2 DEF NoReport
  <2>5. report' \in Reports
    BY <1>1, <2>1, <2>2, <2>3 DEF Reports, Reasons, Whys
  <2>6. CASE ok \/ mode.faith = "shadow"
    <3>1. report'.gatePassed
      BY <2>4, <2>6
    <3>2. node' = "eval_newsletter"
      BY <1>1, <3>1 DEF RouteAfterFaithfulness
    <3>3. mode.faith = "enforce" => report'.passed
      BY <2>4, <2>6
    <3> QED BY <2>2, <2>4, <2>5, <3>1, <3>2, <3>3
  <2>7. CASE ~(ok \/ mode.faith = "shadow")
    <3>1. ~report'.gatePassed /\ ~report'.passed /\ report'.reason = "faithfulness"
      BY <2>4, <2>7
    <3>2. node' = IF DraftsExhausted THEN "handle_max_retries" ELSE "generate_newsletter"
      BY <1>1, <2>4, <3>1 DEF RouteAfterFaithfulness
    <3> QED BY <1>1, <2>2, <2>4, <2>5, <3>1, <3>2
  <2> QED BY <2>6, <2>7
<1> QED BY <1>3, <1>4, <1>5 DEF CheckFaithfulness

LEMMA CheckFaithfulnessStep == IInv /\ CheckFaithfulness => IInv'
<1> SUFFICES ASSUME IInv, CheckFaithfulness PROVE IInv'
  OBVIOUS
<1>a. /\ TypeOK /\ node = "check_faithfulness" /\ blockedBy = draft.blocked /\ wasted = FALSE
      /\ drafts <= DraftsAllowed /\ reason = None /\ ~skipped /\ ~failed /\ saved = NothingSaved
      /\ judgement.llmFailure = None /\ StepsWithinLimit /\ Position
      /\ DraftIsLast /\ (draft.blocked # None => draft.fallback)
  BY DEF IInv, CheckFaithfulness, Calls, Position, Undecided, Gates, Drafting, Final
<1>b. /\ articles' = articles /\ clusterEval' = clusterEval /\ clusterRetries' = clusterRetries
      /\ draft' = draft /\ drafts' = drafts /\ judgement' = judgement /\ converted' = converted
      /\ toneRetries' = toneRetries /\ toneFallback' = toneFallback /\ reason' = reason
      /\ skipped' = skipped /\ failed' = failed /\ saved' = saved
      /\ blockedBy' = blockedBy /\ wasted' = wasted
  BY DEF CheckFaithfulness, clusterVars, toneVars, outcomeVars, callVars
<1>c. steps' = steps + 1 /\ mode' = mode /\ steps' \in 0..(MaxSupersteps + 1)
  BY <1>a, OneStep DEF CheckFaithfulness, TypeOK
<1>d. /\ report' \in Reports
      /\ node' \in {"eval_newsletter", "handle_max_retries", "generate_newsletter"}
  BY <1>a, Gate
<1>1. TypeOK'
  BY <1>a, <1>b, <1>c, <1>d DEF TypeOK, Nodes
<1>2. Position'
  <2>1. node' = "generate_newsletter" => drafts < DraftsAllowed
    BY <1>a, Gate, Limit, SettingsAssumption DEF TypeOK
  <2>2. Left = 2 + 3 * (DraftsAllowed - drafts) + Tail /\ drafts \in Nat
    BY <1>a DEF Left, TypeOK
  <2>3. Left' \in {1 + 3 * (DraftsAllowed - drafts) + Tail, 1, 3 * (DraftsAllowed - drafts) + Tail}
    BY <1>b, <1>d DEF Left
  <2>4. Left' <= Left - 1
    BY <1>a, <2>2, <2>3, Limit, SettingsAssumption DEF Tail
  <2> QED BY <1>a, <1>b, <1>c, <1>d, <1>1, <2>1, <2>4, CountsDown DEF Position, Early
<1>3. Calls' /\ Evaluated' /\ Undecided'
  <2>1. node' \in {"eval_newsletter", "generate_newsletter"} => blockedBy' = None
    BY <1>a, <1>b, Gate
  <2> QED BY <1>a, <1>b, <1>d, <2>1 DEF Calls, Evaluated, Undecided, Late, Final
<1>4. Gates'
  <2>1. CASE node' = "eval_newsletter"
    <3>1. ReportIsLast' /\ DraftIsLast' /\ ~draft'.fallback
      BY <1>a, <1>b, <1>c, <2>1, Gate DEF ReportIsLast, DraftIsLast
    <3> QED BY <1>a, <1>b, <2>1, <3>1 DEF Gates, Early, Drafting, Late
  <2>2. CASE node' = "generate_newsletter"
    BY <1>a, <1>b, <2>2 DEF Gates, Early, Drafting, Late
  <2>3. CASE node' = "handle_max_retries"
    <3>1. GateFailed'
      BY <1>a, <2>3, Gate DEF GateFailed
    <3>2. /\ report'.of = drafts' /\ draft'.number = drafts' /\ ~report'.passed
          /\ blockedBy' = report'.llmFailure /\ judgement'.llmFailure = None
          /\ \/ report'.reason = "faithfulness" /\ ~draft'.fallback
             \/ report'.reason = "generator_fallback" /\ draft'.fallback
      BY <1>a, <1>b, <2>3, Gate
    <3> QED BY <2>3, <3>1, <3>2 DEF Gates, Early, Drafting, Late
  <2> QED BY <1>d, <2>1, <2>2, <2>3
<1> QED BY <1>1, <1>2, <1>3, <1>4, <1>d, BeforeTheEnd DEF IInv, Final

\* What the judge leaves behind, and where the graph goes on from it.
LEMMA Judgement ==
  ASSUME TypeOK, EvaluateNewsletter, blockedBy = None, wasted = FALSE
  PROVE  /\ judgement' \in Judgements /\ judgement'.of = drafts /\ wasted' = FALSE
         /\ blockedBy' = judgement'.llmFailure
         /\ node' \in {"embed_newsletter", "handle_max_retries", "generate_newsletter"}
         /\ node' = "embed_newsletter" =>
              /\ draft # NoDraft /\ blockedBy' = None /\ judgement'.scored
              /\ mode.judge = "enforce" => judgement'.decision = "PASS"
         /\ node' = "generate_newsletter" => blockedBy' = None /\ drafts < MaxDrafts
         /\ node' = "handle_max_retries" =>
              /\ judgement'.decision = "FAIL"
              /\ judgement'.scored => mode.judge = "enforce"
<1>1. /\ drafts \in Nat /\ mode.judge \in {"shadow", "enforce"} /\ node' = RouteAfterNewsletterEval
      /\ (~DraftsExhausted => drafts < MaxDrafts)
  BY SettingsAssumption DEF TypeOK, Modes, EvaluateNewsletter, Goto, DraftsExhausted
<1>2. CASE NothingToJudge
  <2>1. judgement' = [of |-> drafts, decision |-> "FAIL", scored |-> FALSE,
                      llmFailure |-> None] /\ blockedBy' = None /\ wasted' = FALSE
    BY <1>2 DEF NothingToJudge, callVars
  <2>2. /\ judgement' \in Judgements /\ judgement'.of = drafts /\ judgement'.decision = "FAIL"
        /\ judgement'.scored = FALSE /\ judgement'.llmFailure = None
    BY <1>1, <2>1 DEF Judgements, Whys
  <2>3. node' = IF DraftsExhausted THEN "handle_max_retries" ELSE "generate_newsletter"
    BY <1>1, <2>2 DEF RouteAfterNewsletterEval
  <2> QED BY <1>1, <2>1, <2>2, <2>3
<1>3. CASE Judged
  <2>1. PICK decision \in {"PASS", "FAIL"} :
          judgement' = [of |-> drafts, decision |-> decision, scored |-> TRUE,
                        llmFailure |-> None]
    BY <1>3 DEF Judged
  <2>2. blockedBy' = None /\ wasted' = FALSE /\ draft # NoDraft
    BY <1>3 DEF Judged, Called
  <2>3. /\ judgement' \in Judgements /\ judgement'.of = drafts /\ judgement'.decision = decision
        /\ judgement'.scored = TRUE /\ judgement'.llmFailure = None
    BY <1>1, <2>1 DEF Judgements, Whys
  <2>4. node' = IF decision = "PASS" \/ mode.judge = "shadow" THEN "embed_newsletter"
                ELSE IF DraftsExhausted THEN "handle_max_retries" ELSE "generate_newsletter"
    BY <1>1, <2>3 DEF RouteAfterNewsletterEval
  <2> QED BY <1>1, <2>2, <2>3, <2>4
<1>4. CASE JudgeFails
  <2>1. PICK why \in Whys :
          /\ judgement' = [of |-> drafts, decision |-> "FAIL", scored |-> FALSE,
                           llmFailure |-> why]
          /\ Called(why)
    BY <1>4 DEF JudgeFails
  <2>2. blockedBy' = why /\ wasted' = FALSE
    BY <2>1 DEF Called
  <2>3. /\ judgement' \in Judgements /\ judgement'.of = drafts /\ judgement'.decision = "FAIL"
        /\ judgement'.scored = FALSE /\ judgement'.llmFailure = why
    BY <1>1, <2>1 DEF Judgements
  <2>4. node' = IF why # None \/ DraftsExhausted THEN "handle_max_retries" ELSE "generate_newsletter"
    BY <1>1, <2>3 DEF RouteAfterNewsletterEval
  <2> QED BY <1>1, <2>2, <2>3, <2>4
<1> QED BY <1>2, <1>3, <1>4 DEF EvaluateNewsletter

LEMMA EvaluateNewsletterStep == IInv /\ EvaluateNewsletter => IInv'
<1> SUFFICES ASSUME IInv, EvaluateNewsletter PROVE IInv'
  OBVIOUS
<1>a. /\ TypeOK /\ node = "eval_newsletter" /\ blockedBy = None /\ wasted = FALSE
      /\ drafts <= DraftsAllowed /\ reason = None /\ ~skipped /\ ~failed /\ saved = NothingSaved
      /\ StepsWithinLimit /\ Position /\ DraftIsLast /\ ReportIsLast /\ ~draft.fallback
  BY DEF IInv, EvaluateNewsletter, Calls, Position, Undecided, Gates, Drafting, Final
<1>b. /\ articles' = articles /\ clusterEval' = clusterEval /\ clusterRetries' = clusterRetries
      /\ draft' = draft /\ drafts' = drafts /\ report' = report /\ converted' = converted
      /\ toneRetries' = toneRetries /\ toneFallback' = toneFallback /\ reason' = reason
      /\ skipped' = skipped /\ failed' = failed /\ saved' = saved
  BY DEF EvaluateNewsletter, clusterVars, toneVars, outcomeVars
<1>c. steps' = steps + 1 /\ mode' = mode /\ steps' \in 0..(MaxSupersteps + 1)
  BY <1>a, OneStep DEF EvaluateNewsletter, TypeOK
<1>d. /\ judgement' \in Judgements /\ judgement'.of = drafts /\ wasted' = FALSE
      /\ blockedBy' = judgement'.llmFailure
      /\ node' \in {"embed_newsletter", "handle_max_retries", "generate_newsletter"}
  BY <1>a, Judgement
<1>1. TypeOK'
  <2>1. blockedBy' \in Whys
    BY <1>d DEF Judgements
  <2> QED BY <1>a, <1>b, <1>c, <1>d, <2>1 DEF TypeOK, Nodes
<1>2. Position'
  <2>1. node' = "generate_newsletter" => drafts < DraftsAllowed
    <3>1. node' = "generate_newsletter" => drafts < MaxDrafts
      BY <1>a, Judgement
    <3> QED BY <1>a, <3>1, Limit, SettingsAssumption DEF TypeOK
  <2>2. Left = 1 + 3 * (DraftsAllowed - drafts) + Tail /\ drafts \in Nat
    BY <1>a DEF Left, TypeOK
  <2>3. Left' \in {Tail, 1, 3 * (DraftsAllowed - drafts) + Tail}
    BY <1>b, <1>d DEF Left
  <2>4. Left' <= Left - 1
    BY <1>a, <2>2, <2>3, Limit, SettingsAssumption DEF Tail
  <2> QED BY <1>a, <1>b, <1>c, <1>d, <1>1, <2>1, <2>4, CountsDown DEF Position, Early
<1>3. Calls' /\ Evaluated' /\ Undecided'
  <2>1. node' \in {"embed_newsletter", "generate_newsletter"} => blockedBy' = None
    BY <1>a, Judgement
  <2> QED BY <1>a, <1>b, <1>d, <2>1 DEF Calls, Evaluated, Undecided, Late, Final
<1>4. Gates'
  <2>1. CASE node' = "embed_newsletter"
    <3>1. /\ draft # NoDraft /\ blockedBy' = None /\ judgement'.scored
          /\ mode.judge = "enforce" => judgement'.decision = "PASS"
      BY <1>a, <2>1, Judgement
    <3>2. ReportIsLast' /\ draft'.number = drafts' /\ drafts' > 0
      BY <1>a, <1>b, <1>c, <3>1 DEF ReportIsLast, DraftIsLast
    <3> QED BY <1>a, <1>b, <1>c, <1>d, <2>1, <3>1, <3>2 DEF Gates, Early, Drafting, Late
  <2>2. CASE node' = "generate_newsletter"
    <3>1. judgement'.llmFailure = None
      BY <1>a, <1>d, <2>2, Judgement
    <3> QED BY <2>2, <3>1 DEF Gates, Early, Drafting, Late
  <2>3. CASE node' = "handle_max_retries"
    <3>1. ~GateFailed'
      <4>1. report = NoReport \/ report.gatePassed
        BY <1>a DEF ReportIsLast
      <4> QED BY <1>b, <4>1 DEF GateFailed
    <3>2. /\ judgement'.decision = "FAIL" /\ mode' = mode
          /\ judgement'.scored => mode.judge = "enforce"
      BY <1>a, <1>c, <2>3, Judgement
    <3> QED BY <1>b, <1>d, <2>3, <3>1, <3>2 DEF Gates, Early, Drafting, Late
  <2> QED BY <1>d, <2>1, <2>2, <2>3
<1> QED BY <1>1, <1>2, <1>3, <1>4, <1>d, BeforeTheEnd DEF IInv, Final

LEMMA HandleMaxRetriesStep == IInv /\ HandleMaxRetries => IInv'
<1> SUFFICES ASSUME IInv, HandleMaxRetries PROVE IInv'
  OBVIOUS
<1>a. /\ TypeOK /\ node = "handle_max_retries" /\ node \in Nodes /\ wasted = FALSE
      /\ reason = None /\ ~skipped /\ ~failed /\ saved = NothingSaved /\ StepsWithinLimit /\ Gates
  BY DEF IInv, HandleMaxRetries, Calls, Undecided, Nodes, Final
<1>b. /\ articles' = articles /\ clusterEval' = clusterEval /\ clusterRetries' = clusterRetries
      /\ draft' = draft /\ drafts' = drafts /\ report' = report /\ judgement' = judgement
      /\ converted' = converted /\ toneRetries' = toneRetries /\ toneFallback' = toneFallback
      /\ skipped' = skipped /\ failed' = TRUE /\ saved' = saved
      /\ blockedBy' = blockedBy /\ wasted' = wasted
      /\ reason' = IF Blocked # None THEN Blocked
                   ELSE IF GateFailed THEN report.reason
                   ELSE IF ~judgement.scored THEN "judge_unavailable" ELSE "judge"
  BY DEF HandleMaxRetries, clusterVars, draftVars, toneVars, callVars
<1>c. node' = "END" /\ steps' = steps + 1 /\ mode' = mode /\ steps' \in 0..(MaxSupersteps + 1)
  BY <1>a, OneStep DEF HandleMaxRetries, TypeOK
<1>d. blockedBy \in Whys /\ None \notin NoRetryReasons
  BY <1>a DEF TypeOK, NoRetryReasons, None
<1>1. Blocked = blockedBy
  <2>1. CASE GateFailed
    BY <1>a, <2>1 DEF Gates, Blocked, Early, Drafting, Late
  <2>2. CASE ~GateFailed
    BY <1>a, <2>2 DEF Gates, Blocked, Early, Drafting, Late
  <2> QED BY <2>1, <2>2
<1>2. reason' \in Reasons /\ FailureReasonIsTrue'
  <2>1. CASE blockedBy # None
    <3>1. reason' = blockedBy /\ blockedBy \in NoRetryReasons
      BY <1>1, <1>b, <1>d, <2>1 DEF Whys
    <3>2. reason' \in Reasons
      BY <3>1 DEF Reasons, Whys
    <3> QED BY <1>b, <3>1, <3>2 DEF FailureReasonIsTrue, NoRetryReasons
  <2>2. CASE blockedBy = None /\ GateFailed
    <3>1. /\ reason' = report.reason /\ report.of = drafts /\ draft.number = drafts /\ ~report.passed
          /\ \/ report.reason = "faithfulness" /\ ~draft.fallback
             \/ report.reason = "generator_fallback" /\ draft.fallback
      BY <1>1, <1>a, <1>b, <2>2 DEF Gates, Early, Drafting, Late
    <3> QED BY <1>b, <2>2, <3>1 DEF FailureReasonIsTrue, NoRetryReasons, Reasons
  <2>3. CASE blockedBy = None /\ ~GateFailed
    <3>1. /\ reason' = IF ~judgement.scored THEN "judge_unavailable" ELSE "judge"
          /\ judgement.of = drafts /\ judgement.decision = "FAIL"
          /\ judgement.scored => mode.judge = "enforce"
      BY <1>1, <1>a, <1>b, <2>3 DEF Gates, Early, Drafting, Late
    <3>2. reason' \in {"judge_unavailable", "judge"}
      BY <3>1
    <3>3. reason' = "judge" => judgement.scored
      BY <3>1
    <3> QED BY <1>b, <1>c, <2>3, <3>1, <3>2, <3>3 DEF FailureReasonIsTrue, NoRetryReasons, Reasons
  <2> QED BY <2>1, <2>2, <2>3
<1>3. TypeOK'
  BY <1>a, <1>b, <1>c, <1>2 DEF TypeOK, Final
<1> QED BY <1>a, <1>b, <1>c, <1>2, <1>3, NothingPublished, Ending DEF Final

\* The steps after the judge leave draft, report and judgement as they are, so
\* what is known of them at a late node stays known at the next one.
LEMMA LateStep ==
  ASSUME IInv, node \in Late, node' \in Late, TypeOK',
         steps' = steps + 1, Left' <= Left - 1, mode' = mode,
         draft' = draft, drafts' = drafts, report' = report, judgement' = judgement,
         blockedBy' = blockedBy, wasted' = wasted, reason' = reason, skipped' = skipped,
         failed' = failed, saved' = saved,
         node' = "save_newsletter" /\ mode.tone = "enforce" => ~converted'.drifted,
         node' = "check_tone_drift" => converted' # NoText
  PROVE  IInv'
<1>1. node' \notin Final /\ node' \notin Early /\ node' \notin Drafting
      /\ node' # "handle_max_retries" /\ node \notin Final
  BY DEF Late, Early, Drafting, Final
<1>2. Position'
  <2>1. TypeOK /\ Position /\ drafts' <= DraftsAllowed
    BY DEF IInv, Position
  <2>2. steps' + Left' <= MaxSupersteps
    BY <2>1, CountsDown
  <2> QED BY <1>1, <2>1, <2>2 DEF Position, Drafting
<1>3. blockedBy = None /\ wasted = FALSE
  BY DEF IInv, Calls
<1>4. Calls' /\ Evaluated'
  BY <1>1, <1>3 DEF Calls, Evaluated, Early, Drafting
<1>5. /\ draft # NoDraft /\ draft.number = drafts /\ drafts > 0 /\ ~draft.fallback /\ ReportIsLast
      /\ judgement.of = drafts /\ judgement.scored
      /\ mode.judge = "enforce" => judgement.decision = "PASS"
  BY DEF IInv, Gates
<1>6. ReportIsLast'
  BY <1>5 DEF ReportIsLast
<1>7. Gates'
  BY <1>1, <1>5, <1>6 DEF Gates, Drafting
<1>8. Undecided'
  BY <1>1 DEF IInv, Undecided
<1> QED BY <1>1, <1>2, <1>4, <1>7, <1>8, BeforeTheEnd DEF IInv

LEMMA EmbedNewsletterStep == IInv /\ EmbedNewsletter => IInv'
<1> SUFFICES ASSUME IInv, EmbedNewsletter PROVE IInv'
  OBVIOUS
<1>a. TypeOK /\ StepsWithinLimit /\ node = "embed_newsletter"
  BY DEF IInv, EmbedNewsletter
<1>b. node' = "convert_tone" /\ steps' = steps + 1 /\ mode' = mode /\ steps' \in 0..(MaxSupersteps + 1)
  BY <1>a, OneStep DEF EmbedNewsletter, TypeOK
<1>c. UNCHANGED <<articles, clusterEval, clusterRetries, draft, drafts, report, judgement, converted,
                  toneRetries, toneFallback, reason, skipped, failed, saved, blockedBy, wasted>>
  BY DEF EmbedNewsletter, clusterVars, draftVars, toneVars, outcomeVars, callVars
<1>1. TypeOK'
  BY <1>a, <1>b, <1>c DEF TypeOK, Nodes
<1>2. Left' <= Left - 1
  <2>1. Left = 4 + 2 * MaxToneRetries /\ Left' = 3 + 2 * (MaxToneRetries - toneRetries)
    BY <1>a, <1>b, <1>c DEF Left, Tail
  <2> QED BY <1>a, <2>1, SettingsAssumption DEF TypeOK
<1> QED BY <1>a, <1>b, <1>c, <1>1, <1>2, LateStep DEF Late

LEMMA ConvertToneStep == IInv /\ ConvertTone => IInv'
<1> SUFFICES ASSUME IInv, ConvertTone PROVE IInv'
  OBVIOUS
<1>a. TypeOK /\ StepsWithinLimit /\ node = "convert_tone" /\ drafts \in Nat /\ drafts > 0
  BY DEF IInv, ConvertTone, Gates, Late, TypeOK
<1>b. node' = "check_tone_drift" /\ steps' = steps + 1 /\ mode' = mode
      /\ steps' \in 0..(MaxSupersteps + 1)
  BY <1>a, OneStep DEF ConvertTone, TypeOK
<1>c. UNCHANGED <<articles, clusterEval, clusterRetries, draft, drafts, report, judgement,
                  toneRetries, toneFallback, reason, skipped, failed, saved, blockedBy, wasted>>
  BY DEF ConvertTone, clusterVars, draftVars, outcomeVars, callVars
<1>d. converted' \in Texts /\ converted' # NoText
  <2>1. CASE converted # NoText
    BY <1>a, <2>1 DEF ConvertTone, TypeOK
  <2>2. CASE converted = NoText
    <3>1. PICK drifted \in BOOLEAN : converted' = [of |-> drafts, drifted |-> drifted]
      BY <2>2 DEF ConvertTone
    <3> QED BY <1>a, <3>1 DEF Texts, NoText
  <2> QED BY <2>1, <2>2
<1>1. TypeOK'
  BY <1>a, <1>b, <1>c, <1>d DEF TypeOK, Nodes
<1>2. Left' <= Left - 1
  <2>1. Left = 3 + 2 * (MaxToneRetries - toneRetries) /\ Left' = 2 + 2 * (MaxToneRetries - toneRetries)
    BY <1>a, <1>b, <1>c DEF Left
  <2> QED BY <1>a, <2>1, SettingsAssumption DEF TypeOK
<1> QED BY <1>a, <1>b, <1>c, <1>d, <1>1, <1>2, LateStep DEF Late

LEMMA CheckToneDriftStep == IInv /\ CheckToneDrift => IInv'
<1> SUFFICES ASSUME IInv, CheckToneDrift PROVE IInv'
  OBVIOUS
<1>a. TypeOK /\ StepsWithinLimit /\ node = "check_tone_drift" /\ toneRetries \in 0..MaxToneRetries
      /\ converted \in Texts /\ NoText \in Texts /\ NoText.drifted = FALSE
  BY Empties DEF IInv, CheckToneDrift, TypeOK, NoText
<1>b. UNCHANGED <<articles, clusterEval, clusterRetries, draft, drafts, report, judgement,
                  reason, skipped, failed, saved, blockedBy, wasted>>
  BY DEF CheckToneDrift, clusterVars, draftVars, outcomeVars, callVars
<1>c. Left = 2 + 2 * (MaxToneRetries - toneRetries)
  BY <1>a DEF Left
<1>1. CASE TonePasses
  <2>1. /\ node' = "save_newsletter" /\ steps' = steps + 1 /\ mode' = mode
        /\ steps' \in 0..(MaxSupersteps + 1)
    BY <1>a, <1>1, OneStep DEF TonePasses, TypeOK
  <2>2. UNCHANGED <<converted, toneRetries, toneFallback>> /\ (mode.tone # "enforce" \/ ~converted.drifted)
    BY <1>1 DEF TonePasses, toneVars
  <2>3. TypeOK'
    BY <1>a, <1>b, <2>1, <2>2 DEF TypeOK, Nodes
  <2>4. Left' <= Left - 1
    <3>1. Left' = 1
      BY <2>1 DEF Left
    <3> QED BY <1>a, <1>c, <3>1, SettingsAssumption
  <2> QED BY <1>a, <1>b, <2>1, <2>2, <2>3, <2>4, LateStep DEF Late
<1>2. CASE ToneAgain
  <2>1. /\ node' = "convert_tone" /\ steps' = steps + 1 /\ mode' = mode
        /\ steps' \in 0..(MaxSupersteps + 1)
    BY <1>a, <1>2, OneStep DEF ToneAgain, TypeOK
  <2>2. /\ toneRetries < MaxToneRetries /\ toneRetries' = toneRetries + 1 /\ converted' = NoText
        /\ toneFallback' = toneFallback
    BY <1>2 DEF ToneAgain
  <2>3. toneRetries' \in 0..MaxToneRetries
    BY <1>a, <2>2, SettingsAssumption
  <2>4. TypeOK'
    BY <1>a, <1>b, <2>1, <2>2, <2>3 DEF TypeOK, Nodes
  <2>5. Left' <= Left - 1
    <3>1. Left' = 3 + 2 * (MaxToneRetries - (toneRetries + 1))
      BY <2>1, <2>2 DEF Left
    <3> QED BY <1>a, <1>c, <3>1, SettingsAssumption
  <2> QED BY <1>a, <1>b, <2>1, <2>2, <2>4, <2>5, LateStep DEF Late
<1>3. CASE KeepFormal
  <2>1. /\ node' = "save_newsletter" /\ steps' = steps + 1 /\ mode' = mode
        /\ steps' \in 0..(MaxSupersteps + 1)
    BY <1>a, <1>3, OneStep DEF KeepFormal, TypeOK
  <2>2. toneRetries' = toneRetries /\ converted' = NoText /\ toneFallback' = TRUE
    BY <1>3 DEF KeepFormal
  <2>3. TypeOK'
    BY <1>a, <1>b, <2>1, <2>2 DEF TypeOK, Nodes
  <2>4. Left' <= Left - 1
    <3>1. Left' = 1
      BY <2>1 DEF Left
    <3> QED BY <1>a, <1>c, <3>1, SettingsAssumption
  <2> QED BY <1>a, <1>b, <2>1, <2>2, <2>3, <2>4, LateStep DEF Late
<1> QED BY <1>1, <1>2, <1>3 DEF CheckToneDrift

LEMMA SaveNewsletterStep == IInv /\ SaveNewsletter => IInv'
<1> SUFFICES ASSUME IInv, SaveNewsletter PROVE IInv'
  OBVIOUS
<1>a. /\ TypeOK /\ StepsWithinLimit /\ node = "save_newsletter" /\ node \in Nodes
      /\ blockedBy = None /\ wasted = FALSE /\ reason = None /\ saved = NothingSaved
      /\ mode.tone = "enforce" => ~converted.drifted
  BY DEF IInv, SaveNewsletter, Calls, Undecided, Late, Nodes, Final
<1>b. /\ draft.number = drafts /\ ~draft.fallback /\ ReportIsLast /\ draft # NoDraft
      /\ judgement.of = drafts /\ judgement.scored
      /\ mode.judge = "enforce" => judgement.decision = "PASS"
  BY <1>a DEF IInv, Gates, Late
<1>c. UNCHANGED <<articles, clusterEval, clusterRetries, draft, drafts, report, judgement, converted,
                  toneRetries, toneFallback, reason, skipped, blockedBy, wasted>>
  BY DEF SaveNewsletter, clusterVars, draftVars, toneVars, callVars
<1>d. node' = "END" /\ steps' = steps + 1 /\ mode' = mode /\ steps' \in 0..(MaxSupersteps + 1)
  BY <1>a, OneStep DEF SaveNewsletter, TypeOK
<1>e. FailureReasonIsTrue'
  BY <1>a, <1>c DEF FailureReasonIsTrue, NoRetryReasons, None
<1>1. CASE failed' = TRUE /\ saved' = saved
  <2>1. TypeOK'
    BY <1>a, <1>c, <1>d, <1>1 DEF TypeOK, Final
  <2> QED BY <1>a, <1>c, <1>d, <1>e, <1>1, <2>1, NothingPublished, Ending DEF Final
<1>2. CASE /\ failed' = failed
           /\ saved' = [of |-> draft.number, drifted |-> converted.drifted, links |-> UsedArticleIds]
  <2>1. saved' \in Rows
    <3>1. draft.number \in Nat /\ converted.drifted \in BOOLEAN /\ UsedArticleIds \subseteq Cluster
      BY <1>a DEF TypeOK, Drafts, Texts, UsedArticleIds, Support
    <3> QED BY <1>2, <3>1 DEF Rows
  <2>2. TypeOK'
    BY <1>a, <1>c, <1>d, <1>2, <2>1 DEF TypeOK, Final
  <2>3. /\ mode.faith # "off" => report.of = drafts
        /\ mode.faith = "enforce" => report.passed
    BY <1>b DEF ReportIsLast
  <2>4. PublishedIsVetted'
    BY <1>a, <1>b, <1>c, <1>d, <1>2, <2>3 DEF PublishedIsVetted
  <2>5. ToneKeepsFacts'
    BY <1>a, <1>d, <1>2 DEF ToneKeepsFacts
  <2> QED BY <1>a, <1>c, <1>d, <1>e, <2>2, <2>4, <2>5, Ending DEF Final
<1> QED BY <1>1, <1>2 DEF SaveNewsletter

LEMMA RunStopStep == IInv /\ RunStop => IInv'
<1> SUFFICES ASSUME IInv, RunStop PROVE IInv'
  OBVIOUS
<1>a. /\ TypeOK /\ StepsWithinLimit /\ node \in Nodes /\ wasted = FALSE
      /\ reason = None /\ saved = NothingSaved
  BY DEF IInv, RunStop, Calls, Undecided, Nodes, Final
<1>b. UNCHANGED <<articles, clusterEval, clusterRetries, draft, drafts, report, judgement, converted,
                  toneRetries, toneFallback, reason, skipped, failed, saved, blockedBy, wasted>>
  BY DEF RunStop, clusterVars, draftVars, toneVars, outcomeVars, callVars
<1>c. node' = "RAISED" /\ steps' = steps + 1 /\ mode' = mode /\ steps' \in 0..(MaxSupersteps + 1)
  BY <1>a, OneStep DEF RunStop, TypeOK
<1>1. TypeOK'
  BY <1>a, <1>b, <1>c DEF TypeOK, Final
<1>2. FailureReasonIsTrue'
  BY <1>a, <1>b, <1>c DEF FailureReasonIsTrue, NoRetryReasons, None
<1> QED BY <1>a, <1>b, <1>c, <1>1, <1>2, NothingPublished, Ending DEF Final

LEMMA StutterStep == IInv /\ UNCHANGED vars => IInv'
<1> SUFFICES ASSUME IInv, UNCHANGED vars PROVE IInv'
  OBVIOUS
<1> USE DEF vars
<1>1. TypeOK' /\ Position'
  BY DEF IInv, TypeOK, Position, Left
<1>2. Calls' /\ Evaluated' /\ Undecided'
  BY DEF IInv, Calls, Evaluated, Undecided
<1>3. Gates'
  BY DEF IInv, Gates, DraftIsLast, ReportIsLast, GateFailed
<1>4. StepsWithinLimit' /\ PublishedIsVetted' /\ FailureReasonIsTrue' /\ ToneKeepsFacts'
  BY DEF IInv, StepsWithinLimit, PublishedIsVetted, FailureReasonIsTrue, ToneKeepsFacts, Published
<1> QED BY <1>1, <1>2, <1>3, <1>4 DEF IInv

\* The map of the graph holds in every execution.
THEOREM InductiveHolds == Spec => []IInv
<1>1. Init => IInv
  BY InitIInv
<1>2. IInv /\ [Next]_vars => IInv'
  BY InitClusterStep, EvalClusterStep, HandleClusterFailStep, GenerateNewsletterStep,
     CheckFaithfulnessStep, EvaluateNewsletterStep, HandleMaxRetriesStep, EmbedNewsletterStep,
     ConvertToneStep, CheckToneDriftStep, SaveNewsletterStep, RunStopStep, StutterStep DEF Next, Done
<1> QED BY <1>1, <1>2, PTL DEF Spec

\* Every variable keeps its shape and no retry counter passes its setting, for
\* any settings.
THEOREM TypeCorrect == Spec => []TypeOK
<1>1. IInv => TypeOK
  BY DEF IInv
<1> QED BY <1>1, InductiveHolds, PTL

\* The recursion limit of compile_workflow() is never met, whatever the retry
\* settings: GraphRecursionError cannot end a cluster.
THEOREM StepsWithinLimitHolds == Spec => []StepsWithinLimit
<1>1. IInv => StepsWithinLimit
  BY DEF IInv
<1> QED BY <1>1, InductiveHolds, PTL

\* Whatever is inserted was looked at by every gate that is switched on, and
\* it is the draft they looked at.
THEOREM PublishedIsVettedHolds == Spec => []PublishedIsVetted
<1>1. IInv => PublishedIsVetted
  BY DEF IInv
<1> QED BY <1>1, InductiveHolds, PTL

\* A call refused for a reason a repetition meets again is never repeated.
THEOREM NothingIsSentAgainHolds == Spec => []NothingIsSentAgain
<1>1. IInv => NothingIsSentAgain
  BY DEF IInv, Calls, NothingIsSentAgain
<1> QED BY <1>1, InductiveHolds, PTL

\* failure_reason names what ended the cluster.
THEOREM FailureReasonIsTrueHolds == Spec => []FailureReasonIsTrue
<1>1. IInv => FailureReasonIsTrue
  BY DEF IInv
<1> QED BY <1>1, InductiveHolds, PTL

\* With the drift gate enforcing, no drifted text is published.
THEOREM ToneKeepsFactsHolds == Spec => []ToneKeepsFacts
<1>1. IInv => ToneKeepsFacts
  BY DEF IInv
<1> QED BY <1>1, InductiveHolds, PTL

=============================================================================
