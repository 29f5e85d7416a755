------------------------- MODULE NewsletterWorkflow -------------------------
(***************************************************************************)
(* The LangGraph workflow that turns ONE cluster of articles into at most  *)
(* one newsletter (ai_workspace/workflow/graph.py and nodes.py).           *)
(*                                                                         *)
(* A step of this specification is one superstep of the graph: a node runs *)
(* and the conditional edge behind it picks the next node.  What a         *)
(* language model answers is nondeterministic.  What a text says is        *)
(* abstracted to what the gates tell apart: whether it is a local fallback,*)
(* whether it drifted from its draft.                                      *)
(*                                                                         *)
(* The articles of the cluster are a bag: the evaluator answers with lists *)
(* of indices, and a list may name one index several times.                *)
(***************************************************************************)
EXTENDS Integers, FiniteSets, Functions

CONSTANTS
  Cluster,            \* the article ids of the cluster (current_article_ids)
  MaxListed,          \* how often one index may occur in an answer of the evaluator
  MaxClusterRetries,  \* Settings.MAX_RETRY_CLUSTER_EVAL
  MaxDrafts,          \* Settings.MAX_RETRY_NEWSLETTER_EVAL
  MaxToneRetries      \* Settings.MAX_RETRY_TONE_DRIFT

ASSUME SettingsAssumption ==
  /\ MaxListed \in Nat
  /\ MaxClusterRetries \in Nat
  /\ MaxDrafts \in Nat
  /\ MaxToneRetries \in Nat

VARIABLES
  mode,            \* the gate modes of the process (environment, read once)
  node,            \* the node that runs next, or "END" / "RAISED"
  steps,           \* supersteps executed; counts no further than one over the limit
  articles,        \* current_articles as a bag
  clusterEval,     \* cluster_eval
  clusterRetries,  \* cluster_retry_count
  draft,           \* newsletter_draft
  drafts,          \* newsletter_retry_count
  report,          \* faithfulness_report
  judgement,       \* newsletter_eval
  converted,       \* converted_newsletter
  toneRetries,     \* tone_retry_count
  toneFallback,    \* tone_fallback = "formal"
  reason,          \* failure_reason
  skipped, failed, \* the cluster is in skipped_clusters / failed_clusters
  saved,           \* the row save_news_letter inserted (NothingSaved before)
  blockedBy,       \* history: why a call of evaluator, generator or judge was pointless to repeat
  wasted           \* history: such a call was sent after one had been blocked

vars == <<mode, node, steps, articles, clusterEval, clusterRetries, draft, drafts, report,
          judgement, converted, toneRetries, toneFallback, reason, skipped, failed, saved,
          blockedBy, wasted>>
clusterVars == <<articles, clusterEval, clusterRetries>>
draftVars == <<draft, drafts, report, judgement>>
toneVars == <<converted, toneRetries, toneFallback>>
outcomeVars == <<reason, skipped, failed, saved>>
callVars == <<blockedBy, wasted>>

None == "none"          \* no reason
NoDraft == [number |-> 0, fallback |-> FALSE, blocked |-> None]
NoReport == [of |-> 0, passed |-> FALSE, gatePassed |-> FALSE, reason |-> None, llmFailure |-> None]
NoJudgement == [of |-> 0, decision |-> "FAIL", scored |-> FALSE, llmFailure |-> None]
NoText == [of |-> 0, drifted |-> FALSE]
NothingSaved == [of |-> 0, drifted |-> FALSE, links |-> {}]
NoRetryReasons == {"infra", "length", "content_filter"}
Modes == [faith : {"off", "shadow", "enforce"}, judge : {"shadow", "enforce"},
          tone : {"off", "shadow", "enforce"}]
Nodes == {"init_cluster", "eval_cluster", "handle_cluster_fail", "generate_newsletter",
          "check_faithfulness", "eval_newsletter", "embed_newsletter", "convert_tone",
          "check_tone_drift", "save_newsletter", "handle_max_retries"}
Final == {"END", "RAISED"}

Articles == [Cluster -> Nat]
Size(bag) == FoldFunction(LAMBDA n, m : n + m, 0, bag)
Support(bag) == {a \in Cluster : bag[a] > 0}
NoArticles == [a \in Cluster |-> 0]
Without(bag, out) == [a \in Cluster |-> bag[a] - out[a]]

(***************************************************************************)
(* What the evaluator of clusters can answer: `outliers' are the valid     *)
(* positions it named (a set of positions of the bag), `named' says that   *)
(* it named any position at all, `group' is the largest sub-group it       *)
(* proposed if it proposed at least two, restricted to valid positions.    *)
(***************************************************************************)
Removable(bag) == {out \in [Cluster -> 0..MaxListed] : \A a \in Cluster : out[a] <= bag[a]}
Groups(bag) == {g \in [Cluster -> 0..MaxListed] : \A a \in Cluster : bag[a] = 0 => g[a] = 0}
Failing(bag) == [of |-> bag, decision |-> "FAIL", outliers |-> NoArticles, named |-> FALSE,
                 group |-> NoArticles, llmFailure |-> None]

(* The records the nodes leave in the state. *)
Whys == NoRetryReasons \cup {None}
Reasons == Whys \cup {"faithfulness", "generator_fallback", "judge", "judge_unavailable"}
Evaluations == [of : Articles, decision : {"PASS", "FAIL"}, outliers : Articles, named : BOOLEAN,
                group : Articles, llmFailure : Whys]
Drafts == [number : Nat, fallback : BOOLEAN, blocked : Whys]
Reports == [of : Nat, passed : BOOLEAN, gatePassed : BOOLEAN, reason : Reasons, llmFailure : Whys]
Judgements == [of : Nat, decision : {"PASS", "FAIL"}, scored : BOOLEAN,
               llmFailure : Whys]
Texts == [of : Nat, drifted : BOOLEAN]
Rows == [of : Nat, drifted : BOOLEAN, links : SUBSET Cluster]

\* max(MAX_RETRY_NEWSLETTER_EVAL, 1): the first draft is always written.
DraftsAllowed == IF MaxDrafts > 1 THEN MaxDrafts ELSE 1

MaxSupersteps ==
  1 + (2 * MaxClusterRetries + 1) + 3 * DraftsAllowed + 1 + 2 * (1 + MaxToneRetries) + 1

Init ==
  /\ mode \in Modes
  /\ node = "init_cluster" /\ steps = 0
  /\ articles = NoArticles /\ clusterEval = Failing(NoArticles) /\ clusterRetries = 0
  /\ draft = NoDraft /\ drafts = 0 /\ report = NoReport /\ judgement = NoJudgement
  /\ converted = NoText /\ toneRetries = 0 /\ toneFallback = FALSE
  /\ reason = None /\ skipped = FALSE /\ failed = FALSE /\ saved = NothingSaved
  /\ blockedBy = None /\ wasted = FALSE

Goto(n) ==
  /\ node' = n
  /\ steps' = IF steps > MaxSupersteps THEN steps ELSE steps + 1
  /\ UNCHANGED mode

\* One complete() of the evaluator, the generator or the judge: answer `why'
\* is the no_retry_reason of its result, None when there is none.
Called(why) ==
  /\ blockedBy' = IF blockedBy = None THEN why ELSE blockedBy
  /\ wasted' = (wasted \/ blockedBy # None)

\* The guard stopped the run: LLMRunStop is a BaseException and leaves the
\* graph from whatever call it was raised in.
RunStop ==
  /\ node \in {"eval_cluster", "generate_newsletter", "eval_newsletter", "convert_tone"}
  /\ Goto("RAISED")
  /\ UNCHANGED <<clusterVars, draftVars, toneVars, outcomeVars, callVars>>

\* Ids the loaded data does not have are logged and dropped.
InitCluster ==
  /\ node = "init_cluster"
  /\ \E found \in SUBSET Cluster : articles' = [a \in Cluster |-> IF a \in found THEN 1 ELSE 0]
  /\ Goto("eval_cluster")
  /\ UNCHANGED <<clusterEval, clusterRetries, draftVars, toneVars, outcomeVars, callVars>>

---------------------------------------------------------------------------
(* Evaluation of the cluster *)

TooFew ==
  /\ Size(articles) < 2
  /\ clusterEval' = Failing(articles)
  /\ Goto("handle_cluster_fail")
  /\ UNCHANGED callVars

EvalPasses ==
  /\ Size(articles) >= 2
  /\ clusterEval' = [Failing(articles) EXCEPT !.decision = "PASS"]
  /\ Called(None)
  /\ Goto("generate_newsletter")

EvalFails ==
  /\ Size(articles) >= 2
  /\ \E out \in Removable(articles), g \in Groups(articles), stray \in BOOLEAN :
       clusterEval' = [Failing(articles) EXCEPT !.outliers = out, !.group = g,
                                        !.named = (stray \/ out # NoArticles)]
  /\ Called(None)
  /\ Goto("handle_cluster_fail")

EvalUnanswered ==
  /\ Size(articles) >= 2
  /\ \E why \in Whys :
       /\ clusterEval' = [Failing(articles) EXCEPT !.llmFailure = why]
       /\ Called(why)
  /\ Goto("handle_cluster_fail")

EvalCluster ==
  /\ node = "eval_cluster"
  /\ TooFew \/ EvalPasses \/ EvalFails \/ EvalUnanswered
  /\ UNCHANGED <<articles, clusterRetries, draftVars, toneVars, outcomeVars>>

SplitPossible == Size(clusterEval.group) >= 3
TrimPossible ==
  /\ clusterEval.named
  /\ clusterEval.outliers # NoArticles
  /\ Size(Without(articles, clusterEval.outliers)) >= 3

EvalBlocked ==
  /\ clusterEval.llmFailure # None
  /\ failed' = TRUE /\ reason' = clusterEval.llmFailure
  /\ UNCHANGED <<articles, clusterRetries, skipped>>

Narrow ==
  /\ clusterEval.llmFailure = None /\ clusterRetries < MaxClusterRetries
  /\ SplitPossible \/ TrimPossible
  /\ articles' = IF SplitPossible THEN clusterEval.group
                                  ELSE Without(articles, clusterEval.outliers)
  /\ clusterRetries' = clusterRetries + 1
  /\ UNCHANGED <<failed, reason, skipped>>

SkipCluster ==
  /\ clusterEval.llmFailure = None
  /\ clusterRetries >= MaxClusterRetries \/ ~(SplitPossible \/ TrimPossible)
  /\ skipped' = TRUE
  /\ UNCHANGED <<articles, clusterRetries, failed, reason>>

\* route_after_cluster_fail reads the state the node left.
HandleClusterFail ==
  /\ node = "handle_cluster_fail"
  /\ EvalBlocked \/ Narrow \/ SkipCluster
  /\ Goto(IF skipped' \/ reason' \in NoRetryReasons THEN "END" ELSE "eval_cluster")
  /\ UNCHANGED <<clusterEval, draftVars, toneVars, saved, callVars>>

---------------------------------------------------------------------------
(* Generation, the deterministic gate and the judge *)

\* The content call came back empty after clean-up: no draft, no meta call.
NothingWritten ==
  /\ draft' = NoDraft
  /\ Called(None)

\* The content call was blocked: the meta call would be blocked too and is
\* not sent, both parts are filled in locally.
ContentBlocked ==
  \E why \in NoRetryReasons :
    /\ draft' = [number |-> drafts + 1, fallback |-> TRUE, blocked |-> why]
    /\ Called(why)

\* The content call gave a text (or failed in a way worth repeating, and is
\* filled in locally) and the meta call followed.
ContentThenMeta ==
  \E contentOk, metaOk \in BOOLEAN, why \in Whys :
    /\ metaOk => why = None
    /\ draft' = [number |-> drafts + 1, fallback |-> ~(contentOk /\ metaOk), blocked |-> why]
    /\ Called(why)

GenerateNewsletter ==
  /\ node = "generate_newsletter"
  /\ NothingWritten \/ ContentBlocked \/ ContentThenMeta
  /\ drafts' = drafts + 1
  /\ Goto("check_faithfulness")
  /\ UNCHANGED <<clusterVars, report, judgement, toneVars, outcomeVars>>

DraftsExhausted == drafts >= MaxDrafts

FallbackReport ==
  /\ draft.fallback
  /\ report' = [of |-> draft.number, gatePassed |-> FALSE, passed |-> FALSE,
                reason |-> "generator_fallback", llmFailure |-> draft.blocked]

\* Mutant: the mode is looked at before the fallback mark.
UncheckedFallback ==
  /\ draft = NoDraft \/ mode.faith = "off"
  /\ report' = NoReport

\* Mutant: without a draft the report of the previous one stays.
UncheckedKeepsReport ==
  /\ draft = NoDraft \/ (~draft.fallback /\ mode.faith = "off")
  /\ report' = IF draft = NoDraft THEN report ELSE NoReport

Unchecked ==
  /\ draft = NoDraft \/ (~draft.fallback /\ mode.faith = "off")
  /\ report' = NoReport

GateReport ==
  /\ draft # NoDraft /\ ~draft.fallback /\ mode.faith # "off"
  /\ \E ok \in BOOLEAN :
       report' = [of |-> draft.number, gatePassed |-> ok \/ mode.faith = "shadow", passed |-> ok,
                  reason |-> IF ok THEN None ELSE "faithfulness", llmFailure |-> None]

\* Mutant: a blocked generation call is retried like any other.
RouteIgnoringBlock ==
  IF report' = NoReport \/ report'.gatePassed THEN "eval_newsletter"
  ELSE IF DraftsExhausted THEN "handle_max_retries"
  ELSE "generate_newsletter"

RouteAfterFaithfulness ==
  IF report' = NoReport \/ report'.gatePassed THEN "eval_newsletter"
  ELSE IF report'.llmFailure # None \/ DraftsExhausted THEN "handle_max_retries"
  ELSE "generate_newsletter"

CheckFaithfulness ==
  /\ node = "check_faithfulness"
  /\ FallbackReport \/ Unchecked \/ GateReport
  /\ Goto(RouteAfterFaithfulness)
  /\ UNCHANGED <<clusterVars, draft, drafts, judgement, toneVars, outcomeVars, callVars>>

NothingToJudge ==
  /\ draft = NoDraft
  /\ judgement' = [of |-> drafts, decision |-> "FAIL", scored |-> FALSE,
                   llmFailure |-> None]
  /\ UNCHANGED callVars

Judged ==
  /\ draft # NoDraft
  /\ \E decision \in {"PASS", "FAIL"} :
       judgement' = [of |-> drafts, decision |-> decision, scored |-> TRUE,
                     llmFailure |-> None]
  /\ Called(None)

JudgeFails ==
  /\ draft # NoDraft
  /\ \E why \in Whys :
       /\ judgement' = [of |-> drafts, decision |-> "FAIL", scored |-> FALSE,
                        llmFailure |-> why]
       /\ Called(why)

RouteAfterNewsletterEval ==
  IF judgement'.decision = "PASS" THEN "embed_newsletter"
  ELSE IF judgement'.llmFailure # None THEN "handle_max_retries"
  ELSE IF mode.judge = "shadow" /\ judgement'.scored THEN "embed_newsletter"
  ELSE IF DraftsExhausted THEN "handle_max_retries"
  ELSE "generate_newsletter"

EvaluateNewsletter ==
  /\ node = "eval_newsletter"
  /\ NothingToJudge \/ Judged \/ JudgeFails
  /\ Goto(RouteAfterNewsletterEval)
  /\ UNCHANGED <<clusterVars, draft, drafts, report, toneVars, outcomeVars>>

GateFailed == report # NoReport /\ ~report.gatePassed
Blocked ==
  IF GateFailed /\ report.llmFailure # None THEN report.llmFailure ELSE judgement.llmFailure

HandleMaxRetries ==
  /\ node = "handle_max_retries"
  /\ failed' = TRUE
  /\ reason' = IF Blocked # None THEN Blocked
               ELSE IF GateFailed THEN report.reason
               ELSE IF ~judgement.scored THEN "judge_unavailable"
               ELSE "judge"
  /\ Goto("END")
  /\ UNCHANGED <<clusterVars, draftVars, toneVars, skipped, saved, callVars>>

---------------------------------------------------------------------------
(* Embedding, tone and storage *)

\* The vector is of the formal draft; a failure to compute it stops nothing.
EmbedNewsletter ==
  /\ node = "embed_newsletter"
  /\ Goto("convert_tone")
  /\ UNCHANGED <<clusterVars, draftVars, toneVars, outcomeVars, callVars>>

\* A model or rule-based conversion, which may have changed a fact, or a copy
\* of the draft after an error.  What is already converted is kept.
ConvertTone ==
  /\ node = "convert_tone"
  /\ IF converted # NoText
     THEN UNCHANGED converted
     ELSE \E drifted \in BOOLEAN : converted' = [of |-> drafts, drifted |-> drifted]
  /\ Goto("check_tone_drift")
  /\ UNCHANGED <<clusterVars, draftVars, toneRetries, toneFallback, outcomeVars, callVars>>

TonePasses ==
  /\ mode.tone # "enforce" \/ ~converted.drifted
  /\ Goto("save_newsletter")
  /\ UNCHANGED toneVars

\* Mutant: the conversion is repeated without being counted.
ToneAgainUncounted ==
  /\ mode.tone = "enforce" /\ converted.drifted
  /\ toneRetries < MaxToneRetries
  /\ converted' = NoText
  /\ UNCHANGED <<toneRetries, toneFallback>>
  /\ Goto("convert_tone")

ToneAgain ==
  /\ mode.tone = "enforce" /\ converted.drifted
  /\ toneRetries < MaxToneRetries
  /\ toneRetries' = toneRetries + 1 /\ converted' = NoText
  /\ UNCHANGED toneFallback
  /\ Goto("convert_tone")

KeepFormal ==
  /\ mode.tone = "enforce" /\ converted.drifted
  /\ toneRetries >= MaxToneRetries
  /\ toneFallback' = TRUE /\ converted' = NoText
  /\ UNCHANGED toneRetries
  /\ Goto("save_newsletter")

CheckToneDrift ==
  /\ node = "check_tone_drift"
  /\ TonePasses \/ ToneAgain \/ KeepFormal
  /\ UNCHANGED <<clusterVars, draftVars, outcomeVars, callVars>>

UsedArticleIds == IF Support(articles) = {} THEN Cluster ELSE Support(articles)

SaveNewsletter ==
  /\ node = "save_newsletter"
  /\ \/ /\ saved' = [of |-> draft.number, drifted |-> converted.drifted, links |-> UsedArticleIds]
        /\ UNCHANGED failed
     \/ /\ failed' = TRUE
        /\ UNCHANGED saved
  /\ Goto("END")
  /\ UNCHANGED <<clusterVars, draftVars, toneVars, reason, skipped, callVars>>

Done == node \in Final /\ UNCHANGED vars

Next ==
  \/ InitCluster \/ EvalCluster \/ HandleClusterFail
  \/ GenerateNewsletter \/ CheckFaithfulness \/ EvaluateNewsletter \/ HandleMaxRetries
  \/ EmbedNewsletter \/ ConvertTone \/ CheckToneDrift \/ SaveNewsletter
  \/ RunStop
  \/ Done

Spec == Init /\ [][Next]_vars
FairSpec == Spec /\ WF_vars(Next)
---------------------------------------------------------------------------
(* Properties *)

\* Every variable keeps its shape, and no retry counter passes its setting.
TypeOK ==
  /\ mode \in Modes
  /\ node \in Nodes \cup Final
  /\ steps \in 0..(MaxSupersteps + 1)
  /\ articles \in Articles
  /\ clusterEval \in Evaluations
  /\ clusterRetries \in 0..MaxClusterRetries
  /\ draft \in Drafts /\ drafts \in Nat
  /\ report \in Reports /\ judgement \in Judgements
  /\ converted \in Texts
  /\ toneRetries \in 0..MaxToneRetries
  /\ toneFallback \in BOOLEAN
  /\ reason \in Reasons
  /\ skipped \in BOOLEAN /\ failed \in BOOLEAN
  /\ saved \in Rows
  /\ blockedBy \in Whys
  /\ wasted \in BOOLEAN

Published == saved # NothingSaved

\* The recursion limit compile_workflow() computes from the settings is never
\* reached: no order of retries takes more supersteps than max_supersteps().
StepsWithinLimit == steps <= MaxSupersteps

\* What is published is the last draft, not a local fallback, and every gate
\* that is switched on looked at that very draft: a report or a judgement of
\* an earlier draft never lets a later one through (check_faithfulness,
\* evaluate_newsletter and their routers).
PublishedIsVetted ==
  Published =>
    /\ saved.of = drafts /\ draft.number = drafts /\ ~draft.fallback /\ blockedBy = None
    /\ mode.faith # "off" => report.of = drafts
    /\ mode.faith = "enforce" => report.passed
    /\ judgement.of = drafts /\ judgement.scored
    /\ mode.judge = "enforce" => judgement.decision = "PASS"

\* Once a call of the evaluator, the generator or the judge was refused for a
\* reason that a repetition meets again, none of them is called any more.
NothingIsSentAgain == ~wasted

\* failure_reason names what really ended the cluster: a blocked call exactly
\* when one was blocked, otherwise the gate that rejected the last draft.
FailureReasonIsTrue ==
  /\ node = "END" /\ blockedBy # None => failed /\ reason = blockedBy
  /\ reason \in NoRetryReasons => reason = blockedBy
  /\ reason = "faithfulness" => report.of = drafts /\ ~report.passed /\ ~draft.fallback
  /\ reason = "generator_fallback" => draft.number = drafts /\ draft.fallback
  /\ reason = "judge" => /\ judgement.of = drafts /\ judgement.scored
                         /\ judgement.decision = "FAIL" /\ mode.judge = "enforce"

\* With the drift gate enforcing, a published text says what its draft says.
ToneKeepsFacts == Published /\ mode.tone = "enforce" => ~saved.drifted

\* Whatever the models answer, the workflow of a cluster ends.
Terminates == <>(node \in Final)

=============================================================================
