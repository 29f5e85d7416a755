------------------------------- MODULE BodyLife -------------------------------
(***************************************************************************)
(* What ADR 0023 promises about the body of an article, apart from how the *)
(* collector, the extractor and the retention job keep the promise: a body *)
(* arrives at most once, is never replaced by another, goes only when its  *)
(* term is over, never comes back, and does go.  The bodies of sources     *)
(* that may be redistributed stay.                                         *)
(***************************************************************************)
CONSTANTS Rows,    \* the rows of news_raw
          Exempt,  \* rows of sources that may be redistributed
          Texts,   \* the possible bodies
          NoText   \* no body

VARIABLES stage,   \* "none": nothing yet; "held": a body; "gone": purged
          text,    \* the body of a row that holds one
          due      \* the term of the row is over

lifeVars == <<stage, text, due>>

LifeInit ==
  /\ stage \in [Rows -> {"none", "held"}]
  /\ text \in [Rows -> Texts \cup {NoText}]
  /\ \A r \in Rows : (stage[r] = "held") = (text[r] # NoText)
  /\ due = [r \in Rows |-> FALSE]

Arrive(r) ==
  /\ stage[r] = "none" /\ text'[r] \in Texts
  /\ stage' = [stage EXCEPT ![r] = "held"]
  /\ \A s \in Rows \ {r} : text'[s] = text[s]
  /\ UNCHANGED due

\* time goes by for all rows together
ComeDue ==
  /\ \A r \in Rows : due[r] => due'[r]
  /\ UNCHANGED <<stage, text>>

\* one transaction of the retention job may empty many rows
Purge ==
  /\ \A r \in Rows :
       \/ stage'[r] = stage[r] /\ text'[r] = text[r]
       \/ /\ due[r] /\ r \notin Exempt /\ stage[r] # "gone"
          /\ stage'[r] = "gone" /\ text'[r] = NoText
  /\ UNCHANGED due

LifeNext == Purge \/ ComeDue \/ \E r \in Rows : Arrive(r)

(* The term is kept: a body that has outlived it is eventually emptied.    *)
TermIsKept ==
  \A r \in Rows \ Exempt : (stage[r] = "held" /\ due[r]) ~> (stage[r] = "gone")

LifeSpec == LifeInit /\ [][LifeNext]_lifeVars /\ TermIsKept
=============================================================================
