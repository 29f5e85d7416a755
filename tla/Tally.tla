------------------------------- MODULE Tally -------------------------------
(***************************************************************************)
(* Sums over numbered items, as the ledger's sum(...) over its open        *)
(* reservations.  Total is a recursive function, so that the proof system  *)
(* can reason about it; SpendLedgerProofs has the laws it obeys.           *)
(***************************************************************************)
EXTENDS Integers

Partial(w, n) ==
  LET upto[i \in 0..n] == IF i = 0 THEN 0 ELSE upto[i - 1] + w[i] IN upto

\* w[1] + ... + w[n]
Total(w, n) == Partial(w, n)[n]
=============================================================================
