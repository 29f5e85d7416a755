---------------------------- MODULE MCLedgerFile ----------------------------
(* Two calls fit under the cap with their worst cost, a third does not.      *)
EXTENDS LedgerFile
=============================================================================
