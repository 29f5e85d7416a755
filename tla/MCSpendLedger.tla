--------------------------- MODULE MCSpendLedger ---------------------------
(* At caps of 3 in all and 2 a day and a run each cap refuses one pair of   *)
(* these requests that the other two would let through.                     *)
EXTENDS SpendLedger
MCCalls == {[worst |-> 1, run |-> "r1", day |-> "d1"], [worst |-> 2, run |-> "r2", day |-> "d1"],
            [worst |-> 2, run |-> "r1", day |-> "d2"]}
=============================================================================
