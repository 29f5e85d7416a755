------------------------------ MODULE MCJobRuns -----------------------------
(* Two executions of one job; one unit of work tells the stats of a        *)
(* checkpoint from none.  No symmetry: a liveness property is checked.     *)
EXTENDS JobRuns
=============================================================================
