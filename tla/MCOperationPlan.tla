-------------------------- MODULE MCOperationPlan --------------------------
(* Instances of OperationPlan for TLC. *)
EXTENDS OperationPlan

CONSTANTS e1, e2, c1, c2

MCExecutors == {e1, e2}
MCContents == {c1, c2}

MCIncrementalPlans ==
  [mode : {"incremental_refresh"}, kind : {"candidate_overlay", "no_delta"}, parent : {0}]

MCPlans == MCIncrementalPlans \cup [mode : {"diagnostic_full"}, kind : {"no_delta"}, parent : {0}]
=============================================================================
