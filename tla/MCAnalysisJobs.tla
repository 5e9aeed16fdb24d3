---------------------------- MODULE MCAnalysisJobs ----------------------------
(***************************************************************************)
(* The job queue for TLC: workers, executors and requests are symmetric.   *)
(***************************************************************************)
EXTENDS AnalysisJobs, TLC

Symmetry == Permutations(Workers) \cup Permutations(Executors) \cup Permutations(Controllers)
=============================================================================
