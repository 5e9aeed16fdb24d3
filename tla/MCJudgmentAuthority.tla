------------------------ MODULE MCJudgmentAuthority ------------------------
(***************************************************************************)
(* The judgment authority for TLC: runs are interchangeable, no property   *)
(* tells one from another.                                                 *)
(***************************************************************************)
EXTENDS JudgmentAuthority, TLC

Symmetry == Permutations(Runs)
============================================================================
