---------------------------- MODULE MCResumeActions ----------------------------
(***************************************************************************)
(* The exact resumes for TLC: keys are interchangeable.                    *)
(***************************************************************************)
EXTENDS ResumeActions, TLC

Symmetry == Permutations(Keys)
=============================================================================
