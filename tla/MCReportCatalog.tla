-------------------------- MODULE MCReportCatalog --------------------------
(* Instances of ReportCatalog for TLC: two contents of each identity.      *)
EXTENDS ReportCatalog, TLC

CONSTANTS p1, p2, i1, i2, a1, a2, b1, b2

MCIdOf == (a1 :> i1) @@ (a2 :> i1) @@ (b1 :> i2) @@ (b2 :> i2)

Symmetry == Permutations(Processes) \cup Permutations({a1, a2}) \cup Permutations({b1, b2})
=============================================================================
