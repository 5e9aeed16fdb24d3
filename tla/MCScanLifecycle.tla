-------------------------- MODULE MCScanLifecycle --------------------------
(* Small instances of ScanLifecycle. *)
EXTENDS ScanLifecycle, TLC

CONSTANTS c1, c2

MCCallers == {c1, c2}
MCAllModes == {"legacy", "vault", "authority"}
MCVault == {"vault"}
MCLegacy == {"legacy"}

Symmetry == Permutations(MCCallers)
=============================================================================
