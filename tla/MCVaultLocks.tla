---------------------------- MODULE MCVaultLocks ----------------------------
(* Instances of VaultLocks for TLC: two scans of a brand, or of two brands. *)
EXTENDS VaultLocks, TLC

CONSTANTS s1, s2, s3, t1, t2, t3, brand, other

MCBrandOf == (s1 :> brand) @@ (s2 :> brand) @@ (s3 :> other)

\* Both the repository and the raw acquisition write captures.
MCBothPaths == {Kinds}

Symmetry == Permutations({s1, s2}) \cup Permutations(Transactions)
=============================================================================
