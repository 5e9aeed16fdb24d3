---------------------------- MODULE MCVaultMemory ----------------------------
(* Instances of VaultMemory for TLC. *)
EXTENDS VaultMemory, TLC

CONSTANTS g1, g2, e1, e2, e3, s1, s2, p1, p2, t1

MCMembers == g1 :> {e1, e2} @@ g2 :> {e2, e3}

Found(tile, c7, supersedes, against, overlay) ==
  [shape |-> t1 :> tile @@ C7 :> c7, supersedes |-> supersedes, against |-> against, overlay |-> overlay]

\* One scan lights the tile and supersedes a member of one group; the other keeps
\* the tile, supersedes a member of both groups and contradicts C7 with it.
MCProposal ==
  s1 :> Found("lit", "kept", {e1}, {}, TRUE) @@ s2 :> Found("kept", "contradicted", {e2}, {e2}, TRUE)

Symmetry == Permutations({p1, p2})
=============================================================================
