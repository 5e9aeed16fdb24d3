---------------------------- MODULE BrandMemory ----------------------------
(***************************************************************************)
(* What the Vault promises of one brand's canonical memory, whoever writes *)
(* it: a policy lights tiles nothing lit before it, only a human decision  *)
(* replaces a lit tile or accepts a C7 group, a group leaves the memory    *)
(* only by being reopened, and what reopened it bars its replacement.      *)
(***************************************************************************)
EXTENDS Naturals

CONSTANTS Tiles, Groups, NoGroup, Evidence,
  Members   \* the evidence each group is made of

VARIABLES
  version,  \* how many adoptions the memory is made of
  rows,     \* the authority each tile is lit by, "unlit" without an effective basis
  group,    \* the accepted C7 group
  barred    \* the evidence a reopening found superseded

vars == <<version, rows, group, barred>>

Init == version = 0 /\ rows = [t \in Tiles |-> "unlit"] /\ group = NoGroup /\ barred = {}

Fill ==
  /\ \E lit \in SUBSET {t \in Tiles : rows[t] = "unlit"} :
       rows' = [t \in Tiles |-> IF t \in lit THEN "policy" ELSE rows[t]]
  /\ version' = version + 1
  /\ UNCHANGED <<group, barred>>

Accept ==
  /\ group = NoGroup
  /\ group' \in {g \in Groups : Members[g] \cap barred = {}}
  /\ barred' = {}

Decide ==
  /\ \E decided \in SUBSET Tiles :
       rows' = [t \in Tiles |-> IF t \in decided THEN "human" ELSE rows[t]]
  /\ version' = version + 1
  /\ Accept \/ UNCHANGED <<group, barred>>

Reopen ==
  /\ group # NoGroup
  /\ group' = NoGroup
  /\ barred' \in (SUBSET Members[group]) \ {{}}
  /\ version' = version + 1
  /\ UNCHANGED rows

Next == Fill \/ Decide \/ Reopen

Spec == Init /\ [][Next]_vars
=============================================================================
