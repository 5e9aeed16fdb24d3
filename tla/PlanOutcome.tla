---------------------------- MODULE PlanOutcome ----------------------------
(***************************************************************************)
(* What an operation plan promises, whoever executes it and however often: *)
(* a value is stored at most once, a stored value is what gets completed,  *)
(* and completed and superseded are final.                                 *)
(***************************************************************************)
CONSTANTS Values, NoValue

VARIABLES
  phase,  \* "open", "stored", "completed" or "superseded"
  value   \* the stored value

vars == <<phase, value>>

Init == phase = "open" /\ value = NoValue

Store ==
  /\ phase = "open"
  /\ value' \in Values
  /\ phase' \in {"stored", "superseded"}

Complete == phase = "stored" /\ phase' = "completed" /\ UNCHANGED value

Supersede == phase \in {"open", "stored"} /\ phase' = "superseded" /\ UNCHANGED value

Next == Store \/ Complete \/ Supersede

Spec == Init /\ [][Next]_vars
=============================================================================
