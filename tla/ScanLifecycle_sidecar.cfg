SPECIFICATION Spec
CONSTANTS
  c1 = c1
  c2 = c2
  Callers <- MCCallers
  Modes <- MCVault
  Faults = {FALSE}
  Crashes = FALSE
SYMMETRY Symmetry
INVARIANTS ActivatedStands
CHECK_DEADLOCK FALSE
