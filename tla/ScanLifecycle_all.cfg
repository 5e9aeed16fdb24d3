SPECIFICATION FairSpec
CONSTANTS
  c1 = c1
  c2 = c2
  Callers <- MCCallers
  Modes <- MCAllModes
  Faults = {FALSE, TRUE}
  Crashes = TRUE
INVARIANTS CancelFinal Attended AuthorityStands RowSettles OneAnswer
PROPERTIES RowFinal NoLateActivation EventuallyClosed
CHECK_DEADLOCK FALSE
