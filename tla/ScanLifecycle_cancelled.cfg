SPECIFICATION Spec
CONSTANTS
  c1 = c1
  c2 = c2
  Callers <- MCCallers
  Modes <- MCLegacy
  Faults = {FALSE}
  Crashes = FALSE
SYMMETRY Symmetry
PROPERTIES CancelledTerminal
CHECK_DEADLOCK FALSE
