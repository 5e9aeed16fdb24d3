SPECIFICATION FairSpec
CONSTANTS
  Keys = {k1, k2, k3}
  Faults = {FALSE, TRUE}
  Crashes = TRUE
INVARIANTS OneActive OwnerWorks FailedPublishedNothing
PROPERTIES SourceKept EventuallyFinal
CHECK_DEADLOCK FALSE
