SPECIFICATION FairSpec
CONSTANTS
  e1 = e1
  e2 = e2
  c1 = c1
  c2 = c2
  Executors <- MCExecutors
  Plans <- MCPlans
  Contents <- MCContents
  NoResult = NoResult
  LeaseTicks = 2
  MaxWait = 1
  MaxVersion = 1
  MaxGeneration = 4
  MaxFaults = 2
  Timings = {FALSE, TRUE}
INVARIANTS
  OneHolder
  OneBuilder
  MaterializesStored
  ResultOnParent
  CompletedMaterialized
  ReplyTruthful
PROPERTIES
  FencedWrite
  LiveLeaseKept
  ImplementsOutcome
  EventuallySettled
CHECK_DEADLOCK FALSE
