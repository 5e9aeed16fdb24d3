SPECIFICATION FairSpec
CONSTANTS
  Workers = {w1, w2}
  Executors = {x1}
  Controllers = {c1, c2}
  Requests = {"cancel", "retry"}
  Crashes = TRUE
  Calm = {FALSE, TRUE}
  MaxAttempts = 2
INVARIANTS ResultIsNewest OnlyOvertaken
PROPERTIES CancelStops EventuallyOver
CHECK_DEADLOCK FALSE
