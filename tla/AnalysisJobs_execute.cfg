SPECIFICATION Spec
CONSTANTS
  Workers = {w1, w2}
  Executors = {x1}
  Controllers = {}
  Requests = {}
  Crashes = FALSE
  Calm = {FALSE}
  MaxAttempts = 1
INVARIANT OneRunner
CHECK_DEADLOCK FALSE
