SPECIFICATION Spec
CONSTANTS
  Runs = {r1, r2}
  Scans = {1, 2}
  Scores = {1, 2}
  MaxEvents = 4
  MaxStored = 2
SYMMETRY Symmetry
INVARIANTS AnswerTrue NeverForks
PROPERTY ImplementsPromise
