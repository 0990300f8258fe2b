\* Two workers and two tasks that return.
SPECIFICATION FairSpec
CONSTANTS
  Tasks = {t1, t2}
  Endless = {}
  NumWorkers = 2
  MaxOptimize = 2
INVARIANTS
  TypeOK
  RegisteredIsListed
PROPERTIES
  PoppedTaskStops
  RegisteredTaskRuns
CHECK_DEADLOCK FALSE
