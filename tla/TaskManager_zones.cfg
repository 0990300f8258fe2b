\* Two tasks that do not return, as those of ZoneUpdater::Activate.
SPECIFICATION FairSpec
CONSTANTS
  Tasks = {t1, t2}
  Endless = {t1, t2}
  NumWorkers = 2
  MaxOptimize = 1
PROPERTY RegisteredTaskRuns
CHECK_DEADLOCK FALSE
