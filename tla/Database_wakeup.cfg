\* One player, one worker, and no wakeup without a notification.
SPECIFICATION FairSpec
CONSTANTS
  Players = {p1}
  Statements = {s1, s2}
  NumWorkers = 1
  MaxSaves = 1
  SpuriousWakeups = FALSE
  None = None
PROPERTY OperatorsAreExecuted
CHECK_DEADLOCK FALSE
