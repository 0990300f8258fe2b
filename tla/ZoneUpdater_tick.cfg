\* Three zones and three workers: a worker can be late for its own wakeup.
SPECIFICATION FairSpec
CONSTANTS
  NumZones = 3
  Workers = {w1, w2, w3}
  SpuriousWakeups = TRUE
  Unloads = TRUE
INVARIANTS
  PendingAccounting
  WorldPhaseExclusive
  ZoneHasOneUpdater
PROPERTIES
  TickSpec
  TickCompletes
  WorkersExit
CHECK_DEADLOCK FALSE
