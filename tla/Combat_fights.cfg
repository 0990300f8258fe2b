\* Two players, who may attack each other, and an aggressive mob, which follows
\* whoever comes near and attacks.
SPECIFICATION FairSpec
CONSTANTS
  Players = {p1, p2}
  Mobs = {m1}
  Aggressive = {m1}
  Residents = {p1}
  Travellers = {p1}
  Cells = {c1}
  Outside = outside
  Away = away
  Nowhere = nowhere
  None = none
INVARIANTS
  TaggedFightsTagger
  AttackersHaveTargets
  DeadMobsAreLeft
PROPERTY ChaseEnds
CHECK_DEADLOCK FALSE
