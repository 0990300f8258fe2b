\* A settled company mate of the box's owner, who hunts a mob and finds the box,
\* and a player who comes and goes; two neighbouring grids.
SPECIFICATION FairSpec
CONSTANTS
  NumCells = 2
  Adjacent <- Row
  BoxCell = 2
  Players = {p1, p2}
  Mobs = {m1}
  Box = box
  Mates = {p1}
  Stayers = {p1}
  Settled = {p1}
  Leavers = {p2}
  Targeting = {p1}
  Hunters = {p1}
  Away = away
  Gone = gone
  None = none
INVARIANTS
  TypeOK
  ColourReachesStayers
PROPERTIES
  OnlyDeadAreOrphaned
  BoxIsShown
\* A use after free stops the model.
CHECK_DEADLOCK FALSE
