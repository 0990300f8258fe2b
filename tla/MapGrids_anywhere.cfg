\* Clients fly anywhere, out of bounds included.
SPECIFICATION FairSpec
CONSTANTS
  m1 = m1
  m2 = m2
  near = near
  far = far
  Maps = {m1, m2}
  Cells = {near, far}
  Outside = outside
  PortalCell <- Portals
  ToMap <- OtherMap
  ToCell <- Arrivals
  Players = {p1}
  Positions = {near, far, outside}
INVARIANTS
  TypeOK
  AliveIsUpdated
  HeldByOwnGridOnly
  GetGridIsRight
  JumpsFromOwnMap
PROPERTY JumpCompletes
\* A use after free stops the model.
CHECK_DEADLOCK FALSE
