SPECIFICATION AccountSpec
CONSTANTS
  Sessions = {s1, s2, s3}
  Kinds <- TwoKinds
  Drops <- SomeDrops
  Levels <- ThreeLevels
  Reward = 3
  MaxCargo = 3
  Word = 8
  Byte = 4
  Selections = {0, 1, 3}
  MaxChanges = 3
  MaxSaves = 2
  MaxCrashes = 1
  Unknown = Unknown
SYMMETRY SessionSymmetry
INVARIANTS
  AccountTypeOK
  CargoIsSum
  RestoredAsLeft
CHECK_DEADLOCK FALSE
