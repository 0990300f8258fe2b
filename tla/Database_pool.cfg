\* Two players, each saved up to twice, a pool of three statements and two
\* workers.  Players that are gone and workers that wait may stop the system.
SPECIFICATION Spec
CONSTANTS
  Players = {p1, p2}
  Statements = {s1, s2, s3}
  NumWorkers = 2
  MaxSaves = 1
  SpuriousWakeups = TRUE
  None = None
SYMMETRY Symmetry
INVARIANTS TypeOK StatementHasOneHolder FutureIsForItsPlayer
CHECK_DEADLOCK FALSE
