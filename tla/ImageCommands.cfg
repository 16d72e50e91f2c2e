SPECIFICATION Spec
CONSTANTS
  Buildpacks = {b1, b2}
  MaxNamed = 2
  MaxCommands = 3
  MaxPieces = 2
  MaxReports = 3
INVARIANTS TypeOK BuildsWithAll CacheIsLatest NeverMixed
PROPERTIES PullIsHeard
CHECK_DEADLOCK FALSE
