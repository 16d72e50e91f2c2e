\* A short and a longer droplet, so that a file can be shortened and lengthened under
\* its users.  Four commands: a stage, one that overlaps it, a push of what
\* they leave, and a pull of what was pushed.
CONSTANTS
  short = short
  long = long
  Procs = {p, q}
  Versions <- MCVersions
  Pieces <- MCPieces
  NoLength = FALSE
  MaxCommands = 4
SPECIFICATION Spec
INVARIANTS TypeOK DamageHasCause
PROPERTY SuccessMeansWritten
CHECK_DEADLOCK FALSE
