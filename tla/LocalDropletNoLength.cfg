\* A server that sends the droplet without its length: one pull is enough.
CONSTANTS
  short = short
  long = long
  Procs = {p, q}
  Versions <- MCVersions
  Pieces <- MCPieces
  NoLength = TRUE
  MaxCommands = 2
SPECIFICATION Spec
PROPERTY SuccessMeansWritten
CHECK_DEADLOCK FALSE
