\* Two commands that may overlap, of one app or of two, and one change by users.
CONSTANTS
  Procs = {p, q}
  Apps = {a, b}
  Values = {v, w}
  MaxCommands = 2
  MaxChanges = 1
SPECIFICATION Spec
SYMMETRY Symmetry
INVARIANTS TypeOK PulledIsRemote
PROPERTIES OthersAreKept PushedIsRunning
CHECK_DEADLOCK FALSE
