\* The queue holds every change: only the watcher's directories matter.
CONSTANTS
  Root = Root
  Subdirs = {lib}
  QueueLimit = 3
  MaxChanges = 3
  AddMayFail = FALSE
SPECIFICATION FairSpec
PROPERTY EveryChangeRestarts
CHECK_DEADLOCK FALSE
