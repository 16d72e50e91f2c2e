\* Four changes: one subdirectory can be removed, recreated and edited, and
\* another change can overlap; a queue of two overflows.
CONSTANTS
  Root = Root
  Subdirs = {lib}
  QueueLimit = 2
  MaxChanges = 4
  AddMayFail = TRUE
SPECIFICATION FairSpec
INVARIANTS TypeOK NoLostChange
PROPERTIES KeepsWatchContract QueuedChangeRestarts StopEndsLoop
CHECK_DEADLOCK FALSE
