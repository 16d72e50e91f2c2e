SPECIFICATION DarwinSpec
CONSTANT MaxBatches = 3
INVARIANTS TypeOK AllReleased RunsAsAsked WaiterOutlivesTunnel
PROPERTIES WaiterServesAndEnds InterruptEnds UsesWatchAsExpected ChangeRestartsOnce
CHECK_DEADLOCK FALSE
