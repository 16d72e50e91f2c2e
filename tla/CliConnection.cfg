SPECIFICATION CliSpec
CONSTANT MaxCalls = 3
INVARIANTS CliTypeOK OkMeansRanAsAsked OutputIsOwn
CHECK_DEADLOCK FALSE
