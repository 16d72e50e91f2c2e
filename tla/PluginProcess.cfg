SPECIFICATION Spec
CONSTANT Pings = 5
INVARIANTS TypeOK ExitCodeIsTrue
PROPERTY SignalEndsCommand
CHECK_DEADLOCK FALSE
