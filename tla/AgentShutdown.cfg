SPECIFICATION ShutdownSpec
CONSTANTS
    Calls = {c1, c2}
    MaxSignals = 2
INVARIANT ReturnsWhenIdle
PROPERTY Terminates
CHECK_DEADLOCK FALSE
