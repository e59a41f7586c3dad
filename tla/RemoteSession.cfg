SPECIFICATION Spec
CONSTANTS
    Conns = {c1, c2}
    NoConn = NoConn
    MaxCmds = 3
    MaxTicks = 2
CHECK_DEADLOCK FALSE
INVARIANTS
    LeavesNothing
    NoErrorLost
PROPERTIES
    AttachReturns
    EachConnectionIsServed
    ForwardEnds
