SPECIFICATION Spec
CONSTANTS
    Clis = {x1, x2}
    Pids = {q1, q2}
    Ports = {default, other}
    Default = default
    Binary = agent
    Programs = {vim}
    None = None
    MaxCommands = 3
    MaxEvents = 2
SYMMETRY Symmetry
INVARIANTS TypeOK AddedIsServed DeletedIsGone
PROPERTY OnlyOwnedStopped
CHECK_DEADLOCK FALSE
