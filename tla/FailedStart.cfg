SPECIFICATION Spec
CONSTANTS
    Clis = {x1}
    Pids = {q1, q2}
    Ports = {default, other}
    Default = default
    Binary = agent
    Programs = {vim}
    None = None
    MaxCommands = 1
    MaxEvents = 0
SYMMETRY Symmetry
INVARIANT FailedStartIsStopped
CHECK_DEADLOCK FALSE
