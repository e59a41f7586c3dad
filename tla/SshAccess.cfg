SPECIFICATION Spec
CONSTANTS
    Procs = {x1, x2}
    Projects = {p1, p2}
    None = None
    MaxKeys = 4
    MaxCommands = 4
    MaxEvents = 2
SYMMETRY Symmetry
CHECK_DEADLOCK FALSE
INVARIANTS
    BothSidesAgree
    SharedCanBeRevoked
    SharedKeyWorks
