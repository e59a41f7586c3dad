SPECIFICATION Spec
CONSTANTS
    Clis = {c1, c2}
    Ports = {8087, 9000}
    Default = 8087
    None = None
    MaxGen = 2
    MaxCommands = 3
    MaxEvents = 1
SYMMETRY Symmetry
CHECK_DEADLOCK FALSE
INVARIANTS
    CertsAgree
    LastAddServes
