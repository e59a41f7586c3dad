SPECIFICATION Spec
CONSTANTS
    Calls = {s1, s2}
    Names = {c1, c2}
    Projects = {p1}
    Users = {u1, u2}
    Contents = {x, y}
    Plans <- MCPlans
    None = None
    c1 = c1
    c2 = c2
    p1 = p1
    u1 = u1
    u2 = u2
    x = x
    y = y
    MaxCalls = 3
    MaxFaults = 1
SYMMETRY Symmetry
INVARIANTS
    DeployedIsComplete
    FailsForCause
    OwnKeyInstalled
    StatusWasTrue
