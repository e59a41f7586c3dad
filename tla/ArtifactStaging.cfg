\* Two streams that upload to the same path, of up to two bytes, while the
\* area is being removed and the agent may be killed.
SPECIFICATION Spec
CONSTANTS
    b1 = b1  b2 = b2
    Ids = {i1}
    Streams = {s1, s2}
    Bytes = {b1, b2}
    Requests <- MCRequests
    MaxCrashes = 1
    Absent = Absent
SYMMETRY Perms
INVARIANTS
    StagedIsDeclared
    TempsAreOwned
    NothingOutside
PROPERTIES
    StoreSpec
