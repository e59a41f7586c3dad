\* Two processes that overlap in every way, on all columns of one project
\* and the references between it and two hosts.
SPECIFICATION Spec
CONSTANTS
    p1 = p1  p2 = p2
    h1 = h1  h2 = h2
    c1 = c1
    running = running  deleted = deleted
    ProjectNames = {p1}
    HostNames = {h1, h2}
    ContainerNames = {c1}
    ContainerInfos = {running}
    DeletedInfos = {}
    Settings = {sshTunnel}
    HostAttrs = {owner}
    Owner = owner
    None = None
    NoFile = NoFile
    Truncated = Truncated
    x1 = x1  x2 = x2
    Procs = {x1, x2}
    MaxOps = 2
SYMMETRY Perms
CONSTRAINTS Sparse Turns
INVARIANTS
    TypeOK
    OneDefault
    DiskIntegrity
    ReloadIsIdentity
