\* Two projects, each with its own container, on two hosts, with rename.
SPECIFICATION Spec
CONSTANTS
    p1 = p1  p2 = p2
    c1 = c1  c2 = c2  c3 = c3
    ProjectNames = {p1, p2}
    HostNames = {h1, h2}
    Localhost = h1
    ContainerNames = {c1, c2, c3}
    ContainerInfos <- Infos
    DeletedInfos = {}
    Settings = {}
    HostAttrs = {}
    None = None
    DeployName <- OwnName
    NewNames = {c3}
    MaxCommands = 3
    MaxEvents = 1
SYMMETRY Places
CHECK_DEADLOCK FALSE
INVARIANTS
    ClearedMeansGone
    DrainedIsFree
    NoContainerForgotten
    ReportedIsTrue
    SshFollowsDb
PROPERTIES
    OwnNamesOnly
