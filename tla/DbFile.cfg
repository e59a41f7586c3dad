\* Every file of at most two project rows and two host rows drawn from the
\* shapes of MC_DbFile (duplicated, blank, differently spelled, dangling),
\* and of three project rows without hosts.
SPECIFICATION Spec
CONSTANTS
    p1 = p1  p2 = p2  ghost = ghost
    h1 = h1  h2 = h2
    c1 = c1  running = running  exited = exited
    key = key  owner = owner  g1 = g1
    ProjectNames = {p1, p2}
    HostNames = {h1, h2}
    ContainerNames = {c1}
    ContainerInfos = {running, exited}
    DeletedInfos = {}
    Settings = {"nas"}
    HostAttrs = {key, owner}
    HostSettings = {key}
    RegistryNames = {g1}
    None = None
    Files <- MCFiles
INVARIANTS
    AgreesWithMeaning
    RowsInOrder
PROPERTIES
    SecondPassIsIdentity
CHECK_DEADLOCK FALSE
