SPECIFICATION ConfigSpec
CONSTANTS
    Procs = {p1, p2}
    Localhost = localhost
    CapitalLocalhost = LOCALHOST
    Remote = remote
    CapitalRemote = REMOTE
    None = None
    Names <- MC_Names
    Lower <- MC_Lower
    Targets <- MC_Targets
    Seeds <- MC_Seeds
    MaxStarts = 3
    MaxFaults = 2
SYMMETRY Symmetry
CHECK_DEADLOCK FALSE
INVARIANTS
    RegistryIsSequential
    AnswersAgree
    MigrationKeepsClients
