------------------------------- MODULE DbData -------------------------------
(***************************************************************************)
(* The content of the CDS database (internal/db): the `data` struct that   *)
(* one `cds` process holds in memory and db.json holds on disk, and the    *)
(* operations of the db package on it.                                     *)
(*                                                                         *)
(* Every setter of the package normalizes the names it stores, and reading *)
(* the file normalizes it, so in memory names are unique and canonical:    *)
(* the lists of rows are sets of names with one function per column.  The  *)
(* columns of an absent row hold their zero value.  The only name that is  *)
(* kept as the user spelled it is the selected project (SetProject), which *)
(* is why the context is a spelling and not a name.                        *)
(***************************************************************************)
EXTENDS Naturals, FiniteSets

CONSTANTS
    ProjectNames,    \* normalized project names
    HostNames,       \* normalized host names
    ContainerNames,  \* trimmed container names
    ContainerInfos,  \* what a container row records besides its name
    DeletedInfos,    \* those whose State or ExpectedState is "deleted"
    Settings,        \* the boolean options of a project (ssh tunnel, NAS, ...)
    HostAttrs,       \* the optional information of a host row (key, runtime, ...)
    None             \* the empty string: no host, no selected project, no row

ASSUME NoneAssumption ==
    None \notin ProjectNames \cup HostNames \cup ContainerInfos

ASSUME DeletedInfosAssumption == DeletedInfos \subseteq ContainerInfos

(***************************************************************************)
(* A spelling of a project name on a command line: the canonical one, or   *)
(* one with surrounding blanks.  normalizeProjectName is strings.TrimSpace.*)
(***************************************************************************)
Spellings == ProjectNames \X {"exact", "padded"}

Exact(p) == <<p, "exact">>

\* Mutant: the name is stored as the user spelled it.
normalizeProjectName_Untrimmed(s) == s

normalizeProjectName(s) == s[1]

Data ==
    [projects     : SUBSET ProjectNames,
     host         : [ProjectNames -> HostNames \cup {None}],
     containers   : [ProjectNames -> [ContainerNames -> ContainerInfos \cup {None}]],
     settings     : [ProjectNames -> SUBSET Settings],
     hosts        : SUBSET HostNames,
     hostProjects : [HostNames -> SUBSET ProjectNames],
     inUse        : SUBSET HostNames,
     isDefault    : SUBSET HostNames,
     hostAttrs    : [HostNames -> SUBSET HostAttrs],
     context      : Spellings \cup {None}]

NoContainers == [c \in ContainerNames |-> None]

EmptyData ==
    [projects     |-> {},
     host         |-> [p \in ProjectNames |-> None],
     containers   |-> [p \in ProjectNames |-> NoContainers],
     settings     |-> [p \in ProjectNames |-> {}],
     hosts        |-> {},
     hostProjects |-> [h \in HostNames |-> {}],
     inUse        |-> {},
     isDefault    |-> {},
     hostAttrs    |-> [h \in HostNames |-> {}],
     context      |-> None]

-----------------------------------------------------------------------------
(* Lookups *)

HasProject(d, s) == normalizeProjectName(s) \in d.projects

HasHost(d, h) == h \in d.hosts

ProjectHostName(d, p) == IF p \in d.projects THEN d.host[p] ELSE None

\* Containers marked deleted are hidden from every command.
ProjectContainersName(d, p) ==
    {c \in ContainerNames :
        d.containers[p][c] \in ContainerInfos \ DeletedInfos}

IsCurrentProject(d, s) == d.context = s

GetDefaultHostName(d) ==
    IF d.isDefault = {} THEN None ELSE CHOOSE h \in d.isDefault : TRUE

-----------------------------------------------------------------------------
(* Projects *)

AddProject(d, s) ==
    LET p == normalizeProjectName(s) IN
    [d EXCEPT !.projects     = @ \cup {p},
              !.host[p]       = None,
              !.containers[p] = NoContainers,
              !.settings[p]   = {}]

\* The rows of hosts and the context keep naming the project.
RemoveProjectRow(d, p) ==
    [d EXCEPT !.projects     = @ \ {p},
              !.host[p]       = None,
              !.containers[p] = NoContainers,
              !.settings[p]   = {}]

DeleteProject(d, s) == RemoveProjectRow(d, normalizeProjectName(s))

RemoveProject(d, s) == RemoveProjectRow(d, normalizeProjectName(s))

RemoveHostAndContainersFromProject(d, p) ==
    [d EXCEPT !.containers[p] = NoContainers, !.host[p] = None]

\* A row of that name is kept as it is.
AddContainerInfo(d, p, c, i) ==
    IF d.containers[p][c] # None THEN d
    ELSE [d EXCEPT !.containers[p] = [@ EXCEPT ![c] = i]]

UpsertProjectContainer(d, p, c, i) ==
    [d EXCEPT !.containers[p] = [@ EXCEPT ![c] = i]]

RemoveProjectContainers(d, p, C) ==
    [d EXCEPT !.containers[p] =
        [c \in ContainerNames |-> IF c \in C THEN None ELSE @[c]]]

SetProjectHost(d, p, h) == [d EXCEPT !.host[p] = h]

\* SetOrchestrationRequested, SetProjectRegistryUsage,
\* SetProjectSshTunnelNeeded and SetNasRequested only ever set their option.
SetProjectSetting(d, p, o) == [d EXCEPT !.settings[p] = @ \cup {o}]

-----------------------------------------------------------------------------
(* Hosts *)

AddHost(d, h) == [d EXCEPT !.hosts = @ \cup {h}]

RemoveHostFromHostList(d, h) ==
    [d EXCEPT !.hosts           = @ \ {h},
              !.hostProjects[h] = {},
              !.inUse           = @ \ {h},
              !.isDefault       = @ \ {h},
              !.hostAttrs[h]    = {}]

\* Mutants: the previous default is not cleared; an unknown host is accepted.
SetHostToDefault_Adds(d, h) ==
    IF h \in d.hosts THEN [d EXCEPT !.isDefault = @ \cup {h}] ELSE d

\* An unknown host leaves the previous default in place.
SetHostToDefault(d, h) ==
    IF h \in d.hosts THEN [d EXCEPT !.isDefault = {h}] ELSE d

\* Mutant: only the flag of the host is updated.
RemoveProjectFromHost_FlagOnly(d, h, s) == [d EXCEPT !.inUse = @ \ {h}]

RemoveProjectFromHost(d, h, s) ==
    LET left == d.hostProjects[h] \ {normalizeProjectName(s)} IN
    [d EXCEPT !.hostProjects[h] = left,
              !.inUse = IF left = {} THEN @ \ {h} ELSE @ \cup {h}]

RegisterProjectInHost(d, h, s) ==
    [d EXCEPT !.hostProjects[h] = @ \cup {normalizeProjectName(s)},
              !.inUse           = @ \cup {h}]

\* UpdateHostKey, SetHostRuntime, SetOrcInfo... and SetHostAgentOwnership.
SetHostAttr(d, h, a) == [d EXCEPT !.hostAttrs[h] = @ \cup {a}]

ClearHostAgentOwnership(d, h, a) == [d EXCEPT !.hostAttrs[h] = @ \ {a}]

\* Unmaps the projects the row lists, then drops the row.
RemoveHostFromConfig(d, h) ==
    RemoveHostFromHostList(
        [d EXCEPT !.host = [p \in ProjectNames |->
            IF p \in d.hostProjects[h] THEN None ELSE @[p]]], h)

-----------------------------------------------------------------------------
(* Selected project *)

SetProject(d, s) == [d EXCEPT !.context = s]

FlushContext(d) == [d EXCEPT !.context = None]

-----------------------------------------------------------------------------
(***************************************************************************)
(* normalize: run before every write of db.json and after every read.      *)
(* Rows of projects and containers are already canonical in memory; host   *)
(* rows a project refers to are added, and a host keeps a project only if  *)
(* the project exists and is mapped to that host or to none.               *)
(***************************************************************************)
mappedTo(d, h) == {p \in d.projects : d.host[p] = h}

\* Mutant: projects that moved to another host stay listed.
normalizeHostProjects_Unfiltered(d, h) ==
    (d.hostProjects[h] \cap d.projects) \cup mappedTo(d, h)

normalizeHostProjects(d, h) ==
    {p \in (d.hostProjects[h] \cap d.projects) \cup mappedTo(d, h) :
        d.host[p] \in {None, h}}

normalizeHosts(d) ==
    LET listed == [h \in HostNames |-> normalizeHostProjects(d, h)] IN
    [d EXCEPT !.hosts        = @ \cup {h \in HostNames : mappedTo(d, h) # {}},
              !.hostProjects = listed,
              !.inUse        = {h \in HostNames : listed[h] # {}}]

normalizeContext(d) ==
    [d EXCEPT !.context =
        IF @ # None /\ normalizeProjectName(@) \in d.projects
        THEN Exact(normalizeProjectName(@)) ELSE None]

normalize(d) == normalizeContext(normalizeHosts(d))
=============================================================================
