-------------------------------- MODULE CdsDb --------------------------------
(***************************************************************************)
(* The life of db.json: `cds` processes that load it, change their own     *)
(* copy through the db package and, when the command succeeds, normalize   *)
(* and write it back (cmd/client/cds.go main, internal/db/instance.go).    *)
(*                                                                         *)
(* A command that fails exits through os.Exit, which skips the deferred    *)
(* Save.  The write itself is a plain WriteFile: the file is truncated and *)
(* then written, so another process or a crash can observe it empty.       *)
(* There is no lock between processes.                                     *)
(***************************************************************************)
EXTENDS DbData

CONSTANTS
    Procs,       \* concurrent cds processes
    NoFile,      \* db.json does not exist
    Truncated,   \* db.json exists and holds no JSON value
    Owner,       \* the host attribute that records agent ownership
    MaxOps       \* bound: db operations of one command

ASSUME FileAssumption ==
    /\ NoFile \notin Data
    /\ Truncated \notin Data

ASSUME MaxOpsAssumption == MaxOps \in Nat

VARIABLES
    disk,   \* the content of db.json
    pc,     \* per process: "idle", "running" or "saving"
    mem,    \* per process: instance().d
    ops     \* per process: operations done (bounded)

vars == <<disk, pc, mem, ops>>

-----------------------------------------------------------------------------
Init ==
    /\ disk = NoFile
    /\ pc = [x \in Procs |-> "idle"]
    /\ mem = [x \in Procs |-> EmptyData]
    /\ ops = [x \in Procs |-> 0]

(***************************************************************************)
(* db.Load: an absent file is a first run; anything else is decoded and    *)
(* normalized.  A file that cannot be decoded ends the process.            *)
(***************************************************************************)
Load(x) ==
    /\ pc[x] = "idle"
    /\ disk # Truncated
    /\ pc' = [pc EXCEPT ![x] = "running"]
    /\ mem' = [mem EXCEPT ![x] =
                 IF disk = NoFile THEN EmptyData ELSE normalize(disk)]
    /\ ops' = [ops EXCEPT ![x] = 0]
    /\ UNCHANGED disk

\* main exits before the command runs, and so does every later one.
LoadFails(x) ==
    /\ pc[x] = "idle"
    /\ disk = Truncated
    /\ UNCHANGED vars

\* A db operation of the running command that leaves d behind.
Update(x, d) ==
    /\ pc[x] = "running"
    /\ ops[x] < MaxOps
    /\ mem' = [mem EXCEPT ![x] = d]
    /\ ops' = [ops EXCEPT ![x] = @ + 1]
    /\ UNCHANGED <<disk, pc>>

(* Operations on projects.  The guards are the error returns of the code. *)

DoAddProject(x) ==
    \E s \in Spellings :
        /\ ~ HasProject(mem[x], s)
        /\ Update(x, AddProject(mem[x], s))

DoDeleteProject(x) ==
    \E s \in Spellings :
        /\ HasProject(mem[x], s)
        /\ Update(x, DeleteProject(mem[x], s))

DoRemoveHostAndContainers(x) ==
    \E p \in mem[x].projects :
        Update(x, RemoveHostAndContainersFromProject(mem[x], p))

DoAddContainerInfo(x) ==
    \E p \in mem[x].projects, c \in ContainerNames, i \in ContainerInfos :
        Update(x, AddContainerInfo(mem[x], p, c, i))

DoUpsertProjectContainer(x) ==
    \E p \in mem[x].projects, c \in ContainerNames, i \in ContainerInfos :
        Update(x, UpsertProjectContainer(mem[x], p, c, i))

DoRemoveProjectContainers(x) ==
    \E p \in mem[x].projects, C \in SUBSET ContainerNames :
        Update(x, RemoveProjectContainers(mem[x], p, C))

DoSetProjectHost(x) ==
    \E p \in mem[x].projects, h \in HostNames \cup {None} :
        Update(x, SetProjectHost(mem[x], p, h))

DoSetProjectSetting(x) ==
    \E p \in mem[x].projects, o \in Settings :
        Update(x, SetProjectSetting(mem[x], p, o))

(* Operations on hosts. *)

DoAddHost(x) ==
    \E h \in HostNames : Update(x, AddHost(mem[x], h))

DoRemoveHostFromHostList(x) ==
    \E h \in HostNames : Update(x, RemoveHostFromHostList(mem[x], h))

DoSetHostToDefault(x) ==
    \E h \in HostNames : Update(x, SetHostToDefault(mem[x], h))

DoRemoveProjectFromHost(x) ==
    \E h \in mem[x].hosts, s \in Spellings :
        Update(x, RemoveProjectFromHost(mem[x], h, s))

DoRegisterProjectInHost(x) ==
    \E h \in mem[x].hosts, s \in Spellings :
        /\ HasProject(mem[x], s)
        /\ Update(x, RegisterProjectInHost(mem[x], h, s))

DoSetHostAttr(x) ==
    \E h \in mem[x].hosts, a \in HostAttrs :
        Update(x, SetHostAttr(mem[x], h, a))

DoClearHostAgentOwnership(x) ==
    \E h \in mem[x].hosts : Update(x, ClearHostAgentOwnership(mem[x], h, Owner))

\* The loop over the listed projects stops at the first one that no longer
\* exists; the ones before it stay unmapped and the row stays.
DoRemoveHostFromConfig(x) ==
    \E h \in HostNames :
        \/ /\ mem[x].hostProjects[h] \subseteq mem[x].projects
           /\ Update(x, RemoveHostFromConfig(mem[x], h))
        \/ /\ ~ mem[x].hostProjects[h] \subseteq mem[x].projects
           /\ \E done \in SUBSET (mem[x].hostProjects[h] \cap mem[x].projects) :
                Update(x, [mem[x] EXCEPT !.host =
                    [p \in ProjectNames |-> IF p \in done THEN None ELSE @[p]]])

(* Operations on the selected project. *)

DoSetProject(x) ==
    \E s \in Spellings :
        /\ HasProject(mem[x], s)
        /\ Update(x, SetProject(mem[x], s))

DoFlushContext(x) == Update(x, FlushContext(mem[x]))

\* Mutant: the copy is written as the command left it.
SaveBegin_Raw(x) ==
    /\ pc[x] = "running"
    /\ disk' = Truncated
    /\ pc' = [pc EXCEPT ![x] = "saving"]
    /\ UNCHANGED <<mem, ops>>

(***************************************************************************)
(* The end of the command.  Save normalizes the copy in memory and         *)
(* rewrites the file; a failed command leaves the file alone.              *)
(***************************************************************************)
SaveBegin(x) ==
    /\ pc[x] = "running"
    /\ mem' = [mem EXCEPT ![x] = normalize(@)]
    /\ disk' = Truncated
    /\ pc' = [pc EXCEPT ![x] = "saving"]
    /\ UNCHANGED ops

\* The process is gone, and its copy with it; the user runs the next command.
Exit(x) ==
    /\ pc' = [pc EXCEPT ![x] = "idle"]
    /\ mem' = [mem EXCEPT ![x] = EmptyData]
    /\ ops' = [ops EXCEPT ![x] = 0]

SaveEnd(x) ==
    /\ pc[x] = "saving"
    /\ disk' = mem[x]
    /\ Exit(x)

\* The command returned an error: os.Exit(1) without Save.
ExitOnError(x) ==
    /\ pc[x] = "running"
    /\ Exit(x)
    /\ UNCHANGED disk

\* The process is killed inside the write (killed earlier: as ExitOnError).
Crash(x) ==
    /\ pc[x] = "saving"
    /\ Exit(x)
    /\ UNCHANGED disk

Command(x) ==
    \/ DoAddProject(x)
    \/ DoDeleteProject(x)
    \/ DoRemoveHostAndContainers(x)
    \/ DoAddContainerInfo(x)
    \/ DoUpsertProjectContainer(x)
    \/ DoRemoveProjectContainers(x)
    \/ DoSetProjectHost(x)
    \/ DoSetProjectSetting(x)
    \/ DoAddHost(x)
    \/ DoRemoveHostFromHostList(x)
    \/ DoSetHostToDefault(x)
    \/ DoRemoveProjectFromHost(x)
    \/ DoRegisterProjectInHost(x)
    \/ DoSetHostAttr(x)
    \/ DoClearHostAgentOwnership(x)
    \/ DoRemoveHostFromConfig(x)
    \/ DoSetProject(x)
    \/ DoFlushContext(x)

Next ==
    \E x \in Procs :
        \/ Load(x)
        \/ LoadFails(x)
        \/ Command(x)
        \/ SaveBegin(x)
        \/ SaveEnd(x)
        \/ ExitOnError(x)
        \/ Crash(x)

Spec == Init /\ [][Next]_vars

-----------------------------------------------------------------------------
(***************************************************************************)
(* Every variable has its type; in particular the operations keep names    *)
(* of rows canonical, however the user spelled them.                       *)
(***************************************************************************)
TypeOK ==
    /\ disk \in Data \cup {NoFile, Truncated}
    /\ pc \in [Procs -> {"idle", "running", "saving"}]
    /\ mem \in [Procs -> Data]
    /\ ops \in [Procs -> 0 .. MaxOps]

(* The referential integrity of a stored database, by parts. *)

\* The selected project exists, under its canonical spelling.
ContextExists(d) ==
    d.context # None => \E p \in d.projects : d.context = Exact(p)

\* A project that is mapped to a host is listed by that host's row.
MappedIsListed(d) ==
    \A p \in d.projects : d.host[p] # None =>
        /\ d.host[p] \in d.hosts
        /\ p \in d.hostProjects[d.host[p]]

\* A host lists only existing projects, and none that another host runs.
ListedIsMapped(d) ==
    \A h \in HostNames : \A p \in d.hostProjects[h] :
        /\ h \in d.hosts
        /\ p \in d.projects
        /\ d.host[p] \in {None, h}

\* A host is marked in use exactly when it lists a project.
InUseAgrees(d) == \A h \in HostNames : h \in d.inUse <=> d.hostProjects[h] # {}

Integrity(d) ==
    /\ ContextExists(d)
    /\ MappedIsListed(d)
    /\ ListedIsMapped(d)
    /\ InUseAgrees(d)

(***************************************************************************)
(* Whatever sequence of db operations the commands of any number of        *)
(* processes run, however they fail, crash or overlap, db.json is absent,  *)
(* unreadable, or referentially intact.  The operations leave dangling     *)
(* references in memory (DeleteProject keeps the host rows and the         *)
(* context, SetProjectHost adds no host row): normalize has to mend all    *)
(* of them at once.                                                        *)
(***************************************************************************)
DiskIntegrity == disk \in Data => Integrity(disk)

\* At most one host is the default, and its row exists.
AtMostOneDefault(d) ==
    /\ d.isDefault \subseteq d.hosts
    /\ \A g, h \in d.isDefault : g = h

(***************************************************************************)
(* The copy a command works on never has two default hosts, also after     *)
(* the default one was removed and its row was brought back by normalize:  *)
(* GetDefaultHostName, which returns the first one, has a single answer.   *)
(***************************************************************************)
OneDefault == \A x \in Procs : AtMostOneDefault(mem[x])

(***************************************************************************)
(* Reading back a stored file changes nothing: normalize has converged     *)
(* after one application, so what a command sees is what the previous one  *)
(* stored.                                                                 *)
(***************************************************************************)
ReloadIsIdentity == disk \in Data => normalize(disk) = disk

(***************************************************************************)
(* The inductive invariant: what makes normalize re-establish Integrity    *)
(* after any operation is that a host without a row lists no project.      *)
(***************************************************************************)
RowsOnly(d) == \A h \in HostNames \ d.hosts : d.hostProjects[h] = {}

WellFormed(d) == RowsOnly(d) /\ AtMostOneDefault(d)

IInv ==
    /\ TypeOK
    /\ \A x \in Procs :
          /\ WellFormed(mem[x])
          /\ pc[x] = "saving" => Integrity(mem[x])
    /\ disk \in Data => WellFormed(disk) /\ Integrity(disk)
=============================================================================
