-------------------------- MODULE ProjectLifecycle --------------------------
(***************************************************************************)
(* The `cds project` commands (internal/command/project_*.go): one command *)
(* at a time loads the database, calls the agent of the project's host one *)
(* RPC after the other, changes its copy of the database and the user's    *)
(* ssh config on the way, and saves the database only if it succeeds.      *)
(*                                                                         *)
(* Any RPC may fail, before or after it took effect (the agent is away, a  *)
(* step of its handler fails, the 30 minutes are over); the command may be *)
(* killed; containers may be removed, stopped or started behind the        *)
(* agent's back between any two RPCs.  What db.json goes through while it  *)
(* is being written is the subject of CdsDb: here Save is one step.        *)
(*                                                                         *)
(* A row of the database records the status of its container and whether   *)
(* it has an ssh port; ids, users and the expected status, which no        *)
(* command reads back, are left out.  A name argument is given exactly.    *)
(***************************************************************************)
EXTENDS DbData

CONSTANTS
    Localhost,   \* the host used when none is named
    DeployName,  \* [ProjectNames -> ContainerNames]: the name in the deploy plan
    NewNames,    \* the names users give to `rename`
    MaxCommands, \* bound: commands that call an agent
    MaxEvents    \* bound: events behind the agents' back

Statuses == {"running", "exited"}

ASSUME InfosAssumption ==
    /\ ContainerInfos = [status : Statuses, port : BOOLEAN]
    /\ DeletedInfos = {}

ASSUME LocalhostAssumption == Localhost \in HostNames

ASSUME NamesAssumption ==
    /\ DeployName \in [ProjectNames -> ContainerNames]
    /\ NewNames \subseteq ContainerNames

ASSUME BoundsAssumption == MaxCommands \in Nat /\ MaxEvents \in Nat

VARIABLES
    disk,    \* db.json
    mem,     \* the copy of the running command
    cmd,     \* the running command
    agent,   \* per host: the containers its agent reports
    ssh,     \* the host aliases CDS manages in ~/.ssh/config
    done,    \* history: the last command, if it succeeded
    failed,  \* history: a command has failed or was killed
    gone,    \* history: a container left its name: removed behind the agent's
             \*   back, or renamed
    shared,  \* history: two projects have had a container name in common
    quiet,   \* history: nothing happened behind its back during the command
    commands,\* bound
    events   \* bound

vars == <<disk, mem, cmd, agent, ssh, done, failed, gone, shared, quiet, commands, events>>

-----------------------------------------------------------------------------
(***************************************************************************)
(* A running command: its project, where it is, the containers its current *)
(* loop has left (todo), the agent's last list, the containers it          *)
(* synchronizes (names), whether absent ones lose their row (drop), errors *)
(* collected while clearing (errs) and over the projects of --all          *)
(* (report), the projects left, the new name of rename, and, as history,   *)
(* the containers the database listed for its projects (had).              *)
(***************************************************************************)
Idle == [op |-> "none"]

\* What is remembered of a command that succeeded.
Outcome(c) == [op |-> c.op, p |-> c.p, force |-> c.force, had |-> c.had]

NoList == [c \in ContainerNames |-> None]

Ops == {"run", "start", "stop", "sync", "clear", "drain", "rebuild",
        "rename", "delete"}

Command(op, p, pc) ==
    [op |-> op, p |-> p, pc |-> pc, todo |-> {}, listed |-> NoList,
     names |-> {}, drop |-> FALSE, errs |-> FALSE, report |-> FALSE,
     force |-> FALSE, rest |-> {}, new |-> None, had |-> {}]

Containers == [project : ProjectNames, status : Statuses, port : BOOLEAN]

ASSUME AbsenceAssumption == None \notin Statuses \cup Containers \cup ContainerNames

Rows(d, p) == ProjectContainersName(d, p)

\* The agent a command talks to, by the host the project is mapped to.
projectAgentHost(d, p) ==
    IF ProjectHostName(d, p) = None THEN Localhost ELSE ProjectHostName(d, p)

OnAgent == agent[projectAgentHost(mem, cmd.p)]

SetOnAgent(c, k) ==
    agent' = [agent EXCEPT ![projectAgentHost(mem, cmd.p)] = [@ EXCEPT ![c] = k]]

\* Names are given by deploy plans and users, and nothing keeps them apart.
NameShared(d) ==
    \E p, q \in d.projects : p # q /\ Rows(d, p) \cap Rows(d, q) # {}

Had(d, p) == {projectAgentHost(d, p)} \X Rows(d, p)

Init ==
    /\ disk = EmptyData
    /\ mem = EmptyData
    /\ cmd = Idle
    /\ agent = [h \in HostNames |-> NoList]
    /\ ssh = {}
    /\ done = Idle
    /\ failed = FALSE
    /\ gone = FALSE
    /\ shared = FALSE
    /\ quiet = TRUE
    /\ commands = 0
    /\ events = 0

World == <<gone, quiet, commands, events>>

(***************************************************************************)
(* The ends of a command (cmd/client/cds.go main): Save on success only.   *)
(***************************************************************************)
Succeed(d) ==
    /\ disk' = normalize(d)
    /\ mem' = EmptyData
    /\ done' = Outcome(cmd)
    /\ cmd' = Idle
    /\ shared' = (shared \/ NameShared(d))
    /\ UNCHANGED failed

Fail ==
    /\ mem' = EmptyData
    /\ cmd' = Idle
    /\ done' = Idle
    /\ failed' = TRUE
    /\ UNCHANGED <<disk, shared>>

\* The command goes on, with d as its copy of the database.
Goto(c, d) ==
    /\ cmd' = c
    /\ mem' = d
    /\ UNCHANGED <<disk, done, failed, shared>>

\* The process is killed: like an error, nothing is saved.
Kill ==
    /\ cmd # Idle
    /\ Fail
    /\ UNCHANGED <<agent, ssh, World>>

(***************************************************************************)
(* Commands that stay local: init and use.                                 *)
(***************************************************************************)
projectInit(p) ==
    LET d == normalize(disk) IN
    /\ cmd = Idle
    /\ ~ HasProject(d, Exact(p))
    /\ LET added == AddProject(d, Exact(p)) IN
       disk' = normalize(IF added.context = None
                         THEN SetProject(added, Exact(p)) ELSE added)
    /\ done' = Idle
    /\ UNCHANGED <<mem, cmd, agent, ssh, failed, shared, World>>

projectUse(p) ==
    LET d == normalize(disk) IN
    /\ cmd = Idle
    /\ HasProject(d, Exact(p))
    /\ disk' = normalize(SetProject(d, Exact(p)))
    /\ done' = Idle
    /\ UNCHANGED <<mem, cmd, agent, ssh, failed, shared, World>>

(***************************************************************************)
(* The beginnings of the others: Load, the checks, the first changes.      *)
(***************************************************************************)
Begin(c, d) ==
    /\ cmd = Idle
    /\ cmd' = c
    /\ mem' = d
    /\ done' = Idle
    /\ quiet' = TRUE
    /\ commands < MaxCommands
    /\ commands' = commands + 1
    /\ UNCHANGED <<disk, agent, ssh, failed, gone, shared, events>>

\* The host a deployment uses; a mapped project does not change hosts.
MayTarget(d, p, desired) ==
    d.host[p] = None \/ desired = None \/ desired = d.host[p]

identifyProjectHost(d, p, desired) ==
    LET h == IF desired # None THEN desired
             ELSE IF d.host[p] # None THEN d.host[p] ELSE Localhost
    IN  SetProjectHost(AddHost(d, h), p, h)

\* A project whose containers are configured is not deployed again.
checkCandidateForRun(d, p) == Rows(d, p) = {}

\* With --path the project is created on the fly; its name has to be new.
buildProjectInfo(d, p, path) == IF path THEN AddProject(d, Exact(p)) ELSE d

\* ... and it is selected if none is.
ensureContext(d, p, path) ==
    IF path /\ d.context = None THEN SetProject(d, Exact(p)) ELSE d

projectRun(p, target, path) ==
    LET loaded  == normalize(disk)
        d       == buildProjectInfo(loaded, p, path)
        desired == IF target # None THEN target ELSE GetDefaultHostName(d)
        placed  == identifyProjectHost(d, p, desired)
    IN  /\ path <=> p \notin loaded.projects
        /\ MayTarget(d, p, desired)
        /\ checkCandidateForRun(placed, p)
        /\ Begin(Command("run", p, "stage"), ensureContext(placed, p, path))

\* Commands on a project's containers want it to have some.
OnContainers(op, p, pc) ==
    LET d == normalize(disk) IN
    /\ p \in d.projects
    /\ Rows(d, p) # {}
    /\ Begin([Command(op, p, pc) EXCEPT !.names = Rows(d, p)], d)

projectStart(p) == OnContainers("start", p, "list")

projectStop(p) == OnContainers("stop", p, "list")

syncCommand(p, names) ==
    [Command("sync", p, "synclist") EXCEPT !.names = names]

\* Projects without rows are passed over without a call.
projectSync(p) == OnContainers("sync", p, "synclist")

projectSyncAll ==
    LET d == normalize(disk)
        with == {p \in d.projects : Rows(d, p) # {}}
    IN  \E p \in with :
          Begin([syncCommand(p, Rows(d, p)) EXCEPT !.rest = with \ {p}], d)

\* Commands that begin by removing what the project has deployed.
Clearing(op, p) ==
    /\ p \in disk.projects
    /\ Begin([Command(op, p, "clear") EXCEPT !.had = Had(disk, p)], normalize(disk))

projectClear(p) == Clearing("clear", p)

projectDrain(p) == Clearing("drain", p)

projectRebuild(p) == Clearing("rebuild", p)

projectRename(p, new) ==
    LET d == normalize(disk) IN
    /\ p \in d.projects
    /\ Rows(d, p) # {}
    /\ Begin([Command("rename", p, "synclist")
                EXCEPT !.names = Rows(d, p), !.new = new], d)

projectDelete(p, force) ==
    /\ p \in disk.projects
    /\ Begin([Command("delete", p, "clear") EXCEPT
                !.force = force, !.had = Had(disk, p)],
             normalize(disk))

projectDeleteAll(force) ==
    \E p \in disk.projects :
        Begin([Command("delete", p, "clear") EXCEPT
                 !.force = force, !.rest = disk.projects \ {p}, !.had = Had(disk, p)],
              normalize(disk))

BeginCommand ==
    \/ \E p \in ProjectNames :
          \/ projectInit(p)
          \/ projectUse(p)
          \/ \E target \in HostNames \cup {None}, path \in BOOLEAN :
                projectRun(p, target, path)
          \/ projectStart(p)
          \/ projectStop(p)
          \/ projectSync(p)
          \/ projectClear(p)
          \/ projectDrain(p)
          \/ projectRebuild(p)
          \/ \E new \in NewNames : projectRename(p, new)
          \/ \E force \in BOOLEAN : projectDelete(p, force)
    \/ projectSyncAll
    \/ \E force \in BOOLEAN : projectDeleteAll(force)

(***************************************************************************)
(* The end of delete for one project.  --force takes the project out of    *)
(* the database whatever happened; --all goes on with the next one.  The   *)
(* selection moves on only if the selected project was the one named.      *)
(***************************************************************************)
Reselect(d) ==
    IF d.projects # {} /\ disk.context = Exact(cmd.p)
    THEN {SetProject(d, Exact(q)) : q \in d.projects}
    ELSE {FlushContext(d)}

DeleteEnds(ok, d) ==
    LET removed == ok \/ cmd.force
        after   == IF removed THEN DeleteProject(d, Exact(cmd.p)) ELSE d
        report  == cmd.report \/ ~ removed
    IN  \/ /\ cmd.rest = {}
           /\ ~ report
           /\ \E e \in Reselect(after) :
                 /\ disk' = normalize(e)
                 /\ mem' = EmptyData
                 /\ done' = Outcome(cmd)
                 /\ cmd' = Idle
           /\ failed' = (failed \/ ~ ok)
           /\ UNCHANGED shared
        \/ /\ cmd.rest = {}
           /\ report
           /\ Fail
        \/ \E q \in cmd.rest :
              /\ cmd' = [Command("delete", q, "clear") EXCEPT
                           !.force = cmd.force, !.report = report,
                           !.rest = cmd.rest \ {q}, !.had = cmd.had \cup Had(d, q)]
              /\ mem' = after
              /\ failed' = (failed \/ ~ ok)
              /\ UNCHANGED <<disk, done, shared>>

\* The call to the agent, or what surrounds it, returns an error.
CommandError ==
    IF cmd.op = "delete" THEN DeleteEnds(FALSE, mem) ELSE Fail

(***************************************************************************)
(* clearProjectContainersOnAgent: list, delete what is listed, and         *)
(* synchronize what was deleted.                                           *)
(***************************************************************************)
unregisterFromHost(d, p) ==
    LET h == ProjectHostName(d, p)
    IN  IF h = None THEN d ELSE RemoveProjectFromHost(d, h, Exact(p))

ClearEnds(d) ==
    \/ cmd.op = "clear" /\ Succeed(d)
    \/ /\ cmd.op = "drain"
       /\ Succeed(RemoveHostAndContainersFromProject(unregisterFromHost(d, cmd.p), cmd.p))
    \/ cmd.op = "rebuild" /\ Goto(Command("rebuild", cmd.p, "stage"), d)
    \/ cmd.op = "delete" /\ DeleteEnds(TRUE, d)

\* Mutant: the containers of every project are cleared.
projectClearMain_All ==
    LET names == UNION {Rows(mem, q) : q \in mem.projects}
    IN  /\ cmd # Idle
        /\ cmd.pc = "clear"
        /\ IF names = {} THEN ClearEnds(mem)
           ELSE Goto([cmd EXCEPT !.pc = "list", !.names = names], mem)
        /\ UNCHANGED <<agent, ssh, World>>

\* rebuild also clears the name it is about to deploy.
projectClearMain ==
    LET names == Rows(mem, cmd.p) \cup
                   (IF cmd.op = "rebuild" THEN {DeployName[cmd.p]} ELSE {})
    IN  /\ cmd # Idle
        /\ cmd.pc = "clear"
        /\ IF names = {} THEN ClearEnds(mem)
           ELSE Goto([cmd EXCEPT !.pc = "list", !.names = names], mem)
        /\ UNCHANGED <<agent, ssh, World>>

\* What ListContainers reports; the next loop goes over names.
ListContainers ==
    /\ cmd # Idle
    /\ cmd.pc \in {"list", "synclist"}
    /\ Goto([cmd EXCEPT
          !.listed = [c \in ContainerNames |->
                        IF OnAgent[c] = None THEN None ELSE OnAgent[c].status],
          !.todo = cmd.names,
          !.pc = IF @ = "synclist" THEN "sync"
                 ELSE IF cmd.op \in {"start", "stop"} THEN "change" ELSE "delete"], mem)
    /\ UNCHANGED <<agent, ssh, World>>

\* ensureAgentStarted, the connection or the first call of a phase fails.
CallFails ==
    /\ cmd # Idle
    /\ cmd.pc \in {"list", "synclist", "sync", "stage"}
    /\ CommandError
    /\ UNCHANGED <<agent, ssh, World>>

\* A container that is not listed is skipped: its row stays.
SkipDelete ==
    /\ cmd # Idle
    /\ cmd.pc = "delete"
    /\ \E c \in cmd.todo :
          /\ cmd.listed[c] = None
          /\ Goto([cmd EXCEPT !.todo = @ \ {c}, !.names = @ \ {c}], mem)
    /\ UNCHANGED <<agent, ssh, World>>

\* An error of DeleteContainer, with or without effect, is collected.
DeleteContainer ==
    /\ cmd # Idle
    /\ cmd.pc = "delete"
    /\ \E c \in cmd.todo, ok \in BOOLEAN, effect \in BOOLEAN :
          /\ cmd.listed[c] # None
          /\ ok => effect
          /\ IF effect THEN SetOnAgent(c, None) ELSE UNCHANGED agent
          /\ Goto([cmd EXCEPT !.todo = @ \ {c}, !.errs = @ \/ ~ ok], mem)
    /\ UNCHANGED <<ssh, World>>

\* Mutant: the collected errors are dropped before the synchronization.
DeletesDone_NoErrors ==
    /\ cmd # Idle
    /\ cmd.pc = "delete"
    /\ cmd.todo = {}
    /\ IF cmd.names = {} THEN ClearEnds(mem)
       ELSE Goto([cmd EXCEPT !.pc = "synclist", !.drop = TRUE, !.errs = FALSE,
                             !.listed = NoList], mem)
    /\ UNCHANGED <<agent, ssh, World>>

DeletesDone ==
    /\ cmd # Idle
    /\ cmd.pc = "delete"
    /\ cmd.todo = {}
    /\ IF cmd.names = {} THEN ClearEnds(mem)
       ELSE Goto([cmd EXCEPT !.pc = "synclist", !.drop = TRUE, !.listed = NoList], mem)
    /\ UNCHANGED <<agent, ssh, World>>

(***************************************************************************)
(* changeProjectContainersState: start and stop.                           *)
(***************************************************************************)
Wanted == IF cmd.op = "start" THEN "running" ELSE "exited"

\* Mutant: the loop ends with its first container.
Changed_First(c) ==
    Goto([cmd EXCEPT !.todo = {}, !.pc = "synclist", !.listed = NoList], mem)

\* The last container done, the project is synchronized.
Changed(c) ==
    Goto([cmd EXCEPT !.todo = @ \ {c},
                     !.pc = IF cmd.todo = {c} THEN "synclist" ELSE @,
                     !.listed = IF cmd.todo = {c} THEN NoList ELSE @], mem)

ChangeContainer ==
    /\ cmd # Idle
    /\ cmd.pc = "change"
    /\ \E c \in cmd.todo :
          \/ /\ cmd.listed[c] = Wanted
             /\ Changed(c)
             /\ UNCHANGED agent
          \/ /\ cmd.listed[c] \notin {Wanted, None}
             /\ OnAgent[c] # None
             /\ SetOnAgent(c, [OnAgent[c] EXCEPT !.status = Wanted])
             /\ Changed(c) \/ CommandError
          \/ /\ cmd.listed[c] # Wanted
             /\ CommandError
             /\ UNCHANGED agent
    /\ UNCHANGED <<ssh, World>>

(***************************************************************************)
(* The ssh config: one marked block per alias, replaced or cut out; the    *)
(* user's own entries are left alone.                                      *)
(***************************************************************************)
upsertManagedSSHHostEntry(aliases, c) == aliases \cup {c}

removeManagedSSHHostEntry(aliases, C) == aliases \ C

\* Mutant: the alias of a container that lost its port is kept.
upsertProjectContainerSSHConfig_Keeps(c, port) ==
    ssh' = IF port THEN upsertManagedSSHHostEntry(ssh, c) ELSE ssh

(***************************************************************************)
(* syncProjectContainersFromAgent.                                         *)
(***************************************************************************)
\* The ssh alias of a container follows its port.
upsertProjectContainerSSHConfig(c, port) ==
    ssh' = IF port THEN upsertManagedSSHHostEntry(ssh, c)
           ELSE removeManagedSSHHostEntry(ssh, {c})

\* A container whose ports cannot be fetched is recorded without.
SyncContainer ==
    /\ cmd # Idle
    /\ cmd.pc = "sync"
    /\ \E c \in cmd.todo, got \in BOOLEAN :
          /\ cmd.listed[c] # None
          /\ got => OnAgent[c] # None
          /\ LET port == got /\ OnAgent[c].port IN
             /\ Goto([cmd EXCEPT !.todo = @ \ {c}],
                     UpsertProjectContainer(mem, cmd.p, c,
                         [status |-> cmd.listed[c], port |-> port]))
             /\ upsertProjectContainerSSHConfig(c, port)
    /\ UNCHANGED <<agent, World>>

\* After the loop: rows of absent containers go, if asked for.
SyncEnds ==
    LET absent == IF cmd.drop THEN {c \in cmd.names : cmd.listed[c] = None} ELSE {}
        d      == RemoveProjectContainers(mem, cmd.p, absent)
    IN  /\ cmd # Idle
        /\ cmd.pc = "sync"
        /\ \A c \in cmd.todo : cmd.listed[c] = None
        /\ ssh' = removeManagedSSHHostEntry(ssh, absent)
        /\ \/ cmd.op \in {"start", "stop"} /\ Succeed(d)
           \/ cmd.op = "sync" /\ cmd.rest = {} /\ Succeed(d)
           \/ /\ cmd.op = "sync"
              /\ \E q \in cmd.rest :
                    Goto([syncCommand(q, Rows(d, q)) EXCEPT !.rest = cmd.rest \ {q}], d)
           \/ /\ cmd.op = "rename"
              /\ Goto([Command("rename", cmd.p, "rename") EXCEPT !.new = cmd.new], d)
           \/ cmd.drop /\ ~ cmd.errs /\ ClearEnds(d)
           \/ cmd.drop /\ cmd.errs /\
                 (IF cmd.op = "delete" THEN DeleteEnds(FALSE, d) ELSE Fail)
        /\ UNCHANGED <<agent, World>>

(***************************************************************************)
(* deployProjectPlanOnAgent.                                               *)
(***************************************************************************)
stageProjectArtifacts ==
    /\ cmd # Idle
    /\ cmd.pc = "stage"
    /\ Goto([cmd EXCEPT !.pc = "deploy"], mem)
    /\ UNCHANGED <<agent, ssh, World>>

\* The container engine refuses a name in use.  A step that fails after the
\* container was created leaves it behind.
DeployContainer ==
    LET c == DeployName[cmd.p] IN
    /\ cmd # Idle
    /\ cmd.pc = "deploy"
    /\ OnAgent[c] = None
    /\ \E port \in BOOLEAN :
          SetOnAgent(c, [project |-> cmd.p, status |-> "running", port |-> port])
    /\ Goto([cmd EXCEPT !.pc = "inspect"], mem) \/ Fail
    /\ UNCHANGED <<ssh, World>>

DeployFails ==
    /\ cmd # Idle
    /\ cmd.pc = "deploy"
    /\ Fail
    /\ UNCHANGED <<agent, ssh, World>>

\* The deployed container has to be found and to have an ssh port.
setProjectContainerFromAgent ==
    LET c == DeployName[cmd.p] IN
    /\ cmd # Idle
    /\ cmd.pc = "inspect"
    /\ OnAgent[c] # None
    /\ upsertProjectContainerSSHConfig(c, OnAgent[c].port)
    /\ IF OnAgent[c].port
       THEN Succeed(UpsertProjectContainer(mem, cmd.p, c,
                [status |-> OnAgent[c].status, port |-> TRUE]))
       ELSE Fail
    /\ UNCHANGED <<agent, World>>

InspectFails ==
    /\ cmd # Idle
    /\ cmd.pc \in {"inspect", "renamed"}
    /\ Fail
    /\ UNCHANGED <<agent, ssh, World>>

(***************************************************************************)
(* rename, after the synchronization: the first row names the container;   *)
(* rows have no order here, so any of them may.                            *)
(***************************************************************************)
RenameContainer ==
    /\ cmd # Idle
    /\ cmd.pc = "rename"
    /\ \E old \in Rows(mem, cmd.p) :
          \/ old = cmd.new /\ Succeed(mem) /\ UNCHANGED <<agent, gone>>
          \/ /\ old # cmd.new
             /\ OnAgent[old] # None
             /\ OnAgent[cmd.new] = None
             /\ agent' = [agent EXCEPT ![projectAgentHost(mem, cmd.p)] =
                            [@ EXCEPT ![old] = None, ![cmd.new] = OnAgent[old]]]
             /\ gone' = TRUE
             /\ Goto([cmd EXCEPT !.pc = "renamed"], mem) \/ Fail
          \/ Fail /\ UNCHANGED <<agent, gone>>
    /\ UNCHANGED <<ssh, quiet, commands, events>>

\* Mutant: the new name is not recorded.
setProjectContainerFromAgentCurrentStatus_Unrecorded ==
    /\ cmd # Idle
    /\ cmd.pc = "renamed"
    /\ OnAgent[cmd.new] # None
    /\ upsertProjectContainerSSHConfig(cmd.new, OnAgent[cmd.new].port)
    /\ Succeed(mem)
    /\ UNCHANGED <<agent, World>>

\* The row of the new name is added; the old one is not touched.
setProjectContainerFromAgentCurrentStatus ==
    /\ cmd # Idle
    /\ cmd.pc = "renamed"
    /\ OnAgent[cmd.new] # None
    /\ upsertProjectContainerSSHConfig(cmd.new, OnAgent[cmd.new].port)
    /\ Succeed(UpsertProjectContainer(mem, cmd.p, cmd.new,
          [status |-> OnAgent[cmd.new].status, port |-> OnAgent[cmd.new].port]))
    /\ UNCHANGED <<agent, World>>

(***************************************************************************)
(* Behind the agent's back.                                                *)
(***************************************************************************)
Event ==
    /\ events < MaxEvents
    /\ events' = events + 1
    /\ quiet' = FALSE

ContainerRemoved ==
    /\ \E h \in HostNames, c \in ContainerNames :
          /\ agent[h][c] # None
          /\ agent' = [agent EXCEPT ![h] = [@ EXCEPT ![c] = None]]
    /\ gone' = TRUE
    /\ Event
    /\ UNCHANGED <<disk, mem, cmd, ssh, done, failed, shared, commands>>

ContainerChanged ==
    /\ \E h \in HostNames, c \in ContainerNames, status \in Statuses :
          /\ agent[h][c] # None
          /\ agent[h][c].status # status
          /\ agent' = [agent EXCEPT ![h][c].status = status]
    /\ Event
    /\ UNCHANGED <<disk, mem, cmd, ssh, done, failed, gone, shared, commands>>

CommandStep ==
    \/ projectClearMain
    \/ ListContainers
    \/ CallFails
    \/ SkipDelete
    \/ DeleteContainer
    \/ DeletesDone
    \/ ChangeContainer
    \/ SyncContainer
    \/ SyncEnds
    \/ stageProjectArtifacts
    \/ DeployContainer
    \/ DeployFails
    \/ setProjectContainerFromAgent
    \/ InspectFails
    \/ RenameContainer
    \/ setProjectContainerFromAgentCurrentStatus

Next ==
    \/ BeginCommand
    \/ CommandStep
    \/ Kill
    \/ ContainerRemoved
    \/ ContainerChanged

Spec == Init /\ [][Next]_vars

-----------------------------------------------------------------------------
\* A command that is under way.
Commands ==
    [op     : Ops,
     p      : ProjectNames,
     pc     : {"clear", "list", "delete", "change", "synclist", "sync", "stage",
               "deploy", "inspect", "rename", "renamed"},
     todo   : SUBSET ContainerNames,
     listed : [ContainerNames -> Statuses \cup {None}],
     names  : SUBSET ContainerNames,
     drop   : BOOLEAN,
     errs   : BOOLEAN,
     report : BOOLEAN,
     force  : BOOLEAN,
     rest   : SUBSET ProjectNames,
     new    : NewNames \cup {None},
     had    : SUBSET (HostNames \X ContainerNames)]

(***************************************************************************)
(* Every variable has its type; in particular only statuses an agent can   *)
(* report reach the database.                                              *)
(***************************************************************************)
TypeOK ==
    /\ disk \in Data
    /\ mem \in Data
    /\ cmd \in Commands \cup {Idle}
    /\ agent \in [HostNames -> [ContainerNames -> Containers \cup {None}]]
    /\ ssh \subseteq ContainerNames
    /\ done \in [op : Ops, p : ProjectNames, force : BOOLEAN,
                 had : SUBSET (HostNames \X ContainerNames)] \cup {Idle}
    /\ failed \in BOOLEAN
    /\ gone \in BOOLEAN
    /\ shared \in BOOLEAN
    /\ quiet \in BOOLEAN
    /\ commands \in 0 .. MaxCommands
    /\ events \in 0 .. MaxEvents

(***************************************************************************)
(* When clear, drain or a delete that was not forced reports success, every*)
(* container the database listed for its projects is gone from the agent,  *)
(* whatever failed or disappeared on the way.                              *)
(***************************************************************************)
ClearedMeansGone ==
    done.op \in {"clear", "drain"} \/ (done.op = "delete" /\ ~ done.force) =>
        \A x \in done.had : agent[x[1]][x[2]] = None

(***************************************************************************)
(* After a drain the project is free: no host, no rows, and no host that   *)
(* still counts it as one of its projects, so that it can be deployed      *)
(* anywhere.                                                               *)
(***************************************************************************)
DrainedIsFree ==
    done.op = "drain" =>
        /\ disk.host[done.p] = None
        /\ checkCandidateForRun(disk, done.p)
        /\ \A h \in HostNames : done.p \notin disk.hostProjects[h]

(***************************************************************************)
(* As long as every command succeeded, no container is forgotten: each one *)
(* on an agent is recorded for a project, and is where the commands on     *)
(* that project look for it.  (Which project, the name alone decides.)     *)
(***************************************************************************)
NoContainerForgotten ==
    cmd = Idle /\ ~ failed =>
        \A h \in HostNames, c \in ContainerNames : agent[h][c] # None =>
            \E p \in disk.projects : projectAgentHost(disk, p) = h /\ c \in Rows(disk, p)

(***************************************************************************)
(* A start or stop that reports success has brought every recorded         *)
(* container to that state, and a sync, start, stop, run or rebuild has    *)
(* recorded the state of every container that exists, unless something     *)
(* changed behind the agent's back since the command began.                *)
(***************************************************************************)
ReportedIsTrue ==
    (done.op \in {"start", "stop", "sync", "run", "rebuild"} /\ quiet) =>
        LET h == projectAgentHost(disk, done.p) IN
        \A c \in Rows(disk, done.p) :
            /\ agent[h][c] # None =>
                  disk.containers[done.p][c].status = agent[h][c].status
            /\ done.op = "start" => agent[h][c] # None /\ agent[h][c].status = "running"
            /\ done.op = "stop" => agent[h][c] # None /\ agent[h][c].status = "exited"

(***************************************************************************)
(* As long as every command succeeded and no two projects had a container  *)
(* name in common, the two files, one written at once and one at the end   *)
(* of the command, agree: a recorded container has an alias in the ssh     *)
(* config exactly if it has an ssh port; and, unless a container was       *)
(* renamed or removed behind the agent's back, there are no other aliases. *)
(***************************************************************************)
SshFollowsDb ==
    cmd = Idle /\ ~ failed =>
        /\ ~ shared => \A p \in disk.projects : \A c \in Rows(disk, p) :
                          c \in ssh <=> disk.containers[p][c].port
        /\ ~ gone => ssh \subseteq UNION {Rows(disk, p) : p \in disk.projects}

(***************************************************************************)
(* A step of a command changes or removes a container only if db.json, as  *)
(* it was when the command began, has the name for the command's project   *)
(* and the project is mapped to that host; rebuild also removes what has   *)
(* the name it is about to deploy.                                         *)
(***************************************************************************)
OwnNamesOnly ==
    [][cmd # Idle /\ cmd' # cmd =>
        \A h \in HostNames, c \in ContainerNames :
            agent[h][c] # None /\ agent'[h][c] # agent[h][c] =>
                /\ h = projectAgentHost(disk, cmd.p)
                /\ c \in Rows(disk, cmd.p) \/ (cmd.op = "rebuild" /\ c = DeployName[cmd.p])]_vars

-----------------------------------------------------------------------------
(***************************************************************************)
(* The inductive invariant, in parts.                                      *)
(***************************************************************************)
Removing == {"clear", "drain", "rebuild", "delete"}

\* The host whose agent the running command talks to.
Target == projectAgentHost(mem, cmd.p)

\* Where each command can be, and what it has set there.
FlowInv ==
    cmd # Idle =>
        /\ cmd.op = "run" => cmd.pc \in {"stage", "deploy", "inspect"}
        /\ cmd.op \in {"start", "stop"} => cmd.pc \in {"list", "change", "synclist", "sync"}
        /\ cmd.op = "sync" => cmd.pc \in {"synclist", "sync"}
        /\ cmd.op = "rename" => cmd.pc \in {"synclist", "sync", "rename", "renamed"} /\ cmd.new # None
        /\ cmd.op \in Removing \ {"rebuild"} => cmd.pc \in {"clear", "list", "delete", "synclist", "sync"}
        /\ cmd.op = "rebuild" => cmd.pc \notin {"change", "rename", "renamed"}
        /\ cmd.drop <=> cmd.op \in Removing /\ cmd.pc \in {"synclist", "sync"}
        /\ cmd.op \notin {"sync", "delete"} => cmd.rest = {}
        /\ cmd.op # "delete" => ~ cmd.force /\ ~ cmd.report
        /\ cmd.op \notin Removing => cmd.had = {}
        /\ cmd.pc = "clear" => cmd.todo = {}
        /\ cmd.todo \subseteq cmd.names
        /\ done = Idle

\* The names db.json has for a project, and what rebuild adds.
Known(q) == Rows(disk, q) \cup (IF cmd.op = "rebuild" THEN {DeployName[q]} ELSE {})

\* The projects a command has yet to deal with are in its copy as they are in
\* db.json: on the same host, and with no other containers.
CopyInv ==
    cmd # Idle =>
        /\ cmd.p \notin cmd.rest
        /\ \A q \in cmd.rest \cup {cmd.p} : q \in mem.projects
        /\ cmd.op # "run" => \A q \in cmd.rest \cup {cmd.p} :
              projectAgentHost(mem, q) = projectAgentHost(disk, q) /\ Rows(mem, q) \subseteq Known(q)
        /\ cmd.names \subseteq Known(cmd.p)

\* A host that lists a project is the one the project is mapped to.
HostInv ==
    /\ \A h \in HostNames : \A p \in disk.hostProjects[h] : p \in disk.projects /\ disk.host[p] = h
    /\ \A h \in HostNames : \A p \in mem.hostProjects[h] \cap mem.projects : mem.host[p] = h
    /\ DrainedIsFree

\* What is still to be done about container c of host h.
Pending(h, c) ==
    /\ h = Target
    /\ \/ cmd.pc = "clear" /\ c \in Rows(mem, cmd.p)
       \/ cmd.pc = "list" /\ c \in cmd.names
       \/ cmd.pc = "delete" /\ c \in cmd.names /\ (c \in cmd.todo \/ cmd.errs)
       \/ cmd.pc \in {"synclist", "sync"} /\ cmd.errs

\* What a list does not show stays away; the containers of a project that is
\* being cleared, those named at the beginning and those recorded since, are
\* gone or pending, and gone when the project is deployed again.
GoneInv ==
    /\ cmd # Idle =>
          /\ cmd.pc \in {"delete", "sync"} =>
                \A c \in ContainerNames : cmd.listed[c] = None => agent[Target][c] = None
          /\ cmd.op \in Removing /\ cmd.pc \in {"clear", "list", "delete", "synclist", "sync"} =>
                \A c \in Rows(mem, cmd.p) : agent[Target][c] = None \/ Pending(Target, c)
          /\ cmd.op \in Removing /\ cmd.pc \in {"delete", "synclist", "sync"} =>
                \A c \in cmd.names : agent[Target][c] = None \/ Pending(Target, c)
          /\ cmd.op # "rebuild" /\ ~ cmd.force /\ ~ cmd.report =>
                \A x \in cmd.had : agent[x[1]][x[2]] = None \/ Pending(x[1], x[2])
          /\ cmd.pc \in {"stage", "deploy", "inspect"} => \A c \in Rows(mem, cmd.p) :
                agent[Target][c] = None \/ (cmd.pc = "inspect" /\ c = DeployName[cmd.p])
    /\ ClearedMeansGone

RecordedIn(d, h, c) == \E p \in d.projects : projectAgentHost(d, p) = h /\ c \in Rows(d, p)

\* The same for the copy of a running command, but for the container it has
\* just created or renamed.
RecordInv ==
    ~ failed => \A h \in HostNames, c \in ContainerNames : agent[h][c] # None =>
        IF cmd = Idle THEN RecordedIn(disk, h, c)
        ELSE \/ RecordedIn(mem, h, c)
             \/ cmd.pc = "inspect" /\ h = Target /\ c = DeployName[cmd.p]
             \/ cmd.pc = "renamed" /\ h = Target /\ c = cmd.new

Has(c, status) == agent[Target][c] # None /\ agent[Target][c].status = status

\* While nothing happens behind its back, a command knows the state of what
\* it has listed, changed and recorded.
StateInv ==
    /\ cmd # Idle /\ quiet /\ cmd.op \in {"start", "stop", "sync"} =>
          /\ Rows(mem, cmd.p) \subseteq cmd.names
          /\ cmd.pc = "change" => \A c \in ContainerNames :
                (cmd.listed[c] = Wanted \/ c \in cmd.names \ cmd.todo) => Has(c, Wanted)
          /\ cmd.op # "sync" /\ cmd.pc \in {"synclist", "sync"} => \A c \in cmd.names : Has(c, Wanted)
          /\ cmd.pc = "sync" => \A c \in ContainerNames : agent[Target][c] # None =>
                /\ cmd.listed[c] = agent[Target][c].status
                /\ c \in cmd.names \ cmd.todo => mem.containers[cmd.p][c].status = agent[Target][c].status
    /\ ReportedIsTrue

\* A rebuild that clears and deploys a name another project has too.
Takes == cmd.op = "rebuild" /\ \E q \in mem.projects \ {cmd.p} : DeployName[cmd.p] \in Rows(mem, q)

PortsAgree(d) == \A p \in d.projects : \A c \in Rows(d, p) : c \in ssh <=> d.containers[p][c].port

\* Until names are shared, the names a command works on are those of its own
\* project, so that each alias follows the port of one row.
PortInv ==
    /\ ~ shared => ~ NameShared(disk)
    /\ cmd = Idle /\ ~ failed /\ ~ shared => PortsAgree(disk)
    /\ cmd # Idle =>
          /\ cmd.names \subseteq
                Rows(mem, cmd.p) \cup (IF cmd.op = "rebuild" THEN {DeployName[cmd.p]} ELSE {})
          /\ ~ shared /\ ~ Takes => ~ NameShared(mem) /\ (~ failed => PortsAgree(mem))

\* Container c is on the agent where some project has it recorded.
Served(d, c) == \E p \in d.projects : c \in Rows(d, p) /\ agent[projectAgentHost(d, p)][c] # None

\* A container that a clearing command has dealt with, and whose alias goes
\* with the synchronization.
Leaving(c) ==
    /\ cmd.op \in Removing
    /\ c \in cmd.names
    /\ (cmd.pc = "delete" /\ c \notin cmd.todo) \/ cmd.pc \in {"synclist", "sync"}

\* As long as no container has left its name, an alias is that of a container
\* which is there, or the running command will remove it.
AliasInv ==
    ~ gone =>
        /\ cmd # Idle /\ cmd.pc = "sync" =>
              \A c \in ContainerNames : cmd.listed[c] # None => agent[Target][c] # None
        /\ ~ failed => \A c \in ssh :
              IF cmd = Idle THEN Served(disk, c) ELSE Served(mem, c) \/ Leaving(c)
=============================================================================
