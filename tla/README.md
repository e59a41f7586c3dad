# A TLA+ verification project for CDS

CDS gives developers containers on agent hosts. A command line tool, `cds`,
keeps its state in files of the user and talks gRPC to an agent,
`cds-api-agent`, that runs on the developer's machine or on a remote host and
drives the container engine (podman). This directory holds TLA+ modules that
model the stateful core of both programs, TLC configurations that check them on
small instances, and proofs checked by TLAPS. `PROJECT.json` lists the
components, the runs, the source lines each definition models, the mutants that
show that each property can fail, the hazards and the findings.

## 1. The system

| Component | State | Operations | Talks to |
|---|---|---|---|
| state database, `internal/db` | projects, hosts, registries, the selected project; read from `db.json` when a command starts, written when it succeeds | some forty setters; `Load`, `Save`, both of which normalize | every command |
| cds process, `cmd/client` | one in-memory copy of the database | load, execute, save or exit | db, commands |
| project commands, `internal/command/project_*.go` | none of their own | init, use, run, start, stop, sync, clear, drain, rebuild, rename, delete, ssh, rsh, expose, share, unshare; list and show only read | db, the agent's services, `~/.ssh/config` |
| space commands, `space_*.go` | none | host add, delete, list, get; init | db, config, bootstrap |
| endpoint registry, `internal/config` | `cliconfig.yaml`: address and certificates per agent; the manifest; `aconfig.yaml` of the agent | create, update, upsert, delete, look up; migrate | bootstrap, clients |
| bootstrap, `internal/bootstrap` | the agent process, its record in the host's row | start and stop the local agent, install a remote one | config, db, the operating system, ssh |
| agent, artifact service | one staging area per project in the file system | PrepareArtifacts, UploadArtifact (a stream of chunks) | deploys |
| agent, container service | the containers of the engine | deploy (a stream), list, get, start, stop, delete, rename, execute | engine, staging area |
| agent process, `cmd/api-agent` | goroutines, channels | serve, stop on a signal | grpc |
| engine, `internal/engine` | none; podman keeps the containers | build the command lists of a deployment, run them, parse answers | podman |
| shexec, `internal/shexec` | terminal mode, ssh sessions, goroutines; key files | run lists of commands, attach a terminal, forward a port, make key pairs | ssh |
| tls, `internal/tls` | six certificate files | make and install | bootstrap, grpc |
| scm, ar, authmgr, source, containerconf, systemd | configuration, credentials | fetch, parse, generate | the network, files |

What is hard here is not in any one function:

* **Two stores and a remote truth.** A command changes `db.json` (at its end,
  and only if it succeeded), `~/.ssh/config` and `cliconfig.yaml` (at once), and
  the containers on an agent (by calls that may take effect and still fail).
  What was true when a list was fetched may be false when it is used.
* **Concurrent processes without locks.** Two `cds` processes rewrite the same
  files; the agent serves streams concurrently, and a delete may remove a
  staging area under an upload.
* **Crash and failure between steps**, and the retry by the user afterwards.
* **References without keys.** Hosts list projects, projects name hosts, the
  context names a project; setters leave these dangling, and one function,
  `normalize`, has to mend every combination.
* **Addresses and process ids that others may take.**
* **Keys in three places.** A key pair is files in `~/.ssh`, a record in the
  database, and a line in a container, written by different steps.
* **Goroutines that wait for one another** over channels without a buffer, while
  the other end of the connection may go away.

For each component the properties that make it correct are the ones checked
below; the list of hazards in `PROJECT.json` says at which lines they could go
wrong.

## 2. Modules

| Module | Models | Kind |
|---|---|---|
| `DbData` | the database as sets and functions; every setter of `internal/db`; `normalize` | operators |
| `CdsDb` | processes that load, apply setters, and save by truncate-then-write, fail or crash | state machine |
| `DbFile` | `normalize` on lists of rows as they stand in a file, against their meaning in `DbData` | algorithm with reference definition |
| `ProjectLifecycle` (extends `DbData`) | the project commands, one step per call to the agent | composition of db, commands, ssh config and agents |
| `LocalAgent` | start, registration, ownership and stop of the agent of localhost | composition of db row, config entry, commands and processes |
| `StagingStore` | what the staging area promises: an atomic map of verified artifacts | abstract specification |
| `ArtifactStaging` | `UploadArtifact` and `deleteProjectStaging` file operation by file operation | implements `StagingStore` |
| `ContainerService` | a deployment from end to end (collect, stage, build commands, execute), and delete, start, stop, rename, get and list beside it | composition of client, staging area, agent and engine |
| `SshAccess` | the key pairs of hosts and of shared projects: files, database, containers | composition of commands, key files, db row and containers |
| `CliConfig` | `cliconfig.yaml`, the manifest and the migration of `aconfig.yaml` | state machine, with a reference definition of the list's meaning |
| `RemoteAgent` | certificates, installation, stop, start and health of the agent of a remote host | composition of config entry, certificate files, commands and processes |
| `RemoteSession` | attached terminals, forwarded ports and lists of commands over ssh | state machine with fairness |
| `AgentShutdown` | the goroutines of the agent's `main` | state machine with fairness |
| `*_proofs` | theorems about `CdsDb`, `LocalAgent`, `RemoteSession`, `ProjectLifecycle`, `SshAccess`, `ContainerService`, `RemoteAgent`; in `Agent_proofs` about what every agent is part of, `ArtifactStaging`, `CliConfig` and `AgentShutdown` | proofs |
| `MC_*` | instances for TLC | |

### How the modules correspond to the code

*`DbData`.* A database is a record of sets and functions over names, instead of
lists of rows: `projects`, `hosts`, and per name the columns that anything
refers to. That lists and this record agree is what `DbFile` checks. Names given
by users come in two spellings, exact and padded, because `normalizeProjectName`
trims; a stored name is a spelling until it is normalized. Setters have the
names of their Go functions.

*`CdsDb`.* `disk` is the file: absent, truncated or a database. Each process has
`pc` and its own copy `mem`. `Load` of a truncated file fails. `SaveBegin`
normalizes and truncates, `SaveEnd` writes: between them other processes act.
`Fail` is the `os.Exit(1)` that skips the deferred `Save`.

*`DbFile`.* The variable `file` is any raw file of a bounded set (duplicated
rows, blank names, padded spellings, dangling references); `rows` is the result
of one or two passes. The name and the state of a container row are trimmed too,
and the state is lower-cased: both are a value and its spelling, and two
spellings of a name are one row. `Meaning` is the reference definition: it says column by
column which row counts.

*`ProjectLifecycle`.* `disk` and `mem` are databases of `DbData`; `agent` maps
each host to the containers that its agent reports; `ssh` is the set of aliases
that CDS manages. A running command is a record with its place, the containers
left in its loop and the list it fetched. Any call may fail before or after its
effect; a container may be removed or changed behind the agent's back between
any two calls; a command may be killed. `shared` is a history: whether two
projects have ever had a container name in common, which nothing in the code
prevents, and after which the alias of a name belongs to both.
`deployProjectPlanOnAgent` is stage,
deploy, inspect; the content of the plan is abstracted to the container name,
one for each project (in the code the name also depends on the host). The
setters of columns nothing refers to (image tag, ssh tunnel) are covered by
`CdsDb` and left out here.

*`ContainerService`.* `call` holds what each handler is doing: a deployment with
its phase (prepare, upload, the reads of the engine while it builds its
commands, the commands one after the other) or a delete, start, stop, rename,
get or list. `staged` is the staging area as `StagingStore` specifies it; `auth`
the auth file of the agent's user; `image` and `podman` belong to podman, whose
commands are modelled by what `internal/engine` relies on. `BuildCommands` and
the operators under it keep the order of `run`, `preContainerRun`,
`containerRun`, `ensureConfiguredUsers`, `postContainerRun` and
`sshKeyHandler`. `parsePsFormattedOutput` and `parseInspectFormattedOutput` are
modelled by the status and ports that they take from an answer.

*`SshAccess`.* A key is a number, a file holds a number, nothing, or is cut;
`ensureProjectSSHKeyPair` and `ensureManagedHostKeyPair` choose between the
recorded pair, the user's and a managed one as the code does, looking at the
files. The record of the pair is saved when the command succeeds, the key is in
the container before that. `Fails` is an error or a kill at any step; the write
of a key file that fails may leave the file empty. A shared file that unshare
cannot remove stays, as in the code, with a warning.

*`CliConfig`.* A target server is a record of what was typed (form, host, port),
the host in any of its spellings (`Names`, of which `Lower` is what lower-casing
makes); `normalizeTargetServer` and `targetServerHostname` are modelled by what
they make of it. Every read, truncation, write and removal of a file is a step;
each can fail, and a process can be killed between any two (`Fails`). A kill or a
failure between the truncation and the end of a write leaves the file cut, and
`spoiled` notes which. A cut file is one that cannot be parsed: a file cut at a
place where the rest still parses is left out. `registry` is the history of what
finished commands meant, one address per host; `Meaning` reads the list that
way.

*`RemoteAgent`.* The steps of `startRemoteAgent` and `BuildCerts` in their
order. A certificate file holds the generation it comes from. A started agent
listens later, or ends because the port is taken; a copy over a running program
fails, as it does on Linux. A kill or an error in the middle of a step leaves what
the step had done until then (`StopsInside`): some files of a directory removed,
or the file being written cut, which a full disk does as well as a kill.

*`RemoteSession`.* `main` is where the function of the command is; `win` the
goroutine that watches the window; `acceptor` and `conn` the goroutines of a
forwarded port. A send on a channel without a buffer is one step with its
receiver.

*`LocalAgent`.* `db` is the row of localhost, `cfg` the entry of localhost in
`cliconfig.yaml`, `proc` the processes of the machine, `cli` the running
commands, each at its place in `StartAgent` or in `host delete`. An agent that
was started listens some time later, or ends because the port was taken.
`signalProcess` only sends the signal: the agent goes on answering, then stops
to listen and serves its active calls (`GracefulStop`, which has no deadline), then
ends; nothing in a delete waits for that. The entry of `cliconfig.yaml` and `db.json`
are written in different steps (`Save` is the deferred one), and each command can
fail or be killed before, between and in them (`Fails`). The user may type a port
for an add. Programs and agents that the user starts may take ports, and programs
may take process ids. Three things are excluded and stated in the module: a
recorded id reused by an agent that the user started, an id reused between its
lookup and the signal, and, by `NamesAssumption`, programs with the recorded
binary name that are no agents. The last one leaves out a `cds` that found no
installed agent and starts it with `go run` (`local_agent.go:185`): the name it
records is `go`, which every other run of the go tool has too.

*`ArtifactStaging`.* Files have a name, a content and an owner; the handler goes
through mkdir, create, one chunk after the other, close, verify, rename, and its
deferred removal; `os.RemoveAll` lists the directory and unlinks one entry after
the other. An unlinked temporary file may still be written. A digest is modelled
by the content it is the digest of.

*`AgentShutdown`.* One variable per goroutine holds its place; a channel that is
only ever closed is closed once its goroutine has passed its deferred `close`.
The delivery of signals follows `os/signal`: a signal before `Notify` is fatal,
one for a full channel is dropped, one for a closed channel panics.

## 3. Runs

Passing runs:

| Run | Shows | Bounds, and why they are enough |
|---|---|---|
| `db_commands` | `DiskIntegrity`: the stored file is referentially intact; `OneDefault`: one default host at most; `ReloadIsIdentity`: reading back changes nothing | two processes that overlap in every way, one project that can move between two hosts, every column; two operations for a command that runs alone, one for commands that overlap (`Turns`: operations of different processes commute); copies and files with columns nothing refers to are checked but not worked on further (`Sparse`). The theorems of section 4 hold for any number |
| `db_file` | `AgreesWithMeaning`, `RowsInOrder`: one row per name, where the first one stood; `SecondPassIsIdentity` | at most two project rows and two host rows of every shape, container rows in exact and padded spelling, hosts that list a project twice: a merge concerns two rows; three project rows without hosts, for their order; three registry rows |
| `staging` | `StagedIsDeclared`, `TempsAreOwned`, `NothingOutside`, and `StoreSpec`: refinement of `StagingStore` | two streams on one path (more paths do not interact), contents of two bytes, five kinds of request, one kill |
| `container_service` | `DeployedIsComplete`, `FailsForCause`, `OwnKeyInstalled`, `StatusWasTrue` | two calls at a time out of three, so that two deployments, or a deployment and a delete or read, meet a third's leftovers; four plans for two names of one project with different users, images and keys; one fault |
| `project_life` | `ClearedMeansGone`, `DrainedIsFree`, `NoContainerForgotten`, `ReportedIsTrue`, `SshFollowsDb`, `OwnNamesOnly` | two projects with a container of its own name each on two hosts, a third name for rename, three commands (deploy, change, clear), one event behind the agent's back |
| `ssh_access` | `BothSidesAgree`, `SharedCanBeRevoked`, `SharedKeyWorks` | two processes, two projects of one host, four commands (deploy, share, unshare, share), each of which may fail anywhere, two acts of the user, four keys |
| `cli_config` | `RegistryIsSequential`, `AnswersAgree`, `MigrationKeepsClients` | two processes, three starts, two faults (kills or failed operations); two hosts, each in two spellings, typed as port, host, host with port and URL; first an empty list, one that has each host twice and in capitals, or one with a blank entry, which every command refuses |
| `local_agent` | `AddedIsServed`: after a successful add a healthy agent answers at the registered address and, if cds started it, is the recorded one; `DeletedIsGone`: after a successful delete the recorded agent has ended or was told to, and nothing is registered or remembered; `OnlyOwnedStopped`: the signal goes to an agent that cds started | two cds processes, two process ids and two ports (so that both are contended), one other program, three commands, two events |
| `remote_agent` | `CertsAgree`, `LastAddServes` | two cds processes, two ports, three commands, so that a third meets what two have left, one event, two generations of certificates |
| `remote_session` | `LeavesNothing`, `NoErrorLost`; `AttachReturns`, `EachConnectionIsServed`, `ForwardEnds` | two connections (one is served while the other waits), two changes of the window, three commands |
| `agent_shutdown` | `ReturnsWhenIdle`: main returns only when no handler runs; `Terminates`: a requested stop comes about unless a handler never ends | two calls, two signals |

What the properties of the newer runs say:

* `DeployedIsComplete`: a deployment answered without an error has created the
  configured users, run the post-create command and installed the key it read.
  `FailsForCause`: without a fault, interference or a missing file, none fails;
  in particular no command comes before the one that it needs. `OwnKeyInstalled`:
  the key is the one of its own client, also when the area held older files.
  `StatusWasTrue`: an answered status was the container's at some moment of the
  call, although a get asks podman twice.
* `NoContainerForgotten`: as long as every command succeeded, each container on
  an agent is in a row of a project that is mapped to that host. Which project,
  the name decides: two projects may come to have one name in common (through
  rename, or plans that build the same name), and then either stands for it.
  `SshFollowsDb` says nothing of the aliases once a name has been shared.
  `OwnNamesOnly`: a command changes or removes a container only under a name that
  `db.json` had for its project when it began, and on that project's host;
  rebuild also removes what has the name it is about to deploy.
* `BothSidesAgree` is the comment at `project_ssh_key.go:25`; it holds for
  commands that run one after the other. `SharedCanBeRevoked`: at every
  moment, also half way through an unshare, a shared key that is installed is in
  the file where unshare looks for it. `SharedKeyWorks`: after share, the private file
  that the user is told to hand out opens the container.
* `RegistryIsSequential`: unless two processes were between read and write at
  once, the list means what the finished commands meant. `AnswersAgree`: a
  command is refused, or finds its host, just when it should.
  `MigrationKeepsClients`: the clients of the legacy file are in a file or in
  the hands of a process at every moment, unless a process was killed or failed
  inside the write of `aconfig.yaml`; a kill or an error anywhere else loses
  none.
* `CertsAgree`: six certificate files that are all there belong together, which
  is what `ensureRuntimeCerts` relies on when it only looks whether they exist.
  Excepted are two processes that installed at once, and a kill or a failed write
  inside one file (`cut`); a stop anywhere else, also half way through the cleaning
  of a directory, is covered.
  `LastAddServes`: when all commands have ended well the registered port is
  served.
* `LeavesNothing`: the terminal is back in its mode, the session closed, no
  goroutine left. `NoErrorLost`: a list of commands returns no error only if each
  was executed and worked. `AttachReturns`, `EachConnectionIsServed` and
  `ForwardEnds` are liveness properties.

Several of them except situations, named in the property by a history variable:
overlapping processes (`overlap`, `clash`), a kill or an error inside one write
(`cut`, `mixed`, `spoiled`), acts of the user or events beside the commands (`meddled`,
`trouble`, `touched`, `gone`). Each exception is one that TLC showed to be
needed; section 5 says what happens there.

`AddedIsServed` and `DeletedIsGone` are about commands during which nothing else
happened and before which no agent was still coming up or going down: otherwise
an agent that an earlier, timed-out start left behind may take the port, and the
record names the process that lost it; or an add right after a delete registers
the agent that was told to stop and still answers. Neither property says that the
agent has ended when a delete returns, because nothing waits for it.

Symmetry is used only in runs without liveness properties. In `project_life` a
project and the name of its plan change places together.

Deadlock checking is off where the system may stop: the bounded number of
commands is used up (`project_life`, `ssh_access`, `cli_config`, `local_agent`,
`remote_agent`, `failed_start`), the file has been normalized twice
(`db_file`), the agent or the session has ended (`agent_shutdown`,
`remote_session`).

One run ends in a violation: `failed_start`. A start of the local agent that
fails after the process was created leaves it running, unrecorded; ADR 0001 says
that it is stopped before the error is returned.

### Fairness

`AgentShutdown` and `RemoteSession` state fairness.

* `AgentShutdown`: weak fairness of the steps of the five goroutine parts, which
  the Go scheduler guarantees to runnable goroutines. Nothing is assumed of
  handlers, of new calls or of signals; the property itself says "unless a
  handler runs forever", because `GracefulStop` has no deadline.
* `RemoteSession`: weak fairness of the steps of the command's function, of the
  window handler, of the accepting goroutine, and per connection of dialling, of
  the end of a copy whose end has hung up, and of joining. Nothing is assumed of
  the remote end, the terminal, the clients, the timeout, or of errors.

All other specifications are about safety: commands are started and repeated by
a user, who owes nothing.

## 4. Proofs

`CdsDb_proofs` (any sets of projects, hosts, containers, processes, any number
of operations): `TypeCorrect`, `DiskIntegrityHolds`, `ReloadIsIdentityHolds`,
`OneDefaultHolds`. Neither `DiskIntegrity` nor `OneDefault` is inductive: the
file gets its value from the copy of a process that is saving, and a copy is
intact only because it was normalized. The invariant `IInv` says that every copy
is *well formed* (a host without a row lists no project; at most one default,
which has a row), and that a copy being saved and the stored file are intact as
well. One lemma per group of setters shows that they keep a copy well formed,
and `NormalizeIntegrity` that normalizing a well formed copy makes it intact.
Well-formedness is needed because `normalizeHosts` only looks at rows.
`ReloadIsIdentity` follows from integrity by `normalize` being the identity on
intact databases. Assumption: the constants' own (`None` is not a name).

`Agent_proofs` is about the three state machines that every agent is part of. Two
of them name their specification `ConfigSpec` and `ShutdownSpec`, and what belongs
to it likewise, so that one module can extend all three.

* `ArtifactStaging` (any identifiers, streams, requests, number of kills):
  `StagedIsDeclaredHolds`, `TempsAreOwnedHolds`, `NothingOutsideHolds` and
  `StoreSpecHolds`, the refinement. `IInv` adds to them, per stream, that what the
  handler has written is a beginning of what it is sent, that its temporary file
  holds exactly that as long as it has a name, and that after the checks it is what
  was declared. The refinement maps `store` to `files`: a rename is a `Put`, an
  unlink a `Drop`, everything else stutters.
* `CliConfig` (any number of processes): `ClientsKept`. `MoveInv` says that once the
  legacy file may be removed `aconfig.yaml` is there for good, so that no process
  ever writes it empty, and that it is cut only while a process holds the clients
  or because one was killed or failed while it wrote it. That nobody starts to write an empty one depends on
  what a process found several steps ago, hence the clauses about the places.
* `AgentShutdown` (any number of calls and signals): `ShutdownTypeCorrect`,
  `ReturnsWhenIdleHolds`. `IdleInv` adds that past `GracefulStop` no handler runs,
  and that main returns after the stopping goroutine has left.

`LocalAgent_proofs` (any number of cds processes, process ids and ports):
`TypeCorrect`, `OnlyOwnedStoppedHolds`, `AddServes`, `DeleteRemoves`. The action
property speaks of one step, but the id that is signalled was stored by an
earlier command and looked up by an earlier step. `IInv` says that no id
remembered by `db.json` or by a running command belongs to an agent of the user,
and that one about to be signalled does not belong to another program; both rest
on the two assumptions about process ids in section 2, which are guards of the
actions of the operating system, and on `NamesAssumption`. `AddedIsServed` and `DeletedIsGone` need a
second invariant, of a command during which nothing else has happened: what each
place of it has already established about the process it started or found, the
entry and the copy of the row. For an add, `Quiet` says that no agent is coming up
or going down but the one it started; for a delete, that the agent once dismissed
stays so, whatever the moment at which it ends.

`RemoteSession_proofs` (any number of connections, changes of the window and
commands): `TypeCorrect`, `NothingLeft`, `ErrorsKept`, `AcceptorNeverBlocks`.
`AttachedInv` says which deferred calls are due at each place of the function
that attaches a terminal and where its window handler can be; `ExecInv` that an
error in the log of a list is counted, and a fatal one its last entry; `ForwardInv` that the
channel of accepted connections is empty whenever the accepting goroutine is
about to send.

`ProjectLifecycle_proofs` (any projects, hosts, containers, deploy plans and
number of commands and events): `TypeCorrect`, `OwnNames`, `DrainFrees`,
`ClearedAreGone`, `NothingForgotten`, `ReportsHold`, `SshFollows`. The parts of the
invariant:

* `FlowInv`: where each command can be, and what of it is set there;
* `CopyInv`: the projects that a command has yet to deal with are in its copy as
  they are in the stored database, on the same host and with no other rows;
* `HostInv`: a host that lists a project is the one the project is mapped to, in
  the stored database and in the copy;
* `GoneInv`: a container that a list does not show stays away; one that a
  clearing command had, or has recorded since, is gone or *pending*, that is,
  still in its loop, or covered by an error that keeps it from reporting success;
* `RecordInv`: as long as no command has failed, each container on an agent is
  in a row, or is the one that the running command has just created or renamed;
* `StateInv`: as long as nothing happens behind the agent's back, what a command
  has listed, changed and recorded is what the agent has;
* `PortInv`: until two projects share a container name, the names a command works
  on are its own project's, or the one a rebuild is about to deploy, so that each
  alias follows the port of one row;
* `AliasInv`: as long as no container has left its name behind the agent's back,
  an alias is that of a container which is recorded and there, or of one that the
  running command has dealt with and will remove with its synchronization.

Each is shown to survive each command, by groups of steps that do the same to it.
Assumption: `AbsenceAssumption`, that the value that stands for absence is no
status, no container and no name of one.

`SshAccess_proofs` (any number of processes, projects, commands and acts of the
user): `TypeCorrect`, `BothAgree`, `SharedRevocable`, `SharedWorks`. None of the
three properties is inductive, because each relates files, containers and the
database, which a command changes one after the other. `PairInv` says what two
files of one pair have in common, that no key is in the files of two pairs, and
that a key is nowhere before its private file is written; `ShareInv` in which
file each key of a container is found, and that the shared key is out of the
container before its files go; `WorkInv` that two shared files belong together
unless the second is just being written; `AgreeInv` that the pair a command has
resolved is the one that the database leads to, although a pair of the user may
have appeared since the database was saved. Assumptions: the names of the pairs
are not names of projects, and the bounds are numbers.

`ContainerService_proofs` (any number of handlers, containers, projects, plans,
calls and faults): `TypeCorrect`, `Complete`, `Cause`, `OwnKey`, `StatusTrue`.
All four properties speak of calls that are over, and of what happened to them on
the way only what their history variables say, so that none is inductive. The
parts of the invariant, for each call:

* `IdInv`: calls and containers are told apart by the number of the call, also
  after a rename;
* `ListInv`: the commands still to be executed are in the order of `run`, and a
  deployment whose `run` is still in the list has no container yet. A list that
  is executed from its head stays ordered, so that the head never waits for a
  command behind it;
* `WorkInv`: each user, the post-create command and the key is in the list or
  done in the container, as long as no other call changed that container;
* `AreaInv`: what PrepareArtifacts found equal or has uploaded is in the staging
  area until another call changes it, so that the second of the two looks at a
  file (`FileExists`, `FetchFile`) finds what the first has seen;
* `CauseInv`: what has failed has one of the causes; what goes on has a plan
  whose artifacts could be collected;
* `ReadInv`: what a running read has noted contains what every container shows
  now.

Each action has a lemma; `OthersOK` is the one for the calls that do not act: each
of them has either noted the step or depends on nothing that it changed.
Assumptions: the plans are records of the types the client can produce
(`PlansAssumption`), root is not among the other users, and `NoneAssumption`, that
the value for absence is no content, name, project, container or place to fail at.

`RemoteAgent_proofs` (any processes, ports and bound on generations): `TypeCorrect`,
`OneAuthority`, `LastServes`. `CertsAgree` says nothing of five files, so it is not
inductive: a later step may write the sixth. `InstallInv` says that, unless two
processes met while they installed, one at most is halfway, that what it has
emptied and not yet written is absent, and that without a cut file (from a kill or
a failed write) all files which are there are of one generation, at every moment. `ServeInv` says that without
trouble a command past its registration works on the registered port, which no
other command can then change; the last one that ends has seen an agent healthy
there. `Typed` says that no process is left signalled but listening. Assumptions:
the value for absence is no port (`PortsAssumption`), and the bound on generations
is a number.

What the proofs changed. An attempt to prove `NoContainerForgotten` and the
property that is now `OwnNamesOnly` showed that they had rested on the instance,
in which each project deploys its own name; they are stated for plans and
renames that share names now. The attempt on `SharedKeyWorks` showed that a
*failed* write of a public key, and not only a kill, can leave an older public
key beside a new private one; four commands were too few for TLC to meet the
case, and `Fails` now covers both. `CliConfig` and `RemoteAgent` make the same
distinction for their files. The inductive invariants of these modules
were all checked by TLC, on the instances of their runs, before they were
proved.

Only model-checked: liveness (`Terminates`, `AttachReturns`,
`EachConnectionIsServed`, `ForwardEnds`), which the prover cannot do; `DbFile`,
whose folds over lists would need induction over data; and `RegistryIsSequential`
and `AnswersAgree` of `CliConfig`, which compare a list that is folded over. All
other safety and action properties of the passing runs are stated by a theorem.

## 5. Findings

`failed_start` is described with its lines in `PROJECT.json`: the process left by
a failed start of the local agent.

Other behaviours of the models disagree with a comment, a message or a document,
and have no run of their own. Projects and the database:

* sync, and likewise clear, keep the row of a container that is gone, where
  `docs/troubleshooting.md:127` says that local state is removed; run goes on
  refusing with the tip to clear (`project_agent.go:555`, `project_run.go:197`);
* rebuild deletes by the planned name, also a container of that name that is not
  in the project's rows (`project_rebuild.go:111`);
* a container created by a run that then failed is in no row and survives a
  delete (`project_agent.go:111`, help of delete at `project_delete.go:142`);
* deleting a project that is not selected clears the selection, with the message
  that the last project has been deleted (`project_delete.go:54-58`);
* the alias of a renamed container stays in `~/.ssh/config` after drain or delete;
* the result of `isValidProjectName` is ignored by init unless it comes with an
  error (`project_init.go:56`).

Agents:

* a project command works with the agent it started before the ownership is on
  disk (`local_agent.go:112`; ADR 0001 says it is persisted before);
* a second signal during the graceful stop panics on the closed channel and cuts
  active calls (`cds-api-agent.go:120`; the comment at line 151 says that goroutines
  end gracefully);
* the program is copied to a remote host before the running agent is stopped, so
  that an agent that runs cannot be replaced; and `stopRemoteAgentProcess` stops
  whatever listens at the port;
* a host that was deleted and is added again on another port keeps its old agent;
  the copy then fails for the same reason;
* deleting localhost does not wait for its agent to end (`agent_stop.go:88`), so an
  add right after it may register the agent that is about to end;
* two processes that install certificates at once, or a kill or a failed write
  inside one, leave a set that no later start repairs.

Deployments and keys:

* a created or paused container is taken for a running one
  (`engine.go:391-411`), so that start skips it (`project_agent.go:496`);
* inspect fails to parse when a port that is not published sorts before a
  published one, or a port is bound to two addresses;
* an empty public key of the user's fails the collection of artifacts although
  that key is then replaced by the managed one;
* an auth file staged by an earlier deployment of the project is used by a later
  one that has none;
* two first deployments to a host that overlap may install one key and record
  the other, against the comment at `project_ssh_key.go:25-28`;
* the alias in `~/.ssh/config` names the user's default identity file
  (`project_ssh_config.go:54`), not the pair that was installed, although the tip
  after run offers the alias (`project_run.go:152`).

Sessions:

* `ForwardPort` returns no error when accepting fails; a failed dial leaves the
  local connection open; the end of one direction is not passed on; the timeout of
  expose counts new connections only, where its help says "activity"
  (`project_expose.go:54`);
* `AttachProcessUsingKey`, which nothing calls, does not wait for the window
  handler when it returns an error.

Nothing denies, and it is therefore no finding, that of two overlapping `cds`
processes the one that saves last overwrites what the other saved (`db.json` and
`cliconfig.yaml` alike), and that a kill or a failed write after the truncation
leaves a file that stops every later command; every start rewrites
`cliconfig.yaml`. A kill or a full disk inside the write of the migration loses the
clients, because the next start finds the new file and removes the legacy one.

## 6. What is not modelled

* Text: parsing of `devcontainer.json`, the blocks of lines in `~/.ssh/config`
  (an alias stands for its block), rendering of systemd units, output and
  logging. They transform text without state of their own. Text columns of the
  database that nothing refers to are not told apart.
* The network: HTTP and git (`scm`, `ar`), remote sources, the download of cfssl
  and the search for a binary to install (`bootstrap`), credentials (`authmgr`):
  lookups and fallbacks whose result is used at once.
* Of the engine: features (which the agent never passes), networks, mounts, run
  arguments and copies, which have no influence on the properties.
* Of `shexec`: the password and retry variants of the ssh connection, and the
  known-hosts file.
* `space init`, which prepares directories; `list`, `show` and `get`, which only
  read.
* The generation of certificates, which is the work of cfssl; only when they are
  made and how they are installed is modelled.

## 7. Plan

Done: the modules of section 2, and the proofs of section 4.

Next, in this order:

1. The refinement between `ProjectLifecycle`'s save in one step and `CdsDb`.
2. `SshConfig`: the managed blocks of `~/.ssh/config` as a list of lines; the
   user's lines are never touched, upsert and removal are inverse.
3. `Credentials` and `ScmLookup`: lookup and fallback orders against a reference
   definition.
