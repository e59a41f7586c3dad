----------------------------- MODULE LocalAgent -----------------------------
(***************************************************************************)
(* The agent of localhost (internal/bootstrap, internal/command            *)
(* space_host_*.go): cds processes that look for it, start it, register    *)
(* its address in cliconfig.yaml at once, record that they own the process *)
(* in db.json when their command succeeds, and stop it by that record.     *)
(*                                                                         *)
(* Of db.json only the row of localhost matters, of cliconfig.yaml only    *)
(* the entry of localhost.  Writes of both files are single steps (see     *)
(* CdsDb for the file), but the one is not the other's: a command may end  *)
(* between them.  The operating system is external: processes, their ids   *)
(* and ports, and what the user runs beside cds.                           *)
(*                                                                         *)
(* A signal ends an agent that is still starting.  One that listens may    *)
(* still answer for a moment, then closes its port, and runs on until its  *)
(* last call has ended: GracefulStop has no deadline.                      *)
(*                                                                         *)
(* Assumptions on process ids: one that a record names is not given to an  *)
(* agent the user starts, and one that was just looked up by `ps` is not   *)
(* given away before the signal is sent.  On names: the process cds starts *)
(* is the agent, and no program but an agent has the recorded name.  That  *)
(* leaves out `go run`, by which resolveAgentCommand starts the agent in a *)
(* checkout without a binary: its record names the go command.             *)
(***************************************************************************)
EXTENDS Naturals

CONSTANTS
    Clis,         \* concurrent cds processes
    Pids,         \* process ids of agents and programs beside them
    Ports,        \* addresses on localhost
    Default,      \* localAgentAddress, ":8087"
    Binary,       \* the base name of the agent's program, agentBinaryName
    Programs,     \* the names of other programs
    None,         \* no process, no name, no address, no record
    MaxCommands,  \* bound: commands run
    MaxEvents     \* bound: what happens beside them

ASSUME PortsAssumption == Default \in Ports /\ None \notin Ports \cup Pids

ASSUME NamesAssumption == Binary \notin Programs /\ None \notin Programs \cup {Binary}

ASSUME BoundsAssumption == MaxCommands \in Nat /\ MaxEvents \in Nat

VARIABLES
    db,       \* the localhost row of db.json
    cfg,      \* the localhost entry of cliconfig.yaml
    proc,     \* the processes
    cli,      \* the running commands
    done,     \* history: how the command that ended with the last step went
    calm,     \* history: nothing else happened during the command, and no agent
              \* of an earlier one was still coming up or going down
    commands, \* bound
    events    \* bound

vars == <<db, cfg, proc, cli, done, calm, commands, events>>

-----------------------------------------------------------------------------
(***************************************************************************)
(* The row exists, has runtime information, names the process cds owns,    *)
(* and some project is mapped to localhost.                                *)
(***************************************************************************)
Rows == [row : BOOLEAN, runtime : BOOLEAN, owner : Pids \cup {None}, mapped : BOOLEAN]

\* normalize brings back a row that projects refer to, without its content.
normalize(d) == [d EXCEPT !.row = @ \/ d.mapped]

NoProcess == [name |-> None, by |-> "none", port |-> None, up |-> "none", signalled |-> "no"]

\* An agent listens some time after it was started; it may then fail the
\* TLS verification (other certificates).
Agent(by, port, up) ==
    [name |-> Binary, by |-> by, port |-> port, up |-> up, signalled |-> "no"]

Other(name, port) ==
    [name |-> name, by |-> "user", port |-> port, up |-> "broken", signalled |-> "no"]

Listens(port) == \E q \in Pids : proc[q].port = port /\ proc[q].up \in {"healthy", "broken"}

verifyAgentHealth(port) == \E q \in Pids : proc[q].port = port /\ proc[q].up = "healthy"

\* No process is coming up or going down.
Quiet == \A q \in Pids : proc[q].up # "starting" /\ proc[q].signalled = "no"

Idle == [pc |-> "idle"]

\* owner is the record the command found, as history.
Started(op, pc, mem) ==
    [op |-> op, pc |-> pc, mem |-> mem, port |-> None, pid |-> None, owner |-> mem.owner]

Init ==
    /\ db = [row |-> FALSE, runtime |-> FALSE, owner |-> None, mapped |-> FALSE]
    /\ cfg = None
    /\ proc = [q \in Pids |-> NoProcess]
    /\ cli = [x \in Clis |-> Idle]
    /\ done = Idle
    /\ calm = TRUE
    /\ commands = 0
    /\ events = 0

(***************************************************************************)
(* A command loads db.json, and saves it if it succeeds.                   *)
(***************************************************************************)
Begin(x, c) ==
    /\ cli[x] = Idle
    /\ commands < MaxCommands
    /\ commands' = commands + 1
    /\ cli' = [cli EXCEPT ![x] = c]
    /\ done' = Idle
    /\ calm' = (Quiet /\ \A y \in Clis : cli[y] = Idle)
    /\ UNCHANGED <<db, cfg, proc, events>>

Goto(x, c) ==
    /\ cli' = [cli EXCEPT ![x] = c]
    /\ done' = Idle
    /\ UNCHANGED <<db, calm, commands, events>>

Ended(x, op) == [op |-> op, owner |-> cli[x].owner, pid |-> cli[x].pid]

\* An error ends the process without Save.
Fail(x) ==
    /\ cli' = [cli EXCEPT ![x] = Idle]
    /\ done' = Ended(x, "error")
    /\ UNCHANGED <<db, calm, commands, events>>

\* Deferred in main: what the command did to db.json is written, or that
\* fails, long after cliconfig.yaml was.
Save(x) ==
    /\ cli[x].pc = "save"
    /\ \/ /\ cli' = [cli EXCEPT ![x] = Idle]
          /\ db' = normalize(cli[x].mem)
          /\ done' = Ended(x, cli[x].op)
          /\ UNCHANGED <<calm, commands, events>>
       \/ Fail(x)
    /\ UNCHANGED <<cfg, proc>>

\* The process is killed; an agent it started lives on.
Kill(x) ==
    /\ cli[x] # Idle
    /\ Goto(x, Idle)
    /\ UNCHANGED <<cfg, proc>>

(***************************************************************************)
(* `space host add localhost`: registerLocalHost detects the runtime       *)
(* unless it is recorded; ensureAgentRegistered; StartAgent.               *)
(***************************************************************************)
registerLocalHost(d) == [d EXCEPT !.row = TRUE, !.runtime = TRUE]

\* The user may name a port ("localhost:9000"), or get the default one.
spcHostAdd(x) ==
    \E port \in Ports :
        Begin(x, [Started("add", "ensure", registerLocalHost(normalize(db)))
                    EXCEPT !.port = port])

\* An address that is registered stays.
ensureAgentRegistered(x) ==
    /\ cli[x].pc = "ensure"
    /\ cfg' = IF cfg = None THEN cli[x].port ELSE cfg
    /\ Goto(x, [cli[x] EXCEPT !.pc = "check"])
    /\ UNCHANGED proc

\* A project command on localhost: ensureAgentStarted.  Only run maps its
\* project, which adds the row.
projectCommand(x) ==
    \E run \in BOOLEAN :
        Begin(x, Started("project", "check",
                   LET d == normalize(db) IN
                   IF run THEN [d EXCEPT !.row = TRUE, !.mapped = TRUE] ELSE d))

(***************************************************************************)
(* StartAgent.                                                             *)
(***************************************************************************)
\* The registered address, or the default one, is tried.
isAgentRunning(x) ==
    LET address == IF cfg = None THEN Default ELSE cfg IN
    /\ cli[x].pc = "check"
    /\ Goto(x, [cli[x] EXCEPT
                  !.pc = IF verifyAgentHealth(address) THEN "register" ELSE "probe",
                  !.port = address])
    /\ UNCHANGED <<cfg, proc>>

\* The default address if nobody listens there now, else a free one.
nextLocalAgentAddress(x) ==
    /\ cli[x].pc = "probe"
    /\ \E port \in Ports :
          /\ ~ Listens(port)
          /\ Listens(Default) \/ port = Default
          /\ Goto(x, [cli[x] EXCEPT !.pc = "start", !.port = port])
    /\ UNCHANGED <<cfg, proc>>

startAgent(x) ==
    /\ cli[x].pc = "start"
    /\ \E q \in Pids :
          /\ proc[q] = NoProcess
          /\ proc' = [proc EXCEPT ![q] = Agent("cds", cli[x].port, "starting")]
          /\ Goto(x, [cli[x] EXCEPT !.pc = "wait", !.pid = q])
    /\ UNCHANGED cfg

\* Mutant: a record outside of any row.
recordManagedAgentOwnership_NoRow(d, q) == [d EXCEPT !.owner = q]

\* Best effort: without a row of localhost nothing is recorded.
recordManagedAgentOwnership(d, q) == IF d.row THEN [d EXCEPT !.owner = q] ELSE d

\* Whoever answers at the address will do.
waitForHealthyAgent(x) ==
    /\ cli[x].pc = "wait"
    /\ verifyAgentHealth(cli[x].port)
    /\ Goto(x, [cli[x] EXCEPT !.pc = "register",
                              !.mem = recordManagedAgentOwnership(@, cli[x].pid)])
    /\ UNCHANGED <<cfg, proc>>

\* Mutant: an entry of cliconfig.yaml is never replaced.
registerLocalAgent_Keeps(x) ==
    /\ cli[x].pc = "register"
    /\ cfg' = IF cfg = None THEN cli[x].port ELSE cfg
    /\ Goto(x, [cli[x] EXCEPT !.pc = IF cli[x].op = "add" THEN "save" ELSE "work"])
    /\ UNCHANGED proc

registerLocalAgent(x) ==
    /\ cli[x].pc = "register"
    /\ cfg' = cli[x].port
    /\ Goto(x, [cli[x] EXCEPT !.pc = IF cli[x].op = "add" THEN "save" ELSE "work"])
    /\ UNCHANGED proc

\* Any of these steps may return an error instead: no binary, no
\* certificates, no free port, 30 seconds without a healthy answer, a file
\* that cannot be read or written.  The command ends there.
Fails(x) ==
    /\ cli[x].pc \in {"ensure", "check", "probe", "start", "wait", "register", "unregister"}
    /\ Fail(x)
    /\ UNCHANGED <<cfg, proc>>

\* The rest of the project command, for which ensureProjectSSHKeyPair may
\* add the row.
Work(x) ==
    /\ cli[x].pc = "work"
    /\ \/ \E keys \in BOOLEAN :
             Goto(x, [cli[x] EXCEPT !.pc = "save",
                                    !.mem = [cli[x].mem EXCEPT !.row = @ \/ keys]])
       \/ Fail(x)
    /\ UNCHANGED <<cfg, proc>>

(***************************************************************************)
(* `space host delete localhost`.                                          *)
(***************************************************************************)
spcHostDelete(x) == Begin(x, Started("delete", "lookup", normalize(db)))

\* Mutant: any process with the recorded id is taken for the agent.
matchesOwnedAgentProcess_Any(q) == proc[q] # NoProcess

\* The name `ps` shows is the one of the record.
matchesOwnedAgentProcess(q) == proc[q].name = Binary

\* Mutant: only a host that was added has its agent stopped, not one that a
\* project command brought up.
StopAgent_AddedOnly(x) ==
    LET q == cli[x].mem.owner IN
    /\ cli[x].pc = "lookup"
    /\ Goto(x, [cli[x] EXCEPT
          !.pc = IF cli[x].mem.runtime /\ q # None /\ matchesOwnedAgentProcess(q)
                 THEN "signal" ELSE "unregister"])
    /\ UNCHANGED <<cfg, proc>>

StopAgent(x) ==
    LET q == cli[x].mem.owner IN
    /\ cli[x].pc = "lookup"
    /\ Goto(x, [cli[x] EXCEPT
          !.pc = IF q # None /\ matchesOwnedAgentProcess(q) THEN "signal" ELSE "unregister"])
    /\ UNCHANGED <<cfg, proc>>

\* SIGTERM is sent, and nobody waits for its effect.  A process that has
\* just gone is an error.
signalProcess(x) ==
    LET q == cli[x].mem.owner IN
    /\ cli[x].pc = "signal"
    /\ IF proc[q] = NoProcess THEN Fail(x) /\ UNCHANGED proc
       ELSE /\ proc' = [proc EXCEPT ![q] = [@ EXCEPT !.signalled = "yes"]]
            /\ Goto(x, [cli[x] EXCEPT !.pc = "unregister"])
    /\ UNCHANGED cfg

RemoveHostFromHostList(d) == [d EXCEPT !.row = FALSE, !.runtime = FALSE, !.owner = None]

DeleteAgentFromConfig(x) ==
    /\ cli[x].pc = "unregister"
    /\ IF cfg = None THEN Fail(x)
       ELSE Goto(x, [cli[x] EXCEPT !.pc = "save", !.mem = RemoveHostFromHostList(@)])
    /\ cfg' = None
    /\ UNCHANGED proc

(***************************************************************************)
(* The processes, and what happens beside cds.                             *)
(***************************************************************************)
\* An agent finds its port free, or ends.
Listen ==
    /\ \E q \in Pids, up \in {"healthy", "broken"} :
          /\ proc[q].up = "starting" /\ proc[q].signalled = "no"
          /\ proc' = [proc EXCEPT ![q] =
                IF Listens(@.port) THEN NoProcess ELSE [@ EXCEPT !.up = up]]
    /\ UNCHANGED <<db, cfg, cli, done, calm, commands, events>>

\* What follows a signal.
GracefulStop ==
    /\ \E q \in Pids :
          /\ proc[q].signalled = "yes"
          /\ proc' = [proc EXCEPT ![q] =
                IF @.up \in {"healthy", "broken"} THEN [@ EXCEPT !.up = "stopping"] ELSE NoProcess]
    /\ UNCHANGED <<db, cfg, cli, done, calm, commands, events>>

Event ==
    /\ events < MaxEvents
    /\ events' = events + 1
    /\ done' = Idle
    /\ calm' = FALSE
    /\ UNCHANGED <<db, cfg, cli, commands>>

Recorded(q) == q = db.owner \/ \E x \in Clis : cli[x] # Idle /\ q \in {cli[x].pid, cli[x].mem.owner}

UserStartsAgent ==
    /\ \E q \in Pids, up \in {"healthy", "broken"} :
          /\ proc[q] = NoProcess
          /\ ~ Recorded(q)
          /\ ~ Listens(Default)
          /\ proc' = [proc EXCEPT ![q] = Agent("user", Default, up)]
    /\ Event

OtherProgramStarts ==
    /\ \E q \in Pids, name \in Programs, port \in Ports \cup {None} :
          /\ proc[q] = NoProcess
          /\ \A x \in Clis : cli[x].pc = "signal" => cli[x].mem.owner # q
          /\ port # None => ~ Listens(port)
          /\ proc' = [proc EXCEPT ![q] = Other(name, port)]
    /\ Event

ProcessEnds ==
    /\ \E q \in Pids : proc[q] # NoProcess /\ proc' = [proc EXCEPT ![q] = NoProcess]
    /\ Event

Next ==
    \/ \E x \in Clis :
          \/ spcHostAdd(x)
          \/ ensureAgentRegistered(x)
          \/ projectCommand(x)
          \/ isAgentRunning(x)
          \/ nextLocalAgentAddress(x)
          \/ startAgent(x)
          \/ waitForHealthyAgent(x)
          \/ registerLocalAgent(x)
          \/ Fails(x)
          \/ Work(x)
          \/ spcHostDelete(x)
          \/ StopAgent(x)
          \/ signalProcess(x)
          \/ DeleteAgentFromConfig(x)
          \/ Save(x)
          \/ Kill(x)
    \/ Listen
    \/ GracefulStop
    \/ UserStartsAgent
    \/ OtherProgramStarts
    \/ ProcessEnds

Spec == Init /\ [][Next]_vars
-----------------------------------------------------------------------------
Processes ==
    {NoProcess} \cup
    [name : Programs \cup {Binary}, by : {"cds", "user"}, port : Ports \cup {None},
     up : {"starting", "healthy", "broken", "stopping"}, signalled : {"no", "yes"}]

\* A command that is under way, and how one ended.
Commands ==
    [op : {"add", "project", "delete"}, mem : Rows, port : Ports \cup {None},
     pc : {"ensure", "check", "probe", "start", "wait", "register", "work",
           "lookup", "signal", "unregister", "save"},
     pid : Pids \cup {None}, owner : Pids \cup {None}]

Ends == [op : {"add", "project", "delete", "error"}, owner : Pids \cup {None}, pid : Pids \cup {None}]

RowOK(d) == d.owner # None \/ d.runtime \/ d.mapped => d.row

\* Every variable has its type, and a record or runtime information exists
\* only in a row of localhost (SetHostAgentOwnership, SetHostRuntime).
TypeOK ==
    /\ db \in Rows
    /\ RowOK(db)
    /\ cfg \in Ports \cup {None}
    /\ proc \in [Pids -> Processes]
    /\ cli \in [Clis -> Commands \cup {Idle}]
    /\ done \in Ends \cup {Idle}
    /\ calm \in BOOLEAN
    /\ commands \in 0..MaxCommands
    /\ events \in 0..MaxEvents

\* StopManagedAgent signals only an agent that cds started, never a program
\* that got the recorded process id since, and never an agent of the user.
OnlyOwnedStopped ==
    [][ \A q \in Pids :
          proc[q].signalled = "no" /\ proc'[q].signalled = "yes"
          => proc[q].name = Binary /\ proc[q].by = "cds" ]_vars

\* The last step ended a command of this kind, during which nothing else
\* happened.
Calmly(op) == calm /\ done # Idle /\ done.op = op

\* After `space host add localhost` a healthy agent answers at the registered
\* address, whatever was registered, recorded or listening before; and if
\* cds had to start it, the record of the host names it, so that delete
\* can stop it.  Not so when an agent was still coming up or going down as
\* the command began: an add right after a delete may take the agent that
\* was told to stop, and still answers, for the one it wants.
AddedIsServed ==
    Calmly("add") =>
        /\ cfg # None /\ verifyAgentHealth(cfg)
        /\ done.pid # None => db.owner = done.pid /\ proc[done.pid].port = cfg

\* The process is no agent, or was sent the signal to stop.
Dismissed(q) == proc[q].name = Binary => proc[q].signalled = "yes"

\* After `space host delete localhost` the agent that the record named has
\* gone or was told to stop, no address is registered, and a row that a
\* project brings back knows nothing of the deleted one.
DeletedIsGone ==
    Calmly("delete") =>
        /\ done.owner # None => Dismissed(done.owner)
        /\ cfg = None
        /\ ~ db.runtime /\ db.owner = None
        /\ db.row => db.mapped

\* docs/adr/01-managed-local-agent-ownership.md: "If CDS starts a process but
\* cannot complete registration, it best-effort stops the process through
\* the same ownership checks before returning the error."
FailedStartIsStopped ==
    calm /\ done # Idle /\ done.op = "error" /\ done.pid # None /\ db.owner # done.pid
        => Dismissed(done.pid)

(***************************************************************************)
(* The inductive invariant: a process id that db.json or a running command *)
(* remembers does not belong to an agent of the user, and one that a       *)
(* command is about to signal does not belong to another program.          *)
(***************************************************************************)
Ours(q) == q # None /\ proc[q].name = Binary => proc[q].by = "cds"

CommandOK(c) ==
    c # Idle =>
        /\ RowOK(normalize(c.mem))
        /\ Ours(c.mem.owner)
        /\ Ours(c.pid)
        /\ c.pc = "signal" => c.mem.owner # None /\ proc[c.mem.owner].name \notin Programs

IInv ==
    /\ TypeOK
    /\ Ours(db.owner)
    /\ \A x \in Clis : CommandOK(cli[x])

(***************************************************************************)
(* The inductive invariant of a command that has the machine for itself:   *)
(* it is the only one, no agent is coming up but the one it started, that  *)
(* one is alone at its address, what an add is about to save names it, and *)
(* the process recorded when a delete began has gone, or was told to stop, *)
(* before the entry of cliconfig.yaml goes.                                *)
(***************************************************************************)
AloneAt(q, port) ==
    /\ q \in Pids /\ proc[q].port = port /\ proc[q].signalled = "no"
    /\ \A p \in Pids : p # q =>
          /\ proc[p].up # "starting" /\ proc[p].signalled = "no"
          /\ ~ (proc[p].port = port /\ proc[p].up \in {"healthy", "broken"})

\* The agent at the address of the command is the one it started, if any.
ServedBy(c) ==
    /\ verifyAgentHealth(c.port)
    /\ c.pid # None => proc[c.pid].port = c.port /\ (c.op = "add" => c.mem.owner = c.pid)

CalmCommand(c) ==
    /\ c.pc # "save" => (c.op = "delete" <=> c.pc \in {"lookup", "signal", "unregister"})
    /\ c.op = "add" => c.pc # "work" /\ c.mem.row
    /\ c.pc \in {"ensure", "check", "probe", "start", "register"} => Quiet
    /\ c.pc \notin {"wait", "register", "work", "save"} => c.pid = None
    /\ c.pc \in {"start", "wait", "register"} => c.port # None
    /\ c.pc = "start" => ~ Listens(c.port)
    /\ c.pc = "wait" => AloneAt(c.pid, c.port)
    /\ c.pc = "register" => ServedBy(c)
    /\ c.pc = "save" /\ c.op = "add" => Quiet /\ cfg = c.port /\ cfg # None /\ ServedBy(c)
    /\ c.pc \in {"lookup", "signal", "unregister"} => c.mem.owner = c.owner
    /\ c.op = "delete" /\ c.pc \in {"unregister", "save"} /\ c.owner # None => Dismissed(c.owner)
    /\ c.pc = "save" /\ c.op = "delete" =>
          cfg = None /\ ~ c.mem.row /\ ~ c.mem.runtime /\ c.mem.owner = None

CalmInv ==
    calm =>
        /\ \A x, y \in Clis : cli[x] # Idle /\ cli[y] # Idle => x = y
        /\ \A x \in Clis : cli[x] # Idle => CalmCommand(cli[x])
        /\ done # Idle /\ done.op = "add" => Quiet
        /\ AddedIsServed
        /\ DeletedIsGone

=============================================================================
