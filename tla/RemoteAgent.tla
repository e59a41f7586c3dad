----------------------------- MODULE RemoteAgent -----------------------------
(***************************************************************************)
(* The agent of a remote host (internal/bootstrap/remote_agent.go) and the *)
(* certificates it shares with its clients (internal/tls): cds processes   *)
(* that register the host, make the certificates if one is missing, copy   *)
(* the program and the certificates with scp, stop what listens at the     *)
(* port, start the agent and wait until it answers.                        *)
(*                                                                         *)
(* One remote host.  Its entry of cliconfig.yaml is a variable, written in *)
(* one step (see CliConfig for the file).  A certificate file holds the    *)
(* generation of BuildCerts it comes from.  External: ssh, scp, processes  *)
(* and ports of the remote host.  A program that runs cannot be            *)
(* overwritten ("text file busy").                                         *)
(***************************************************************************)
EXTENDS Naturals, Sequences, SequencesExt

CONSTANTS
    Clis,        \* concurrent cds processes
    Ports,       \* ports of the remote host
    Default,     \* remoteAgentPort, "8087"
    None,        \* no port, no process
    MaxGen,      \* bound: certificates made
    MaxCommands, \* bound: commands run
    MaxEvents    \* bound: kills, and what happens beside the commands

ASSUME PortsAssumption == Default \in Ports /\ None \notin Ports

ASSUME BoundAssumption == MaxGen \in Nat

VARIABLES
    certs,    \* the six certificate files: Absent, Cut, or a generation
    entry,    \* the port registered for the host
    remote,   \* what listens, or is about to, at each port
    rcerts,   \* the certificate files of the remote host
    tools,    \* lsof or ss shows the process of a port on the remote host
    cli,      \* the running commands
    gen,      \* generations made
    trouble,  \* history: since no command was running, one failed, the host
              \* was deleted, or something happened beside the commands
    clash,    \* history: two processes installed certificates at once
    cut,      \* history: a process was killed while it wrote a certificate,
              \* or that write failed
    commands, events \* bounds

vars == <<certs, entry, remote, rcerts, tools, cli, gen, trouble, clash, cut, commands, events>>

-----------------------------------------------------------------------------
Absent == 0
Cut == 100

\* requiredRuntimeCerts, in the order in which installRuntimeCerts writes them.
CertFiles == <<"client/ca", "client/cert", "client/key", "agent/ca", "agent/cert", "agent/key">>

\* agentRuntimeCertFiles, in the order of the scp command.
AgentFiles == SubSeq(CertFiles, 4, 6)

(***************************************************************************)
(* Processes of the remote host.                                           *)
(***************************************************************************)
NoProcess == [kind |-> "none"]

Other == [kind |-> "other", up |-> "up"]

\* The agent reads its certificates when it starts.
Agent(up) == [kind |-> "agent", up |-> up, ca |-> rcerts["agent/ca"], srv |-> rcerts["agent/cert"]]

\* One that was sent a signal still answers for a moment, and may then run
\* on without answering until its last call has ended.
Listens(q) == remote[q] # NoProcess /\ remote[q].up \in {"up", "signalled"}

\* The client's pair is of one generation, which the agent's authority
\* vouches for, and the other way round.
verifyAgentHealth(q) ==
    /\ Listens(q)
    /\ remote[q].kind = "agent"
    /\ certs["client/cert"] = certs["client/key"]
    /\ certs["client/cert"] = remote[q].ca
    /\ certs["client/ca"] = remote[q].srv
    /\ certs["client/ca"] \notin {Absent, Cut}

AgentRuns == \E q \in Ports : remote[q].kind = "agent"

(***************************************************************************)
(* Commands.                                                               *)
(***************************************************************************)
Idle == [pc |-> "idle"]

Init ==
    /\ certs = [f \in Range(CertFiles) |-> Absent]
    /\ entry = None
    /\ remote = [q \in Ports |-> NoProcess]
    /\ rcerts = [f \in Range(AgentFiles) |-> Absent]
    /\ tools \in BOOLEAN
    /\ cli = [x \in Clis |-> Idle]
    /\ gen = 0
    /\ trouble = TRUE
    /\ clash = FALSE
    /\ cut = FALSE
    /\ commands = 0
    /\ events = 0

\* port is the one the user asked for, then the one of the registry.
Begin(x, pc, port) ==
    /\ cli[x] = Idle
    /\ commands < MaxCommands
    /\ commands' = commands + 1
    /\ cli' = [cli EXCEPT ![x] = [pc |-> pc, port |-> port, gen |-> Absent, i |-> 0]]
    /\ trouble' = (trouble /\ \E y \in Clis : cli[y] # Idle)
    /\ UNCHANGED <<certs, entry, remote, rcerts, tools, gen, clash, cut, events>>

Goto(x, c) ==
    /\ cli' = [cli EXCEPT ![x] = c]
    /\ UNCHANGED <<tools, trouble, cut, commands, events>>

End(x, ok) ==
    /\ cli' = [cli EXCEPT ![x] = Idle]
    /\ trouble' = (trouble \/ ~ ok)
    /\ UNCHANGED <<tools, cut, commands, events>>

\* `space host add` of the remote host, with or without a port.
spcHostAdd(x) == \E q \in Ports : Begin(x, "ensure", q)

\* A project command on a project of the host: ensureAgentStarted.
projectCommand(x) == Begin(x, "check", None)

\* `space host delete`: the entry goes; the agent stays.
spcHostDelete(x) ==
    /\ cli[x] = Idle
    /\ commands < MaxCommands
    /\ commands' = commands + 1
    /\ entry # None
    /\ entry' = None
    /\ trouble' = TRUE
    /\ UNCHANGED <<certs, remote, rcerts, tools, cli, gen, clash, cut, events>>

ensureAgentRegistered(x) ==
    /\ cli[x].pc = "ensure"
    /\ entry' = IF entry = None THEN cli[x].port ELSE entry
    /\ Goto(x, [cli[x] EXCEPT !.pc = "check"])
    /\ UNCHANGED <<certs, remote, rcerts, gen, clash>>

\* StartAgent.  A remote host that is not registered has no agent.
isAgentRunning(x) ==
    /\ cli[x].pc = "check"
    /\ IF entry # None /\ verifyAgentHealth(entry) THEN End(x, TRUE)
       ELSE Goto(x, [cli[x] EXCEPT !.pc = "register"])
    /\ UNCHANGED <<certs, entry, remote, rcerts, gen, clash>>

ensureRemoteAgentRegistered(x) ==
    LET q == IF entry = None THEN Default ELSE entry IN
    /\ cli[x].pc = "register"
    /\ entry' = q
    /\ Goto(x, [cli[x] EXCEPT !.pc = "certs", !.port = q])
    /\ UNCHANGED <<certs, remote, rcerts, gen, clash>>

(***************************************************************************)
(* Certificates.  A file that exists is not looked into.                   *)
(***************************************************************************)
ensureRuntimeCerts(x) ==
    /\ cli[x].pc = "certs"
    /\ IF \A f \in DOMAIN certs : certs[f] # Absent
       THEN Goto(x, [cli[x] EXCEPT !.pc = "copy"]) /\ UNCHANGED gen
       ELSE /\ gen < MaxGen
            /\ gen' = gen + 1
            /\ Goto(x, [cli[x] EXCEPT !.pc = "clean", !.gen = gen + 1, !.i = 1])
    /\ UNCHANGED <<certs, entry, remote, rcerts, clash>>

Installing(y) == cli[y].pc \in {"clean", "install"}

\* Mutant: only the directory of the client is emptied.
cleanManagedCertDir_Client(i) == IF i = 1 THEN {CertFiles[k] : k \in 1..3} ELSE {}

\* The directory of the client, then the one of the agent.
cleanManagedCertDir(i) == {CertFiles[k] : k \in (3 * i - 2)..(3 * i)}

\* Both directories are emptied before the first file is written.
cleanCertDirs(x) ==
    LET i == cli[x].i IN
    /\ cli[x].pc = "clean"
    /\ certs' = [f \in DOMAIN certs |-> IF f \in cleanManagedCertDir(i) THEN Absent ELSE certs[f]]
    /\ clash' = (clash \/ \E y \in Clis \ {x} : Installing(y))
    /\ Goto(x, [cli[x] EXCEPT !.pc = IF i = 2 THEN "install" ELSE "clean",
                              !.i = IF i = 2 THEN 1 ELSE 2])
    /\ UNCHANGED <<entry, remote, rcerts, gen>>

installRuntimeCerts(x) ==
    LET i == cli[x].i IN
    /\ cli[x].pc = "install"
    /\ certs' = [certs EXCEPT ![CertFiles[i]] = cli[x].gen]
    /\ clash' = (clash \/ \E y \in Clis \ {x} : Installing(y))
    /\ Goto(x, [cli[x] EXCEPT !.pc = IF i = Len(CertFiles) THEN "copy" ELSE "install", !.i = i + 1])
    /\ UNCHANGED <<entry, remote, rcerts, gen>>

(***************************************************************************)
(* The remote host.                                                        *)
(***************************************************************************)
\* copyRemoteAgentAssets: the program of a running agent cannot be replaced.
copyAgentBinary(x) ==
    /\ cli[x].pc = "copy"
    /\ IF AgentRuns THEN End(x, FALSE) ELSE Goto(x, [cli[x] EXCEPT !.pc = "copyCerts"])
    /\ UNCHANGED <<certs, entry, remote, rcerts, gen, clash>>

\* One scp of three files; it may stop after some of them.
copyAgentCerts(x) ==
    /\ cli[x].pc = "copyCerts"
    /\ \E n \in 0..3 :
          /\ rcerts' = [f \in DOMAIN rcerts |->
                           IF \E k \in 1..n : AgentFiles[k] = f THEN certs[f] ELSE rcerts[f]]
          /\ IF n = 3 THEN Goto(x, [cli[x] EXCEPT !.pc = "stop"]) ELSE End(x, FALSE)
    /\ UNCHANGED <<certs, entry, remote, gen, clash>>

\* Mutant: the script does not wait until the process has gone.
stopRemoteAgentProcess_NoWait(x) ==
    LET q == cli[x].port IN
    /\ cli[x].pc = "stop"
    /\ remote' = IF tools /\ Listens(q) THEN [remote EXCEPT ![q] = [@ EXCEPT !.up = "signalled"]] ELSE remote
    /\ Goto(x, [cli[x] EXCEPT !.pc = "start"])
    /\ UNCHANGED <<certs, entry, rcerts, gen, clash>>

\* Whoever listens at the port is sent a signal, if a tool tells who that
\* is; the script then waits until the process has gone, or gives up after
\* a second.
stopRemoteAgentProcess(x) ==
    LET q == cli[x].port IN
    /\ cli[x].pc = "stop"
    /\ \/ /\ ~ (tools /\ Listens(q))
          /\ UNCHANGED remote
          /\ Goto(x, [cli[x] EXCEPT !.pc = "start"])
       \/ /\ tools /\ Listens(q)
          /\ remote' = [remote EXCEPT ![q] = NoProcess]
          /\ Goto(x, [cli[x] EXCEPT !.pc = "start"])
       \/ /\ tools /\ Listens(q)
          /\ remote' = [remote EXCEPT ![q] = [@ EXCEPT !.up = "stopping"]]
          /\ End(x, FALSE)
    /\ UNCHANGED <<certs, entry, rcerts, gen, clash>>

\* A program that finds its port taken, or a pair of certificate files that
\* do not belong together, ends at once.
startRemoteAgentProcess(x) ==
    LET q == cli[x].port IN
    /\ cli[x].pc = "start"
    /\ remote' = IF \/ remote[q] # NoProcess /\ remote[q].up # "stopping"
                    \/ rcerts["agent/cert"] # rcerts["agent/key"]
                    \/ {rcerts["agent/cert"], rcerts["agent/ca"]} \cap {Absent, Cut} # {}
                 THEN remote ELSE [remote EXCEPT ![q] = Agent("starting")]
    /\ Goto(x, [cli[x] EXCEPT !.pc = "wait"])
    /\ UNCHANGED <<certs, entry, rcerts, gen, clash>>

waitForHealthyAgent(x) ==
    /\ cli[x].pc = "wait"
    /\ verifyAgentHealth(cli[x].port)
    /\ End(x, TRUE)
    /\ UNCHANGED <<certs, entry, remote, rcerts, gen, clash>>

\* A process that is killed or fails in the middle of a step has removed
\* some of the files of a directory, or leaves the file it writes cut.
StopsInside(x) ==
    \/ UNCHANGED <<certs, cut>>
    \/ /\ cli[x].pc = "clean"
       /\ \E gone \in SUBSET cleanManagedCertDir(cli[x].i) :
             certs' = [f \in DOMAIN certs |-> IF f \in gone THEN Absent ELSE certs[f]]
       /\ UNCHANGED cut
    \/ /\ cli[x].pc = "install"
       /\ certs' = [certs EXCEPT ![CertFiles[cli[x].i]] = Cut]
       /\ cut' = TRUE

\* Any step may end the command with an error: no cfssl, no connection, no
\* program to copy, an invalid port, 30 seconds without a healthy answer, a
\* file that cannot be removed, or not be written whole.
Fails(x) ==
    /\ cli[x] # Idle
    /\ StopsInside(x)
    /\ cli' = [cli EXCEPT ![x] = Idle]
    /\ trouble' = TRUE
    /\ UNCHANGED <<entry, remote, rcerts, tools, gen, clash, commands, events>>

(***************************************************************************)
(* What happens beside the commands.                                       *)
(***************************************************************************)
\* An agent that was started listens; one that was stopped is gone.
Proceed(q) ==
    /\ remote[q] # NoProcess
    /\ \/ /\ remote[q].up = "starting"
          /\ remote' = [remote EXCEPT ![q] = [@ EXCEPT !.up = "up"]]
       \/ /\ remote[q].up \in {"signalled", "stopping"}
          /\ remote' = [remote EXCEPT ![q] = NoProcess]
    /\ UNCHANGED <<certs, entry, rcerts, tools, cli, gen, trouble, clash, cut, commands, events>>

Event ==
    /\ events < MaxEvents
    /\ events' = events + 1
    /\ trouble' = TRUE
    /\ UNCHANGED <<entry, rcerts, tools, gen, clash, commands>>

\* A process is killed, before, in the middle of or after any step.
Kill(x) ==
    /\ cli[x] # Idle
    /\ cli' = [cli EXCEPT ![x] = Idle]
    /\ StopsInside(x)
    /\ Event
    /\ UNCHANGED remote

\* The user removes a certificate of the client.
RemoveCert ==
    /\ certs["client/ca"] # Absent
    /\ certs' = [certs EXCEPT !["client/ca"] = Absent]
    /\ Event
    /\ UNCHANGED <<remote, cli, cut>>

\* A process of the remote host ends, or another program takes a port.
RemoteChange ==
    /\ \E q \in Ports :
          remote' = [remote EXCEPT ![q] = IF remote[q] = NoProcess THEN Other ELSE NoProcess]
    /\ Event
    /\ UNCHANGED <<certs, cli, cut>>

Next ==
    \/ \E x \in Clis :
          \/ spcHostAdd(x)
          \/ projectCommand(x)
          \/ spcHostDelete(x)
          \/ ensureAgentRegistered(x)
          \/ isAgentRunning(x)
          \/ ensureRemoteAgentRegistered(x)
          \/ ensureRuntimeCerts(x)
          \/ cleanCertDirs(x)
          \/ installRuntimeCerts(x)
          \/ copyAgentBinary(x)
          \/ copyAgentCerts(x)
          \/ stopRemoteAgentProcess(x)
          \/ startRemoteAgentProcess(x)
          \/ waitForHealthyAgent(x)
          \/ Fails(x)
          \/ Kill(x)
    \/ \E q \in Ports : Proceed(q)
    \/ RemoveCert
    \/ RemoteChange

Spec == Init /\ [][Next]_vars

-----------------------------------------------------------------------------
Generations == 1..MaxGen \cup {Absent, Cut}

\* Every variable has its type.
TypeOK ==
    /\ certs \in [Range(CertFiles) -> Generations]
    /\ entry \in Ports \cup {None}
    /\ rcerts \in [Range(AgentFiles) -> Generations]
    /\ DOMAIN remote = Ports
    /\ DOMAIN cli = Clis
    /\ {tools, trouble, clash, cut} \subseteq BOOLEAN
    /\ gen \in 0..MaxGen

\* installRuntimeCerts empties both directories before it writes the first
\* file, so that wherever a process is killed or fails but in the middle of
\* writing one file, six files that are all there belong to one authority:
\* ensureRuntimeCerts, which only looks whether they are there, is right to
\* use them.  Excepted too are two processes that install at once.
CertsAgree ==
    ~ clash /\ ~ cut /\ (\A f \in DOMAIN certs : certs[f] # Absent)
        => \A f, g \in DOMAIN certs : certs[f] = certs[g]

\* When every command of those that ran together has ended well, and
\* nothing happened beside them, the registered port is served, by an agent
\* that answers with the certificates of the client: no command stops for
\* good what another has started.
LastAddServes ==
    ~ trouble /\ (\A x \in Clis : cli[x] = Idle)
        => entry # None /\ verifyAgentHealth(entry)

-----------------------------------------------------------------------------
(***************************************************************************)
(* Why CertsAgree and LastAddServes hold: what every step preserves.       *)
(***************************************************************************)
Places == {"ensure", "check", "register", "certs", "clean", "install", "copy",
           "copyCerts", "stop", "start", "wait"}

\* Steps counts the directory to empty, or the file to write, next.
Steps(pc) ==
    CASE pc = "clean" -> 1..2
      [] pc = "install" -> 1..Len(CertFiles)
      [] OTHER -> Nat

Running ==
    {c \in [pc : Places, port : Ports \cup {None}, gen : 0..MaxGen, i : Nat] : c.i \in Steps(c.pc)}

Processes ==
    {NoProcess}
        \cup [kind : {"other"}, up : {"up", "stopping"}]
        \cup [kind : {"agent"}, up : {"starting", "up", "stopping"}, ca : Generations, srv : Generations]

\* No process of the remote host is ever left signalled but listening.
Typed ==
    /\ TypeOK
    /\ \A x \in Clis : cli[x] \in Running \cup {Idle}
    /\ \A q \in Ports : remote[q] \in Processes

\* A process that has emptied a directory and not yet written the last file.
Halfway(x) == cli[x].pc = "install" \/ (cli[x].pc = "clean" /\ cli[x].i = 2)

\* What it has emptied and not yet written is absent, and what it has
\* written is its own, or was removed by the user.
Wrote(x) ==
    LET i == cli[x].i IN
    \A k \in DOMAIN CertFiles :
        certs[CertFiles[k]] \in
            CASE cli[x].pc = "clean" -> IF k \in 1..3 THEN {Absent} ELSE Generations
              [] cli[x].pc = "install" -> IF k < i THEN {cli[x].gen, Absent} ELSE {Absent}

\* As long as no two processes met while they installed, one at most is
\* halfway; and without a cut file, the files that are there are of one
\* generation at every moment, not only when all six are.
InstallInv ==
    /\ ~ clash => \A x, y \in Clis : Halfway(x) /\ Halfway(y) => x = y
    /\ ~ clash /\ ~ cut =>
          /\ \A x \in Clis : Halfway(x) => Wrote(x)
          /\ \A f, g \in DOMAIN certs : Absent \in {certs[f], certs[g]} \/ certs[f] = certs[g]

\* Without trouble, a command past its registration works on the port that
\* is registered, which cannot change any more.
ServeInv ==
    /\ LastAddServes
    /\ ~ trouble =>
          \A x \in Clis : cli[x].pc \notin {"idle", "ensure", "check", "register"}
                            => entry # None /\ cli[x].port = entry

=============================================================================
