------------------------- MODULE RemoteAgent_proofs -------------------------
(***************************************************************************)
(* The safety of the agent of a remote host and of its certificates, for   *)
(* any number of cds processes, ports, commands and events.                *)
(***************************************************************************)
EXTENDS RemoteAgent, TLAPS

(***************************************************************************)
(* The certificate files.                                                  *)
(***************************************************************************)
\* The six files have six names.
LEMMA SixFiles ==
    /\ DOMAIN CertFiles = 1..6
    /\ Len(CertFiles) = 6
    /\ \A j, k \in 1..6 : CertFiles[j] = CertFiles[k] => j = k
    /\ \A k \in 1..6 : CertFiles[k] \in Range(CertFiles)
    /\ \A f \in Range(CertFiles) : \E k \in 1..6 : f = CertFiles[k]
<1>1. DOMAIN CertFiles = 1..6 /\ Len(CertFiles) = 6
    BY DEF CertFiles
<1>2. \A j, k \in 1..6 : CertFiles[j] = CertFiles[k] => j = k
    BY DEF CertFiles
<1> QED
    BY <1>1, <1>2, Zenon DEF Range

\* The three files that are copied are among them.
LEMMA AgentsFiles ==
    /\ {"agent/ca", "agent/cert", "agent/key"} \subseteq Range(CertFiles)
    /\ "client/ca" \in Range(CertFiles)
    /\ "client/cert" \in Range(CertFiles)
    /\ "client/key" \in Range(CertFiles)
    /\ Range(AgentFiles) = {"agent/ca", "agent/cert", "agent/key"}
<1>1. /\ CertFiles[1] = "client/ca" /\ CertFiles[2] = "client/cert" /\ CertFiles[3] = "client/key"
      /\ CertFiles[4] = "agent/ca" /\ CertFiles[5] = "agent/cert" /\ CertFiles[6] = "agent/key"
    BY DEF CertFiles
<1>2. DOMAIN AgentFiles = 1..3
    BY DEF AgentFiles, CertFiles
<1>3. AgentFiles[1] = "agent/ca" /\ AgentFiles[2] = "agent/cert" /\ AgentFiles[3] = "agent/key"
    BY DEF AgentFiles, CertFiles
<1>4. Range(AgentFiles) = {"agent/ca", "agent/cert", "agent/key"}
    BY <1>2, <1>3 DEF Range
<1>5. \A k \in 1..6 : CertFiles[k] \in Range(CertFiles)
    BY SixFiles
<1> QED
    BY <1>1, <1>4, <1>5

(***************************************************************************)
(* Types.                                                                  *)
(***************************************************************************)
\* Before the first command everything has its type.
LEMMA InitTyped == Init => Typed
<1> SUFFICES ASSUME Init PROVE Typed
    OBVIOUS
<1>1. certs \in [Range(CertFiles) -> Generations] /\ rcerts \in [Range(AgentFiles) -> Generations]
    BY DEF Init, Generations
<1>2. entry \in Ports \cup {None} /\ DOMAIN remote = Ports /\ DOMAIN cli = Clis
    BY DEF Init
<1>3. {tools, trouble, clash, cut} \subseteq BOOLEAN
    BY Zenon DEF Init
<1>4. gen \in 0..MaxGen
    BY BoundAssumption DEF Init
<1>5. \A x \in Clis : cli[x] \in Running \cup {Idle}
    BY Zenon DEF Init
<1>6. \A q \in Ports : remote[q] \in Processes
    BY Zenon DEF Init, Processes
<1> QED
    BY <1>1, <1>2, <1>3, <1>4, <1>5, <1>6, Zenon DEF Typed, TypeOK

\* A command may go on to any place that counts no steps.
LEMMA GoesOn ==
    ASSUME NEW c \in Running, NEW pc \in Places \ {"clean", "install"}
    PROVE  [c EXCEPT !.pc = pc] \in Running
<1>1. c.i \in Nat
    BY SixFiles DEF Running, Steps
<1>2. Steps(pc) = Nat
    BY DEF Steps
<1> QED
    BY <1>1, <1>2 DEF Running

\* The commands stay typed when one of them takes a step.
LEMMA CliTyped ==
    ASSUME Typed, NEW x \in Clis, NEW c \in Running \cup {Idle},
           cli' = [cli EXCEPT ![x] = c]
    PROVE  DOMAIN cli' = Clis /\ \A y \in Clis : cli'[y] \in Running \cup {Idle}
BY DEF Typed, TypeOK

\* So do the processes of the remote host.
LEMMA RemoteTyped ==
    ASSUME Typed, NEW q \in Ports, NEW r \in Processes,
           remote' = [remote EXCEPT ![q] = r]
    PROVE  DOMAIN remote' = Ports /\ \A y \in Ports : remote'[y] \in Processes
BY DEF Typed, TypeOK

\* A process at a port may be up or stopping; nothing is ever signalled.
LEMMA Ups ==
    ASSUME NEW r \in Processes, r # NoProcess, NEW up \in {"up", "stopping"}
    PROVE  [r EXCEPT !.up = up] \in Processes /\ r.up \in {"starting", "up", "stopping"}
<1>1. CASE r \in [kind : {"other"}, up : {"up", "stopping"}]
    BY <1>1 DEF Processes
<1>2. CASE r \in [kind : {"agent"}, up : {"starting", "up", "stopping"}, ca : Generations, srv : Generations]
    BY <1>2 DEF Processes
<1> QED
    BY <1>1, <1>2 DEF Processes

\* A command at a place is one that runs.
LEMMA Runs ==
    ASSUME Typed, NEW x \in Clis, cli[x].pc # "idle"
    PROVE  cli[x] \in Running /\ cli[x] # Idle
BY DEF Typed, Idle

\* A command that runs is not idle.
LEMMA Busy == \A c \in Running : c # Idle /\ c.pc # "idle" /\ c.pc \in Places
<1> SUFFICES ASSUME NEW c \in Running PROVE c.pc \in Places /\ c.pc # "idle"
    BY DEF Idle
<1> QED
    BY DEF Running, Places

\* The values that tell how the commands went stay truth values.
LEMMA FlagsNext == {tools, trouble, clash, cut} \subseteq BOOLEAN /\ [Next]_vars
                       => ({tools, trouble, clash, cut} \subseteq BOOLEAN)'
<1> SUFFICES ASSUME {tools, trouble, clash, cut} \subseteq BOOLEAN, [Next]_vars
             PROVE  /\ tools' \in BOOLEAN /\ trouble' \in BOOLEAN
                    /\ clash' \in BOOLEAN /\ cut' \in BOOLEAN
    OBVIOUS
<1>1. ASSUME NEW x \in Clis, NEW ok \in BOOLEAN, End(x, ok)
      PROVE  tools' \in BOOLEAN /\ trouble' \in BOOLEAN /\ cut' \in BOOLEAN
    BY <1>1, Zenon DEF End
<1>2. ASSUME NEW x \in Clis, NEW c, Goto(x, c)
      PROVE  tools' \in BOOLEAN /\ trouble' \in BOOLEAN /\ cut' \in BOOLEAN
    BY <1>2, Zenon DEF Goto
<1>3. ASSUME NEW x \in Clis, NEW pc, NEW q, Begin(x, pc, q)
      PROVE  tools' \in BOOLEAN /\ trouble' \in BOOLEAN /\ clash' \in BOOLEAN /\ cut' \in BOOLEAN
    BY <1>3, Zenon DEF Begin
<1>4. ASSUME NEW x \in Clis,
             \/ spcHostAdd(x) \/ projectCommand(x) \/ spcHostDelete(x)
             \/ Fails(x) \/ Kill(x)
      PROVE  tools' \in BOOLEAN /\ trouble' \in BOOLEAN /\ clash' \in BOOLEAN /\ cut' \in BOOLEAN
    BY <1>3, <1>4, Zenon DEF spcHostAdd, projectCommand, spcHostDelete, Fails, Kill, Event, StopsInside
<1>5. ASSUME NEW x \in Clis,
             \/ ensureAgentRegistered(x) \/ isAgentRunning(x) \/ ensureRemoteAgentRegistered(x)
             \/ ensureRuntimeCerts(x) \/ copyAgentBinary(x) \/ copyAgentCerts(x)
             \/ stopRemoteAgentProcess(x) \/ startRemoteAgentProcess(x)
             \/ waitForHealthyAgent(x)
      PROVE  tools' \in BOOLEAN /\ trouble' \in BOOLEAN /\ clash' \in BOOLEAN /\ cut' \in BOOLEAN
    <2>1. clash' = clash
        BY <1>5, Zenon DEF ensureAgentRegistered, isAgentRunning, ensureRemoteAgentRegistered,
            ensureRuntimeCerts, copyAgentBinary, copyAgentCerts, stopRemoteAgentProcess,
            startRemoteAgentProcess, waitForHealthyAgent
    <2>2. (\E c : Goto(x, c)) \/ (\E ok \in BOOLEAN : End(x, ok))
        BY <1>5, Zenon DEF ensureAgentRegistered, isAgentRunning, ensureRemoteAgentRegistered,
            ensureRuntimeCerts, copyAgentBinary, copyAgentCerts, stopRemoteAgentProcess,
            startRemoteAgentProcess, waitForHealthyAgent
    <2> QED
        BY <1>1, <1>2, <2>1, <2>2, Zenon
<1>6. ASSUME NEW x \in Clis, cleanCertDirs(x) \/ installRuntimeCerts(x)
      PROVE  tools' \in BOOLEAN /\ trouble' \in BOOLEAN /\ clash' \in BOOLEAN /\ cut' \in BOOLEAN
    BY <1>2, <1>6, Zenon DEF cleanCertDirs, installRuntimeCerts
<1>7. CASE (\E q \in Ports : Proceed(q)) \/ UNCHANGED vars
    BY <1>7, Zenon DEF Proceed, vars
<1>8. CASE RemoveCert \/ RemoteChange
    BY <1>8, Zenon DEF RemoveCert, RemoteChange, Event
<1> QED
    BY <1>4, <1>5, <1>6, <1>7, <1>8, Zenon DEF Next

\* A record of a command that starts is typed.
LEMMA Started ==
    ASSUME NEW pc \in {"ensure", "check"}, NEW q \in Ports \cup {None}
    PROVE  [pc |-> pc, port |-> q, gen |-> Absent, i |-> 0] \in Running
<1>1. Steps(pc) = Nat
    BY DEF Steps
<1>2. Absent \in 0..MaxGen
    BY BoundAssumption DEF Absent
<1>3. pc \in Places
    BY DEF Places
<1> QED
    BY <1>1, <1>2, <1>3 DEF Running

\* An agent that starts is typed.
LEMMA AgentTyped == Typed => Agent("starting") \in Processes
<1> SUFFICES ASSUME Typed PROVE Agent("starting") \in Processes
    OBVIOUS
<1>1. rcerts["agent/ca"] \in Generations /\ rcerts["agent/cert"] \in Generations
    BY AgentsFiles DEF Typed, TypeOK
<1> QED
    BY <1>1 DEF Agent, Processes

\* Every step of a command keeps the types.
LEMMA CommandTyped ==
    ASSUME Typed, NEW x \in Clis,
           \/ spcHostAdd(x) \/ projectCommand(x) \/ spcHostDelete(x)
           \/ ensureAgentRegistered(x) \/ isAgentRunning(x) \/ ensureRemoteAgentRegistered(x)
           \/ ensureRuntimeCerts(x) \/ cleanCertDirs(x) \/ installRuntimeCerts(x)
           \/ copyAgentBinary(x) \/ copyAgentCerts(x) \/ stopRemoteAgentProcess(x)
           \/ startRemoteAgentProcess(x) \/ waitForHealthyAgent(x) \/ Fails(x) \/ Kill(x)
    PROVE  /\ certs' \in [Range(CertFiles) -> Generations]
           /\ entry' \in Ports \cup {None}
           /\ rcerts' \in [Range(AgentFiles) -> Generations]
           /\ gen' \in 0..MaxGen
           /\ cli' = cli \/ \E c \in Running \cup {Idle} : cli' = [cli EXCEPT ![x] = c]
           /\ DOMAIN remote' = Ports /\ \A q \in Ports : remote'[q] \in Processes
<1> DEFINE Goal ==
        /\ certs' \in [Range(CertFiles) -> Generations]
        /\ entry' \in Ports \cup {None}
        /\ rcerts' \in [Range(AgentFiles) -> Generations]
        /\ gen' \in 0..MaxGen
        /\ cli' = cli \/ \E c \in Running \cup {Idle} : cli' = [cli EXCEPT ![x] = c]
        /\ DOMAIN remote' = Ports /\ \A q \in Ports : remote'[q] \in Processes
<1>t. /\ certs \in [Range(CertFiles) -> Generations]
      /\ entry \in Ports \cup {None}
      /\ rcerts \in [Range(AgentFiles) -> Generations]
      /\ gen \in 0..MaxGen
      /\ DOMAIN cli = Clis /\ cli[x] \in Running \cup {Idle}
      /\ DOMAIN remote = Ports /\ \A q \in Ports : remote[q] \in Processes
    BY DEF Typed, TypeOK
<1>a. Absent \in Generations /\ Cut \in Generations /\ \A g \in 0..MaxGen : g \in Generations
    BY BoundAssumption DEF Generations, Absent
<1>p. Default \in Ports
    BY PortsAssumption
<1>g. \A pc \in {"check", "register", "certs", "copy", "copyCerts", "stop", "start", "wait"} :
          cli[x].pc # "idle" => [cli[x] EXCEPT !.pc = pc] \in Running
    <2> SUFFICES ASSUME NEW pc \in {"check", "register", "certs", "copy", "copyCerts", "stop", "start", "wait"},
                        cli[x].pc # "idle"
                 PROVE  [cli[x] EXCEPT !.pc = pc] \in Running
        OBVIOUS
    <2>1. pc \in Places \ {"clean", "install"}
        BY DEF Places
    <2> QED
        BY <2>1, Runs, GoesOn
<1>e. \A ok : End(x, ok) => \E c \in Running \cup {Idle} : cli' = [cli EXCEPT ![x] = c]
    BY Zenon DEF End
<1>1. ASSUME NEW pc \in {"ensure", "check"}, NEW q \in Ports \cup {None}, Begin(x, pc, q) PROVE Goal
    <2>1. cli' = [cli EXCEPT ![x] = [pc |-> pc, port |-> q, gen |-> Absent, i |-> 0]]
        BY <1>1, Zenon DEF Begin
    <2>2. UNCHANGED <<certs, entry, remote, rcerts, gen>>
        BY <1>1, Zenon DEF Begin
    <2> QED
        BY <2>1, <2>2, <1>t, Started
<1>2. CASE spcHostAdd(x) \/ projectCommand(x)
    BY <1>1, <1>2, Zenon DEF spcHostAdd, projectCommand
<1>3. CASE spcHostDelete(x)
    <2>1. cli' = cli
        BY <1>3, Zenon DEF spcHostDelete
    <2>2. entry' = None /\ UNCHANGED <<certs, remote, rcerts, gen>>
        BY <1>3, Zenon DEF spcHostDelete
    <2> QED
        BY <2>1, <2>2, <1>t
<1>4. CASE ensureAgentRegistered(x)
    <2>1. cli[x].pc = "ensure" /\ UNCHANGED <<certs, remote, rcerts, gen>>
        BY <1>4, Zenon DEF ensureAgentRegistered
    <2>2. cli' = [cli EXCEPT ![x] = [cli[x] EXCEPT !.pc = "check"]]
        BY <1>4, Zenon DEF ensureAgentRegistered, Goto
    <2>3. cli[x].port \in Ports \cup {None}
        BY <2>1, Runs DEF Running
    <2>4. entry' \in {entry, cli[x].port}
        BY <1>4, Zenon DEF ensureAgentRegistered
    <2> QED
        BY <2>1, <2>2, <2>3, <2>4, <1>t, <1>g
<1>5. CASE isAgentRunning(x)
    <2>1. cli[x].pc = "check" /\ UNCHANGED <<certs, entry, remote, rcerts, gen>>
        BY <1>5, Zenon DEF isAgentRunning
    <2>2. End(x, TRUE) \/ cli' = [cli EXCEPT ![x] = [cli[x] EXCEPT !.pc = "register"]]
        BY <1>5, Zenon DEF isAgentRunning, Goto
    <2> QED
        BY <2>1, <2>2, <1>t, <1>g, <1>e
<1>6. CASE ensureRemoteAgentRegistered(x)
    <2> DEFINE q == IF entry = None THEN Default ELSE entry
    <2>1. cli[x].pc = "register" /\ UNCHANGED <<certs, remote, rcerts, gen>> /\ entry' = q
        BY <1>6, Zenon DEF ensureRemoteAgentRegistered
    <2>2. cli' = [cli EXCEPT ![x] = [cli[x] EXCEPT !.pc = "certs", !.port = q]]
        BY <1>6, Zenon DEF ensureRemoteAgentRegistered, Goto
    <2>3. q \in Ports \cup {None}
        BY <1>t, <1>p
    <2>4. [cli[x] EXCEPT !.pc = "certs"] \in Running
        BY <2>1, <1>g
    <2>5. [cli[x] EXCEPT !.pc = "certs", !.port = q] \in Running
        BY <2>3, <2>4, <2>1, Runs DEF Running
    <2> QED
        BY <2>1, <2>2, <2>3, <2>5, <1>t
<1>7. CASE ensureRuntimeCerts(x)
    <2>1. cli[x].pc = "certs" /\ UNCHANGED <<certs, entry, remote, rcerts>>
        BY <1>7, Zenon DEF ensureRuntimeCerts
    <2>2. CASE cli' = [cli EXCEPT ![x] = [cli[x] EXCEPT !.pc = "copy"]] /\ UNCHANGED gen
        BY <2>1, <2>2, <1>t, <1>g
    <2>3. CASE /\ gen < MaxGen /\ gen' = gen + 1
               /\ cli' = [cli EXCEPT ![x] = [cli[x] EXCEPT !.pc = "clean", !.gen = gen + 1, !.i = 1]]
        <3>1. gen' \in 0..MaxGen
            BY <2>3, <1>t, BoundAssumption
        <3>2. 1 \in Steps("clean") /\ "clean" \in Places
            BY DEF Steps, Places
        <3>3. [cli[x] EXCEPT !.pc = "clean", !.gen = gen + 1, !.i = 1] \in Running
            BY <3>1, <3>2, <2>1, <2>3, Runs DEF Running
        <3> QED
            BY <3>1, <3>3, <2>1, <2>3, <1>t
    <2> QED
        BY <2>2, <2>3, <1>7, Zenon DEF ensureRuntimeCerts, Goto
<1>8. CASE cleanCertDirs(x)
    <2> DEFINE i == cli[x].i
               c == [cli[x] EXCEPT !.pc = IF i = 2 THEN "install" ELSE "clean",
                                   !.i = IF i = 2 THEN 1 ELSE 2]
    <2>1. cli[x].pc = "clean" /\ UNCHANGED <<entry, remote, rcerts, gen>>
        BY <1>8, Zenon DEF cleanCertDirs
    <2>2. cli' = [cli EXCEPT ![x] = c]
        BY <1>8, Zenon DEF cleanCertDirs, Goto
    <2>3. certs' = [f \in DOMAIN certs |-> IF f \in cleanManagedCertDir(i) THEN Absent ELSE certs[f]]
        BY <1>8, Zenon DEF cleanCertDirs
    <2>4. certs' \in [Range(CertFiles) -> Generations]
        BY <2>3, <1>t, <1>a
    <2>5. 1 \in Steps("install") /\ 2 \in Steps("clean") /\ {"clean", "install"} \subseteq Places
        BY SixFiles DEF Steps, Places
    <2>6. c \in Running
        BY <2>1, <2>5, Runs DEF Running
    <2> QED
        BY <2>1, <2>2, <2>4, <2>6, <1>t
<1>9. CASE installRuntimeCerts(x)
    <2> DEFINE i == cli[x].i
               c == [cli[x] EXCEPT !.pc = IF i = Len(CertFiles) THEN "copy" ELSE "install", !.i = i + 1]
    <2>1. cli[x].pc = "install" /\ UNCHANGED <<entry, remote, rcerts, gen>>
        BY <1>9, Zenon DEF installRuntimeCerts
    <2>2. cli' = [cli EXCEPT ![x] = c]
        BY <1>9, Zenon DEF installRuntimeCerts, Goto
    <2>3. certs' = [certs EXCEPT ![CertFiles[i]] = cli[x].gen]
        BY <1>9, Zenon DEF installRuntimeCerts
    <2>4. i \in 1..6 /\ cli[x].gen \in 0..MaxGen
        BY <2>1, Runs, SixFiles DEF Running, Steps
    <2>5. certs' \in [Range(CertFiles) -> Generations]
        BY <2>3, <2>4, <1>t, <1>a
    <2>6. CASE i = 6
        <3>1. Steps("copy") = Nat /\ "copy" \in Places
            BY DEF Steps, Places
        <3>2. c = [cli[x] EXCEPT !.pc = "copy", !.i = 7]
            BY <2>6, SixFiles
        <3>3. c \in Running
            BY <3>1, <3>2, <2>1, Runs DEF Running
        <3> QED
            BY <2>1, <2>2, <2>5, <3>3, <1>t
    <2>7. CASE i # 6
        <3>1. Steps("install") = 1..6 /\ "install" \in Places
            BY SixFiles DEF Steps, Places
        <3>2. c = [cli[x] EXCEPT !.pc = "install", !.i = i + 1]
            BY <2>7, SixFiles
        <3>3. i + 1 \in 1..6
            BY <2>4, <2>7
        <3>4. ASSUME NEW j \in 1..6
              PROVE  [cli[x] EXCEPT !.pc = "install", !.i = j] \in Running
            <4> DEFINE d == [cli[x] EXCEPT !.pc = "install", !.i = j]
            <4>1. j \in Nat
                OBVIOUS
            <4>2. d \in [pc : Places, port : Ports \cup {None}, gen : 0..MaxGen, i : Nat]
                BY <3>1, <4>1, <2>1, Runs DEF Running
            <4>3. d.pc = "install" /\ d.i = j
                BY <2>1, Runs DEF Running
            <4> HIDE DEF d
            <4>4. d \in Running
                BY <3>1, <4>2, <4>3 DEF Running
            <4> QED
                BY <4>4 DEF d
        <3>5. c \in Running
            BY <3>2, <3>3, <3>4, Zenon
        <3> QED
            BY <2>1, <2>2, <2>5, <3>5, <1>t
    <2> QED
        BY <2>6, <2>7
<1>10. CASE copyAgentBinary(x)
    <2>1. cli[x].pc = "copy" /\ UNCHANGED <<certs, entry, remote, rcerts, gen>>
        BY <1>10, Zenon DEF copyAgentBinary
    <2>2. End(x, FALSE) \/ cli' = [cli EXCEPT ![x] = [cli[x] EXCEPT !.pc = "copyCerts"]]
        BY <1>10, Zenon DEF copyAgentBinary, Goto
    <2> QED
        BY <2>1, <2>2, <1>t, <1>g, <1>e
<1>11. CASE copyAgentCerts(x)
    <2>1. cli[x].pc = "copyCerts" /\ UNCHANGED <<certs, entry, remote, gen>>
        BY <1>11, Zenon DEF copyAgentCerts
    <2>2. End(x, FALSE) \/ cli' = [cli EXCEPT ![x] = [cli[x] EXCEPT !.pc = "stop"]]
        BY <1>11, Zenon DEF copyAgentCerts, Goto
    <2>3. PICK n \in 0..3 : rcerts' = [f \in DOMAIN rcerts |->
                           IF \E k \in 1..n : AgentFiles[k] = f THEN certs[f] ELSE rcerts[f]]
        BY <1>11, Zenon DEF copyAgentCerts
    <2>4. \A f \in Range(AgentFiles) : certs[f] \in Generations /\ rcerts[f] \in Generations
        BY <1>t, AgentsFiles
    <2>5. rcerts' \in [Range(AgentFiles) -> Generations]
        BY <2>3, <2>4, <1>t
    <2> QED
        BY <2>1, <2>2, <2>5, <1>t, <1>g, <1>e
<1>12. CASE stopRemoteAgentProcess(x)
    <2> DEFINE q == cli[x].port
    <2>1. cli[x].pc = "stop" /\ UNCHANGED <<certs, entry, rcerts, gen>>
        BY <1>12, Zenon DEF stopRemoteAgentProcess
    <2>2. End(x, FALSE) \/ cli' = [cli EXCEPT ![x] = [cli[x] EXCEPT !.pc = "start"]]
        BY <1>12, Zenon DEF stopRemoteAgentProcess, Goto
    <2>3. \/ UNCHANGED remote
          \/ remote' = [remote EXCEPT ![q] = NoProcess]
          \/ Listens(q) /\ remote' = [remote EXCEPT ![q] = [remote[q] EXCEPT !.up = "stopping"]]
        BY <1>12, Zenon DEF stopRemoteAgentProcess
    <2>4. DOMAIN remote' = Ports /\ \A y \in Ports : remote'[y] \in Processes
        <3>1. NoProcess \in Processes
            BY DEF Processes
        <3>2. CASE q \notin Ports
            BY <3>2, <2>3, <1>t
        <3>3. CASE q \in Ports
            <4>1. Listens(q) => [remote[q] EXCEPT !.up = "stopping"] \in Processes
                BY <3>3, <1>t, Ups DEF Listens
            <4> QED
                BY <3>1, <3>3, <4>1, <2>3, <1>t
        <3> QED
            BY <3>2, <3>3
    <2> QED
        BY <2>1, <2>2, <2>4, <1>t, <1>g, <1>e
<1>13. CASE startRemoteAgentProcess(x)
    <2> DEFINE q == cli[x].port
    <2>1. cli[x].pc = "start" /\ UNCHANGED <<certs, entry, rcerts, gen>>
        BY <1>13, Zenon DEF startRemoteAgentProcess
    <2>2. cli' = [cli EXCEPT ![x] = [cli[x] EXCEPT !.pc = "wait"]]
        BY <1>13, Zenon DEF startRemoteAgentProcess, Goto
    <2>3. remote' \in {remote, [remote EXCEPT ![q] = Agent("starting")]}
        BY <1>13, Zenon DEF startRemoteAgentProcess
    <2>4. DOMAIN remote' = Ports /\ \A y \in Ports : remote'[y] \in Processes
        BY <2>3, <1>t, AgentTyped
    <2> QED
        BY <2>1, <2>2, <2>4, <1>t, <1>g
<1>14. CASE waitForHealthyAgent(x)
    BY <1>14, <1>t, <1>e DEF waitForHealthyAgent
<1>15. CASE Fails(x) \/ Kill(x)
    <2>1. cli' = [cli EXCEPT ![x] = Idle] /\ UNCHANGED <<entry, remote, rcerts, gen>>
        BY <1>15, Zenon DEF Fails, Kill, Event
    <2>2. StopsInside(x)
        BY <1>15, Zenon DEF Fails, Kill
    <2>3. \/ UNCHANGED certs
          \/ \E gone : certs' = [f \in DOMAIN certs |-> IF f \in gone THEN Absent ELSE certs[f]]
          \/ certs' = [certs EXCEPT ![CertFiles[cli[x].i]] = Cut]
        BY <2>2, Zenon DEF StopsInside
    <2>4. certs' \in [Range(CertFiles) -> Generations]
        BY <2>3, <1>t, <1>a
    <2> QED
        BY <2>1, <2>4, <1>t
<1> QED
    BY <1>2, <1>3, <1>4, <1>5, <1>6, <1>7, <1>8, <1>9, <1>10, <1>11, <1>12, <1>13, <1>14, <1>15

\* Every step keeps the types.
LEMMA TypedNext == Typed /\ [Next]_vars => Typed'
<1> SUFFICES ASSUME Typed, [Next]_vars PROVE Typed'
    OBVIOUS
<1>t. /\ certs \in [Range(CertFiles) -> Generations]
      /\ entry \in Ports \cup {None}
      /\ rcerts \in [Range(AgentFiles) -> Generations]
      /\ gen \in 0..MaxGen
      /\ DOMAIN cli = Clis /\ \A y \in Clis : cli[y] \in Running \cup {Idle}
      /\ DOMAIN remote = Ports /\ \A q \in Ports : remote[q] \in Processes
    BY DEF Typed, TypeOK
<1>f. ({tools, trouble, clash, cut} \subseteq BOOLEAN)'
    BY FlagsNext, Zenon DEF Typed, TypeOK
<1> DEFINE Goal ==
        /\ certs' \in [Range(CertFiles) -> Generations]
        /\ entry' \in Ports \cup {None}
        /\ rcerts' \in [Range(AgentFiles) -> Generations]
        /\ gen' \in 0..MaxGen
        /\ DOMAIN cli' = Clis /\ \A y \in Clis : cli'[y] \in Running \cup {Idle}
        /\ DOMAIN remote' = Ports /\ \A q \in Ports : remote'[q] \in Processes
<1>1. ASSUME NEW x \in Clis,
             \/ spcHostAdd(x) \/ projectCommand(x) \/ spcHostDelete(x)
             \/ ensureAgentRegistered(x) \/ isAgentRunning(x) \/ ensureRemoteAgentRegistered(x)
             \/ ensureRuntimeCerts(x) \/ cleanCertDirs(x) \/ installRuntimeCerts(x)
             \/ copyAgentBinary(x) \/ copyAgentCerts(x) \/ stopRemoteAgentProcess(x)
             \/ startRemoteAgentProcess(x) \/ waitForHealthyAgent(x) \/ Fails(x) \/ Kill(x)
      PROVE  Goal
    <2>1. /\ certs' \in [Range(CertFiles) -> Generations]
          /\ entry' \in Ports \cup {None}
          /\ rcerts' \in [Range(AgentFiles) -> Generations]
          /\ gen' \in 0..MaxGen
          /\ cli' = cli \/ \E c \in Running \cup {Idle} : cli' = [cli EXCEPT ![x] = c]
          /\ DOMAIN remote' = Ports /\ \A q \in Ports : remote'[q] \in Processes
        BY <1>1, CommandTyped, Zenon
    <2>2. DOMAIN cli' = Clis /\ \A y \in Clis : cli'[y] \in Running \cup {Idle}
        BY <2>1, <1>t, CliTyped
    <2> QED
        BY <2>1, <2>2, Zenon
<1>2. ASSUME NEW q \in Ports, Proceed(q) PROVE Goal
    <2>1. remote[q] # NoProcess /\ UNCHANGED <<certs, entry, rcerts, cli, gen>>
        BY <1>2, Zenon DEF Proceed
    <2>2. \/ remote' = [remote EXCEPT ![q] = [remote[q] EXCEPT !.up = "up"]]
          \/ remote' = [remote EXCEPT ![q] = NoProcess]
        BY <1>2, Zenon DEF Proceed
    <2>3. NoProcess \in Processes /\ [remote[q] EXCEPT !.up = "up"] \in Processes
        BY <2>1, <1>t, Ups DEF Processes
    <2> QED
        BY <2>1, <2>2, <2>3, <1>t
<1>3. ASSUME RemoveCert PROVE Goal
    <2>1. certs' = [certs EXCEPT !["client/ca"] = Absent]
        BY <1>3, Zenon DEF RemoveCert
    <2>2. UNCHANGED <<entry, remote, rcerts, cli, gen>>
        BY <1>3, Zenon DEF RemoveCert, Event
    <2>3. certs' \in [Range(CertFiles) -> Generations]
        BY <2>1, <1>t DEF Generations
    <2> QED
        BY <2>2, <2>3, <1>t
<1>4. ASSUME RemoteChange PROVE Goal
    <2>1. PICK q \in Ports :
             remote' = [remote EXCEPT ![q] = IF remote[q] = NoProcess THEN Other ELSE NoProcess]
        BY <1>4, Zenon DEF RemoteChange
    <2>2. UNCHANGED <<certs, entry, rcerts, cli, gen>>
        BY <1>4, Zenon DEF RemoteChange, Event
    <2>3. NoProcess \in Processes /\ Other \in Processes
        BY DEF Processes, Other
    <2> QED
        BY <2>1, <2>2, <2>3, <1>t
<1>5. ASSUME UNCHANGED vars PROVE Goal
    BY <1>5, <1>t DEF vars
<1> HIDE DEF Goal
<1>6. Goal
    BY <1>1, <1>2, <1>3, <1>4, <1>5, Zenon DEF Next
<1> QED
    BY <1>6, <1>f, Zenon DEF Goal, Typed, TypeOK

\* Every variable of RemoteAgent keeps its type, and no process of the remote
\* host is left signalled, for any processes, ports and bounds.
THEOREM TypeCorrect == Spec => []TypeOK
<1>1. Typed => TypeOK
    BY DEF Typed
<1> QED
    BY <1>1, InitTyped, TypedNext, PTL DEF Spec

(***************************************************************************)
(* CertsAgree: files are emptied before one is written.                    *)
(***************************************************************************)
\* A step that neither touches the files nor brings a process halfway.
LEMMA InstallKeeps ==
    ASSUME InstallInv, UNCHANGED <<certs, clash>>, cut' = cut,
           \A y \in Clis : Halfway(y)' => Halfway(y) /\ cli'[y] = cli[y]
    PROVE  InstallInv'
<1>1. ~ clash' => \A x, y \in Clis : Halfway(x)' /\ Halfway(y)' => x = y
    BY Zenon DEF InstallInv
<1>2. ASSUME NEW x \in Clis, ~ clash', ~ cut', Halfway(x)' PROVE Wrote(x)'
    <2>1. Wrote(x) /\ cli'[x] = cli[x]
        BY <1>2, Zenon DEF InstallInv
    <2> QED
        BY <2>1 DEF Wrote
<1>3. ASSUME ~ clash', ~ cut'
      PROVE  \A f, g \in DOMAIN certs' : Absent \in {certs'[f], certs'[g]} \/ certs'[f] = certs'[g]
    BY <1>3, Zenon DEF InstallInv
<1> QED
    BY <1>1, <1>2, <1>3, Zenon DEF InstallInv

\* Such a step may also remove some of the files.
LEMMA InstallLoses ==
    ASSUME Typed, Typed', InstallInv, UNCHANGED <<clash, cut>>,
           \A f \in DOMAIN certs : certs'[f] \in {certs[f], Absent},
           \A y \in Clis : Halfway(y)' => Halfway(y) /\ cli'[y] = cli[y]
    PROVE  InstallInv'
<1>1. DOMAIN certs = Range(CertFiles) /\ DOMAIN certs' = DOMAIN certs
    BY DEF Typed, TypeOK
<1>2. ASSUME NEW x \in Clis, ~ clash', ~ cut', Halfway(x)' PROVE Wrote(x)'
    <2>1. Wrote(x) /\ Halfway(x) /\ cli'[x] = cli[x]
        BY <1>2, Zenon DEF InstallInv
    <2>2. \A k \in DOMAIN CertFiles : certs'[CertFiles[k]] \in {certs[CertFiles[k]], Absent}
        BY <1>1, SixFiles
    <2>3. \A k \in DOMAIN CertFiles : certs'[CertFiles[k]] \in Generations
        BY SixFiles DEF Typed, TypeOK
    <2>4. CASE cli[x].pc = "clean"
        BY <2>1, <2>2, <2>3, <2>4 DEF Wrote
    <2>5. CASE cli[x].pc = "install"
        BY <2>1, <2>2, <2>5 DEF Wrote
    <2> QED
        BY <2>1, <2>4, <2>5 DEF Halfway
<1>3. ASSUME ~ clash', ~ cut'
      PROVE  \A f, g \in DOMAIN certs' : Absent \in {certs'[f], certs'[g]} \/ certs'[f] = certs'[g]
    <2>1. \A f, g \in DOMAIN certs : Absent \in {certs[f], certs[g]} \/ certs[f] = certs[g]
        BY <1>3, Zenon DEF InstallInv
    <2> QED
        BY <1>1, <2>1
<1>4. ~ clash' => \A x, y \in Clis : Halfway(x)' /\ Halfway(y)' => x = y
    BY Zenon DEF InstallInv
<1> QED
    BY <1>2, <1>3, <1>4, Zenon DEF InstallInv

\* A command that goes on to a place where nothing is installed, or ends, is
\* such a step.
LEMMA NotInstalling ==
    ASSUME Typed, NEW x \in Clis, NEW c, cli' = [cli EXCEPT ![x] = c],
           c.pc \notin {"clean", "install"} \/ (c.pc = "clean" /\ c.i = 1)
    PROVE  \A y \in Clis : Halfway(y)' => Halfway(y) /\ cli'[y] = cli[y]
<1> SUFFICES ASSUME NEW y \in Clis, Halfway(y)' PROVE Halfway(y) /\ cli'[y] = cli[y]
    OBVIOUS
<1>1. CASE y = x
    BY <1>1 DEF Typed, TypeOK, Halfway
<1>2. CASE y # x
    BY <1>2 DEF Typed, TypeOK, Halfway
<1> QED
    BY <1>1, <1>2

\* Nobody installs before the first command.
LEMMA InitInstall == Init => InstallInv
<1> SUFFICES ASSUME Init PROVE InstallInv
    OBVIOUS
<1>1. \A x \in Clis : ~ Halfway(x)
    BY DEF Init, Halfway, Idle
<1>2. \A f \in DOMAIN certs : certs[f] = Absent
    BY DEF Init
<1> QED
    BY <1>1, <1>2, Zenon DEF InstallInv

\* After it has emptied a directory a process has written nothing yet.
LEMMA CleanInstall ==
    ASSUME Typed, Typed', InstallInv, NEW x \in Clis, cleanCertDirs(x)
    PROVE  InstallInv'
<1> DEFINE i == cli[x].i
           c == [cli[x] EXCEPT !.pc = IF i = 2 THEN "install" ELSE "clean",
                               !.i = IF i = 2 THEN 1 ELSE 2]
<1>1. cli[x].pc = "clean" /\ i \in {1, 2}
    <2>1. cli[x].pc = "clean"
        BY Zenon DEF cleanCertDirs
    <2> QED
        BY <2>1, Runs DEF Running, Steps
<1>2. cli' = [cli EXCEPT ![x] = c] /\ cut' = cut
    BY Zenon DEF cleanCertDirs, Goto
<1>3. certs' = [f \in DOMAIN certs |-> IF f \in cleanManagedCertDir(i) THEN Absent ELSE certs[f]]
    BY Zenon DEF cleanCertDirs
<1>4. clash' = (clash \/ \E y \in Clis \ {x} : Installing(y))
    BY Zenon DEF cleanCertDirs
<1>5. DOMAIN cli = Clis /\ DOMAIN certs = Range(CertFiles)
    BY DEF Typed, TypeOK
<1>6. \A y \in Clis \ {x} : cli'[y] = cli[y]
    BY <1>2, <1>5
<1>7. ASSUME ~ clash', NEW y \in Clis, Halfway(y)' PROVE y = x
    <2> SUFFICES ASSUME y # x PROVE FALSE
        OBVIOUS
    <2>1. Halfway(y)
        BY <1>6, <1>7 DEF Halfway
    <2>2. Installing(y)
        BY <2>1, Zenon DEF Halfway, Installing
    <2> QED
        BY <1>4, <1>7, <2>2, Zenon
<1>8. ASSUME ~ clash', ~ cut' PROVE Wrote(x)'
    <2>1. ~ clash /\ ~ cut
        BY <1>2, <1>4, <1>8, Zenon
    <2>2. CASE i = 1
        <3>1. cli'[x].pc = "clean"
            BY <1>1, <1>2, <1>5, <2>2, Runs DEF Running
        <3>2. \A k \in 1..3 : certs'[CertFiles[k]] = Absent
            <4>1. \A k \in 1..3 : CertFiles[k] \in cleanManagedCertDir(i)
                BY <2>2 DEF cleanManagedCertDir
            <4> QED
                BY <4>1, <1>3, <1>5, SixFiles
        <3>3. \A k \in DOMAIN CertFiles : certs'[CertFiles[k]] \in Generations
            BY SixFiles DEF Typed, TypeOK
        <3> QED
            BY <3>1, <3>2, <3>3 DEF Wrote
    <2>3. CASE i = 2
        <3>1. cli'[x].pc = "install" /\ cli'[x].i = 1
            BY <1>1, <1>2, <1>5, <2>3, Runs DEF Running
        <3>2. \A k \in 1..3 : certs[CertFiles[k]] = Absent
            <4>1. Wrote(x)
                BY <1>1, <2>1, <2>3, Zenon DEF InstallInv, Halfway
            <4> QED
                BY <4>1, <1>1, SixFiles DEF Wrote
        <3>3. \A k \in 4..6 : CertFiles[k] \in cleanManagedCertDir(i)
            BY <2>3 DEF cleanManagedCertDir
        <3>4. \A k \in 1..6 : certs'[CertFiles[k]] = Absent
            BY <3>2, <3>3, <1>3, <1>5, SixFiles
        <3> QED
            BY <3>1, <3>4, SixFiles DEF Wrote
    <2> QED
        BY <1>1, <2>2, <2>3
<1>9. ASSUME ~ clash', ~ cut'
      PROVE  \A f, g \in DOMAIN certs' : Absent \in {certs'[f], certs'[g]} \/ certs'[f] = certs'[g]
    <2>1. \A f \in DOMAIN certs' : f \in DOMAIN certs /\ certs'[f] \in {Absent, certs[f]}
        BY <1>3
    <2>2. \A f, g \in DOMAIN certs : Absent \in {certs[f], certs[g]} \/ certs[f] = certs[g]
        BY <1>2, <1>4, <1>9, Zenon DEF InstallInv
    <2> QED
        BY <2>1, <2>2
<1> QED
    BY <1>7, <1>8, <1>9, Zenon DEF InstallInv

\* While a process installs, the files that are there are its own.
LEMMA WriteInstall ==
    ASSUME Typed, Typed', InstallInv, NEW x \in Clis, installRuntimeCerts(x)
    PROVE  InstallInv'
<1> DEFINE i == cli[x].i
           g == cli[x].gen
           c == [cli[x] EXCEPT !.pc = IF i = Len(CertFiles) THEN "copy" ELSE "install", !.i = i + 1]
<1>1. cli[x].pc = "install" /\ i \in 1..6
    <2>1. cli[x].pc = "install"
        BY Zenon DEF installRuntimeCerts
    <2> QED
        BY <2>1, Runs, SixFiles DEF Running, Steps
<1>2. cli' = [cli EXCEPT ![x] = c] /\ cut' = cut
    BY Zenon DEF installRuntimeCerts, Goto
<1>3. certs' = [certs EXCEPT ![CertFiles[i]] = g]
    BY Zenon DEF installRuntimeCerts
<1>4. clash' = (clash \/ \E y \in Clis \ {x} : Installing(y))
    BY Zenon DEF installRuntimeCerts
<1>5. DOMAIN cli = Clis /\ DOMAIN certs = Range(CertFiles)
    BY DEF Typed, TypeOK
<1>6. \A y \in Clis \ {x} : cli'[y] = cli[y]
    BY <1>2, <1>5
<1>7. ASSUME ~ clash', NEW y \in Clis, Halfway(y)' PROVE y = x
    <2> SUFFICES ASSUME y # x PROVE FALSE
        OBVIOUS
    <2>1. Halfway(y)
        BY <1>6, <1>7 DEF Halfway
    <2>2. Installing(y)
        BY <2>1, Zenon DEF Halfway, Installing
    <2> QED
        BY <1>4, <1>7, <2>2, Zenon
<1>8. ASSUME ~ clash', ~ cut'
      PROVE  \A k \in 1..6 : certs'[CertFiles[k]] \in
                 IF k < i + 1 THEN {g, Absent} ELSE {Absent}
    <2>1. Wrote(x)
        BY <1>1, <1>2, <1>4, <1>8, Zenon DEF InstallInv, Halfway
    <2>2. \A k \in 1..6 : certs[CertFiles[k]] \in IF k < i THEN {g, Absent} ELSE {Absent}
        BY <2>1, <1>1, SixFiles DEF Wrote
    <2>3. \A k \in 1..6 : certs'[CertFiles[k]] = IF k = i THEN g ELSE certs[CertFiles[k]]
        BY <1>1, <1>3, <1>5, SixFiles
    <2> QED
        BY <2>2, <2>3, <1>1
<1>9. ASSUME ~ clash', ~ cut', Halfway(x)' PROVE Wrote(x)'
    <2>1. cli'[x] = c
        BY <1>2, <1>5
    <2>2. c.pc = "install" /\ c.i = i + 1 /\ c.gen = g
        <3>1. c.pc \in {"copy", "install"} /\ c.i = i + 1 /\ c.gen = g
            BY <1>1, Runs DEF Running
        <3> QED
            BY <2>1, <3>1, <1>9 DEF Halfway
    <2> HIDE DEF c, g, i
    <2> QED
        BY <2>1, <2>2, <1>8, <1>9, SixFiles DEF Wrote
<1>10. ASSUME ~ clash', ~ cut'
       PROVE  \A f, h \in DOMAIN certs' : Absent \in {certs'[f], certs'[h]} \/ certs'[f] = certs'[h]
    <2>1. \A f \in DOMAIN certs' : \E k \in 1..6 : f = CertFiles[k]
        BY <1>3, <1>5, SixFiles
    <2>2. \A f \in DOMAIN certs' : certs'[f] \in {g, Absent}
        BY <2>1, <1>8, <1>10
    <2> QED
        BY <2>2
<1> QED
    BY <1>7, <1>9, <1>10, Zenon DEF InstallInv

\* Every step keeps the files together.
LEMMA InstallNext == Typed /\ Typed' /\ InstallInv /\ [Next]_vars => InstallInv'
<1> SUFFICES ASSUME Typed, Typed', InstallInv, [Next]_vars PROVE InstallInv'
    OBVIOUS
<1>k. ASSUME NEW x \in Clis, NEW c, cli' = [cli EXCEPT ![x] = c],
             c.pc \notin {"clean", "install"} \/ (c.pc = "clean" /\ c.i = 1),
             UNCHANGED <<certs, clash>>, cut' = cut
      PROVE  InstallInv'
    <2>1. \A y \in Clis : Halfway(y)' => Halfway(y) /\ cli'[y] = cli[y]
        BY <1>k, NotInstalling
    <2> QED
        BY <2>1, <1>k, InstallKeeps
<1>e. ASSUME NEW x \in Clis, NEW ok, End(x, ok), UNCHANGED <<certs, clash>> PROVE InstallInv'
    <2>1. cli' = [cli EXCEPT ![x] = Idle] /\ cut' = cut
        BY <1>e, Zenon DEF End
    <2>2. Idle.pc \notin {"clean", "install"}
        BY DEF Idle
    <2> QED
        BY <2>1, <2>2, <1>e, <1>k
<1>g. ASSUME NEW x \in Clis, UNCHANGED <<certs, clash>>, cli[x].pc # "idle",
             NEW pc \in {"check", "register", "copy", "copyCerts", "stop", "start", "wait"},
             Goto(x, [cli[x] EXCEPT !.pc = pc])
      PROVE  InstallInv'
    <2>1. cli' = [cli EXCEPT ![x] = [cli[x] EXCEPT !.pc = pc]] /\ cut' = cut
        BY <1>g, Zenon DEF Goto
    <2>2. [cli[x] EXCEPT !.pc = pc].pc = pc
        BY <1>g, Runs DEF Running
    <2> QED
        BY <2>1, <2>2, <1>g, <1>k
<1>b. ASSUME NEW x \in Clis, NEW pc \in {"ensure", "check"}, NEW q, Begin(x, pc, q) PROVE InstallInv'
    <2>1. cli' = [cli EXCEPT ![x] = [pc |-> pc, port |-> q, gen |-> Absent, i |-> 0]]
        BY <1>b, Zenon DEF Begin
    <2>2. cut' = cut /\ UNCHANGED <<certs, clash>>
        BY <1>b, Zenon DEF Begin
    <2> QED
        BY <2>1, <2>2, <1>k
<1>1. ASSUME NEW x \in Clis, spcHostAdd(x) \/ projectCommand(x) PROVE InstallInv'
    BY <1>1, <1>b, Zenon DEF spcHostAdd, projectCommand
<1>2. ASSUME NEW x \in Clis, spcHostDelete(x) PROVE InstallInv'
    <2>1. UNCHANGED <<certs, cli, clash, cut>>
        BY <1>2, Zenon DEF spcHostDelete
    <2> QED
        BY <2>1, InstallKeeps DEF Halfway
<1>3. ASSUME NEW x \in Clis, ensureAgentRegistered(x) PROVE InstallInv'
    <2>1. cli[x].pc = "ensure"
        BY <1>3, Zenon DEF ensureAgentRegistered
    <2> QED
        BY <1>3, <2>1, <1>g DEF ensureAgentRegistered
<1>4. ASSUME NEW x \in Clis, isAgentRunning(x) PROVE InstallInv'
    <2>1. cli[x].pc = "check" /\ UNCHANGED <<certs, clash>>
        BY <1>4, Zenon DEF isAgentRunning
    <2>2. End(x, TRUE) \/ Goto(x, [cli[x] EXCEPT !.pc = "register"])
        BY <1>4, Zenon DEF isAgentRunning
    <2> QED
        BY <2>1, <2>2, <1>g, <1>e
<1>5. ASSUME NEW x \in Clis, ensureRemoteAgentRegistered(x) PROVE InstallInv'
    <2> DEFINE q == IF entry = None THEN Default ELSE entry
               c == [cli[x] EXCEPT !.pc = "certs", !.port = q]
    <2>1. cli[x].pc = "register" /\ UNCHANGED <<certs, clash>>
        BY <1>5, Zenon DEF ensureRemoteAgentRegistered
    <2>2. cli' = [cli EXCEPT ![x] = c] /\ cut' = cut
        BY <1>5, Zenon DEF ensureRemoteAgentRegistered, Goto
    <2>3. c.pc = "certs"
        BY <2>1, Runs DEF Running
    <2> QED
        BY <2>1, <2>2, <2>3, <1>k
<1>6. ASSUME NEW x \in Clis, ensureRuntimeCerts(x) PROVE InstallInv'
    <2> DEFINE c == [cli[x] EXCEPT !.pc = "clean", !.gen = gen + 1, !.i = 1]
    <2>1. cli[x].pc = "certs" /\ UNCHANGED <<certs, clash>>
        BY <1>6, Zenon DEF ensureRuntimeCerts
    <2>2. Goto(x, [cli[x] EXCEPT !.pc = "copy"]) \/ Goto(x, c)
        BY <1>6, Zenon DEF ensureRuntimeCerts
    <2>3. CASE Goto(x, [cli[x] EXCEPT !.pc = "copy"])
        BY <2>1, <2>3, <1>g
    <2>4. CASE Goto(x, c)
        <3>1. cli' = [cli EXCEPT ![x] = c] /\ cut' = cut
            BY <2>4, Zenon DEF Goto
        <3>2. c.pc = "clean" /\ c.i = 1
            BY <2>1, Runs DEF Running
        <3> QED
            BY <2>1, <3>1, <3>2, <1>k
    <2> QED
        BY <2>2, <2>3, <2>4
<1>7. ASSUME NEW x \in Clis, cleanCertDirs(x) \/ installRuntimeCerts(x) PROVE InstallInv'
    BY <1>7, CleanInstall, WriteInstall
<1>8. ASSUME NEW x \in Clis, copyAgentBinary(x) PROVE InstallInv'
    <2>1. cli[x].pc = "copy" /\ UNCHANGED <<certs, clash>>
        BY <1>8, Zenon DEF copyAgentBinary
    <2>2. End(x, FALSE) \/ Goto(x, [cli[x] EXCEPT !.pc = "copyCerts"])
        BY <1>8, Zenon DEF copyAgentBinary
    <2> QED
        BY <2>1, <2>2, <1>g, <1>e
<1>9. ASSUME NEW x \in Clis, copyAgentCerts(x) PROVE InstallInv'
    <2>1. cli[x].pc = "copyCerts" /\ UNCHANGED <<certs, clash>>
        BY <1>9, Zenon DEF copyAgentCerts
    <2>2. End(x, FALSE) \/ Goto(x, [cli[x] EXCEPT !.pc = "stop"])
        BY <1>9, Zenon DEF copyAgentCerts
    <2> QED
        BY <2>1, <2>2, <1>g, <1>e
<1>10. ASSUME NEW x \in Clis, stopRemoteAgentProcess(x) PROVE InstallInv'
    <2>1. cli[x].pc = "stop" /\ UNCHANGED <<certs, clash>>
        BY <1>10, Zenon DEF stopRemoteAgentProcess
    <2>2. End(x, FALSE) \/ Goto(x, [cli[x] EXCEPT !.pc = "start"])
        BY <1>10, Zenon DEF stopRemoteAgentProcess
    <2> QED
        BY <2>1, <2>2, <1>g, <1>e
<1>11. ASSUME NEW x \in Clis, startRemoteAgentProcess(x) PROVE InstallInv'
    <2>1. cli[x].pc = "start" /\ UNCHANGED <<certs, clash>>
        BY <1>11, Zenon DEF startRemoteAgentProcess
    <2>2. Goto(x, [cli[x] EXCEPT !.pc = "wait"])
        BY <1>11, Zenon DEF startRemoteAgentProcess
    <2> QED
        BY <2>1, <2>2, <1>g
<1>12. ASSUME NEW x \in Clis, waitForHealthyAgent(x) PROVE InstallInv'
    BY <1>12, <1>e, Zenon DEF waitForHealthyAgent
<1>13. ASSUME NEW x \in Clis, Fails(x) \/ Kill(x) PROVE InstallInv'
    <2>1. cli' = [cli EXCEPT ![x] = Idle] /\ clash' = clash
        BY <1>13, Zenon DEF Fails, Kill, Event
    <2>2. Idle.pc \notin {"clean", "install"}
        BY DEF Idle
    <2>3. \A y \in Clis : Halfway(y)' => Halfway(y) /\ cli'[y] = cli[y]
        BY <2>1, <2>2, NotInstalling
    <2>4. StopsInside(x)
        BY <1>13, Zenon DEF Fails, Kill
    <2>5. CASE UNCHANGED <<certs, cut>>
        BY <2>1, <2>3, <2>5, InstallKeeps
    <2>6. ASSUME NEW gone, UNCHANGED cut,
                 certs' = [f \in DOMAIN certs |-> IF f \in gone THEN Absent ELSE certs[f]]
          PROVE  InstallInv'
        <3>1. \A f \in DOMAIN certs : certs'[f] \in {certs[f], Absent}
            BY <2>6
        <3> QED
            BY <2>1, <2>3, <2>6, <3>1, InstallLoses
    <2>7. CASE cut'
        BY <2>1, <2>3, <2>7, Zenon DEF InstallInv
    <2> QED
        BY <2>4, <2>5, <2>6, <2>7, Zenon DEF StopsInside
<1>14. ASSUME NEW q \in Ports, Proceed(q) PROVE InstallInv'
    <2>1. UNCHANGED <<certs, cli, clash, cut>>
        BY <1>14, Zenon DEF Proceed
    <2> QED
        BY <2>1, InstallKeeps DEF Halfway
<1>15. ASSUME RemoveCert PROVE InstallInv'
    <2>1. certs' = [certs EXCEPT !["client/ca"] = Absent]
        BY <1>15, Zenon DEF RemoveCert
    <2>2. UNCHANGED <<cli, clash, cut>>
        BY <1>15, Zenon DEF RemoveCert, Event
    <2>3. \A f \in DOMAIN certs : certs'[f] \in {certs[f], Absent}
        BY <2>1
    <2> QED
        BY <2>2, <2>3, InstallLoses DEF Halfway
<1>16. ASSUME RemoteChange \/ UNCHANGED vars PROVE InstallInv'
    <2>1. UNCHANGED <<certs, cli, clash, cut>>
        BY <1>16, Zenon DEF RemoteChange, Event, vars
    <2> QED
        BY <2>1, InstallKeeps DEF Halfway
<1> QED
    BY <1>1, <1>2, <1>3, <1>4, <1>5, <1>6, <1>7, <1>8, <1>9, <1>10, <1>11, <1>12, <1>13, <1>14,
       <1>15, <1>16, Zenon DEF Next

\* Six certificate files that are all there are of one generation, wherever
\* processes were killed or failed before, unless two installed at once, or
\* one was killed or failed in the middle of writing a file.
THEOREM OneAuthority == Spec => []CertsAgree
<1>1. Typed /\ InstallInv => CertsAgree
    BY DEF InstallInv, CertsAgree
<1>2. Typed /\ InstallInv /\ [Next]_vars => (Typed /\ InstallInv)'
    BY TypedNext, InstallNext
<1> QED
    BY <1>1, <1>2, InitTyped, InitInstall, PTL DEF Spec

(***************************************************************************)
(* LastAddServes: whoever ends last has seen the registered port healthy.  *)
(***************************************************************************)
Early == {"idle", "ensure", "check", "register"}

\* Nothing is promised while there is trouble.
LEMMA ServeTrouble == ASSUME trouble' PROVE ServeInv'
BY Zenon DEF ServeInv, LastAddServes

\* A command that goes on leaves one running, and what it works on is what is
\* registered.
LEMMA ServeGoes ==
    ASSUME Typed, ServeInv, NEW x \in Clis, NEW c \in Running, cli' = [cli EXCEPT ![x] = c],
           trouble' = trouble,
           entry' = entry \/ entry = None,
           ~ trouble /\ c.pc \notin Early => entry' # None /\ c.port = entry'
    PROVE  ServeInv'
<1>1. cli'[x] = c /\ \A y \in Clis \ {x} : cli'[y] = cli[y]
    BY DEF Typed, TypeOK
<1>2. LastAddServes'
    <2>1. cli'[x] # Idle
        BY <1>1, Busy
    <2> QED
        BY <2>1, Zenon DEF LastAddServes
<1>3. ASSUME ~ trouble', NEW y \in Clis, cli'[y].pc \notin Early
      PROVE  entry' # None /\ cli'[y].port = entry'
    <2>1. CASE y = x
        BY <2>1, <1>1, <1>3
    <2>2. CASE y # x
        <3>1. cli'[y] = cli[y]
            BY <1>1, <2>2
        <3>2. entry # None /\ cli[y].port = entry
            BY <1>3, <3>1, Zenon DEF ServeInv, Early
        <3> QED
            BY <3>1, <3>2
    <2> QED
        BY <2>1, <2>2
<1> QED
    BY <1>2, <1>3, Zenon DEF ServeInv, Early

\* A command that ends well has seen a healthy agent at the registered port.
LEMMA ServeEnds ==
    ASSUME Typed, ServeInv, NEW x \in Clis, NEW ok \in BOOLEAN, End(x, ok), entry' = entry,
           ok /\ ~ trouble => /\ entry # None
                              /\ verifyAgentHealth(entry)
                              /\ UNCHANGED <<certs, remote>>
    PROVE  ServeInv'
<1>1. cli' = [cli EXCEPT ![x] = Idle]
    BY Zenon DEF End
<1>2. CASE ~ ok
    <2>1. trouble'
        BY <1>2, Zenon DEF End
    <2> QED
        BY <2>1, ServeTrouble
<1>3. CASE trouble
    <2>1. trouble'
        BY <1>3, Zenon DEF End
    <2> QED
        BY <2>1, ServeTrouble
<1>4. CASE ok /\ ~ trouble
    <2>1. LastAddServes'
        BY <1>4 DEF LastAddServes, verifyAgentHealth, Listens
    <2>2. ASSUME NEW y \in Clis, cli'[y].pc \notin Early
          PROVE  entry' # None /\ cli'[y].port = entry'
        <3>1. cli'[x].pc \in Early
            BY <1>1 DEF Typed, TypeOK, Idle, Early
        <3>2. cli'[y] = cli[y]
            BY <1>1, <2>2, <3>1 DEF Typed, TypeOK
        <3> QED
            BY <1>4, <2>2, <3>2, Zenon DEF ServeInv, Early
    <2> QED
        BY <2>1, <2>2, Zenon DEF ServeInv, Early
<1> QED
    BY <1>2, <1>3, <1>4

\* A command that starts beside others joins them; one that starts alone has
\* promised nothing yet.
LEMMA ServeBegins ==
    ASSUME Typed, ServeInv, NEW x \in Clis, NEW pc \in {"ensure", "check"}, NEW q \in Ports \cup {None},
           Begin(x, pc, q)
    PROVE  ServeInv'
<1> DEFINE c == [pc |-> pc, port |-> q, gen |-> Absent, i |-> 0]
<1>1. cli' = [cli EXCEPT ![x] = c] /\ entry' = entry
    BY Zenon DEF Begin
<1>2. c \in Running /\ c.pc \in Early
    BY Started DEF Early
<1> HIDE DEF c
<1>3. CASE \E y \in Clis : cli[y] # Idle
    <2>1. trouble \in BOOLEAN /\ trouble' = (trouble /\ TRUE)
        BY <1>3, Zenon DEF Begin, Typed, TypeOK
    <2>2. trouble' = trouble
        BY <2>1, Zenon
    <2> QED
        BY <1>1, <1>2, <2>2, ServeGoes
<1>4. CASE \A y \in Clis : cli[y] = Idle
    <2>1. \A y \in Clis : cli'[y].pc \in Early
        BY <1>1, <1>2, <1>4 DEF Typed, TypeOK, Idle, Early
    <2>2. cli'[x] # Idle
        BY <1>1, <1>2, Busy DEF Typed, TypeOK
    <2>3. LastAddServes'
        BY <2>2, Zenon DEF LastAddServes
    <2> QED
        BY <2>1, <2>3, Zenon DEF ServeInv, Early
<1> QED
    BY <1>3, <1>4

\* Every step keeps the promise.
LEMMA ServeNext == Typed /\ ServeInv /\ [Next]_vars => ServeInv'
<1> SUFFICES ASSUME Typed, ServeInv, [Next]_vars PROVE ServeInv'
    OBVIOUS
<1>g. ASSUME NEW x \in Clis, entry' = entry,
             NEW pc \in {"check", "register", "copy", "copyCerts", "stop", "start", "wait"},
             (cli[x].pc = "check" /\ pc = "register") \/ cli[x].pc \notin Early,
             Goto(x, [cli[x] EXCEPT !.pc = pc])
      PROVE  ServeInv'
    <2> DEFINE c == [cli[x] EXCEPT !.pc = pc]
    <2>1. cli' = [cli EXCEPT ![x] = c] /\ trouble' = trouble
        BY <1>g, Zenon DEF Goto
    <2>2. cli[x] \in Running
        BY <1>g, Runs DEF Early
    <2>3. pc \in Places \ {"clean", "install"}
        BY DEF Places
    <2>4. c \in Running
        BY <2>2, <2>3, GoesOn
    <2>5. c.pc = pc /\ c.port = cli[x].port
        BY <2>2 DEF Running
    <2>6. ~ trouble /\ cli[x].pc \notin Early => entry # None /\ cli[x].port = entry
        BY Zenon DEF ServeInv, Early
    <2>7. "register" \in Early
        BY DEF Early
    <2> HIDE DEF c
    <2> QED
        BY <1>g, <2>1, <2>4, <2>5, <2>6, <2>7, ServeGoes
<1>1. ASSUME NEW x \in Clis, spcHostAdd(x) \/ projectCommand(x) PROVE ServeInv'
    BY <1>1, ServeBegins DEF spcHostAdd, projectCommand
<1>2. ASSUME NEW x \in Clis, spcHostDelete(x) PROVE ServeInv'
    <2>1. trouble'
        BY <1>2, Zenon DEF spcHostDelete
    <2> QED
        BY <2>1, ServeTrouble
<1>3. ASSUME NEW x \in Clis, ensureAgentRegistered(x) PROVE ServeInv'
    <2> DEFINE c == [cli[x] EXCEPT !.pc = "check"]
    <2>1. cli[x].pc = "ensure" /\ (entry' = entry \/ entry = None)
        BY <1>3, Zenon DEF ensureAgentRegistered
    <2>2. cli' = [cli EXCEPT ![x] = c] /\ trouble' = trouble
        BY <1>3, Zenon DEF ensureAgentRegistered, Goto
    <2>3. "check" \in Places \ {"clean", "install"}
        BY DEF Places
    <2>4. c \in Running /\ c.pc \in Early
        BY <2>1, <2>3, Runs, GoesOn DEF Running, Early
    <2> HIDE DEF c
    <2> QED
        BY <2>1, <2>2, <2>4, ServeGoes
<1>4. ASSUME NEW x \in Clis, isAgentRunning(x) PROVE ServeInv'
    <2>1. cli[x].pc = "check" /\ UNCHANGED <<certs, entry, remote>>
        BY <1>4, Zenon DEF isAgentRunning
    <2>2. \/ End(x, TRUE) /\ entry # None /\ verifyAgentHealth(entry)
          \/ Goto(x, [cli[x] EXCEPT !.pc = "register"])
        BY <1>4, Zenon DEF isAgentRunning
    <2> QED
        BY <2>1, <2>2, <1>g, ServeEnds
<1>5. ASSUME NEW x \in Clis, ensureRemoteAgentRegistered(x) PROVE ServeInv'
    <2> DEFINE q == IF entry = None THEN Default ELSE entry
               c == [cli[x] EXCEPT !.pc = "certs", !.port = q]
    <2>1. cli[x].pc = "register" /\ entry' = q
        BY <1>5, Zenon DEF ensureRemoteAgentRegistered
    <2>2. cli' = [cli EXCEPT ![x] = c] /\ trouble' = trouble
        BY <1>5, Zenon DEF ensureRemoteAgentRegistered, Goto
    <2>3. q \in Ports \cup {None} /\ q # None
        BY PortsAssumption DEF Typed, TypeOK
    <2>4. cli[x] \in Running /\ "certs" \in Places \ {"clean", "install"}
        BY <2>1, Runs DEF Places
    <2>5. [cli[x] EXCEPT !.pc = "certs"] \in Running
        BY <2>4, GoesOn
    <2>6. c \in Running /\ c.port = q
        BY <2>3, <2>4, <2>5 DEF Running
    <2>7. entry' = entry \/ entry = None
        BY <2>1
    <2> HIDE DEF c
    <2> QED
        BY <2>1, <2>2, <2>3, <2>6, <2>7, ServeGoes
<1>6. ASSUME NEW x \in Clis, ensureRuntimeCerts(x) PROVE ServeInv'
    <2> DEFINE c == [cli[x] EXCEPT !.pc = "clean", !.gen = gen + 1, !.i = 1]
    <2>1. cli[x].pc = "certs" /\ UNCHANGED <<certs, entry, remote>>
        BY <1>6, Zenon DEF ensureRuntimeCerts
    <2>2. Goto(x, [cli[x] EXCEPT !.pc = "copy"]) \/ (gen < MaxGen /\ Goto(x, c))
        BY <1>6, Zenon DEF ensureRuntimeCerts
    <2>3. CASE Goto(x, [cli[x] EXCEPT !.pc = "copy"])
        BY <2>1, <2>3, <1>g DEF Early
    <2>4. CASE gen < MaxGen /\ Goto(x, c)
        <3>1. cli' = [cli EXCEPT ![x] = c] /\ trouble' = trouble
            BY <2>4, Zenon DEF Goto
        <3>2. gen + 1 \in 0..MaxGen
            BY <2>4, BoundAssumption DEF Typed, TypeOK
        <3>3. 1 \in Steps("clean") /\ "clean" \in Places
            BY DEF Steps, Places
        <3>4. c \in Running /\ c.port = cli[x].port
            BY <3>2, <3>3, <2>1, Runs DEF Running
        <3>5. ~ trouble => entry # None /\ cli[x].port = entry
            BY <2>1 DEF ServeInv
        <3> HIDE DEF c
        <3> QED
            BY <2>1, <3>1, <3>4, <3>5, ServeGoes
    <2> QED
        BY <2>2, <2>3, <2>4
<1>7. ASSUME NEW x \in Clis, cleanCertDirs(x) \/ installRuntimeCerts(x) PROVE ServeInv'
    <2>1. cli[x].pc \in {"clean", "install"} /\ entry' = entry
        BY <1>7, Zenon DEF cleanCertDirs, installRuntimeCerts
    <2>2. PICK c : Goto(x, c) /\ c.port = cli[x].port /\ c.pc # "idle"
        <3>1. CASE cleanCertDirs(x)
            <4> DEFINE i == cli[x].i
                       c == [cli[x] EXCEPT !.pc = IF i = 2 THEN "install" ELSE "clean",
                                           !.i = IF i = 2 THEN 1 ELSE 2]
            <4>1. Goto(x, c)
                BY <3>1, Zenon DEF cleanCertDirs
            <4>2. c.port = cli[x].port /\ c.pc # "idle"
                BY <2>1, Runs DEF Running
            <4> HIDE DEF c
            <4> QED
                BY <4>1, <4>2, Zenon
        <3>2. CASE installRuntimeCerts(x)
            <4> DEFINE i == cli[x].i
                       c == [cli[x] EXCEPT !.pc = IF i = Len(CertFiles) THEN "copy" ELSE "install",
                                           !.i = i + 1]
            <4>1. Goto(x, c)
                BY <3>2, Zenon DEF installRuntimeCerts
            <4>2. c.port = cli[x].port /\ c.pc # "idle"
                BY <2>1, Runs DEF Running
            <4> HIDE DEF c
            <4> QED
                BY <4>1, <4>2, Zenon
        <3> QED
            BY <1>7, <3>1, <3>2
    <2>3. cli' = [cli EXCEPT ![x] = c] /\ trouble' = trouble
        BY <2>2, Zenon DEF Goto
    <2>4. c \in Running
        <3>1. Typed'
            BY TypedNext
        <3>2. cli'[x] = c
            BY <2>3 DEF Typed, TypeOK
        <3> QED
            BY <3>1, <3>2, <2>2 DEF Typed, Idle
    <2>5. ~ trouble => entry # None /\ cli[x].port = entry
        BY <2>1 DEF ServeInv
    <2>6. cli[x] \in Running
        BY <2>1, Runs
    <2> QED
        BY <2>1, <2>2, <2>3, <2>4, <2>5, <2>6, ServeGoes
<1>8. ASSUME NEW x \in Clis, copyAgentBinary(x) PROVE ServeInv'
    <2>1. cli[x].pc = "copy" /\ UNCHANGED <<certs, entry, remote>>
        BY <1>8, Zenon DEF copyAgentBinary
    <2>2. End(x, FALSE) \/ Goto(x, [cli[x] EXCEPT !.pc = "copyCerts"])
        BY <1>8, Zenon DEF copyAgentBinary
    <2> QED
        BY <2>1, <2>2, <1>g, ServeEnds DEF Early
<1>9. ASSUME NEW x \in Clis, copyAgentCerts(x) PROVE ServeInv'
    <2>1. cli[x].pc = "copyCerts" /\ entry' = entry
        BY <1>9, Zenon DEF copyAgentCerts
    <2>2. End(x, FALSE) \/ Goto(x, [cli[x] EXCEPT !.pc = "stop"])
        BY <1>9, Zenon DEF copyAgentCerts
    <2> QED
        BY <2>1, <2>2, <1>g, ServeEnds DEF Early
<1>10. ASSUME NEW x \in Clis, stopRemoteAgentProcess(x) PROVE ServeInv'
    <2>1. cli[x].pc = "stop" /\ entry' = entry
        BY <1>10, Zenon DEF stopRemoteAgentProcess
    <2>2. End(x, FALSE) \/ Goto(x, [cli[x] EXCEPT !.pc = "start"])
        BY <1>10, Zenon DEF stopRemoteAgentProcess
    <2> QED
        BY <2>1, <2>2, <1>g, ServeEnds DEF Early
<1>11. ASSUME NEW x \in Clis, startRemoteAgentProcess(x) PROVE ServeInv'
    <2>1. cli[x].pc = "start" /\ entry' = entry
        BY <1>11, Zenon DEF startRemoteAgentProcess
    <2>2. Goto(x, [cli[x] EXCEPT !.pc = "wait"])
        BY <1>11, Zenon DEF startRemoteAgentProcess
    <2> QED
        BY <2>1, <2>2, <1>g DEF Early
<1>12. ASSUME NEW x \in Clis, waitForHealthyAgent(x) PROVE ServeInv'
    <2>1. cli[x].pc = "wait" /\ End(x, TRUE) /\ UNCHANGED <<certs, entry, remote>>
        BY <1>12, Zenon DEF waitForHealthyAgent
    <2>2. verifyAgentHealth(cli[x].port)
        BY <1>12, Zenon DEF waitForHealthyAgent
    <2>3. ~ trouble => entry # None /\ cli[x].port = entry
        BY <2>1 DEF ServeInv
    <2>4. ~ trouble => entry # None /\ verifyAgentHealth(entry)
        BY <2>2, <2>3, Zenon
    <2> QED
        BY <2>1, <2>4, ServeEnds
<1>13. ASSUME NEW x \in Clis, Fails(x) \/ Kill(x) PROVE ServeInv'
    <2>1. trouble'
        BY <1>13, Zenon DEF Fails, Kill, Event
    <2> QED
        BY <2>1, ServeTrouble
<1>14. ASSUME NEW q \in Ports, Proceed(q) PROVE ServeInv'
    <2>1. UNCHANGED <<certs, entry, cli, trouble>> /\ remote[q] # NoProcess
        BY <1>14, Zenon DEF Proceed
    <2>2. \E r : remote' = [remote EXCEPT ![q] = r]
        BY <1>14, Zenon DEF Proceed
    <2>3. remote[q].up # "up"
        BY <1>14 DEF Proceed
    <2>4. ASSUME ~ trouble, \A x \in Clis : cli[x] = Idle
          PROVE  entry' # None /\ verifyAgentHealth(entry)'
        <3>1. entry # None /\ verifyAgentHealth(entry)
            BY <2>4, Zenon DEF ServeInv, LastAddServes
        <3>2. entry \in Ports /\ remote[entry] # NoProcess
            BY <3>1, Zenon DEF verifyAgentHealth, Listens, Typed, TypeOK
        <3>3. remote[entry].up = "up"
            BY <3>1, <3>2, Ups DEF verifyAgentHealth, Listens, Typed
        <3>4. q # entry
            BY <2>3, <3>3
        <3>5. remote'[entry] = remote[entry]
            BY <2>2, <3>2, <3>4 DEF Typed, TypeOK
        <3> QED
            BY <2>1, <3>1, <3>5 DEF verifyAgentHealth, Listens
    <2>5. LastAddServes'
        BY <2>1, <2>4 DEF LastAddServes
    <2> QED
        BY <2>1, <2>5 DEF ServeInv
<1>15. ASSUME RemoveCert \/ RemoteChange PROVE ServeInv'
    <2>1. trouble'
        BY <1>15, Zenon DEF RemoveCert, RemoteChange, Event
    <2> QED
        BY <2>1, ServeTrouble
<1>16. ASSUME UNCHANGED vars PROVE ServeInv'
    BY <1>16 DEF vars, ServeInv, LastAddServes, verifyAgentHealth, Listens
<1> QED
    BY <1>1, <1>2, <1>3, <1>4, <1>5, <1>6, <1>7, <1>8, <1>9, <1>10, <1>11, <1>12, <1>13, <1>14,
       <1>15, <1>16, Zenon DEF Next

\* When the commands that ran together have all ended well and nothing
\* happened beside them, a healthy agent is at the registered port: no command
\* stopped for good what another had started, for any number of them.
THEOREM LastServes == Spec => []LastAddServes
<1>1. Init => ServeInv
    BY DEF Init, ServeInv, LastAddServes
<1>2. Typed /\ ServeInv /\ [Next]_vars => (Typed /\ ServeInv)'
    BY TypedNext, ServeNext
<1>3. ServeInv => LastAddServes
    BY DEF ServeInv
<1> QED
    BY <1>1, <1>2, <1>3, InitTyped, PTL DEF Spec

=============================================================================
