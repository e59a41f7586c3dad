-------------------------- MODULE LocalAgent_proofs --------------------------
(***************************************************************************)
(* Proofs about LocalAgent, for any number of cds processes, process ids   *)
(* and ports.  A step changes the commands, or the processes, or both: the *)
(* lemmas say what a command, a row and a process have to satisfy for the  *)
(* inductive invariant to survive, and the actions are then checked one by *)
(* one.                                                                    *)
(***************************************************************************)
EXTENDS LocalAgent, TLAPS

\* The state in which nothing was ever started satisfies the invariant.
LEMMA InitOK == Init => IInv
<1> SUFFICES ASSUME Init PROVE IInv
  OBVIOUS
<1>1. db \in Rows /\ RowOK(db) /\ Ours(db.owner)
  BY DEF Init, Rows, RowOK, Ours
<1>2. NoProcess \in Processes
  BY DEF NoProcess, Processes
<1>3. commands \in 0..MaxCommands /\ events \in 0..MaxEvents
  BY BoundsAssumption DEF Init
<1> QED
  BY <1>1, <1>2, <1>3 DEF Init, IInv, TypeOK, CommandOK

\* normalize keeps the type and the shape of a row.
LEMMA NormalizeOK ==
    ASSUME NEW d \in Rows
    PROVE  /\ normalize(d) \in Rows
           /\ RowOK(d) => RowOK(normalize(d))
           /\ normalize(d).owner = d.owner
BY DEF normalize, Rows, RowOK

\* A command that moves on without touching processes keeps the invariant if
\* its next state is in order.
LEMMA GotoOK ==
    ASSUME IInv, NEW x \in Clis, NEW c \in Commands \cup {Idle}, CommandOK(c),
           Goto(x, c), cfg' \in Ports \cup {None}, UNCHANGED proc
    PROVE  IInv'
<1>1. \A y \in Clis : cli'[y] = IF y = x THEN c ELSE cli[y]
  BY DEF IInv, TypeOK, Goto
<1>2. \A y \in Clis : CommandOK(cli[y])'
  BY <1>1 DEF IInv, CommandOK, Ours
<1>3. TypeOK'
  BY DEF IInv, TypeOK, Goto
<1>4. Ours(db.owner)'
  BY DEF IInv, Goto, Ours
<1> QED
  BY <1>2, <1>3, <1>4 DEF IInv

\* A command that fails, likewise.
LEMMA FailOK ==
    ASSUME IInv, NEW x \in Clis, cli[x] # Idle, Fail(x),
           cfg' \in Ports \cup {None}, UNCHANGED proc
    PROVE  IInv'
<1>1. \A y \in Clis : cli'[y] = IF y = x THEN Idle ELSE cli[y]
  BY DEF IInv, TypeOK, Fail
<1>2. \A y \in Clis : CommandOK(cli[y])'
  BY <1>1 DEF IInv, CommandOK, Ours
<1>3. Ended(x, "error") \in Ends
  BY DEF IInv, TypeOK, Ended, Ends, Commands
<1>4. TypeOK'
  BY <1>3 DEF IInv, TypeOK, Fail
<1>5. Ours(db.owner)'
  BY DEF IInv, Fail, Ours
<1> QED
  BY <1>2, <1>4, <1>5 DEF IInv

\* A command that saves its row, or fails to.
LEMMA SaveOK ==
    ASSUME IInv, NEW x \in Clis, cli[x] # Idle, Save(x)
    PROVE  IInv'
<1> DEFINE d == cli[x].mem
<1>1. cli[x] \in Commands /\ d \in Rows /\ RowOK(normalize(d)) /\ Ours(d.owner)
  BY DEF IInv, TypeOK, CommandOK, Commands
<1>2. UNCHANGED <<cfg, proc>> /\ cfg \in Ports \cup {None}
  BY DEF IInv, TypeOK, Save
<1>3. CASE Fail(x)
  BY <1>2, <1>3, FailOK
<1>4. CASE /\ cli' = [cli EXCEPT ![x] = Idle]
           /\ db' = normalize(d)
           /\ done' = Ended(x, cli[x].op)
           /\ UNCHANGED <<calm, commands, events>>
  <2>1. \A y \in Clis : cli'[y] = IF y = x THEN Idle ELSE cli[y]
    BY <1>4 DEF IInv, TypeOK
  <2>2. \A y \in Clis : CommandOK(cli[y])'
    BY <1>2, <2>1 DEF IInv, CommandOK, Ours
  <2>3. Ended(x, cli[x].op) \in Ends
    BY <1>1 DEF Ended, Ends, Commands
  <2>4. db' \in Rows /\ RowOK(db') /\ db'.owner = d.owner
    BY <1>1, <1>4, NormalizeOK
  <2>5. TypeOK'
    BY <1>2, <1>4, <2>3, <2>4 DEF IInv, TypeOK, RowOK
  <2>6. Ours(db.owner)'
    BY <1>1, <1>2, <2>4 DEF Ours
  <2> QED
    BY <2>2, <2>5, <2>6 DEF IInv
<1> QED
  BY <1>3, <1>4 DEF Save

\* A command that begins with a row in order.
LEMMA BeginOK ==
    ASSUME IInv, NEW x \in Clis, NEW c \in Commands, CommandOK(c), Begin(x, c)
    PROVE  IInv'
<1>1. \A y \in Clis : cli'[y] = IF y = x THEN c ELSE cli[y]
  BY DEF IInv, TypeOK, Begin
<1>2. \A y \in Clis : CommandOK(cli[y])'
  BY <1>1 DEF IInv, CommandOK, Ours, Begin
<1>3. commands' \in 0..MaxCommands
  BY BoundsAssumption DEF IInv, TypeOK, Begin
<1>4. calm' \in BOOLEAN
  BY DEF Begin
<1>5. TypeOK'
  BY <1>3, <1>4 DEF IInv, TypeOK, Begin
<1>6. Ours(db.owner)'
  BY DEF IInv, Begin, Ours
<1> QED
  BY <1>2, <1>5, <1>6 DEF IInv

\* A command as it starts.
LEMMA StartedOK ==
    ASSUME NEW op \in {"add", "project", "delete"}, NEW pc \in {"ensure", "check", "lookup"},
           NEW d \in Rows, RowOK(d), Ours(d.owner)
    PROVE  Started(op, pc, d) \in Commands /\ CommandOK(Started(op, pc, d))
<1>1. Started(op, pc, d) \in Commands
  BY DEF Started, Commands, Rows
<1>2. CommandOK(Started(op, pc, d))
  BY NormalizeOK DEF Started, CommandOK, Ours
<1> QED
  BY <1>1, <1>2

\* One process changes while the commands and the files stay: an agent of the
\* user must get an id nobody remembers, another program one nobody is
\* about to signal.
LEMMA ProcessOK ==
    ASSUME IInv, NEW q \in Pids, NEW r \in Processes, proc' = [proc EXCEPT ![q] = r],
           UNCHANGED <<db, cli>>,
           r.name = Binary /\ r.by # "cds" => ~ Recorded(q),
           r.name \in Programs => \A x \in Clis : cli[x].pc = "signal" => cli[x].mem.owner # q
    PROVE  /\ proc' \in [Pids -> Processes]
           /\ Ours(db.owner)'
           /\ \A x \in Clis : CommandOK(cli[x])'
<1>1. proc' \in [Pids -> Processes]
  BY DEF IInv, TypeOK
<1>2. \A p \in Pids : proc'[p] = IF p = q THEN r ELSE proc[p]
  BY DEF IInv, TypeOK
<1>3. db.owner \in Pids \cup {None}
  BY DEF IInv, TypeOK, Rows
<1>4. \A x \in Clis : cli[x] # Idle =>
         cli[x].mem.owner \in Pids \cup {None} /\ cli[x].pid \in Pids \cup {None}
  BY DEF IInv, TypeOK, Commands, Rows
<1>5. ASSUME NEW o \in Pids \cup {None}, Ours(o), o = q => Recorded(q)
      PROVE  o # None /\ proc'[o].name = Binary => proc'[o].by = "cds"
  BY <1>2, <1>5 DEF Ours
<1>6. Ours(db.owner)'
  BY <1>3, <1>5 DEF IInv, Ours, Recorded
<1>7. ASSUME NEW x \in Clis PROVE CommandOK(cli[x])'
  <2> SUFFICES ASSUME cli[x] # Idle
               PROVE  /\ RowOK(normalize(cli[x].mem))
                      /\ Ours(cli[x].mem.owner)'
                      /\ Ours(cli[x].pid)'
                      /\ cli[x].pc = "signal" =>
                           cli[x].mem.owner # None /\ proc'[cli[x].mem.owner].name \notin Programs
    BY DEF CommandOK, RowOK, normalize
  <2>1. CommandOK(cli[x])
    BY DEF IInv
  <2>2. Recorded(cli[x].mem.owner) /\ Recorded(cli[x].pid)
    BY DEF Recorded
  <2>3. Ours(cli[x].mem.owner)' /\ Ours(cli[x].pid)'
    BY <1>4, <1>5, <2>1, <2>2 DEF CommandOK, Ours
  <2> QED
    BY <1>2, <1>4, <2>1, <2>3 DEF CommandOK
<1> QED
  BY <1>1, <1>6, <1>7

-----------------------------------------------------------------------------
\* A command that is at one of its places is a command in order.
LEMMA RunningOK ==
    ASSUME IInv, NEW x \in Clis, cli[x].pc # "idle"
    PROVE  cli[x] # Idle /\ cli[x] \in Commands /\ CommandOK(cli[x])
BY DEF IInv, TypeOK, Idle

\* The three commands begin with the row they load.
LEMMA BeginsOK ==
    ASSUME IInv, NEW x \in Clis, spcHostAdd(x) \/ projectCommand(x) \/ spcHostDelete(x)
    PROVE  IInv'
<1> DEFINE d == normalize(db)
<1>1. d \in Rows /\ RowOK(d) /\ Ours(d.owner)
  BY NormalizeOK DEF IInv, TypeOK
<1> HIDE DEF d
<1>2. CASE spcHostAdd(x)
  <2>1. /\ registerLocalHost(d) \in Rows
        /\ RowOK(registerLocalHost(d))
        /\ Ours(registerLocalHost(d).owner)
    BY <1>1 DEF registerLocalHost, Rows, RowOK
  <2> DEFINE s == Started("add", "ensure", registerLocalHost(d))
  <2>2. PICK port \in Ports : Begin(x, [s EXCEPT !.port = port])
    BY <1>2 DEF spcHostAdd, d
  <2>3. s \in Commands /\ CommandOK(s)
    BY <2>1, StartedOK
  <2> HIDE DEF s
  <2>4. [s EXCEPT !.port = port] \in Commands /\ CommandOK([s EXCEPT !.port = port])
    BY <2>3 DEF Commands, CommandOK, Idle
  <2> QED
    BY <2>2, <2>4, BeginOK
<1>3. CASE projectCommand(x)
  <2> DEFINE e == [d EXCEPT !.row = TRUE, !.mapped = TRUE]
  <2>1. e \in Rows /\ RowOK(e) /\ Ours(e.owner)
    BY <1>1 DEF Rows, RowOK
  <2> HIDE DEF e
  <2>2. \/ Begin(x, Started("project", "check", e))
        \/ Begin(x, Started("project", "check", d))
    BY <1>3 DEF projectCommand, d, e
  <2> QED
    BY <1>1, <2>1, <2>2, StartedOK, BeginOK
<1>4. CASE spcHostDelete(x)
  BY <1>1, <1>4, StartedOK, BeginOK DEF spcHostDelete, d
<1> QED
  BY <1>2, <1>3, <1>4

\* The steps of StartAgent and of the project command.
LEMMA StartOK ==
    ASSUME IInv, NEW x \in Clis,
           \/ ensureAgentRegistered(x) \/ isAgentRunning(x) \/ nextLocalAgentAddress(x)
           \/ startAgent(x) \/ waitForHealthyAgent(x) \/ registerLocalAgent(x)
           \/ Fails(x) \/ Work(x)
    PROVE  IInv'
<1> DEFINE c == cli[x]
<1>1. c.pc # "idle"
  BY DEF ensureAgentRegistered, isAgentRunning, nextLocalAgentAddress, startAgent,
         waitForHealthyAgent, registerLocalAgent, Fails, Work
<1>2. c # Idle /\ c \in Commands /\ CommandOK(c)
  BY <1>1, RunningOK
<1>3. cfg \in Ports \cup {None} /\ Default \in Ports
  BY PortsAssumption DEF IInv, TypeOK
<1>4. CASE ensureAgentRegistered(x)
  <2> DEFINE e == [c EXCEPT !.pc = "check"]
  <2>1. e \in Commands /\ CommandOK(e)
    BY <1>2 DEF Commands, CommandOK
  <2>2. cfg' \in Ports \cup {None}
    BY <1>2, <1>3, <1>4 DEF ensureAgentRegistered, Commands
  <2> QED
    BY <1>3, <1>4, <2>1, <2>2, GotoOK DEF ensureAgentRegistered
<1>5. CASE isAgentRunning(x)
  <2> DEFINE address == IF cfg = None THEN Default ELSE cfg
             e == [c EXCEPT
                     !.pc = IF verifyAgentHealth(address) THEN "register" ELSE "probe",
                     !.port = address]
  <2>1. address \in Ports
    BY <1>3
  <2> HIDE DEF address
  <2>2. e \in Commands /\ CommandOK(e)
    BY <1>2, <2>1 DEF Commands, CommandOK
  <2> QED
    BY <1>3, <1>5, <2>2, GotoOK DEF isAgentRunning, address
<1>6. CASE nextLocalAgentAddress(x)
  <2>1. PICK port \in Ports : Goto(x, [c EXCEPT !.pc = "start", !.port = port])
    BY <1>6 DEF nextLocalAgentAddress
  <2> DEFINE e == [c EXCEPT !.pc = "start", !.port = port]
  <2>2. e \in Commands /\ CommandOK(e)
    BY <1>2 DEF Commands, CommandOK
  <2> QED
    BY <1>3, <1>6, <2>1, <2>2, GotoOK DEF nextLocalAgentAddress
<1>7. CASE startAgent(x)
  <2>1. PICK q \in Pids :
          /\ proc[q] = NoProcess
          /\ proc' = [proc EXCEPT ![q] = Agent("cds", c.port, "starting")]
          /\ Goto(x, [c EXCEPT !.pc = "wait", !.pid = q])
    BY <1>7 DEF startAgent
  <2> DEFINE r == Agent("cds", c.port, "starting")
             e == [c EXCEPT !.pc = "wait", !.pid = q]
  <2>2. r \in Processes /\ r.name = Binary /\ r.by = "cds" /\ r.name \notin Programs
    BY <1>2, NamesAssumption DEF Agent, Processes, Commands
  <2> HIDE DEF r
  <2>3. /\ proc' \in [Pids -> Processes]
        /\ \A p \in Pids : proc'[p] = IF p = q THEN r ELSE proc[p]
    BY <2>1, <2>2 DEF IInv, TypeOK, r
  <2>4. \A o \in Pids \cup {None} : Ours(o) =>
           (o # None /\ proc'[o].name = Binary => proc'[o].by = "cds")
    BY <2>2, <2>3 DEF Ours
  <2>5. /\ e \in Commands /\ e # Idle /\ e.pc = "wait" /\ e.pid = q /\ e.mem = c.mem
    BY <1>2 DEF Commands, Idle
  <2>6. \A y \in Clis : cli'[y] = IF y = x THEN e ELSE cli[y]
    BY <2>1 DEF IInv, TypeOK, Goto
  <2>7. \A y \in Clis : cli[y] # Idle =>
           cli[y].mem.owner \in Pids \cup {None} /\ cli[y].pid \in Pids \cup {None}
    BY DEF IInv, TypeOK, Commands, Rows
  <2>8. ASSUME NEW y \in Clis PROVE CommandOK(cli[y])'
    <3>1. CASE y = x
      <4>1. cli'[y] = e /\ cli'[y].pc = "wait" /\ cli'[y].pid = q /\ cli'[y].mem = c.mem
        BY <2>5, <2>6, <3>1
      <4>2. RowOK(normalize(c.mem)) /\ Ours(c.mem.owner) /\ c.mem.owner \in Pids \cup {None}
        BY <1>2, <2>7 DEF CommandOK
      <4>3. Ours(cli[y].mem.owner)'
        BY <2>4, <4>1, <4>2 DEF Ours
      <4>4. Ours(cli[y].pid)'
        BY <2>2, <2>3, <4>1 DEF Ours
      <4>5. RowOK(normalize(cli[y].mem))'
        BY <4>1, <4>2 DEF RowOK, normalize
      <4> QED
        BY <4>1, <4>3, <4>4, <4>5 DEF CommandOK
    <3>2. CASE y # x
      <4>1. cli'[y] = cli[y]
        BY <2>6, <3>2
      <4>2. CommandOK(cli[y])
        BY DEF IInv
      <4> QED
        BY <2>2, <2>3, <2>4, <2>7, <4>1, <4>2 DEF CommandOK, Ours, RowOK, normalize
    <3> QED
      BY <3>1, <3>2
  <2>9. Ours(db.owner)'
    <3>1. db.owner \in Pids \cup {None} /\ Ours(db.owner) /\ db' = db
      BY <2>1 DEF IInv, TypeOK, Rows, Goto
    <3> QED
      BY <2>4, <3>1 DEF Ours
  <2>10. TypeOK'
    BY <1>3, <1>7, <2>1, <2>3, <2>5 DEF IInv, TypeOK, Goto, startAgent
  <2> QED
    BY <2>8, <2>9, <2>10 DEF IInv
<1>8. CASE waitForHealthyAgent(x)
  <2> DEFINE m == recordManagedAgentOwnership(c.mem, c.pid)
             e == [c EXCEPT !.pc = "register", !.mem = m]
  <2>1. c.mem \in Rows /\ c.pid \in Pids \cup {None} /\ RowOK(normalize(c.mem))
        /\ Ours(c.mem.owner) /\ Ours(c.pid)
    BY <1>2 DEF Commands, CommandOK
  <2>2. m \in Rows /\ RowOK(normalize(m)) /\ m.owner \in {c.mem.owner, c.pid}
    BY <2>1 DEF recordManagedAgentOwnership, Rows, RowOK, normalize
  <2>3. Ours(m.owner)
    BY <2>1, <2>2
  <2>4. Goto(x, e)
    BY <1>8 DEF waitForHealthyAgent
  <2> HIDE DEF m
  <2>5. e \in Commands /\ CommandOK(e)
    BY <1>2, <2>2, <2>3 DEF Commands, CommandOK
  <2> QED
    BY <1>3, <1>8, <2>4, <2>5, GotoOK DEF waitForHealthyAgent
<1>9. CASE registerLocalAgent(x)
  <2>1. cfg' \in Ports \cup {None} /\ UNCHANGED proc
    BY <1>2, <1>9 DEF registerLocalAgent, Commands
  <2> DEFINE pc == IF c.op = "add" THEN "save" ELSE "work"
             e == [c EXCEPT !.pc = pc]
  <2>2. Goto(x, e) /\ pc \in {"save", "work"}
    BY <1>9 DEF registerLocalAgent
  <2> HIDE DEF pc
  <2>3. e \in Commands /\ CommandOK(e)
    BY <1>2, <2>2 DEF Commands, CommandOK
  <2> QED
    BY <2>1, <2>2, <2>3, GotoOK
<1>10. CASE Fails(x)
  BY <1>2, <1>3, <1>10, FailOK DEF Fails
<1>11. CASE Work(x)
  <2>1. UNCHANGED <<cfg, proc>>
    BY <1>11 DEF Work
  <2>2. ASSUME NEW keys \in BOOLEAN,
               Goto(x, [c EXCEPT !.pc = "save", !.mem = [c.mem EXCEPT !.row = @ \/ keys]])
        PROVE  IInv'
    <3> DEFINE d == [c.mem EXCEPT !.row = @ \/ keys]
               e == [c EXCEPT !.pc = "save", !.mem = d]
    <3>1. d \in Rows /\ RowOK(normalize(d)) /\ Ours(d.owner)
      BY <1>2 DEF Commands, CommandOK, Rows, RowOK, normalize
    <3>2. Goto(x, e)
      BY <2>2
    <3> HIDE DEF d
    <3>3. e \in Commands /\ CommandOK(e)
      BY <1>2, <3>1 DEF Commands, CommandOK
    <3> QED
      BY <1>3, <2>1, <3>2, <3>3, GotoOK
  <2> QED
    BY <1>2, <1>3, <1>11, <2>1, <2>2, FailOK DEF Work
<1> QED
  BY <1>4, <1>5, <1>6, <1>7, <1>8, <1>9, <1>10, <1>11

\* The steps of host delete.
LEMMA StopOK ==
    ASSUME IInv, NEW x \in Clis,
           StopAgent(x) \/ signalProcess(x) \/ DeleteAgentFromConfig(x) \/ Save(x) \/ Kill(x)
    PROVE  IInv'
<1> DEFINE c == cli[x]
           q == c.mem.owner
<1>1. c # Idle /\ c \in Commands /\ CommandOK(c)
  BY RunningOK DEF IInv, TypeOK, StopAgent, signalProcess, DeleteAgentFromConfig, Save, Kill
<1>2. cfg \in Ports \cup {None}
  BY DEF IInv, TypeOK
<1>3. CASE StopAgent(x)
  <2> DEFINE pc == IF q # None /\ matchesOwnedAgentProcess(q) THEN "signal" ELSE "unregister"
             e == [c EXCEPT !.pc = pc]
  <2>1. pc \in {"signal", "unregister"} /\ (pc = "signal" => q # None /\ proc[q].name \notin Programs)
    BY NamesAssumption DEF matchesOwnedAgentProcess
  <2>2. Goto(x, e)
    BY <1>3 DEF StopAgent
  <2> HIDE DEF pc
  <2>3. e \in Commands /\ CommandOK(e)
    BY <1>1, <2>1 DEF Commands, CommandOK
  <2> QED
    BY <1>2, <1>3, <2>2, <2>3, GotoOK DEF StopAgent
<1>4. CASE signalProcess(x)
  <2> DEFINE e == [c EXCEPT !.pc = "unregister"]
             r == [proc[q] EXCEPT !.signalled = "yes"]
  <2>1. CASE proc[q] = NoProcess
    BY <1>1, <1>2, <1>4, <2>1, FailOK DEF signalProcess
  <2>2. CASE proc[q] # NoProcess
    <3>1. proc' = [proc EXCEPT ![q] = r] /\ Goto(x, e) /\ UNCHANGED cfg
      BY <1>4, <2>2 DEF signalProcess
    <3>2. q \in Pids
      BY <1>1, <1>4 DEF signalProcess, CommandOK, Commands, Rows
    <3>3. r \in Processes /\ r.name = proc[q].name /\ r.by = proc[q].by
      BY <2>2, <3>2 DEF IInv, TypeOK, Processes
    <3> HIDE DEF r
    <3>4. /\ proc' \in [Pids -> Processes]
          /\ \A p \in Pids : proc'[p].name = proc[p].name /\ proc'[p].by = proc[p].by
      BY <3>1, <3>2, <3>3 DEF IInv, TypeOK
    <3>5. e \in Commands /\ CommandOK(e)
      BY <1>1 DEF Commands, CommandOK
    <3>6. TypeOK'
      BY <1>2, <3>1, <3>4, <3>5 DEF IInv, TypeOK, Goto
    <3>7. \A y \in Clis : cli'[y] = IF y = x THEN e ELSE cli[y]
      BY <3>1 DEF IInv, TypeOK, Goto
    <3>8. \A o \in Pids \cup {None} : Ours(o) =>
             (o # None /\ proc'[o].name = Binary => proc'[o].by = "cds")
      BY <3>4 DEF Ours
    <3>9. ASSUME NEW y \in Clis PROVE CommandOK(cli[y])'
      <4>1. cli'[y] \in Commands \cup {Idle} /\ CommandOK(cli'[y])
        BY <3>5, <3>7 DEF IInv, TypeOK
      <4> SUFFICES ASSUME cli'[y] # Idle PROVE CommandOK(cli[y])'
        BY DEF CommandOK
      <4>2. cli'[y].mem.owner \in Pids \cup {None} /\ cli'[y].pid \in Pids \cup {None}
        BY <4>1 DEF Commands, Rows
      <4>3. Ours(cli[y].mem.owner)' /\ Ours(cli[y].pid)'
        BY <3>8, <4>1, <4>2 DEF CommandOK, Ours
      <4> QED
        BY <3>4, <4>1, <4>2, <4>3 DEF CommandOK, RowOK, normalize
    <3>10. Ours(db.owner)'
      <4>1. db.owner \in Pids \cup {None} /\ Ours(db.owner) /\ db' = db
        BY <3>1 DEF IInv, TypeOK, Rows, Goto
      <4> QED
        BY <3>8, <4>1 DEF Ours
    <3> QED
      BY <3>6, <3>9, <3>10 DEF IInv
  <2> QED
    BY <2>1, <2>2
<1>5. CASE DeleteAgentFromConfig(x)
  <2> DEFINE d == RemoveHostFromHostList(c.mem)
             e == [c EXCEPT !.pc = "save", !.mem = d]
  <2>1. d \in Rows /\ RowOK(normalize(d)) /\ Ours(d.owner)
    BY <1>1 DEF RemoveHostFromHostList, Commands, Rows, RowOK, normalize, Ours
  <2>2. Fail(x) \/ Goto(x, e)
    BY <1>5 DEF DeleteAgentFromConfig
  <2>3. cfg' \in Ports \cup {None} /\ UNCHANGED proc
    BY <1>5 DEF DeleteAgentFromConfig
  <2> HIDE DEF d
  <2>4. e \in Commands /\ CommandOK(e)
    BY <1>1, <2>1 DEF Commands, CommandOK
  <2> QED
    BY <1>1, <2>2, <2>3, <2>4, FailOK, GotoOK
<1>6. CASE Kill(x)
  <2>1. CommandOK(Idle)
    BY DEF CommandOK
  <2> QED
    BY <1>2, <1>6, <2>1, GotoOK DEF Kill
<1> QED
  BY <1>1, <1>3, <1>4, <1>5, <1>6, SaveOK

\* What the processes do by themselves and what happens beside cds.
LEMMA MachineOK ==
    ASSUME IInv, Listen \/ GracefulStop \/ UserStartsAgent \/ OtherProgramStarts \/ ProcessEnds
    PROVE  IInv'
<1>1. NoProcess \in Processes /\ NoProcess.name = None
  BY DEF NoProcess, Processes
<1>2. CASE Listen \/ GracefulStop
  <2>1. PICK q \in Pids, r \in Processes :
          /\ proc' = [proc EXCEPT ![q] = r]
          /\ r.name # None => r.name = proc[q].name /\ r.by = proc[q].by
    <3>1. CASE Listen
      <4>1. PICK q \in Pids, up \in {"healthy", "broken"} :
              /\ proc[q].up = "starting"
              /\ proc' = [proc EXCEPT ![q] =
                            IF Listens(@.port) THEN NoProcess ELSE [@ EXCEPT !.up = up]]
        BY <3>1 DEF Listen
      <4> DEFINE r == IF Listens(proc[q].port) THEN NoProcess ELSE [proc[q] EXCEPT !.up = up]
      <4>2. proc[q] \in Processes \ {NoProcess}
        BY <4>1 DEF IInv, TypeOK, NoProcess
      <4>3. r \in Processes /\ (r.name # None => r.name = proc[q].name /\ r.by = proc[q].by)
        BY <1>1, <4>2 DEF Processes
      <4>4. proc' = [proc EXCEPT ![q] = r]
        BY <4>1
      <4> HIDE DEF r
      <4> QED
        BY <4>3, <4>4
    <3>2. CASE GracefulStop
      <4>1. PICK q \in Pids :
              /\ proc[q].signalled = "yes"
              /\ proc' = [proc EXCEPT ![q] =
                    IF @.up \in {"healthy", "broken"} THEN [@ EXCEPT !.up = "stopping"]
                    ELSE NoProcess]
        BY <3>2 DEF GracefulStop
      <4> DEFINE r == IF proc[q].up \in {"healthy", "broken"}
                      THEN [proc[q] EXCEPT !.up = "stopping"] ELSE NoProcess
      <4>2. proc[q] \in Processes \ {NoProcess}
        BY <4>1 DEF IInv, TypeOK, NoProcess
      <4>3. r \in Processes /\ (r.name # None => r.name = proc[q].name /\ r.by = proc[q].by)
        BY <1>1, <4>2 DEF Processes
      <4>4. proc' = [proc EXCEPT ![q] = r]
        BY <4>1
      <4> HIDE DEF r
      <4> QED
        BY <4>3, <4>4
    <3> QED
      BY <1>2, <3>1, <3>2
  <2>4. UNCHANGED <<db, cfg, cli, done, calm, commands, events>>
    BY <1>2 DEF Listen, GracefulStop
  <2>5. /\ proc' \in [Pids -> Processes]
        /\ \A p \in Pids : \/ proc'[p].name = None
                           \/ proc'[p].name = proc[p].name /\ proc'[p].by = proc[p].by
    <3>1. proc \in [Pids -> Processes]
      BY DEF IInv, TypeOK
    <3>2. proc' \in [Pids -> Processes]
      BY <2>1, <3>1
    <3>3. \A p \in Pids : proc'[p] = IF p = q THEN r ELSE proc[p]
      BY <2>1, <3>1
    <3> QED
      BY <2>1, <3>2, <3>3
  <2>6. \A o \in Pids \cup {None} : Ours(o) =>
           (o # None /\ proc'[o].name = Binary => proc'[o].by = "cds")
    BY <2>5, NamesAssumption DEF Ours
  <2>7. ASSUME NEW y \in Clis PROVE CommandOK(cli[y])'
    <3>1. cli[y] \in Commands \cup {Idle} /\ CommandOK(cli[y]) /\ cli'[y] = cli[y]
      BY <2>4 DEF IInv, TypeOK
    <3> SUFFICES ASSUME cli[y] # Idle PROVE CommandOK(cli[y])'
      BY <3>1 DEF CommandOK
    <3>2. cli[y].mem.owner \in Pids \cup {None} /\ cli[y].pid \in Pids \cup {None}
      BY <3>1 DEF Commands, Rows
    <3>3. Ours(cli[y].mem.owner)' /\ Ours(cli[y].pid)'
      BY <2>6, <3>1, <3>2 DEF CommandOK, Ours
    <3> QED
      BY <2>5, <3>1, <3>2, <3>3, NamesAssumption DEF CommandOK, RowOK, normalize
  <2>8. Ours(db.owner)'
    <3>1. db.owner \in Pids \cup {None} /\ Ours(db.owner) /\ db' = db
      BY <2>4 DEF IInv, TypeOK, Rows
    <3> QED
      BY <2>6, <3>1 DEF Ours
  <2>9. TypeOK'
    BY <2>4, <2>5 DEF IInv, TypeOK
  <2> QED
    BY <2>7, <2>8, <2>9 DEF IInv
<1>3. CASE UserStartsAgent \/ OtherProgramStarts \/ ProcessEnds
  <2>1. Event
    BY <1>3 DEF UserStartsAgent, OtherProgramStarts, ProcessEnds
  <2>2. UNCHANGED <<db, cfg, cli, commands>> /\ done' = Idle /\ calm' = FALSE
        /\ events' \in 0..MaxEvents
    BY <2>1, BoundsAssumption DEF Event, IInv, TypeOK
  <2>3. \E q \in Pids, r \in Processes :
          /\ proc' = [proc EXCEPT ![q] = r]
          /\ r.name = Binary /\ r.by # "cds" => ~ Recorded(q)
          /\ r.name \in Programs => \A x \in Clis : cli[x].pc = "signal" => cli[x].mem.owner # q
    <3>1. CASE UserStartsAgent
      <4>1. PICK q \in Pids, up \in {"healthy", "broken"} :
              ~ Recorded(q) /\ proc' = [proc EXCEPT ![q] = Agent("user", Default, up)]
        BY <3>1 DEF UserStartsAgent
      <4>2. Agent("user", Default, up) \in Processes /\ Agent("user", Default, up).name = Binary
        BY PortsAssumption DEF Agent, Processes
      <4> QED
        BY <4>1, <4>2, NamesAssumption
    <3>2. CASE OtherProgramStarts
      <4>1. PICK q \in Pids, name \in Programs, port \in Ports \cup {None} :
              /\ \A x \in Clis : cli[x].pc = "signal" => cli[x].mem.owner # q
              /\ proc' = [proc EXCEPT ![q] = Other(name, port)]
        BY <3>2 DEF OtherProgramStarts
      <4>2. Other(name, port) \in Processes /\ Other(name, port).name = name
        BY DEF Other, Processes
      <4> QED
        BY <4>1, <4>2, NamesAssumption
    <3>3. CASE ProcessEnds
      BY <1>1, <3>3, NamesAssumption DEF ProcessEnds
    <3> QED
      BY <1>3, <3>1, <3>2, <3>3
  <2>4. /\ proc' \in [Pids -> Processes]
        /\ Ours(db.owner)'
        /\ \A x \in Clis : CommandOK(cli[x])'
    BY <2>2, <2>3, ProcessOK
  <2>5. TypeOK'
    BY <2>2, <2>4 DEF IInv, TypeOK
  <2> QED
    BY <2>4, <2>5 DEF IInv
<1> QED
  BY <1>2, <1>3

-----------------------------------------------------------------------------
\* Every step of a command, a process or the user keeps the invariant.
LEMMA NextOK == IInv /\ [Next]_vars => IInv'
<1> SUFFICES ASSUME IInv, [Next]_vars PROVE IInv'
  OBVIOUS
<1>1. CASE UNCHANGED vars
  BY <1>1 DEF vars, IInv, TypeOK, CommandOK, Ours, RowOK, normalize
<1>2. CASE Next
  BY <1>2, BeginsOK, StartOK, StopOK, MachineOK DEF Next
<1> QED
  BY <1>1, <1>2

\* The inductive invariant holds throughout.
LEMMA IInvHolds == Spec => []IInv
BY InitOK, NextOK, PTL DEF Spec

\* Every variable keeps its type, and ownership and runtime information are
\* only ever stored in a row of localhost.
THEOREM TypeCorrect == Spec => []TypeOK
<1>1. IInv => TypeOK
  BY DEF IInv
<1> QED
  BY <1>1, IInvHolds, PTL

\* A process is told to stop by a delete that found it in its record, and in
\* no other way.
LEMMA OnlyDeleteSignals ==
    ASSUME IInv, Next, NEW q \in Pids, proc[q].signalled = "no", proc'[q].signalled = "yes"
    PROVE  \E x \in Clis : signalProcess(x) /\ cli[x].mem.owner = q
<1>1. proc \in [Pids -> Processes]
  BY DEF IInv, TypeOK
<1>2. ~ UNCHANGED proc
  OBVIOUS
<1>3. ASSUME NEW p \in Pids, NEW r, proc' = [proc EXCEPT ![p] = r]
      PROVE  p = q /\ r.signalled = "yes"
  BY <1>1, <1>3
<1>4. ~ (UserStartsAgent \/ OtherProgramStarts \/ ProcessEnds)
  BY <1>3 DEF UserStartsAgent, OtherProgramStarts, ProcessEnds, Agent, Other, NoProcess
<1>5. ~ Listen
  <2> SUFFICES ASSUME NEW p \in Pids, NEW up \in {"healthy", "broken"},
                      proc[p].signalled = "no",
                      proc' = [proc EXCEPT ![p] =
                        IF Listens(@.port) THEN NoProcess ELSE [@ EXCEPT !.up = up]]
               PROVE  FALSE
    BY DEF Listen
  <2> DEFINE r == IF Listens(proc[p].port) THEN NoProcess ELSE [proc[p] EXCEPT !.up = up]
  <2>1. r.signalled = "no"
    BY <1>1 DEF Processes, NoProcess
  <2>2. proc' = [proc EXCEPT ![p] = r]
    OBVIOUS
  <2> HIDE DEF r
  <2> QED
    BY <1>3, <2>1, <2>2
<1>6. ~ GracefulStop
  <2> SUFFICES ASSUME NEW p \in Pids, proc[p].signalled = "yes", p = q PROVE FALSE
    BY <1>3 DEF GracefulStop
  <2> QED
    OBVIOUS
<1>7. PICK x \in Clis : startAgent(x) \/ signalProcess(x)
  BY <1>2, <1>4, <1>5, <1>6
  DEF Next, spcHostAdd, projectCommand, spcHostDelete, Begin, ensureAgentRegistered,
      isAgentRunning, nextLocalAgentAddress, waitForHealthyAgent, registerLocalAgent,
      Fails, Work, StopAgent, DeleteAgentFromConfig, Save, Kill
<1>8. ~ startAgent(x)
  <2> SUFFICES ASSUME startAgent(x) PROVE FALSE
    OBVIOUS
  <2>1. PICK p \in Pids : proc' = [proc EXCEPT ![p] = Agent("cds", cli[x].port, "starting")]
    BY DEF startAgent
  <2>2. Agent("cds", cli[x].port, "starting").signalled = "no"
    BY DEF Agent
  <2> QED
    BY <1>3, <2>1, <2>2
<1>9. signalProcess(x)
  BY <1>7, <1>8
<1>10. cli[x].mem.owner \in Pids
  <2>1. cli[x] \in Commands /\ CommandOK(cli[x]) /\ cli[x] # Idle /\ cli[x].pc = "signal"
    BY <1>9, RunningOK DEF signalProcess
  <2> QED
    BY <2>1 DEF CommandOK, Commands, Rows
<1> QED
  BY <1>2, <1>3, <1>9, <1>10 DEF signalProcess

\* The process that StopManagedAgent signals is an agent that cds started,
\* for any number of commands, processes and takeovers of process ids.
THEOREM OnlyOwnedStoppedHolds == Spec => OnlyOwnedStopped
<1> DEFINE A == \A q \in Pids :
                  proc[q].signalled = "no" /\ proc'[q].signalled = "yes"
                  => proc[q].name = Binary /\ proc[q].by = "cds"
<1>1. IInv /\ [Next]_vars => [A]_vars
  <2> SUFFICES ASSUME IInv, Next, NEW q \in Pids,
                      proc[q].signalled = "no", proc'[q].signalled = "yes"
               PROVE  proc[q].name = Binary /\ proc[q].by = "cds"
    OBVIOUS
  <2>1. PICK x \in Clis : signalProcess(x) /\ cli[x].mem.owner = q
    BY OnlyDeleteSignals
  <2>2. cli[x] # Idle /\ CommandOK(cli[x]) /\ cli[x].pc = "signal"
    BY <2>1, RunningOK DEF signalProcess
  <2>3. proc[q].name \notin Programs /\ q # None /\ Ours(q)
    BY <2>1, <2>2 DEF CommandOK
  <2>4. proc[q] # NoProcess
    BY <2>1 DEF signalProcess, Fail
  <2>5. proc[q].name = Binary
    BY <2>3, <2>4 DEF IInv, TypeOK, Processes
  <2> QED
    BY <2>3, <2>5 DEF Ours
<1> QED
  BY <1>1, IInvHolds, PTL DEF Spec, OnlyOwnedStopped

-----------------------------------------------------------------------------
(***************************************************************************)
(* What a command promises when nothing else happened.  As long as calm    *)
(* holds there is one command, so it is enough to follow that one.         *)
(***************************************************************************)
\* The only command goes on to another of its places.
LEMMA CalmMoves ==
    ASSUME IInv, CalmInv, NEW x \in Clis, cli[x] # Idle,
           \E c : Goto(x, c), calm => CalmCommand(cli[x])'
    PROVE  CalmInv'
<1> SUFFICES ASSUME calm PROVE CalmInv'
    BY DEF CalmInv, Goto
<1>1. \A y \in Clis : y # x => cli'[y] = Idle
    BY DEF IInv, TypeOK, CalmInv, Goto
<1>2. done' = Idle
    BY DEF Goto
<1>3. AddedIsServed' /\ DeletedIsGone'
    BY <1>2 DEF AddedIsServed, DeletedIsGone, Calmly
<1> QED
    BY <1>1, <1>2, <1>3 DEF CalmInv

\* The only command ends, or is killed, or fails.
LEMMA CalmEnds ==
    ASSUME IInv, CalmInv, NEW x \in Clis, cli[x] # Idle,
           cli' = [cli EXCEPT ![x] = Idle], calm' = calm,
           \/ done' = Idle \/ done'.op \notin {"add", "delete"}
           \/ calm => (done'.op = "add" => Quiet') /\ AddedIsServed' /\ DeletedIsGone'
    PROVE  CalmInv'
<1> SUFFICES ASSUME calm PROVE CalmInv'
    BY DEF CalmInv
<1>1. \A y \in Clis : cli'[y] = Idle
    BY DEF IInv, TypeOK, CalmInv
<1>2. AddedIsServed' /\ DeletedIsGone'
    BY DEF AddedIsServed, DeletedIsGone, Calmly
<1> QED
    BY <1>1, <1>2 DEF CalmInv

\* A command that begins when all is quiet has the machine for itself.
LEMMA CalmBegins ==
    ASSUME IInv, CalmInv, NEW x \in Clis,
           spcHostAdd(x) \/ projectCommand(x) \/ spcHostDelete(x)
    PROVE  CalmInv'
<1>1. done' = Idle
    BY DEF spcHostAdd, projectCommand, spcHostDelete, Begin
<1>2. AddedIsServed' /\ DeletedIsGone'
    BY <1>1 DEF AddedIsServed, DeletedIsGone, Calmly
<1> SUFFICES ASSUME calm'
             PROVE  /\ \A y \in Clis : y # x => cli'[y] = Idle
                    /\ CalmCommand(cli[x])'
    BY <1>1, <1>2 DEF CalmInv
<1>3. PICK c : /\ Begin(x, c)
               /\ c.pc \in {"ensure", "check", "lookup"} /\ c.pid = None
               /\ c.owner = c.mem.owner
               /\ c.op = "delete" <=> c.pc = "lookup"
               /\ c.op = "add" => c.mem.row
  <2>1. normalize(db) \in Rows
      BY NormalizeOK DEF IInv, TypeOK
  <2>2. CASE spcHostAdd(x)
    <3> DEFINE s == Started("add", "ensure", registerLocalHost(normalize(db)))
    <3>1. registerLocalHost(normalize(db)).row
        BY <2>1 DEF registerLocalHost, Rows
    <3>2. PICK port \in Ports : Begin(x, [s EXCEPT !.port = port])
        BY <2>2 DEF spcHostAdd
    <3> QED
        BY <3>1, <3>2 DEF Started
  <2>3. CASE projectCommand(x)
    <3>1. PICK d : Begin(x, Started("project", "check", d))
        BY <2>3 DEF projectCommand
    <3> QED
        BY <3>1 DEF Started
  <2>4. CASE spcHostDelete(x)
      BY <2>4 DEF spcHostDelete, Started
  <2> QED
      BY <2>2, <2>3, <2>4
<1>4. /\ \A y \in Clis : cli[y] = Idle
      /\ Quiet /\ UNCHANGED proc
      /\ cli' = [cli EXCEPT ![x] = c]
    BY <1>3 DEF Begin, Quiet
<1>5. cli'[x] = c /\ \A y \in Clis : y # x => cli'[y] = Idle
    BY <1>4 DEF IInv, TypeOK
<1>7. CalmCommand(cli[x])'
    BY <1>3, <1>4, <1>5 DEF CalmCommand, Quiet
<1> QED
    BY <1>5, <1>7

\* The steps of StartAgent and of the project command.
LEMMA CalmStart ==
    ASSUME IInv, CalmInv, NEW x \in Clis,
           \/ ensureAgentRegistered(x) \/ isAgentRunning(x) \/ nextLocalAgentAddress(x)
           \/ startAgent(x) \/ waitForHealthyAgent(x) \/ registerLocalAgent(x)
           \/ Fails(x) \/ Work(x)
    PROVE  CalmInv'
<1> DEFINE c == cli[x]
<1>1. c # Idle /\ c \in Commands
    BY RunningOK DEF ensureAgentRegistered, isAgentRunning, nextLocalAgentAddress, startAgent,
                     waitForHealthyAgent, registerLocalAgent, Fails, Work
<1>2. calm => CalmCommand(c)
    BY <1>1 DEF CalmInv
<1>3. \A e : Goto(x, e) => cli'[x] = e
    BY DEF IInv, TypeOK, Goto
<1>4. cfg \in Ports \cup {None} /\ Default \in Ports /\ None \notin Ports /\ None \notin Pids
    BY PortsAssumption DEF IInv, TypeOK
<1>5. CASE ensureAgentRegistered(x)
  <2>1. Goto(x, [c EXCEPT !.pc = "check"]) /\ UNCHANGED proc /\ c.pc = "ensure"
      BY <1>5 DEF ensureAgentRegistered
  <2>2. cli'[x] = [c EXCEPT !.pc = "check"]
      BY <1>3, <2>1
  <2>3. calm => CalmCommand(cli[x])'
      BY <1>1, <1>2, <2>1, <2>2 DEF CalmCommand, Commands, Quiet
  <2> QED
      BY <1>1, <2>1, <2>3, CalmMoves
<1>6. CASE isAgentRunning(x)
  <2> DEFINE address == IF cfg = None THEN Default ELSE cfg
             pc == IF verifyAgentHealth(address) THEN "register" ELSE "probe"
  <2>1. Goto(x, [c EXCEPT !.pc = pc, !.port = address]) /\ UNCHANGED proc /\ c.pc = "check"
      BY <1>6 DEF isAgentRunning
  <2>2. cli'[x] = [c EXCEPT !.pc = pc, !.port = address]
      BY <1>3, <2>1
  <2>3. address \in Ports /\ pc \in {"register", "probe"} /\ (pc = "register" => verifyAgentHealth(address))
      BY <1>4
  <2> HIDE DEF address, pc
  <2>4. cli'[x].op = c.op /\ cli'[x].mem = c.mem /\ cli'[x].pid = c.pid /\ cli'[x].pc = pc
        /\ cli'[x].port = address
      BY <1>1, <2>2 DEF Commands
  <2>5. calm => CalmCommand(cli[x])'
      BY <1>2, <1>4, <2>1, <2>3, <2>4 DEF CalmCommand, ServedBy, Quiet, verifyAgentHealth
  <2> QED
      BY <1>1, <2>1, <2>5, CalmMoves
<1>7. CASE nextLocalAgentAddress(x)
  <2>1. PICK port \in Ports : ~ Listens(port) /\ Goto(x, [c EXCEPT !.pc = "start", !.port = port])
      BY <1>7 DEF nextLocalAgentAddress
  <2>2. UNCHANGED proc /\ c.pc = "probe"
      BY <1>7 DEF nextLocalAgentAddress
  <2>3. cli'[x] = [c EXCEPT !.pc = "start", !.port = port]
      BY <1>3, <2>1
  <2>4. cli'[x].op = c.op /\ cli'[x].mem = c.mem /\ cli'[x].pid = c.pid /\ cli'[x].pc = "start"
        /\ cli'[x].port = port
      BY <1>1, <2>3 DEF Commands
  <2>5. calm => CalmCommand(cli[x])'
      BY <1>2, <1>4, <2>1, <2>2, <2>4 DEF CalmCommand, Quiet, Listens
  <2> QED
      BY <1>1, <2>1, <2>5, CalmMoves
<1>8. CASE startAgent(x)
  <2>1. PICK q \in Pids :
          /\ proc' = [proc EXCEPT ![q] = Agent("cds", c.port, "starting")]
          /\ Goto(x, [c EXCEPT !.pc = "wait", !.pid = q])
      BY <1>8 DEF startAgent
  <2>2. c.pc = "start"
      BY <1>8 DEF startAgent
  <2>3. cli'[x] = [c EXCEPT !.pc = "wait", !.pid = q]
      BY <1>3, <2>1
  <2>4. cli'[x].op = c.op /\ cli'[x].mem = c.mem /\ cli'[x].pid = q /\ cli'[x].pc = "wait"
        /\ cli'[x].port = c.port
      BY <1>1, <2>3 DEF Commands
  <2>5. proc'[q].port = c.port /\ proc'[q].signalled = "no" /\ \A p \in Pids : p # q => proc'[p] = proc[p]
      BY <2>1 DEF IInv, TypeOK, Agent
  <2>6. ASSUME calm PROVE AloneAt(cli[x].pid, cli[x].port)'
      BY <1>2, <2>2, <2>4, <2>5, <2>6 DEF AloneAt, CalmCommand, Quiet, Listens
  <2>7. calm => CalmCommand(cli[x])'
      BY <1>2, <2>2, <2>4, <2>6 DEF CalmCommand
  <2> QED
      BY <1>1, <2>1, <2>7, CalmMoves
<1>9. CASE waitForHealthyAgent(x)
  <2> DEFINE m == recordManagedAgentOwnership(c.mem, c.pid)
  <2>1. /\ Goto(x, [c EXCEPT !.pc = "register", !.mem = m])
        /\ UNCHANGED proc /\ c.pc = "wait" /\ verifyAgentHealth(c.port)
      BY <1>9 DEF waitForHealthyAgent
  <2>2. c.mem.row => m.row /\ m.owner = c.pid
      BY <1>1 DEF recordManagedAgentOwnership, Commands, Rows
  <2> HIDE DEF m
  <2>3. cli'[x] = [c EXCEPT !.pc = "register", !.mem = m]
      BY <1>3, <2>1
  <2>4. cli'[x].op = c.op /\ cli'[x].mem = m /\ cli'[x].pid = c.pid /\ cli'[x].pc = "register"
        /\ cli'[x].port = c.port
      BY <1>1, <2>3 DEF Commands
  <2>5. ASSUME calm PROVE Quiet
      BY <1>2, <2>1, <2>5 DEF CalmCommand, AloneAt, verifyAgentHealth, Quiet
  <2>6. ASSUME calm PROVE CalmCommand(cli[x])'
    <3>1. CalmCommand(c)
        BY <1>2, <2>6
    <3>2. verifyAgentHealth(cli[x].port)' /\ Quiet'
        BY <2>1, <2>4, <2>5, <2>6 DEF verifyAgentHealth, Quiet
    <3>3. proc'[cli'[x].pid].port = cli'[x].port
        BY <2>1, <2>4, <3>1 DEF CalmCommand, AloneAt
    <3> QED
        BY <2>1, <2>2, <2>4, <3>1, <3>2, <3>3 DEF CalmCommand, ServedBy
  <2> QED
      BY <1>1, <2>1, <2>6, CalmMoves
<1>10. CASE registerLocalAgent(x)
  <2> DEFINE pc == IF c.op = "add" THEN "save" ELSE "work"
  <2>1. UNCHANGED proc /\ cfg' = c.port /\ c.pc = "register" /\ Goto(x, [c EXCEPT !.pc = pc])
      BY <1>10 DEF registerLocalAgent
  <2>2. cli'[x] = [c EXCEPT !.pc = pc]
      BY <1>3, <2>1
  <2>3. pc \in {"save", "work"} /\ (pc = "save" <=> c.op = "add")
      OBVIOUS
  <2> HIDE DEF pc
  <2>4. cli'[x].op = c.op /\ cli'[x].mem = c.mem /\ cli'[x].pid = c.pid /\ cli'[x].pc = pc
        /\ cli'[x].port = c.port
      BY <1>1, <2>2 DEF Commands
  <2>5. ASSUME calm PROVE CalmCommand(cli[x])'
    <3>1. CalmCommand(c) /\ c.port # None /\ Quiet /\ ServedBy(c) /\ c.op # "delete"
        BY <1>2, <2>1, <2>5 DEF CalmCommand
    <3>2. Quiet' /\ ServedBy(cli[x])'
        BY <2>1, <2>4, <3>1 DEF Quiet, ServedBy, verifyAgentHealth
    <3> QED
        BY <2>1, <2>3, <2>4, <3>1, <3>2 DEF CalmCommand
  <2> QED
      BY <1>1, <2>1, <2>5, CalmMoves
<1>11. CASE Fails(x)
  <2>1. Fail(x) /\ done'.op = "error"
      BY <1>11 DEF Fails, Fail, Ended
  <2> QED
      BY <1>1, <2>1, CalmEnds DEF Fail
<1>12. CASE Work(x)
  <2>1. c.pc = "work" /\ UNCHANGED proc
      BY <1>12 DEF Work
  <2>2. CASE Fail(x)
      BY <1>1, <2>2, CalmEnds DEF Fail, Ended
  <2>3. ASSUME NEW keys \in BOOLEAN,
               Goto(x, [c EXCEPT !.pc = "save", !.mem = [c.mem EXCEPT !.row = @ \/ keys]])
        PROVE  CalmInv'
    <3>1. cli'[x] = [c EXCEPT !.pc = "save", !.mem = [c.mem EXCEPT !.row = @ \/ keys]]
        BY <1>3, <2>3
    <3>2. cli'[x].op = c.op /\ cli'[x].pc = "save"
        BY <1>1, <3>1 DEF Commands
    <3>3. calm => CalmCommand(cli[x])'
        BY <1>2, <2>1, <3>2 DEF CalmCommand
    <3> QED
        BY <1>1, <2>3, <3>3, CalmMoves
  <2> QED
      BY <1>12, <2>2, <2>3 DEF Work
<1> QED
    BY <1>5, <1>6, <1>7, <1>8, <1>9, <1>10, <1>11, <1>12

\* The steps of host delete.
LEMMA CalmStop ==
    ASSUME IInv, CalmInv, NEW x \in Clis,
           StopAgent(x) \/ signalProcess(x) \/ DeleteAgentFromConfig(x) \/ Save(x) \/ Kill(x)
    PROVE  CalmInv'
<1> DEFINE c == cli[x]
           q == c.mem.owner
<1>1. c # Idle /\ c \in Commands /\ CommandOK(c)
    BY RunningOK DEF IInv, TypeOK, StopAgent, signalProcess, DeleteAgentFromConfig, Save, Kill
<1>2. calm => CalmCommand(c)
    BY <1>1 DEF CalmInv
<1>3. \A e : Goto(x, e) => cli'[x] = e
    BY DEF IInv, TypeOK, Goto
<1>4. CASE StopAgent(x)
  <2> DEFINE pc == IF q # None /\ matchesOwnedAgentProcess(q) THEN "signal" ELSE "unregister"
  <2>1. Goto(x, [c EXCEPT !.pc = pc]) /\ UNCHANGED proc /\ c.pc = "lookup"
      BY <1>4 DEF StopAgent
  <2>2. pc \in {"signal", "unregister"} /\ (pc = "unregister" /\ q # None => proc[q].name # Binary)
      BY DEF matchesOwnedAgentProcess
  <2> HIDE DEF pc
  <2>3. cli'[x] = [c EXCEPT !.pc = pc]
      BY <1>3, <2>1
  <2>4. cli'[x].op = c.op /\ cli'[x].mem = c.mem /\ cli'[x].pid = c.pid /\ cli'[x].pc = pc
        /\ cli'[x].port = c.port /\ cli'[x].owner = c.owner
      BY <1>1, <2>3 DEF Commands
  <2>5. calm => CalmCommand(cli[x])'
      BY <1>2, <2>1, <2>2, <2>4 DEF CalmCommand, Dismissed
  <2> QED
      BY <1>1, <2>1, <2>5, CalmMoves
<1>5. CASE signalProcess(x)
  <2>1. c.pc = "signal"
      BY <1>5 DEF signalProcess
  <2>2. CASE Fail(x)
      BY <1>1, <2>2, CalmEnds DEF Fail, Ended
  <2>3. CASE /\ proc[q] # NoProcess
             /\ proc' = [proc EXCEPT ![q] = [@ EXCEPT !.signalled = "yes"]]
             /\ Goto(x, [c EXCEPT !.pc = "unregister"])
    <3>1. q \in Pids
        BY <1>1, <2>1 DEF CommandOK, Commands, Rows
    <3>2. proc'[q].signalled = "yes"
        BY <2>3, <3>1 DEF IInv, TypeOK, Processes
    <3>3. cli'[x] = [c EXCEPT !.pc = "unregister"]
        BY <1>3, <2>3
    <3>4. cli'[x].op = c.op /\ cli'[x].mem = c.mem /\ cli'[x].pid = c.pid /\ cli'[x].pc = "unregister"
          /\ cli'[x].owner = c.owner
        BY <1>1, <3>3 DEF Commands
    <3>5. calm => CalmCommand(cli[x])'
        BY <1>2, <2>1, <3>2, <3>4 DEF CalmCommand, Dismissed
    <3> QED
        BY <1>1, <2>3, <3>5, CalmMoves
  <2> QED
      BY <1>5, <2>2, <2>3 DEF signalProcess
<1>6. CASE DeleteAgentFromConfig(x)
  <2> DEFINE d == RemoveHostFromHostList(c.mem)
             e == [c EXCEPT !.pc = "save", !.mem = d]
  <2>1. cfg' = None /\ UNCHANGED proc /\ c.pc = "unregister"
      BY <1>6 DEF DeleteAgentFromConfig
  <2>2. CASE Fail(x)
      BY <1>1, <2>2, CalmEnds DEF Fail, Ended
  <2>3. CASE Goto(x, e)
    <3>1. ~ d.row /\ ~ d.runtime /\ d.owner = None
        BY <1>1 DEF RemoveHostFromHostList, Commands, Rows
    <3> HIDE DEF d
    <3>2. cli'[x] = e
        BY <1>3, <2>3
    <3>3. cli'[x].op = c.op /\ cli'[x].mem = d /\ cli'[x].pid = c.pid /\ cli'[x].pc = "save"
          /\ cli'[x].owner = c.owner
        BY <1>1, <3>2 DEF Commands
    <3>4. calm => CalmCommand(cli[x])'
        BY <1>2, <2>1, <3>1, <3>3 DEF CalmCommand, Dismissed
    <3> QED
        BY <1>1, <2>3, <3>4, CalmMoves
  <2> QED
      BY <1>6, <2>2, <2>3 DEF DeleteAgentFromConfig
<1>8. CASE Save(x)
  <2>1. c.pc = "save" /\ UNCHANGED <<cfg, proc>>
      BY <1>8 DEF Save
  <2>2. CASE Fail(x)
      BY <1>1, <2>2, CalmEnds DEF Fail, Ended
  <2>3. CASE /\ cli' = [cli EXCEPT ![x] = Idle]
             /\ db' = normalize(c.mem)
             /\ done' = Ended(x, c.op)
             /\ UNCHANGED <<calm, commands, events>>
    <3>1. done'.op = c.op /\ done'.owner = c.owner /\ done'.pid = c.pid /\ done' # Idle
        BY <2>3 DEF Ended, Idle
    <3>2. /\ db'.owner = c.mem.owner /\ db'.runtime = c.mem.runtime
          /\ db'.row => c.mem.row \/ db'.mapped
        BY <1>1, <2>3 DEF normalize, Commands, Rows
    <3>3. ASSUME calm PROVE (done'.op = "add" => Quiet') /\ AddedIsServed' /\ DeletedIsGone'
      <4>1. CalmCommand(c)
          BY <1>2, <3>3
      <4>2. ASSUME c.op = "add" PROVE Quiet' /\ AddedIsServed'
          BY <2>1, <3>1, <3>2, <4>1, <4>2
             DEF CalmCommand, AddedIsServed, ServedBy, Quiet, verifyAgentHealth
      <4>3. ASSUME c.op = "delete" PROVE DeletedIsGone'
          BY <2>1, <3>1, <3>2, <4>1, <4>3 DEF CalmCommand, DeletedIsGone, Dismissed
      <4> QED
          BY <3>1, <4>2, <4>3 DEF AddedIsServed, DeletedIsGone, Calmly
    <3> QED
        BY <1>1, <2>3, <3>3, CalmEnds
  <2> QED
      BY <1>8, <2>2, <2>3 DEF Save
<1>7. CASE Kill(x)
    BY <1>1, <1>7, CalmEnds DEF Kill, Goto
<1> QED
    BY <1>4, <1>5, <1>6, <1>7, <1>8

\* A process that was told to stop is not told otherwise, and one that has
\* gone does not come back by itself.
LEMMA DismissedStays ==
    ASSUME IInv, Listen \/ GracefulStop, NEW p \in Pids, Dismissed(p)
    PROVE  proc'[p].name = Binary => proc'[p].signalled = "yes"
<1>1. proc \in [Pids -> Processes]
    BY DEF IInv, TypeOK
<1>2. CASE Listen
  <2>1. PICK q \in Pids, up \in {"healthy", "broken"} :
          proc' = [proc EXCEPT ![q] =
                     IF Listens(@.port) THEN NoProcess ELSE [@ EXCEPT !.up = up]]
      BY <1>2 DEF Listen
  <2> DEFINE r == IF Listens(proc[q].port) THEN NoProcess ELSE [proc[q] EXCEPT !.up = up]
  <2>2. r.name # None => r.name = proc[q].name /\ r.signalled = proc[q].signalled
      BY <1>1 DEF Processes, NoProcess
  <2>3. proc' = [proc EXCEPT ![q] = r]
      BY <2>1
  <2> HIDE DEF r
  <2> QED
      BY <1>1, <2>2, <2>3, NamesAssumption DEF Dismissed
<1>3. CASE GracefulStop
  <2>1. PICK q \in Pids :
          proc' = [proc EXCEPT ![q] =
                IF @.up \in {"healthy", "broken"} THEN [@ EXCEPT !.up = "stopping"] ELSE NoProcess]
      BY <1>3 DEF GracefulStop
  <2> DEFINE r == IF proc[q].up \in {"healthy", "broken"}
                  THEN [proc[q] EXCEPT !.up = "stopping"] ELSE NoProcess
  <2>2. r.name # None => r.name = proc[q].name /\ r.signalled = proc[q].signalled
      BY <1>1 DEF Processes, NoProcess
  <2>3. proc' = [proc EXCEPT ![q] = r]
      BY <2>1
  <2> HIDE DEF r
  <2> QED
      BY <1>1, <2>2, <2>3, NamesAssumption DEF Dismissed
<1> QED
    BY <1>2, <1>3

\* An agent that comes up is the one the only command waits for, and finds its
\* address free; one that goes down was dismissed.
LEMMA WaitStays ==
    ASSUME IInv, Listen \/ GracefulStop, NEW p, NEW port, AloneAt(p, port)
    PROVE  AloneAt(p, port)'
<1>1. proc \in [Pids -> Processes]
    BY DEF IInv, TypeOK
<1>2. ~ GracefulStop
    BY DEF GracefulStop, AloneAt
<1>3. PICK q \in Pids, up \in {"healthy", "broken"} :
        /\ proc[q].up = "starting" /\ proc[q].signalled = "no"
        /\ proc' = [proc EXCEPT ![q] =
                      IF Listens(@.port) THEN NoProcess ELSE [@ EXCEPT !.up = up]]
    BY <1>2 DEF Listen
<1>4. q = p
    BY <1>3 DEF AloneAt
<1>5. ~ Listens(proc[q].port)
    BY <1>3, <1>4 DEF Listens, AloneAt
<1>6. proc' = [proc EXCEPT ![q] = [proc[q] EXCEPT !.up = up]]
    BY <1>3, <1>5
<1>7. /\ proc'[q].port = proc[q].port /\ proc'[q].signalled = proc[q].signalled
      /\ \A o \in Pids : o # q => proc'[o] = proc[o]
    BY <1>1, <1>6 DEF Processes, NoProcess
<1> QED
    BY <1>4, <1>7 DEF AloneAt

\* What the processes do by themselves disturbs nobody; anything else that
\* happens beside cds ends the calm.
LEMMA CalmMachine ==
    ASSUME IInv, CalmInv,
           Listen \/ GracefulStop \/ UserStartsAgent \/ OtherProgramStarts \/ ProcessEnds
    PROVE  CalmInv'
<1>1. CASE UserStartsAgent \/ OtherProgramStarts \/ ProcessEnds
    BY <1>1 DEF UserStartsAgent, OtherProgramStarts, ProcessEnds, Event, CalmInv
<1>2. CASE Listen \/ GracefulStop
  <2>1. UNCHANGED <<db, cfg, cli, done, calm>>
      BY <1>2 DEF Listen, GracefulStop
  <2> SUFFICES ASSUME calm PROVE CalmInv'
      BY <2>1 DEF CalmInv
  <2>2. ~ Quiet
      BY <1>2 DEF Quiet, Listen, GracefulStop
  <2>3. done = Idle \/ done.op # "add"
      BY <2>2 DEF CalmInv
  <2>4. AddedIsServed'
      BY <2>1, <2>3 DEF AddedIsServed, Calmly
  <2>5. DeletedIsGone'
    <3>1. ASSUME Calmly("delete"), done.owner # None
          PROVE  proc'[done.owner].name = Binary => proc'[done.owner].signalled = "yes"
      <4>1. done.owner \in Pids /\ Dismissed(done.owner)
          BY <3>1 DEF CalmInv, DeletedIsGone, Calmly, IInv, TypeOK, Ends, Idle
      <4> QED
          BY <1>2, <4>1, DismissedStays
    <3> QED
        BY <2>1, <3>1 DEF CalmInv, DeletedIsGone, Calmly, Dismissed
  <2>6. ASSUME NEW x \in Clis, cli[x] # Idle PROVE CalmCommand(cli[x])'
    <3>1. CalmCommand(cli[x]) /\ cli[x] \in Commands
        BY <2>6 DEF CalmInv, IInv, TypeOK
    <3>2. cli[x].owner # None /\ Dismissed(cli[x].owner) =>
            (proc'[cli[x].owner].name = Binary => proc'[cli[x].owner].signalled = "yes")
        BY <1>2, <3>1, DismissedStays DEF Commands
    <3>3. AloneAt(cli[x].pid, cli[x].port) => AloneAt(cli[x].pid, cli[x].port)'
        BY <1>2, <2>1, WaitStays DEF AloneAt
    <3> QED
        BY <2>1, <2>2, <3>1, <3>2, <3>3 DEF CalmCommand, Dismissed
  <2> QED
      BY <2>1, <2>3, <2>4, <2>5, <2>6 DEF CalmInv
<1> QED
    BY <1>1, <1>2

\* The invariant of the calm holds throughout.
LEMMA CalmHolds == Spec => []CalmInv
<1>1. Init => CalmInv
    BY DEF Init, CalmInv, AddedIsServed, DeletedIsGone, Calmly
<1>2. IInv /\ CalmInv /\ [Next]_vars => CalmInv'
  <2> SUFFICES ASSUME IInv, CalmInv, [Next]_vars PROVE CalmInv'
      OBVIOUS
  <2>1. CASE UNCHANGED vars
      BY <2>1 DEF vars, CalmInv, CalmCommand, Quiet, AloneAt, Listens, verifyAgentHealth, ServedBy,
                  Dismissed, AddedIsServed, DeletedIsGone, Calmly
  <2>2. CASE Next
      BY <2>2, CalmBegins, CalmStart, CalmStop, CalmMachine DEF Next
  <2> QED
      BY <2>1, <2>2
<1> QED
    BY <1>1, <1>2, IInvHolds, PTL DEF Spec

\* `space host add localhost`, when no agent was coming up or going down as it
\* began and nothing else happened until it saved db.json, leaves a healthy
\* agent at the registered address, and a record of it if cds started it.
THEOREM AddServes == Spec => []AddedIsServed
<1>1. CalmInv => AddedIsServed
    BY DEF CalmInv, AddedIsServed, Calmly
<1> QED
    BY <1>1, CalmHolds, PTL

\* `space host delete localhost`, likewise, leaves no address and no record; the
\* agent that was recorded has gone or has been told to stop, which it may
\* still be busy with.
THEOREM DeleteRemoves == Spec => []DeletedIsGone
<1>1. CalmInv => DeletedIsGone
    BY DEF CalmInv, DeletedIsGone, Calmly
<1> QED
    BY <1>1, CalmHolds, PTL

=============================================================================
