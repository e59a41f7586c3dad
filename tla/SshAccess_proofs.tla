-------------------------- MODULE SshAccess_proofs --------------------------
(***************************************************************************)
(* Proofs about SshAccess, for any number of processes and projects, any   *)
(* number of commands and any keys the user makes: the key pair of a host  *)
(* opens the containers deployed there, the key that share hands out opens *)
(* its container, and a shared key can be taken back.  The invariant says  *)
(* what the two files of each pair have in common, and which of them each  *)
(* key in a container is in, while a command is between two writes; it is  *)
(* shown to survive each action in turn.                                   *)
(***************************************************************************)
EXTENDS SshAccess, TLAPS

\* The inductive invariant.
IInv == TypeOK /\ FlowInv /\ PairInv /\ ShareInv /\ WorkInv /\ AgreeInv

-----------------------------------------------------------------------------
(***************************************************************************)
(* Pairs, keys and commands.                                               *)
(***************************************************************************)
\* The pairs of the user and the host are pairs, apart from those of the projects.
LEMMA PairsDiffer ==
    /\ "user" \in Pairs /\ "managed" \in Pairs /\ Projects \subseteq Pairs
    /\ "user" \notin Projects /\ "managed" \notin Projects /\ None \notin Projects
    /\ None # "user" /\ None # "managed"
    /\ \A q \in Pairs : q \in {"user", "managed"} \/ q \in Projects
    BY ProjectsAssumption DEF Pairs

\* A running command is not an idle process.
LEMMA Running ==
    /\ \A c \in Commands : c # Idle /\ c.pc # "idle"
    /\ Idle.pc = "idle"
    BY DEF Commands, Idle

\* A process that is at a place of a command runs one.
LEMMA Mine ==
    ASSUME TypeOK, NEW x \in Procs, proc[x] # Idle \/ proc[x].pc # "idle"
    PROVE  proc[x] \in Commands /\ proc[x] # Idle
    BY Running DEF TypeOK

\* While the commands run one after the other, a running one is the only one.
LEMMA OnlyMine ==
    ASSUME IInv, ~ overlap, ~ cut, NEW x \in Procs, proc[x] # Idle
    PROVE  \A y \in Procs : y # x => proc[y] = Idle
    BY DEF IInv, PairInv, Alone

\* A key that the files of two pairs have in common is the absent one.
LEMMA NoSharedKey ==
    ASSUME IInv, ~ overlap, ~ cut, NEW q \in Pairs, NEW r \in Pairs, q # r,
           NEW k, k \in {file[q].prv, file[q].pub}, k \in {file[r].prv, file[r].pub}
    PROVE  k = Absent
    BY DEF IInv, PairInv

\* A key is a number; a key that has been made is not the absent one.
LEMMA KeysOK ==
    /\ Absent \in Keys /\ Empty \in Keys
    /\ \A k \in 0..MaxKeys : k \in Keys
    /\ \A k \in Keys : k \in Int
    /\ Empty # Absent
    BY BoundsAssumption DEF Keys, Absent, Empty

\* A command goes on with a pair of the user, the host or its project.
LEMMA PairOf ==
    ASSUME TypeOK, FlowInv, NEW x \in Procs,
           proc[x].pc \in {"writePrv", "writePub", "use", "save"}
    PROVE  /\ proc[x].pair \in Pairs
           /\ proc[x].op = "share" => proc[x].pair = proc[x].p
           /\ proc[x].op # "share" => proc[x].op \in {"run", "ssh"} /\ proc[x].pair \in {"user", "managed"}
<1>1. proc[x] \in Commands /\ proc[x] # Idle
    BY Mine
<1>2. QED
    BY <1>1, PairsDiffer DEF FlowInv, Resolved, Commands

\* The pair of the host is the one the user or CDS made.
LEMMA HostPair ==
    ASSUME NEW f, NEW r \in {None, "user", "managed"}
    PROVE  /\ ensureProjectSSHKeyPair(f, r) \in {"user", "managed"}
           /\ ensureProjectSSHKeyPair(f, r) = "user" => Both(f, "user")
           /\ r # None /\ Both(f, r) => ensureProjectSSHKeyPair(f, r) = r
           /\ (r = None \/ ~ Both(f, r)) /\ Both(f, "user") => ensureProjectSSHKeyPair(f, r) = "user"
           /\ (r = None \/ ~ Both(f, r)) /\ ~ Both(f, "user") => ensureProjectSSHKeyPair(f, r) = "managed"
    BY PairsDiffer DEF ensureProjectSSHKeyPair

-----------------------------------------------------------------------------
(***************************************************************************)
(* Types, and where each command can be.                                   *)
(***************************************************************************)
\* A process that goes on with a command.
LEMMA Going ==
    ASSUME TypeOK, FlowInv, NEW x \in Procs, NEW d \in Commands,
           proc' = [proc EXCEPT ![x] = d],
           d.op = "run" => d.pc \in {"remove", "resolve", "writePrv", "writePub", "use", "save"},
           d.op = "ssh" => d.pc \in {"resolve", "writePrv", "writePub", "use"},
           d.op = "share" => d.pc \in {"resolve", "writePrv", "writePub", "use", "install"},
           d.op = "unshare" => d.pc \in {"read", "revoke", "removePrv", "removePub"},
           Resolved(d) => d.pair \in {"user", "managed"},
           d.op = "share" /\ d.pc # "resolve" => d.pair = d.p,
           d.pc \in {"writePrv", "writePub"} => d.pair # "user"
    PROVE  /\ proc' \in [Procs -> Commands \cup {Idle}] /\ FlowInv'
           /\ proc'[x] = d /\ \A y \in Procs : y # x => proc'[y] = proc[y]
<1>1. /\ proc' \in [Procs -> Commands \cup {Idle}]
      /\ proc'[x] = d /\ \A y \in Procs : y # x => proc'[y] = proc[y]
    BY DEF TypeOK
<1>2. FlowInv'
    BY <1>1 DEF FlowInv, Resolved
<1>3. QED
    BY <1>1, <1>2

\* A process that ends its command.
LEMMA Ending ==
    ASSUME TypeOK, FlowInv, NEW x \in Procs, proc' = [proc EXCEPT ![x] = Idle]
    PROVE  /\ proc' \in [Procs -> Commands \cup {Idle}] /\ FlowInv'
           /\ proc'[x] = Idle /\ \A y \in Procs : y # x => proc'[y] = proc[y]
<1>1. /\ proc' \in [Procs -> Commands \cup {Idle}]
      /\ proc'[x] = Idle /\ \A y \in Procs : y # x => proc'[y] = proc[y]
    BY DEF TypeOK
<1>2. FlowInv'
    BY <1>1 DEF FlowInv, Resolved
<1>3. QED
    BY <1>1, <1>2

-----------------------------------------------------------------------------
(***************************************************************************)
(* The steps that begin and end a command.                                 *)
(***************************************************************************)
\* What the actions that leave the files, the containers and the database alone
\* do not disturb.
LEMMA SameDatabase ==
    ASSUME IInv, UNCHANGED <<file, db, box>>, ~ overlap, ~ cut, ~ meddled
    PROVE  BothSidesAgree'
    BY DEF IInv, AgreeInv, BothSidesAgree, KeyToConnect, ensureProjectSSHKeyPair, Both

\* A command starts with a copy of the database; from then on no other may run.
LEMMA BeginOK ==
    ASSUME IInv, NEW x \in Procs, NEW p \in Projects, NEW op, NEW pc, Begin(x, op, p, pc),
           <<op, pc>> \in {<<"run", "remove">>, <<"ssh", "resolve">>,
                           <<"share", "resolve">>, <<"unshare", "read">>}
    PROVE  IInv'
<1> DEFINE d == [op |-> op, p |-> p, pc |-> pc, mem |-> db, pair |-> None, key |-> Absent]
<1>1. TypeOK /\ FlowInv /\ proc[x] = Idle /\ proc' = [proc EXCEPT ![x] = d]
      /\ UNCHANGED <<file, db, box, keys, cut, mixed, meddled, events>> /\ done' = Nothing
    BY DEF IInv, Begin
<1>2. /\ op \in {"run", "ssh", "share", "unshare"}
      /\ pc \in {"remove", "resolve", "read"}
      /\ d \in Commands
  <2>1. op \in {"run", "ssh", "share", "unshare"} /\ pc \in {"remove", "resolve", "read"}
      OBVIOUS
  <2>2. db \in Bases /\ Absent \in Keys
      BY <1>1, KeysOK DEF TypeOK
  <2>3. QED
      BY <2>1, <2>2 DEF Commands
<1>3. /\ d.op = op /\ d.p = p /\ d.pc = pc /\ d.mem = db /\ ~ Resolved(d)
    BY <1>2 DEF Resolved
<1>4. /\ proc' \in [Procs -> Commands \cup {Idle}] /\ FlowInv'
      /\ proc'[x] = d /\ \A y \in Procs : y # x => proc'[y] = proc[y]
  <2> HIDE DEF d
  <2>1. QED
      BY <1>1, <1>2, <1>3, Going
<1> HIDE DEF d
<1>5. TypeOK'
  <2>1. overlap' \in BOOLEAN /\ commands' \in 0..MaxCommands
      BY <1>1, BoundsAssumption DEF Begin, TypeOK
  <2>2. QED
      BY <1>1, <1>4, <2>1 DEF TypeOK
<1>6. ~ overlap' => ~ overlap /\ \A y \in Procs : y # x => proc[y] = Idle /\ proc'[y] = Idle
    BY <1>1, <1>4 DEF Begin
<1>7. \A y \in Procs : proc[y] = Idle \/ overlap'
    BY <1>1, <1>6
<1>8. PairInv'
    BY <1>1, <1>2, <1>3, <1>4, <1>6 DEF IInv, PairInv, Alone
<1>9. ShareInv'
    BY <1>1, <1>2, <1>3, <1>4, <1>6 DEF IInv, ShareInv, OfHost
<1>10. WorkInv'
    BY <1>1, <1>7, <1>6 DEF IInv, WorkInv, SharedKeyWorks
<1>11. AgreeInv'
  <2>1. ~ overlap' /\ ~ cut' /\ ~ meddled' => BothSidesAgree'
      BY <1>1, <1>6, SameDatabase
  <2>2. QED
      BY <1>1, <1>3, <1>4, <1>6, <2>1 DEF IInv, AgreeInv, Both, Installed
<1>12. QED
    BY <1>4, <1>5, <1>8, <1>9, <1>10, <1>11 DEF IInv

\* A command that fails leaves the database as it was, and an empty file if its
\* write was cut short.
LEMMA FailsOK ==
    ASSUME IInv, NEW x \in Procs, Fails(x)
    PROVE  IInv'
<1> DEFINE c == proc[x]
<1>1. /\ TypeOK /\ FlowInv /\ c # Idle /\ c \in Commands /\ proc' = [proc EXCEPT ![x] = Idle]
      /\ UNCHANGED <<db, box, keys, overlap, meddled, commands, events>> /\ done' = Nothing
    BY Mine DEF IInv, Fails
<1>2. /\ proc' \in [Procs -> Commands \cup {Idle}] /\ FlowInv'
      /\ proc'[x] = Idle /\ \A y \in Procs : y # x => proc'[y] = proc[y]
    BY <1>1, Ending
<1>3. \/ UNCHANGED <<file, cut>>
      \/ /\ c.pair \in Pairs /\ c.pair # "user" /\ cut' = TRUE
         /\ \/ file' = [file EXCEPT ![c.pair] = [@ EXCEPT !.prv = Empty]]
            \/ file' = [file EXCEPT ![c.pair] = [@ EXCEPT !.pub = Empty]]
  <2>1. c.pc \in {"writePrv", "writePub"} => c.pair \in Pairs /\ c.pair # "user"
      BY <1>1, PairOf DEF FlowInv
  <2>2. QED
      BY <2>1 DEF Fails
<1>4. mixed' = (mixed \/ (c.pc = "writePub" /\ regularFileExists(file[c.pair].pub)))
    BY DEF Fails
<1>5. TypeOK'
  <2>1. file' \in [Pairs -> [prv : Keys, pub : Keys]] /\ cut' \in BOOLEAN
      BY <1>1, <1>3, KeysOK DEF TypeOK
  <2>2. mixed' \in BOOLEAN
      BY <1>1, <1>4 DEF TypeOK, regularFileExists
  <2>3. QED
      BY <1>1, <1>2, <2>1, <2>2 DEF TypeOK
<1>6. ~ cut' => ~ cut /\ UNCHANGED file
    BY <1>3
<1>7. ~ overlap' /\ ~ cut' => \A y \in Procs : proc'[y] = Idle
    BY <1>1, <1>2, <1>6, OnlyMine
<1>8. PairInv'
  <2>1. file'["user"].prv = file'["user"].pub
      BY <1>1, <1>3, PairsDiffer DEF IInv, PairInv, TypeOK
  <2>2. QED
      BY <1>1, <1>6, <1>7, <2>1 DEF IInv, PairInv, Alone
<1>9. ShareInv'
    BY <1>1, <1>6, <1>7 DEF IInv, ShareInv, OfHost
<1>10. WorkInv'
  <2>1. SUFFICES ASSUME ~ overlap', ~ cut', ~ mixed', NEW p \in Projects
                 PROVE  file'[p].prv = Absent \/ file'[p].pub = Absent \/ file'[p].prv = file'[p].pub
      BY <1>1 DEF WorkInv, SharedKeyWorks
  <2>2. UNCHANGED file /\ ~ overlap /\ ~ cut /\ ~ mixed
      BY <1>1, <1>4, <1>6, <2>1
  <2>3. \A y \in Procs : proc[y] # Idle => y = x
      BY <1>1, <2>2, OnlyMine
  <2>4. c.pc = "writePub" => file[c.pair].pub = Absent
      BY <1>4, <2>1 DEF regularFileExists
  <2>5. QED
      BY <2>2, <2>3, <2>4 DEF IInv, WorkInv
<1>11. AgreeInv'
  <2>1. ~ overlap' /\ ~ cut' /\ ~ meddled' => BothSidesAgree'
      BY <1>1, <1>6, SameDatabase
  <2>2. QED
      BY <1>1, <1>6, <1>7, <2>1 DEF IInv, AgreeInv, Both, Installed
<1>12. QED
    BY <1>2, <1>5, <1>8, <1>9, <1>10, <1>11 DEF IInv

\* A database in which the pair of the command is the host's, and whose projects are
\* those recorded, and the one just deployed, leads to that pair: if one of its files is
\* gone and the user has a pair, no container that runs knows it.
LEMMA Saved ==
    ASSUME IInv, ~ overlap, ~ cut, ~ meddled, UNCHANGED <<file, box>>,
           NEW x \in Procs, proc[x] # Idle, Resolved(proc[x]),
           db'.pair = proc[x].mem.pair,
           db'.recorded \subseteq db.recorded \cup (IF proc[x].pc = "save" THEN {proc[x].p} ELSE {})
    PROVE  BothSidesAgree' /\ db'.pair # None /\ (db'.pair = "user" => Both(file, "user"))
<1> DEFINE c == proc[x]
<1>1. /\ db'.pair = c.pair /\ c.pair \in {"user", "managed"}
      /\ c.pair = "user" => Both(file, "user")
      /\ Both(file, "user") /\ ~ Both(file, "managed") => ~ Installed(file["managed"].prv)
      /\ \A p \in db'.recorded : box[p].up => file[c.pair].prv \in box[p].keys
      /\ db'.recorded \subseteq Projects
  <2>1. c \in Commands /\ db \in Bases
      BY Mine DEF IInv, TypeOK
  <2>2. QED
      BY <2>1 DEF IInv, AgreeInv, FlowInv, Bases, Commands
<1>2. ASSUME NEW p \in db'.recorded, box[p].up
      PROVE  KeyToConnect' \in box[p].keys
  <2>1. KeyToConnect' = file[ensureProjectSSHKeyPair(file, c.pair)].prv
      BY <1>1 DEF KeyToConnect, ensureProjectSSHKeyPair, Both
  <2>2. CASE Both(file, c.pair)
      BY <1>1, <1>2, <2>1, <2>2, PairsDiffer, HostPair
  <2>3. CASE ~ Both(file, c.pair)
    <3>1. c.pair = "managed" /\ Installed(file["managed"].prv)
        BY <1>1, <1>2, <2>3 DEF Installed
    <3>2. ~ Both(file, "user")
        BY <1>1, <2>3, <3>1
    <3>3. QED
        BY <1>1, <1>2, <2>1, <2>3, <3>1, <3>2, HostPair
  <2>4. QED
      BY <2>2, <2>3
<1>3. QED
    BY <1>1, <1>2, PairsDiffer DEF BothSidesAgree

\* A command that has deployed a container, or connected, saves the pair it used.
LEMMA SaveOK ==
    ASSUME IInv, NEW x \in Procs, Save(x) \/ Connect(x)
    PROVE  IInv'
<1> DEFINE c == proc[x]
<1>1. /\ TypeOK /\ FlowInv /\ c # Idle /\ c \in Commands /\ proc' = [proc EXCEPT ![x] = Idle]
      /\ UNCHANGED <<file, box, keys, overlap, cut, mixed, meddled, commands, events>>
      /\ c.pc \in {"use", "save"} /\ c.op \in {"run", "ssh"} /\ Resolved(c)
      /\ done' = [op |-> c.op, p |-> c.p, works |-> TRUE]
      /\ db' \in Bases /\ db'.pair = c.mem.pair
      /\ db'.recorded = c.mem.recorded \cup (IF c.pc = "save" THEN {c.p} ELSE {})
  <2>1. c # Idle /\ c \in Commands /\ TypeOK /\ FlowInv
      BY Mine, Running DEF IInv, Save, Connect
  <2>2. CASE Save(x)
      BY <2>1, <2>2 DEF Save, Succeed, History, FlowInv, Resolved, Commands, Bases
  <2>3. CASE Connect(x)
      BY <2>1, <2>3 DEF Connect, Succeed, History, FlowInv, Resolved, Commands, Bases
  <2>4. QED
      BY <2>1, <2>2, <2>3
<1>2. /\ proc' \in [Procs -> Commands \cup {Idle}] /\ FlowInv'
      /\ proc'[x] = Idle /\ \A y \in Procs : y # x => proc'[y] = proc[y]
    BY <1>1, Ending
<1>3. TypeOK'
    BY <1>1, <1>2 DEF TypeOK, Commands
<1>4. ~ overlap /\ ~ cut => \A y \in Procs : proc'[y] = Idle
    BY <1>1, <1>2, OnlyMine
<1>5. PairInv' /\ ShareInv'
    BY <1>1, <1>4 DEF IInv, PairInv, ShareInv, Alone, OfHost
<1>6. WorkInv'
  <2>1. ~ overlap /\ ~ cut => \A y \in Procs : proc[y] # Idle => y = x
      BY <1>1, OnlyMine
  <2>2. QED
      BY <1>1, <2>1 DEF IInv, WorkInv, SharedKeyWorks
<1>7. AgreeInv'
  <2>1. SUFFICES ASSUME ~ overlap, ~ cut, ~ meddled PROVE AgreeInv'
      BY <1>1 DEF AgreeInv
  <2>2. c.mem.recorded = db.recorded
      BY <1>1, <2>1 DEF IInv, AgreeInv
  <2>3. BothSidesAgree' /\ db'.pair # None /\ (db'.pair = "user" => Both(file, "user"))
      BY <1>1, <2>1, <2>2, Saved
  <2>4. QED
      BY <1>1, <1>4, <2>1, <2>3 DEF IInv, AgreeInv, Both, Installed
<1>8. QED
    BY <1>2, <1>3, <1>5, <1>6, <1>7 DEF IInv

-----------------------------------------------------------------------------
(***************************************************************************)
(* The steps that change a container.                                      *)
(***************************************************************************)
\* A container that goes takes its keys with it.
LEMMA DeleteOK ==
    ASSUME IInv, NEW x \in Procs, DeleteContainer(x)
    PROVE  IInv'
<1> DEFINE c == proc[x]
           d == [c EXCEPT !.pc = "resolve"]
<1>1. /\ TypeOK /\ FlowInv /\ c # Idle /\ c \in Commands /\ proc' = [proc EXCEPT ![x] = d]
      /\ UNCHANGED <<file, db, keys, overlap, cut, mixed, meddled, commands, events>> /\ done' = Nothing
      /\ box' = [box EXCEPT ![c.p] = NoContainer] /\ c.pc = "remove" /\ c.p \in Projects
    BY Mine, Running DEF IInv, DeleteContainer, Goto, History, Commands
<1>2. /\ d \in Commands /\ d.pc = "resolve" /\ d.op = "run" /\ d.p = c.p /\ d.mem = c.mem
      /\ ~ Resolved(c) /\ ~ Resolved(d)
    BY <1>1 DEF Commands, FlowInv, Resolved
<1> HIDE DEF d
<1>3. /\ proc' \in [Procs -> Commands \cup {Idle}] /\ FlowInv'
      /\ proc'[x] = d /\ \A y \in Procs : y # x => proc'[y] = proc[y]
    BY <1>1, <1>2, Going
<1>4. \A p \in Projects : /\ box'[p] = IF p = c.p THEN NoContainer ELSE box[p]
                          /\ box'[p].up => box[p].up /\ box'[p].keys = box[p].keys
                          /\ box'[p].keys \subseteq box[p].keys
    BY <1>1 DEF TypeOK, NoContainer
<1>5. TypeOK'
    BY <1>1, <1>3 DEF TypeOK, NoContainer
<1>6. ~ overlap /\ ~ cut => \A y \in Procs : y # x => proc[y] = Idle /\ proc'[y] = Idle
    BY <1>1, <1>3, OnlyMine
<1>7. PairInv'
    BY <1>1, <1>2, <1>3, <1>4, <1>6 DEF IInv, PairInv, Alone
<1>8. ShareInv'
    BY <1>1, <1>2, <1>3, <1>4, <1>6 DEF IInv, ShareInv, OfHost
<1>9. WorkInv'
    BY <1>1, <1>6 DEF IInv, WorkInv, SharedKeyWorks
<1>10. AgreeInv'
  <2>1. ~ overlap /\ ~ cut /\ ~ meddled => BothSidesAgree'
      BY <1>1, <1>4 DEF IInv, TypeOK, Bases, AgreeInv, BothSidesAgree, KeyToConnect, ensureProjectSSHKeyPair, Both
  <2>2. QED
      BY <1>1, <1>2, <1>3, <1>4, <1>6, <2>1 DEF IInv, AgreeInv, Both, Installed
<1>11. QED
    BY <1>3, <1>5, <1>7, <1>8, <1>9, <1>10 DEF IInv

\* The pair the database leads to, while a command has resolved one: the same.
LEMMA SamePair ==
    ASSUME IInv, ~ overlap, ~ cut, ~ meddled, NEW x \in Procs, proc[x] # Idle, Resolved(proc[x]),
           Both(file, proc[x].pair), db.recorded # {}
    PROVE  KeyToConnect = file[proc[x].pair].prv
<1> DEFINE c == proc[x]
<1>1. /\ c.pair \in {"user", "managed"} /\ db.pair # None
      /\ \/ db.pair = c.pair
         \/ db.pair = "managed" /\ c.pair = "user" /\ ~ Both(file, "managed")
    BY DEF IInv, AgreeInv, FlowInv
<1>2. QED
    BY <1>1, PairsDiffer DEF KeyToConnect, ensureProjectSSHKeyPair

\* The new container knows the public key of the pair, which belongs to its private one.
LEMMA DeployOK ==
    ASSUME IInv, NEW x \in Procs, Deploy(x)
    PROVE  IInv'
<1> DEFINE c == proc[x]
           d == [c EXCEPT !.pc = "save"]
           k == file[c.pair].pub
<1>1. /\ TypeOK /\ FlowInv /\ c # Idle /\ c \in Commands /\ proc' = [proc EXCEPT ![x] = d]
      /\ UNCHANGED <<file, db, keys, overlap, cut, mixed, meddled, commands, events>> /\ done' = Nothing
      /\ box' = [box EXCEPT ![c.p] = [up |-> TRUE, keys |-> {k}]]
      /\ c.pc = "use" /\ c.op = "run" /\ c.p \in Projects /\ k # Absent
    BY Mine, Running DEF IInv, Deploy, Goto, History, Commands, regularFileExists
<1>2. /\ d \in Commands /\ d.pc = "save" /\ d.op = "run" /\ d.p = c.p /\ d.mem = c.mem /\ d.pair = c.pair
      /\ Resolved(c) /\ Resolved(d) /\ c.pair \in {"user", "managed"} /\ k \in Keys
    BY <1>1, PairsDiffer DEF Commands, FlowInv, Resolved, TypeOK
<1> HIDE DEF d
<1>3. /\ proc' \in [Procs -> Commands \cup {Idle}] /\ FlowInv'
      /\ proc'[x] = d /\ \A y \in Procs : y # x => proc'[y] = proc[y]
    BY <1>1, <1>2, Going
<1>4. \A p \in Projects : box'[p] = IF p = c.p THEN [up |-> TRUE, keys |-> {k}] ELSE box[p]
    BY <1>1 DEF TypeOK
<1>5. TypeOK'
    BY <1>1, <1>2, <1>3 DEF TypeOK
<1>6. ~ overlap /\ ~ cut => \A y \in Procs : y # x => proc[y] = Idle /\ proc'[y] = Idle
    BY <1>1, <1>3, OnlyMine
<1>7. ~ overlap /\ ~ cut => k = file[c.pair].prv /\ k \in 1..keys /\ Both(file, c.pair)
  <2>1. ~ overlap /\ ~ cut => k = file[c.pair].prv /\ k \in 0..keys
      BY <1>1, <1>2, PairsDiffer DEF IInv, PairInv
  <2>2. QED
      BY <1>1, <2>1 DEF TypeOK, Absent, Both, regularFileExists
<1>9. PairInv'
  <2>1. ~ overlap /\ ~ cut => \A p \in Projects : box'[p].keys \subseteq 1..keys
      BY <1>4, <1>7 DEF IInv, PairInv
  <2>2. QED
      BY <1>1, <1>2, <1>3, <1>4, <1>6, <2>1 DEF IInv, PairInv, Alone
<1>10. ShareInv'
  <2>1. ~ overlap /\ ~ cut => OfHost(k)
      BY <1>2, <1>7 DEF OfHost
  <2>2. QED
      BY <1>1, <1>2, <1>3, <1>4, <1>6, <2>1 DEF IInv, ShareInv, OfHost
<1>11. WorkInv'
    BY <1>1, <1>6 DEF IInv, WorkInv, SharedKeyWorks
<1>12. AgreeInv'
  <2>1. SUFFICES ASSUME ~ overlap, ~ cut, ~ meddled PROVE AgreeInv'
      BY <1>1 DEF AgreeInv
  <2>2. db.recorded # {} => KeyToConnect = k
      BY <1>1, <1>2, <1>7, <2>1, SamePair
  <2>3. KeyToConnect' = KeyToConnect
      BY <1>1 DEF KeyToConnect, ensureProjectSSHKeyPair, Both
  <2>4. db.recorded \subseteq Projects
      BY <1>1 DEF TypeOK, Bases
  <2>5. BothSidesAgree'
      BY <1>1, <1>4, <2>1, <2>2, <2>3, <2>4 DEF IInv, AgreeInv, BothSidesAgree
  <2>6. Both(file, "user") /\ ~ Both(file, "managed") => k # file["managed"].prv
    <3>1. c.pair = "user" => k # file["managed"].prv
        BY <1>1, <1>7, <2>1, PairsDiffer, NoSharedKey
    <3>2. QED
        BY <1>2, <1>7, <2>1, <3>1
  <2>7. Both(file, "user") /\ ~ Both(file, "managed") => ~ Installed(file["managed"].prv)'
      BY <1>1, <1>4, <2>1, <2>6 DEF IInv, AgreeInv, Installed
  <2>8. \A p \in db.recorded \cup {c.p} : box'[p].up => file[c.pair].prv \in box'[p].keys
      BY <1>1, <1>2, <1>4, <1>7, <2>1, <2>4 DEF IInv, AgreeInv
  <2>9. QED
      BY <1>1, <1>2, <1>3, <1>6, <2>1, <2>5, <2>7, <2>8 DEF IInv, AgreeInv, Both
<1>13. QED
    BY <1>3, <1>5, <1>9, <1>10, <1>11, <1>12 DEF IInv

\* The key that share installs and unshare takes back is that of the public file.
LEMMA ReadOK ==
    ASSUME IInv, NEW x \in Procs, ReadShared(x)
    PROVE  IInv'
<1> DEFINE c == proc[x]
           d == [c EXCEPT !.pc = IF c.op = "share" THEN "install" ELSE "revoke", !.key = file[c.p].pub]
<1>1. /\ TypeOK /\ FlowInv /\ c # Idle /\ c \in Commands /\ proc' = [proc EXCEPT ![x] = d]
      /\ UNCHANGED <<file, db, box, keys, overlap, cut, mixed, meddled, commands, events>> /\ done' = Nothing
      /\ \/ c.pc = "use" /\ c.op = "share"
         \/ c.pc = "read" /\ c.op = "unshare"
      /\ c.p \in Projects /\ file[c.p].pub # Absent
    BY Mine, Running DEF IInv, ReadShared, Goto, History, Commands, FlowInv, regularFileExists
<1>2. /\ d \in Commands /\ d.op = c.op /\ d.p = c.p /\ d.mem = c.mem /\ d.pair = c.pair
      /\ d.key = file[c.p].pub /\ d.pc = (IF c.op = "share" THEN "install" ELSE "revoke")
      /\ ~ Resolved(c) /\ ~ Resolved(d)
    BY <1>1, PairsDiffer DEF Commands, FlowInv, Resolved, TypeOK
<1> HIDE DEF d
<1>3. /\ proc' \in [Procs -> Commands \cup {Idle}] /\ FlowInv'
      /\ proc'[x] = d /\ \A y \in Procs : y # x => proc'[y] = proc[y]
  <2>1. d.op = "share" => d.pair = d.p
      BY <1>1, <1>2 DEF FlowInv
  <2>2. QED
      BY <1>1, <1>2, <2>1, Going
<1>4. TypeOK'
    BY <1>1, <1>3 DEF TypeOK
<1>5. ~ overlap /\ ~ cut => \A y \in Procs : y # x => proc[y] = Idle /\ proc'[y] = Idle
    BY <1>1, <1>3, OnlyMine
<1>6. PairInv'
    BY <1>1, <1>2, <1>3, <1>5 DEF IInv, PairInv, Alone
<1>7. ShareInv'
    BY <1>1, <1>2, <1>3, <1>5 DEF IInv, ShareInv, OfHost
<1>8. WorkInv'
    BY <1>1, <1>5 DEF IInv, WorkInv, SharedKeyWorks
<1>9. AgreeInv'
  <2>1. ~ overlap /\ ~ cut /\ ~ meddled => BothSidesAgree'
      BY <1>1, SameDatabase
  <2>2. QED
      BY <1>1, <1>2, <1>3, <1>5, <2>1 DEF IInv, AgreeInv, Both, Installed
<1>10. QED
    BY <1>3, <1>4, <1>6, <1>7, <1>8, <1>9 DEF IInv

\* The shared key that is installed is the one of the shared pair.
LEMMA InstallOK ==
    ASSUME IInv, NEW x \in Procs, InstallShared(x)
    PROVE  IInv'
<1> DEFINE c == proc[x]
<1>1. /\ TypeOK /\ FlowInv /\ c # Idle /\ c \in Commands /\ proc' = [proc EXCEPT ![x] = Idle]
      /\ UNCHANGED <<file, keys, overlap, cut, mixed, meddled, commands, events>>
      /\ db' = c.mem /\ done' = [op |-> "share", p |-> c.p, works |-> file[c.p].prv = c.key]
      /\ box' = [box EXCEPT ![c.p].keys = @ \cup {c.key}]
      /\ c.pc = "install" /\ c.op = "share" /\ c.p \in Projects /\ c.key \in Keys /\ ~ Resolved(c)
    BY Mine, Running DEF IInv, InstallShared, Succeed, History, Commands, FlowInv, Resolved
<1>2. /\ proc' \in [Procs -> Commands \cup {Idle}] /\ FlowInv'
      /\ proc'[x] = Idle /\ \A y \in Procs : y # x => proc'[y] = proc[y]
    BY <1>1, Ending
<1>3. \A p \in Projects : /\ box'[p].up = box[p].up
                          /\ box'[p].keys = IF p = c.p THEN box[p].keys \cup {c.key} ELSE box[p].keys
    BY <1>1 DEF TypeOK
<1>4. TypeOK'
  <2>1. box' \in [Projects -> [up : BOOLEAN, keys : SUBSET Keys]]
      BY <1>1 DEF TypeOK
  <2>2. db' \in Bases
      BY <1>1 DEF Commands
  <2>3. QED
      BY <1>1, <1>2, <2>1, <2>2 DEF TypeOK
<1>5. ~ overlap /\ ~ cut => /\ \A y \in Procs : proc'[y] = Idle
                            /\ \A y \in Procs : y # x => proc[y] = Idle
                            /\ c.key = file[c.p].pub /\ c.key # Absent
                            /\ file[c.p].prv # Absent /\ file[c.p].pub # Absent
    BY <1>1, <1>2, OnlyMine DEF IInv, PairInv, ShareInv, regularFileExists
<1>6. PairInv'
  <2>1. ~ overlap /\ ~ cut => c.key \in 1..keys
      BY <1>1, <1>5, PairsDiffer DEF IInv, TypeOK, PairInv, Absent
  <2>3. ~ overlap /\ ~ cut => \A p \in Projects : box'[p].keys \subseteq 1..keys
      BY <1>1, <1>3, <2>1 DEF IInv, PairInv
  <2>2. QED
      BY <1>1, <1>5, <2>3 DEF IInv, PairInv, Alone
<1>7. ShareInv'
  <2>1. SUFFICES ASSUME ~ overlap, ~ cut PROVE ShareInv'
      BY <1>1 DEF ShareInv
  <2>2. ASSUME NEW p \in Projects, NEW k \in box'[p].keys
        PROVE  OfHost(k)' \/ k = file[p].pub
      BY <1>1, <1>3, <1>5, <2>1, <2>2 DEF IInv, ShareInv, OfHost
  <2>3. ASSUME NEW p \in Projects, NEW k \in box'[p].keys, file[p].prv = Absent
        PROVE  OfHost(k)'
      BY <1>1, <1>3, <1>5, <2>1, <2>3 DEF IInv, ShareInv, OfHost
  <2>4. QED
      BY <1>1, <1>5, <2>1, <2>2, <2>3 DEF ShareInv
<1>8. WorkInv'
  <2>1. ~ overlap /\ ~ cut /\ ~ mixed => file[c.p].prv = c.key
      BY <1>1, <1>5 DEF IInv, WorkInv
  <2>2. SharedKeyWorks'
      BY <1>1, <1>5, <2>1 DEF SharedKeyWorks, regularFileExists
  <2>3. QED
      BY <1>1, <1>5, <2>2 DEF IInv, WorkInv
<1>9. AgreeInv'
  <2>1. SUFFICES ASSUME ~ overlap, ~ cut, ~ meddled PROVE AgreeInv'
      BY <1>1 DEF AgreeInv
  <2>2. db'.pair = db.pair /\ db'.recorded = db.recorded /\ db.recorded \subseteq Projects
      BY <1>1, <2>1 DEF IInv, AgreeInv, TypeOK, Bases
  <2>3. KeyToConnect' = KeyToConnect
      BY <1>1, <2>2 DEF KeyToConnect, ensureProjectSSHKeyPair, Both
  <2>4. BothSidesAgree'
      BY <1>1, <1>3, <2>1, <2>2, <2>3 DEF IInv, AgreeInv, BothSidesAgree
  <2>5. c.key # file["managed"].prv
      BY <1>1, <1>5, <2>1, PairsDiffer, NoSharedKey
  <2>6. Installed(file["managed"].prv)' => Installed(file["managed"].prv)
      BY <1>1, <1>3, <2>5 DEF Installed
  <2>7. QED
      BY <1>1, <1>5, <2>1, <2>2, <2>4, <2>6 DEF IInv, AgreeInv, Both
<1>10. QED
    BY <1>2, <1>4, <1>6, <1>7, <1>8, <1>9 DEF IInv

\* The shared key is taken back before its files go.
LEMMA TakeBackOK ==
    ASSUME IInv, NEW x \in Procs, RevokeShared(x), proc[x].pc = "revoke"
    PROVE  IInv'
<1> DEFINE c == proc[x]
           d == [c EXCEPT !.pc = "removePrv"]
<1>1. /\ TypeOK /\ FlowInv /\ c # Idle /\ c \in Commands /\ proc' = [proc EXCEPT ![x] = d]
      /\ UNCHANGED <<file, db, keys, overlap, cut, mixed, meddled, commands, events>> /\ done' = Nothing
      /\ box' = [box EXCEPT ![c.p].keys = @ \ {c.key}]
      /\ c.op = "unshare" /\ c.p \in Projects
    BY Mine, Running DEF IInv, RevokeShared, Goto, History, Commands, FlowInv
<1>2. /\ d \in Commands /\ d.op = "unshare" /\ d.p = c.p /\ d.mem = c.mem /\ d.pc = "removePrv"
      /\ ~ Resolved(c) /\ ~ Resolved(d)
    BY <1>1 DEF Commands, Resolved
<1> HIDE DEF d
<1>3. /\ proc' \in [Procs -> Commands \cup {Idle}] /\ FlowInv'
      /\ proc'[x] = d /\ \A y \in Procs : y # x => proc'[y] = proc[y]
    BY <1>1, <1>2, Going
<1>4. \A p \in Projects : /\ box'[p].up = box[p].up
                          /\ box'[p].keys = IF p = c.p THEN box[p].keys \ {c.key} ELSE box[p].keys
    BY <1>1 DEF TypeOK
<1>5. TypeOK'
  <2>1. box' \in [Projects -> [up : BOOLEAN, keys : SUBSET Keys]]
      BY <1>1 DEF TypeOK
  <2>2. QED
      BY <1>1, <1>3, <2>1 DEF TypeOK
<1>6. ~ overlap /\ ~ cut => /\ \A y \in Procs : y # x => proc[y] = Idle /\ proc'[y] = Idle
                            /\ c.key = file[c.p].pub /\ c.key # Absent
    BY <1>1, <1>3, OnlyMine DEF IInv, PairInv
<1>7. PairInv'
    BY <1>1, <1>2, <1>3, <1>4, <1>6 DEF IInv, PairInv, Alone
<1>8. ShareInv'
  <2>1. SUFFICES ASSUME ~ overlap, ~ cut PROVE ShareInv'
      BY <1>1 DEF ShareInv
  <2>2. ASSUME NEW p \in Projects, NEW k \in box'[p].keys
        PROVE  /\ OfHost(k)' \/ k = file[p].pub
               /\ file[p].prv = Absent \/ p = c.p => OfHost(k)'
    <3>1. k \in box[p].keys /\ (p = c.p => k # file[p].pub)
        BY <1>4, <1>6, <2>1, <2>2
    <3>2. /\ OfHost(k) \/ k = file[p].pub
          /\ file[p].prv = Absent => OfHost(k)
        BY <2>1, <3>1 DEF IInv, ShareInv
    <3>3. OfHost(k)' = OfHost(k)
        BY <1>1 DEF OfHost
    <3>4. QED
        BY <3>1, <3>2, <3>3
  <2>3. QED
      BY <1>1, <1>2, <1>3, <1>6, <2>1, <2>2 DEF ShareInv
<1>9. WorkInv'
    BY <1>1, <1>6 DEF IInv, WorkInv, SharedKeyWorks
<1>10. AgreeInv'
  <2>1. SUFFICES ASSUME ~ overlap, ~ cut, ~ meddled PROVE AgreeInv'
      BY <1>1 DEF AgreeInv
  <2>2. KeyToConnect' = KeyToConnect
      BY <1>1 DEF KeyToConnect, ensureProjectSSHKeyPair, Both
  <2>3. db \in Bases
      BY <1>1 DEF TypeOK
  <2>4. PICK q \in {"user", "managed"} : KeyToConnect = file[q].prv
      BY <2>3, HostPair DEF KeyToConnect, Bases
  <2>5. c.key # KeyToConnect
      BY <1>1, <1>6, <2>1, <2>4, PairsDiffer, NoSharedKey
  <2>6. BothSidesAgree'
      BY <1>1, <1>4, <2>1, <2>2, <2>3, <2>5 DEF IInv, AgreeInv, BothSidesAgree, Bases
  <2>7. Installed(file["managed"].prv)' => Installed(file["managed"].prv)
      BY <1>1, <1>4 DEF Installed
  <2>8. QED
      BY <1>1, <1>2, <1>3, <1>6, <2>1, <2>6, <2>7 DEF IInv, AgreeInv, Both
<1>11. QED
    BY <1>3, <1>5, <1>7, <1>8, <1>9, <1>10 DEF IInv

-----------------------------------------------------------------------------
(***************************************************************************)
(* The steps that change the files of a pair.                              *)
(***************************************************************************)
\* The host's pair is the same while only the files of a project's pair change.
LEMMA OtherPair ==
    ASSUME IInv, UNCHANGED <<db, box>>, ~ overlap, ~ cut, ~ meddled,
           file'["user"] = file["user"], file'["managed"] = file["managed"]
    PROVE  BothSidesAgree' /\ KeyToConnect' = KeyToConnect
<1>1. db.pair \in {None, "user", "managed"}
    BY DEF IInv, TypeOK, Bases
<1>2. KeyToConnect' = KeyToConnect
    BY <1>1 DEF KeyToConnect, ensureProjectSSHKeyPair, Both
<1>3. QED
    BY <1>2 DEF IInv, AgreeInv, BothSidesAgree

\* The private file goes once the key is taken back.
LEMMA RemovePrvOK ==
    ASSUME IInv, NEW x \in Procs, RevokeShared(x), proc[x].pc = "removePrv"
    PROVE  IInv'
<1> DEFINE c == proc[x]
           d == [c EXCEPT !.pc = "removePub"]
<1>1. /\ TypeOK /\ FlowInv /\ c # Idle /\ c \in Commands /\ proc' = [proc EXCEPT ![x] = d]
      /\ UNCHANGED <<db, box, keys, overlap, cut, mixed, meddled, commands, events>> /\ done' = Nothing
      /\ file' = [file EXCEPT ![c.p].prv = Absent] \/ UNCHANGED file
      /\ c.op = "unshare" /\ c.p \in Projects
    BY Mine, Running DEF IInv, RevokeShared, Goto, History, Commands, FlowInv
<1>2. /\ d \in Commands /\ d.op = "unshare" /\ d.p = c.p /\ d.mem = c.mem /\ d.pc = "removePub"
      /\ ~ Resolved(c) /\ ~ Resolved(d)
    BY <1>1 DEF Commands, Resolved
<1> HIDE DEF d
<1>3. /\ proc' \in [Procs -> Commands \cup {Idle}] /\ FlowInv'
      /\ proc'[x] = d /\ \A y \in Procs : y # x => proc'[y] = proc[y]
    BY <1>1, <1>2, Going
<1>4. /\ file' \in [Pairs -> [prv : Keys, pub : Keys]]
      /\ \A q \in Pairs : q # c.p => file'[q] = file[q]
      /\ file'[c.p].pub = file[c.p].pub
      /\ file'[c.p].prv \in {Absent, file[c.p].prv}
  <2>1. file[c.p] \in [prv : Keys, pub : Keys] /\ c.p \in Pairs
      BY <1>1, PairsDiffer DEF TypeOK
  <2>2. QED
      BY <1>1, <2>1, KeysOK DEF TypeOK
<1>5. file'["user"] = file["user"] /\ file'["managed"] = file["managed"]
    BY <1>1, <1>4, PairsDiffer
<1>6. TypeOK'
    BY <1>1, <1>3, <1>4 DEF TypeOK
<1>7. ~ overlap /\ ~ cut => \A y \in Procs : y # x => proc[y] = Idle /\ proc'[y] = Idle
    BY <1>1, <1>3, OnlyMine
<1>8. PairInv'
  <2>1. SUFFICES ASSUME ~ overlap, ~ cut PROVE PairInv'
      BY <1>1, <1>5 DEF IInv, PairInv
  <2>2. \A q \in Pairs : file'[q].prv \in 0..keys /\ file'[q].pub \in 0..keys
      BY <1>1, <1>4, <2>1 DEF IInv, PairInv, TypeOK, Absent
  <2>3. \A q, r \in Pairs : q # r =>
                {file'[q].prv, file'[q].pub} \cap {file'[r].prv, file'[r].pub} \subseteq {Absent}
    <3>1. \A q \in Pairs : {file'[q].prv, file'[q].pub} \subseteq {Absent, file[q].prv, file[q].pub}
        BY <1>4
    <3>2. \A q, r \in Pairs : q # r =>
                {file[q].prv, file[q].pub} \cap {file[r].prv, file[r].pub} \subseteq {Absent}
        BY <2>1 DEF IInv, PairInv
    <3>3. QED
        BY <3>1, <3>2
  <2>4. QED
      BY <1>1, <1>2, <1>3, <1>5, <1>7, <2>1, <2>2, <2>3 DEF IInv, PairInv, Alone
<1>9. ShareInv'
    BY <1>1, <1>2, <1>3, <1>4, <1>5, <1>7, PairsDiffer DEF IInv, ShareInv, OfHost
<1>10. WorkInv'
    BY <1>1, <1>2, <1>3, <1>4, <1>7, PairsDiffer DEF IInv, WorkInv, SharedKeyWorks
<1>11. AgreeInv'
  <2>1. ~ overlap /\ ~ cut /\ ~ meddled => BothSidesAgree'
      BY <1>1, <1>5, OtherPair
  <2>2. QED
      BY <1>1, <1>2, <1>3, <1>5, <1>7, <2>1 DEF IInv, AgreeInv, Both, Installed
<1>12. QED
    BY <1>3, <1>6, <1>8, <1>9, <1>10, <1>11 DEF IInv

\* The public file goes last.
LEMMA RemovePubOK ==
    ASSUME IInv, NEW x \in Procs, RevokeShared(x), proc[x].pc = "removePub"
    PROVE  IInv'
<1> DEFINE c == proc[x]
<1>1. /\ TypeOK /\ FlowInv /\ c # Idle /\ c \in Commands /\ proc' = [proc EXCEPT ![x] = Idle]
      /\ UNCHANGED <<box, keys, overlap, cut, mixed, meddled, commands, events>>
      /\ db' = c.mem /\ done' = [op |-> "unshare", p |-> c.p, works |-> TRUE]
      /\ file' = [file EXCEPT ![c.p].pub = Absent] \/ UNCHANGED file
      /\ c.op = "unshare" /\ c.p \in Projects /\ ~ Resolved(c) /\ c.mem \in Bases
    BY Mine, Running DEF IInv, RevokeShared, Succeed, History, Commands, FlowInv, Resolved
<1>2. /\ proc' \in [Procs -> Commands \cup {Idle}] /\ FlowInv'
      /\ proc'[x] = Idle /\ \A y \in Procs : y # x => proc'[y] = proc[y]
    BY <1>1, Ending
<1>3. /\ file' \in [Pairs -> [prv : Keys, pub : Keys]]
      /\ \A q \in Pairs : q # c.p => file'[q] = file[q]
      /\ file'[c.p].prv = file[c.p].prv
      /\ file'[c.p].pub \in {Absent, file[c.p].pub}
  <2>1. file[c.p] \in [prv : Keys, pub : Keys] /\ c.p \in Pairs
      BY <1>1, PairsDiffer DEF TypeOK
  <2>2. QED
      BY <1>1, <2>1, KeysOK DEF TypeOK
<1>4. file'["user"] = file["user"] /\ file'["managed"] = file["managed"]
    BY <1>1, <1>3, PairsDiffer
<1>5. TypeOK'
    BY <1>1, <1>2, <1>3 DEF TypeOK
<1>6. ~ overlap /\ ~ cut => /\ \A y \in Procs : proc'[y] = Idle
                            /\ \A y \in Procs : y # x => proc[y] = Idle
    BY <1>1, <1>2, OnlyMine
<1>7. PairInv'
  <2>1. SUFFICES ASSUME ~ overlap, ~ cut PROVE PairInv'
      BY <1>1, <1>4 DEF IInv, PairInv
  <2>2. \A q \in Pairs : file'[q].prv \in 0..keys /\ file'[q].pub \in 0..keys
      BY <1>1, <1>3, <2>1 DEF IInv, PairInv, TypeOK, Absent
  <2>3. \A q, r \in Pairs : q # r =>
                {file'[q].prv, file'[q].pub} \cap {file'[r].prv, file'[r].pub} \subseteq {Absent}
    <3>1. \A q \in Pairs : {file'[q].prv, file'[q].pub} \subseteq {Absent, file[q].prv, file[q].pub}
        BY <1>3
    <3>2. \A q, r \in Pairs : q # r =>
                {file[q].prv, file[q].pub} \cap {file[r].prv, file[r].pub} \subseteq {Absent}
        BY <2>1 DEF IInv, PairInv
    <3>3. QED
        BY <3>1, <3>2
  <2>4. QED
      BY <1>1, <1>4, <1>6, <2>1, <2>2, <2>3 DEF IInv, PairInv, Alone
<1>8. ShareInv'
    BY <1>1, <1>3, <1>4, <1>6, PairsDiffer DEF IInv, ShareInv, OfHost
<1>9. WorkInv'
    BY <1>1, <1>3, <1>6, PairsDiffer DEF IInv, WorkInv, SharedKeyWorks
<1>10. AgreeInv'
  <2>1. SUFFICES ASSUME ~ overlap, ~ cut, ~ meddled PROVE AgreeInv'
      BY <1>1 DEF AgreeInv
  <2>2. UNCHANGED db
    <3>1. c.mem.pair = db.pair /\ c.mem.recorded = db.recorded
        BY <1>1, <2>1 DEF IInv, AgreeInv
    <3>2. QED
        BY <1>1, <3>1 DEF TypeOK, Bases
  <2>3. BothSidesAgree'
      BY <1>1, <1>4, <2>1, <2>2, OtherPair
  <2>4. QED
      BY <1>1, <1>4, <1>6, <2>1, <2>2, <2>3 DEF IInv, AgreeInv, Both, Installed
<1>11. QED
    BY <1>2, <1>5, <1>7, <1>8, <1>9, <1>10 DEF IInv

\* The private file of a new pair: its key was in no file and in no container before.
LEMMA WritePrvOK ==
    ASSUME IInv, NEW x \in Procs, WriteKey(x), proc[x].pc = "writePrv"
    PROVE  IInv'
<1> DEFINE c == proc[x]
           d == [c EXCEPT !.pc = "writePub"]
<1>1. /\ TypeOK /\ FlowInv /\ c # Idle /\ c \in Commands /\ proc' = [proc EXCEPT ![x] = d]
      /\ UNCHANGED <<db, box, keys, overlap, cut, mixed, meddled, commands, events>> /\ done' = Nothing
      /\ file' = [file EXCEPT ![c.pair] = [@ EXCEPT !.prv = c.key]]
      /\ c.pair \in Pairs /\ c.pair # "user"
      /\ c.op = "share" => c.pair = c.p
      /\ c.op # "share" => c.op \in {"run", "ssh"} /\ c.pair = "managed"
  <2>1. TypeOK /\ FlowInv /\ c # Idle /\ c \in Commands /\ c.pair # "user"
      BY Mine, Running DEF IInv, FlowInv
  <2>2. QED
      BY <2>1, PairOf DEF WriteKey, Goto, History
<1>2. /\ d \in Commands /\ d.op = c.op /\ d.p = c.p /\ d.mem = c.mem /\ d.pc = "writePub"
      /\ d.pair = c.pair /\ d.key = c.key /\ Resolved(d) = Resolved(c)
    BY <1>1 DEF Commands, Resolved
<1> HIDE DEF d
<1>3. /\ proc' \in [Procs -> Commands \cup {Idle}] /\ FlowInv'
      /\ proc'[x] = d /\ \A y \in Procs : y # x => proc'[y] = proc[y]
    BY <1>1, <1>2, Going DEF Resolved
<1>4. /\ file' \in [Pairs -> [prv : Keys, pub : Keys]]
      /\ \A q \in Pairs : q # c.pair => file'[q] = file[q]
      /\ file'[c.pair].prv = c.key /\ file'[c.pair].pub = file[c.pair].pub
    BY <1>1 DEF TypeOK, Commands
<1>5. TypeOK'
    BY <1>1, <1>3, <1>4 DEF TypeOK
<1>6. file'["user"] = file["user"]
    BY <1>1, <1>4, PairsDiffer
<1>7. ~ overlap /\ ~ cut => /\ \A y \in Procs : y # x => proc[y] = Idle /\ proc'[y] = Idle
                            /\ c.key \in 1..keys /\ c.key # Absent /\ file[c.pair].prv = Absent
                            /\ \A q \in Pairs : c.key \notin {file[q].prv, file[q].pub}
                            /\ \A p \in Projects : c.key \notin box[p].keys /\ Absent \notin box[p].keys
    BY <1>1, <1>3, OnlyMine DEF IInv, PairInv, TypeOK, Absent
<1>8. PairInv'
  <2>1. SUFFICES ASSUME ~ overlap, ~ cut PROVE PairInv'
      BY <1>1, <1>6 DEF IInv, PairInv
  <2>2. \A q \in Pairs : file'[q].prv \in 0..keys /\ file'[q].pub \in 0..keys
      BY <1>1, <1>4, <1>7, <2>1 DEF IInv, PairInv, TypeOK
  <2>3. \A q, r \in Pairs : q # r =>
                {file'[q].prv, file'[q].pub} \cap {file'[r].prv, file'[r].pub} \subseteq {Absent}
    <3>1. \A q \in Pairs : {file'[q].prv, file'[q].pub} \subseteq
                             {file[q].prv, file[q].pub} \cup (IF q = c.pair THEN {c.key} ELSE {})
        BY <1>4
    <3>2. \A q, r \in Pairs : q # r =>
                {file[q].prv, file[q].pub} \cap {file[r].prv, file[r].pub} \subseteq {Absent}
        BY <2>1 DEF IInv, PairInv
    <3>3. QED
        BY <1>7, <2>1, <3>1, <3>2
  <2>4. file'["managed"].pub \in {Absent, file'["managed"].prv}
      BY <1>1, <1>4, <1>7, <2>1, PairsDiffer DEF IInv, PairInv
  <2>5. /\ d.pc = "writePub" /\ d.key = file'[d.pair].prv /\ d.key # Absent
        /\ \A y \in Procs : proc'[y] # Idle => y = x
      BY <1>2, <1>3, <1>4, <1>7, <2>1
  <2>6. Alone' /\ \A p \in Projects : box'[p].keys \subseteq 1..keys'
      BY <1>1, <2>1, <2>5 DEF IInv, PairInv, Alone
  <2>7. file'["user"].prv = file'["user"].pub
      BY <1>6 DEF IInv, PairInv
  <2>8. QED
      BY <1>1, <1>3, <2>2, <2>3, <2>4, <2>5, <2>6, <2>7 DEF PairInv
<1>9. ShareInv'
  <2>1. SUFFICES ASSUME ~ overlap, ~ cut PROVE ShareInv'
      BY <1>1 DEF ShareInv
  <2>2. ASSUME NEW p \in Projects, NEW k \in box[p].keys, OfHost(k)
        PROVE  OfHost(k)'
      BY <1>1, <1>4, <1>6, <1>7, <2>1, <2>2, PairsDiffer DEF OfHost
  <2>3. ASSUME NEW p \in Projects, NEW k \in box[p].keys
        PROVE  /\ OfHost(k)' \/ k = file'[p].pub
               /\ file'[p].prv = Absent => OfHost(k)'
               /\ p = c.pair => OfHost(k)'
    <3>1. /\ OfHost(k) \/ k = file[p].pub
          /\ file[p].prv = Absent => OfHost(k)
        BY <2>1, <2>3 DEF IInv, ShareInv
    <3>2. /\ file'[p].pub = file[p].pub
          /\ p # c.pair => file'[p].prv = file[p].prv
          /\ p = c.pair => file[p].prv = Absent
        BY <1>4, <1>7, <2>1, PairsDiffer
    <3>3. QED
        BY <1>1, <1>4, <1>7, <2>1, <2>2, <2>3, <3>1, <3>2, PairsDiffer
  <2>4. \A y \in Procs : proc'[y] # Idle =>
              /\ y = x /\ proc'[y].pc = "writePub" /\ (proc'[y].op = "share" => proc'[y].p = c.pair)
              /\ proc'[y].p \in Projects
      BY <1>1, <1>2, <1>3, <1>7, <2>1 DEF Commands
  <2>5. QED
      BY <1>1, <2>1, <2>3, <2>4 DEF ShareInv
<1>10. WorkInv'
  <2>1. SUFFICES ASSUME ~ overlap, ~ cut, ~ mixed, NEW p \in Projects, p # c.pair
                 PROVE  file'[p].prv = Absent \/ file'[p].pub = Absent \/ file'[p].prv = file'[p].pub
    <3>1. proc'[x] # Idle /\ proc'[x].pc = "writePub" /\ proc'[x].pair = c.pair
        BY <1>2, <1>3, Running
    <3>2. SharedKeyWorks'
        BY <1>1 DEF SharedKeyWorks
    <3>3. QED
        BY <1>1, <3>1, <3>2 DEF WorkInv
  <2>2. file'[p] = file[p]
      BY <1>4, <2>1, PairsDiffer
  <2>3. \A y \in Procs : proc[y] # Idle => proc[y].pc # "writePub"
      BY <1>7, <2>1
  <2>4. QED
      BY <2>1, <2>2, <2>3 DEF IInv, WorkInv
<1>11. AgreeInv'
  <2>1. SUFFICES ASSUME ~ overlap, ~ cut, ~ meddled PROVE AgreeInv'
      BY <1>1 DEF AgreeInv
  <2>2. CASE c.op = "share"
    <3>1. file'["managed"] = file["managed"]
        BY <1>1, <1>4, <2>2, PairsDiffer DEF Commands
    <3>2. BothSidesAgree'
        BY <1>1, <1>6, <2>1, <3>1, OtherPair
    <3>3. ~ Resolved(d) /\ ~ Resolved(c)
        BY <1>2, <2>2 DEF Resolved
    <3>4. d.mem.recorded = db.recorded /\ d.mem.pair = db.pair
        BY <1>1, <1>2, <2>1, <3>3 DEF IInv, AgreeInv
    <3>5. /\ db.pair = None => db.recorded = {}
          /\ db.pair = "user" => Both(file', "user")
          /\ Both(file', "user") /\ ~ Both(file', "managed") => ~ Installed(file["managed"].prv)'
        BY <1>1, <1>6, <2>1, <3>1 DEF IInv, AgreeInv, Both, Installed
    <3>6. QED
        BY <1>1, <1>3, <1>7, <2>1, <3>2, <3>3, <3>4, <3>5 DEF AgreeInv, Both
  <2>3. CASE c.op # "share"
    <3>1. c.pair = "managed" /\ Resolved(c)
        BY <1>1, <2>3 DEF Resolved
    <3>2. /\ ~ Both(file, "managed") /\ (Both(file, "user") <=> Both(file', "user"))
          /\ ~ Both(file', "managed")
      <4>1. file["managed"].prv = Absent /\ file["managed"].pub \in {Absent, file["managed"].prv}
          BY <1>7, <2>1, <3>1 DEF IInv, PairInv
      <4>2. QED
          BY <1>4, <1>6, <3>1, <4>1 DEF Both, regularFileExists
    <3>3. ~ Installed(file["managed"].prv)' /\ ~ Installed(file["managed"].prv)
        BY <1>1, <1>4, <1>7, <2>1, <3>1 DEF Installed
    <3>4. \A p \in db.recorded : ~ box[p].up
        BY <1>1, <1>7, <2>1, <3>1 DEF IInv, AgreeInv, TypeOK, Bases
    <3>5. /\ db.pair = None => db.recorded = {}
          /\ db.pair = "user" => Both(file', "user")
          /\ db.pair \in {None, "managed"}
        BY <1>1, <2>1, <3>1, <3>2 DEF IInv, AgreeInv
    <3>6. d.mem.recorded = db.recorded /\ d.mem.pair = "managed" /\ d.pair = "managed"
          /\ Resolved(d) /\ d.pc # "save"
        BY <1>1, <1>2, <2>1, <3>1 DEF IInv, AgreeInv
    <3>7. BothSidesAgree'
        BY <1>1, <3>4 DEF BothSidesAgree
    <3>8. QED
        BY <1>1, <1>3, <1>7, <2>1, <3>3, <3>4, <3>5, <3>6, <3>7, PairsDiffer DEF AgreeInv, Both
  <2>4. QED
      BY <2>2, <2>3
<1>12. QED
    BY <1>3, <1>5, <1>8, <1>9, <1>10, <1>11 DEF IInv

\* The public file of a pair: it gets the key of the private one.
LEMMA WritePubOK ==
    ASSUME IInv, NEW x \in Procs, WriteKey(x), proc[x].pc = "writePub"
    PROVE  IInv'
<1> DEFINE c == proc[x]
           d == [c EXCEPT !.pc = "use"]
<1>1. /\ TypeOK /\ FlowInv /\ c # Idle /\ c \in Commands /\ proc' = [proc EXCEPT ![x] = d]
      /\ UNCHANGED <<db, box, keys, overlap, cut, mixed, meddled, commands, events>> /\ done' = Nothing
      /\ file' = [file EXCEPT ![c.pair] = [@ EXCEPT !.pub = c.key]]
      /\ c.pair \in Pairs /\ c.pair # "user"
      /\ c.op = "share" => c.pair = c.p
      /\ c.op # "share" => c.op \in {"run", "ssh"} /\ c.pair = "managed"
  <2>1. TypeOK /\ FlowInv /\ c # Idle /\ c \in Commands /\ c.pair # "user"
      BY Mine, Running DEF IInv, FlowInv
  <2>2. QED
      BY <2>1, PairOf DEF WriteKey, Goto, History
<1>2. /\ d \in Commands /\ d.op = c.op /\ d.p = c.p /\ d.mem = c.mem /\ d.pc = "use"
      /\ d.pair = c.pair /\ d.key = c.key /\ Resolved(d) = Resolved(c)
    BY <1>1 DEF Commands, Resolved
<1> HIDE DEF d
<1>3. /\ proc' \in [Procs -> Commands \cup {Idle}] /\ FlowInv'
      /\ proc'[x] = d /\ \A y \in Procs : y # x => proc'[y] = proc[y]
    BY <1>1, <1>2, Going DEF Resolved
<1>4. /\ file' \in [Pairs -> [prv : Keys, pub : Keys]]
      /\ \A q \in Pairs : q # c.pair => file'[q] = file[q]
      /\ file'[c.pair].pub = c.key /\ file'[c.pair].prv = file[c.pair].prv
    BY <1>1 DEF TypeOK, Commands
<1>5. TypeOK'
    BY <1>1, <1>3, <1>4 DEF TypeOK
<1>6. file'["user"] = file["user"]
    BY <1>1, <1>4, PairsDiffer
<1>7. ~ overlap /\ ~ cut => /\ \A y \in Procs : y # x => proc[y] = Idle /\ proc'[y] = Idle
                            /\ c.key = file[c.pair].prv /\ c.key # Absent
                            /\ \A p \in Projects : Absent \notin box[p].keys
    BY <1>1, <1>3, OnlyMine DEF IInv, PairInv, TypeOK, Absent
<1>8. PairInv'
  <2>1. SUFFICES ASSUME ~ overlap, ~ cut PROVE PairInv'
      BY <1>1, <1>6 DEF IInv, PairInv
  <2>2. \A q \in Pairs : file'[q].prv \in 0..keys /\ file'[q].pub \in 0..keys
      BY <1>1, <1>4, <1>7, <2>1 DEF IInv, PairInv, TypeOK
  <2>3. \A q, r \in Pairs : q # r =>
                {file'[q].prv, file'[q].pub} \cap {file'[r].prv, file'[r].pub} \subseteq {Absent}
    <3>1. \A q \in Pairs : {file'[q].prv, file'[q].pub} \subseteq {file[q].prv, file[q].pub}
        BY <1>4, <1>7, <2>1
    <3>2. \A q, r \in Pairs : q # r =>
                {file[q].prv, file[q].pub} \cap {file[r].prv, file[r].pub} \subseteq {Absent}
        BY <2>1 DEF IInv, PairInv
    <3>3. QED
        BY <3>1, <3>2
  <2>4. file'["managed"].pub \in {Absent, file'["managed"].prv}
      BY <1>1, <1>4, <1>7, <2>1, PairsDiffer DEF IInv, PairInv
  <2>5. QED
      BY <1>1, <1>2, <1>3, <1>4, <1>6, <1>7, <2>1, <2>2, <2>3, <2>4 DEF IInv, PairInv, Alone
<1>9. ShareInv'
  <2>1. SUFFICES ASSUME ~ overlap, ~ cut PROVE ShareInv'
      BY <1>1 DEF ShareInv
  <2>2. file'["managed"].prv = file["managed"].prv
      BY <1>4, PairsDiffer
  <2>3. ASSUME NEW p \in Projects, NEW k \in box[p].keys
        PROVE  /\ OfHost(k)' \/ k = file'[p].pub
               /\ file'[p].prv = Absent => OfHost(k)'
    <3>1. /\ OfHost(k) \/ k = file[p].pub
          /\ file[p].prv = Absent => OfHost(k)
          /\ p = c.pair => OfHost(k)
      <4>1. p = c.pair => c.op = "share" /\ p = c.p
          BY <1>1, <2>3, PairsDiffer
      <4>2. QED
          BY <1>1, <2>1, <2>3, <4>1 DEF IInv, ShareInv
    <3>2. OfHost(k)' = OfHost(k)
        BY <1>1, <1>6, <2>2 DEF OfHost
    <3>3. /\ file'[p].prv = file[p].prv
          /\ p # c.pair => file'[p].pub = file[p].pub
        BY <1>4, <2>3, PairsDiffer
    <3>4. QED
        BY <2>3, <3>1, <3>2, <3>3
  <2>4. \A y \in Procs : proc'[y] # Idle =>
              y = x /\ proc'[y].pc = "use" /\ (proc'[y].op = "share" => proc'[y].p = c.pair)
      BY <1>1, <1>2, <1>3, <1>7, <2>1
  <2>5. file'[c.pair].prv # Absent /\ file'[c.pair].pub # Absent
      BY <1>4, <1>7, <2>1
  <2>6. QED
      BY <1>1, <2>1, <2>3, <2>4, <2>5 DEF ShareInv, regularFileExists
<1>10. WorkInv'
  <2>1. SUFFICES ASSUME ~ overlap, ~ cut, ~ mixed, NEW p \in Projects, p # c.pair
                 PROVE  file'[p].prv = Absent \/ file'[p].pub = Absent \/ file'[p].prv = file'[p].pub
    <3>1. ~ overlap /\ ~ cut => file'[c.pair].prv = file'[c.pair].pub
        BY <1>4, <1>7
    <3>2. SharedKeyWorks'
        BY <1>1 DEF SharedKeyWorks
    <3>3. QED
        BY <1>1, <3>1, <3>2 DEF WorkInv
  <2>2. file'[p] = file[p]
      BY <1>4, <2>1, PairsDiffer
  <2>3. \A y \in Procs : proc[y] # Idle => proc[y].pair # p
      BY <1>7, <2>1
  <2>4. QED
      BY <2>1, <2>2, <2>3 DEF IInv, WorkInv
<1>11. AgreeInv'
  <2>1. SUFFICES ASSUME ~ overlap, ~ cut, ~ meddled PROVE AgreeInv'
      BY <1>1 DEF AgreeInv
  <2>2. CASE c.op = "share"
    <3>1. file'["managed"] = file["managed"]
        BY <1>1, <1>4, <2>2, PairsDiffer DEF Commands
    <3>2. BothSidesAgree'
        BY <1>1, <1>6, <2>1, <3>1, OtherPair
    <3>3. ~ Resolved(d) /\ ~ Resolved(c)
        BY <1>2, <2>2 DEF Resolved
    <3>4. d.mem.recorded = db.recorded /\ d.mem.pair = db.pair
        BY <1>1, <1>2, <2>1, <3>3 DEF IInv, AgreeInv
    <3>5. /\ db.pair = None => db.recorded = {}
          /\ db.pair = "user" => Both(file', "user")
          /\ Both(file', "user") /\ ~ Both(file', "managed") => ~ Installed(file["managed"].prv)'
        BY <1>1, <1>6, <2>1, <3>1 DEF IInv, AgreeInv, Both, Installed
    <3>6. QED
        BY <1>1, <1>3, <1>7, <2>1, <3>2, <3>3, <3>4, <3>5 DEF AgreeInv, Both
  <2>3. CASE c.op # "share"
    <3>1. c.pair = "managed" /\ Resolved(c) /\ Resolved(d)
        BY <1>1, <1>2, <2>3 DEF Resolved
    <3>2. /\ Both(file', "managed") /\ ~ (db.pair = "managed" /\ c.pair = "user")
          /\ Both(file', "user") <=> Both(file, "user")
        BY <1>4, <1>6, <1>7, <2>1, <3>1 DEF Both, regularFileExists
    <3>3. /\ db.pair = None => db.recorded = {}
          /\ db.pair = "user" => Both(file', "user")
          /\ db.pair \in {None, "managed"}
          /\ \A p \in db.recorded : box[p].up => file[c.pair].prv \in box[p].keys
        BY <1>1, <2>1, <3>1, <3>2 DEF IInv, AgreeInv
    <3>4. d.mem.recorded = db.recorded /\ d.mem.pair = "managed" /\ d.pair = "managed" /\ d.pc # "save"
        BY <1>1, <1>2, <2>1, <3>1 DEF IInv, AgreeInv
    <3>5. db.pair = "managed" => KeyToConnect' = file[c.pair].prv
        BY <1>1, <1>4, <3>1, <3>2, PairsDiffer DEF KeyToConnect, ensureProjectSSHKeyPair, Both
    <3>6. BothSidesAgree'
        BY <1>1, <3>3, <3>5 DEF BothSidesAgree
    <3>7. QED
        BY <1>1, <1>3, <1>4, <1>7, <2>1, <3>1, <3>2, <3>3, <3>4, <3>6, PairsDiffer DEF AgreeInv, Both
  <2>4. QED
      BY <2>2, <2>3
<1>12. QED
    BY <1>3, <1>5, <1>8, <1>9, <1>10, <1>11 DEF IInv

-----------------------------------------------------------------------------
(***************************************************************************)
(* The pair is found, or will be made.                                     *)
(***************************************************************************)
\* The command of x goes on as d: with the pair the host has, or that of its project;
\* to use it, to write a public key that is missing, or to make both.
Resolves(x, d) ==
    LET c == proc[x] IN
    /\ c \in Commands /\ c # Idle /\ c.pc = "resolve" /\ c.op \in {"run", "ssh", "share"}
    /\ UNCHANGED <<file, db, box, overlap, cut, mixed, meddled, commands, events>> /\ done' = Nothing
    /\ proc' = [proc EXCEPT ![x] = d] /\ d.op = c.op /\ d.p = c.p /\ d.pair \in Pairs
    /\ d.mem.recorded = c.mem.recorded
    /\ c.op = "share" => d.pair = c.p /\ d.mem = c.mem
    /\ c.op # "share" => d.pair = ensureProjectSSHKeyPair(file, c.mem.pair) /\ d.mem.pair = d.pair
    /\ \/ /\ d.pc = "use" /\ keys' = keys
          /\ d.pair = "user" \/ Both(file, d.pair)
       \/ /\ d.pc = "writePub" /\ keys' = keys /\ d.key = file[d.pair].prv /\ d.key # Absent
          /\ file[d.pair].pub = Absent /\ d.pair # "user"
       \/ /\ d.pc = "writePrv" /\ keys' = keys + 1 /\ d.key = keys + 1 /\ keys' \in 0..MaxKeys
          /\ file[d.pair].prv = Absent /\ d.pair # "user"

\* Where a command goes on once its pair is known.
LEMMA Resolving ==
    ASSUME IInv, NEW x \in Procs, Resolve(x)
    PROVE  \E d \in Commands : Resolves(x, d)
<1> DEFINE c == proc[x]
           pair == IF c.op = "share" THEN c.p ELSE ensureProjectSSHKeyPair(file, c.mem.pair)
           missing == IF pair = "user" THEN "none" ELSE MissingFiles(file, pair)
           e == Chosen(c, pair)
<1>1. TypeOK /\ FlowInv /\ c # Idle /\ c \in Commands /\ c.pc = "resolve"
    BY Mine, Running DEF IInv, Resolve
<1>2. c.op \in {"run", "ssh", "share"} /\ c.mem \in Bases /\ c.p \in Projects
    BY <1>1 DEF FlowInv, Commands
<1>3. pair \in Pairs /\ (c.op # "share" => pair \in {"user", "managed"}) /\ (c.op = "share" => pair = c.p)
    BY <1>2, HostPair, PairsDiffer DEF Bases
<1>4. /\ e.op = c.op /\ e.p = c.p /\ e.pair = pair /\ e.mem.recorded = c.mem.recorded
      /\ c.op = "share" => e.mem = c.mem
      /\ c.op # "share" => e.mem.pair = pair
      /\ e \in Commands
  <2> HIDE DEF pair
  <2>1. CASE c.op = "share"
      BY <1>1, <1>2, <1>3, <2>1 DEF Chosen, Commands
  <2>2. CASE c.op # "share"
      BY <1>1, <1>2, <1>3, <2>2, PairsDiffer DEF Chosen, Commands, Bases
  <2>3. QED
      BY <2>1, <2>2
<1>5. missing \in {"none", "public", "both"}
    BY DEF MissingFiles
<1>6. UNCHANGED <<file, db, box, overlap, cut, mixed, meddled, commands, events>> /\ done' = Nothing
  <2>1. /\ UNCHANGED <<file, box>>
        /\ \E e1 : Goto(x, e1)
      BY <1>5 DEF Resolve
  <2>2. QED
      BY <2>1 DEF Goto, History
<1>7. CASE missing = "none"
  <2> DEFINE d == [e EXCEPT !.pc = "use"]
  <2>1. proc' = [proc EXCEPT ![x] = d] /\ keys' = keys
      BY <1>7 DEF Resolve, Goto
  <2>2. pair = "user" \/ Both(file, pair)
      BY <1>7 DEF MissingFiles, Both
  <2> HIDE DEF pair, missing, e
  <2>3. d \in Commands /\ d.pc = "use" /\ d.op = e.op /\ d.p = e.p /\ d.pair = e.pair /\ d.mem = e.mem
      BY <1>4 DEF Commands
  <2> HIDE DEF d
  <2>4. Resolves(x, d)
      BY <1>1, <1>2, <1>3, <1>4, <1>6, <2>1, <2>2, <2>3 DEF Resolves, pair
  <2>5. QED
      BY <2>3, <2>4
<1>8. CASE missing = "public"
  <2> DEFINE d == [e EXCEPT !.pc = "writePub", !.key = file[pair].prv]
  <2>1. proc' = [proc EXCEPT ![x] = d] /\ keys' = keys
      BY <1>8 DEF Resolve, Goto
  <2>2. pair # "user" /\ file[pair].prv # Absent /\ file[pair].pub = Absent
      BY <1>8 DEF MissingFiles, regularFileExists
  <2> HIDE DEF pair, missing, e
  <2>3. /\ d \in Commands /\ d.pc = "writePub" /\ d.op = e.op /\ d.p = e.p /\ d.pair = e.pair
        /\ d.mem = e.mem /\ d.key = file[pair].prv
      BY <1>1, <1>3, <1>4 DEF Commands, TypeOK
  <2> HIDE DEF d
  <2>4. Resolves(x, d)
      BY <1>1, <1>2, <1>3, <1>4, <1>6, <2>1, <2>2, <2>3 DEF Resolves, pair
  <2>5. QED
      BY <2>3, <2>4
<1>9. CASE missing = "both"
  <2> DEFINE d == [e EXCEPT !.pc = "writePrv", !.key = keys + 1]
  <2>1. proc' = [proc EXCEPT ![x] = d] /\ keys' = keys + 1 /\ keys < MaxKeys
      BY <1>9 DEF Resolve, Goto
  <2>2. pair # "user" /\ file[pair].prv = Absent
      BY <1>9 DEF MissingFiles, regularFileExists
  <2>3. keys' \in 0..MaxKeys /\ keys + 1 \in Keys
      BY <1>1, <2>1, BoundsAssumption DEF TypeOK, Keys
  <2> HIDE DEF pair, missing, e
  <2>4. /\ d \in Commands /\ d.pc = "writePrv" /\ d.op = e.op /\ d.p = e.p /\ d.pair = e.pair
        /\ d.mem = e.mem /\ d.key = keys + 1
      BY <1>4, <2>3 DEF Commands
  <2> HIDE DEF d
  <2>5. Resolves(x, d)
      BY <1>1, <1>2, <1>3, <1>4, <1>6, <2>1, <2>2, <2>3, <2>4 DEF Resolves, pair
  <2>6. QED
      BY <2>4, <2>5
<1>10. QED
    BY <1>5, <1>7, <1>8, <1>9

\* The pair found is the one the database leads to, and a key that will be written is
\* nowhere yet.
LEMMA ResolveOK ==
    ASSUME IInv, NEW x \in Procs, Resolve(x)
    PROVE  IInv'
<1> DEFINE c == proc[x]
<1>0. PICK d \in Commands : Resolves(x, d)
    BY Resolving
<1>1. /\ c \in Commands /\ c # Idle /\ c.pc = "resolve" /\ c.op \in {"run", "ssh", "share"}
      /\ UNCHANGED <<file, db, box, overlap, cut, mixed, meddled, commands, events>> /\ done' = Nothing
      /\ proc' = [proc EXCEPT ![x] = d] /\ d.op = c.op /\ d.p = c.p /\ d.pair \in Pairs
      /\ d.mem.recorded = c.mem.recorded
      /\ c.op = "share" => d.pair = c.p /\ d.mem = c.mem
      /\ c.op # "share" => d.pair = ensureProjectSSHKeyPair(file, c.mem.pair) /\ d.mem.pair = d.pair
      /\ \/ /\ d.pc = "use" /\ keys' = keys
            /\ d.pair = "user" \/ Both(file, d.pair)
         \/ /\ d.pc = "writePub" /\ keys' = keys /\ d.key = file[d.pair].prv /\ d.key # Absent
            /\ file[d.pair].pub = Absent /\ d.pair # "user"
         \/ /\ d.pc = "writePrv" /\ keys' = keys + 1 /\ d.key = keys + 1 /\ keys' \in 0..MaxKeys
            /\ file[d.pair].prv = Absent /\ d.pair # "user"
    BY <1>0 DEF Resolves
<1>2. /\ TypeOK /\ FlowInv /\ c.mem \in Bases /\ c.p \in Projects /\ ~ Resolved(c)
      /\ keys \in Nat /\ keys' \in keys..(keys + 1) /\ keys' \in 0..MaxKeys
    BY <1>1, BoundsAssumption DEF IInv, TypeOK, Commands, Resolved
<1>3. c.op # "share" => d.pair \in {"user", "managed"} /\ Resolved(d)
    BY <1>1, <1>2, HostPair DEF Bases, Resolved
<1>4. /\ proc' \in [Procs -> Commands \cup {Idle}] /\ FlowInv'
      /\ proc'[x] = d /\ \A y \in Procs : y # x => proc'[y] = proc[y]
    BY <1>1, <1>2, <1>3, Going DEF Resolved
<1>5. TypeOK'
    BY <1>1, <1>2, <1>4 DEF TypeOK
<1>6. ~ overlap /\ ~ cut => \A y \in Procs : y # x => proc[y] = Idle /\ proc'[y] = Idle
    BY <1>1, <1>4, OnlyMine
<1>7. PairInv'
  <2>1. SUFFICES ASSUME ~ overlap, ~ cut PROVE PairInv'
      BY <1>1 DEF IInv, PairInv
  <2>2. /\ \A q \in Pairs : file[q].prv \in 0..keys /\ file[q].pub \in 0..keys
        /\ \A p \in Projects : box[p].keys \subseteq 1..keys
      BY <2>1 DEF IInv, PairInv
  <2>3. /\ \A q \in Pairs : file[q].prv \in 0..keys' /\ file[q].pub \in 0..keys'
        /\ \A p \in Projects : box[p].keys \subseteq 1..keys'
      BY <1>2, <2>2
  <2>4. d.pc = "writePrv" =>
          /\ d.key \in 1..keys'
          /\ \A q \in Pairs : d.key \notin {file[q].prv, file[q].pub}
          /\ \A p \in Projects : d.key \notin box[p].keys
      BY <1>1, <1>2, <2>2
  <2>5. Alone'
      BY <1>4, <1>6, <2>1 DEF Alone
  <2>6. ASSUME NEW y \in Procs, proc'[y] # Idle
        PROVE  y = x /\ proc'[y] = d
      BY <1>4, <1>6, <2>1, <2>6
  <2>7. d.pc \notin {"install", "revoke"}
      BY <1>1
  <2>8. d.pc = "writePub" => d.key = file[d.pair].prv /\ d.key # Absent
      BY <1>1
  <2>9. d.pc = "writePrv" => file[d.pair].prv = Absent
      BY <1>1
  <2>10. /\ file["user"].prv = file["user"].pub
         /\ file["managed"].pub \in {Absent, file["managed"].prv}
         /\ \A q, r \in Pairs : q # r =>
                {file[q].prv, file[q].pub} \cap {file[r].prv, file[r].pub} \subseteq {Absent}
      BY <2>1 DEF IInv, PairInv
  <2>11. UNCHANGED <<file, box>>
      BY <1>1
  <2>12. QED
      BY <2>3, <2>4, <2>5, <2>6, <2>7, <2>8, <2>9, <2>10, <2>11 DEF PairInv
<1>8. ShareInv'
  <2>1. SUFFICES ASSUME ~ overlap, ~ cut PROVE ShareInv'
      BY <1>1 DEF ShareInv
  <2>2. \A p \in Projects : \A k \in box[p].keys :
           /\ OfHost(k) \/ k = file[p].pub
           /\ file[p].prv = Absent => OfHost(k)
           /\ file[p].pub = Absent => OfHost(k)
    <3>1. \A p \in Projects : Absent \notin box[p].keys
        BY <1>2, <2>1 DEF IInv, PairInv, Absent
    <3>2. QED
        BY <2>1, <3>1 DEF IInv, ShareInv
  <2>3. \A k : OfHost(k)' = OfHost(k)
      BY <1>1 DEF OfHost
  <2>4. /\ d.op = "share" /\ d.pc = "writePub" => file[d.p].pub = Absent
        /\ d.op = "share" /\ d.pc = "use" => Both(file, d.p)
        /\ d.pc \notin {"removePrv", "removePub", "install"}
        /\ d.p \in Projects
      BY <1>1, <1>2, PairsDiffer
  <2>5. ASSUME NEW y \in Procs, proc'[y] # Idle
        PROVE  y = x /\ proc'[y] = d
      BY <1>4, <1>6, <2>1, <2>5
  <2>6. QED
      BY <1>1, <2>1, <2>2, <2>3, <2>4, <2>5 DEF ShareInv, Both
<1>9. WorkInv'
  <2>1. SharedKeyWorks'
      BY <1>1 DEF SharedKeyWorks
  <2>2. ~ overlap /\ ~ cut => \A y \in Procs : proc[y] # Idle => proc[y].pc # "writePub"
      BY <1>1, <1>6
  <2>3. QED
      BY <1>1, <2>1, <2>2 DEF IInv, WorkInv
<1>10. AgreeInv'
  <2>1. SUFFICES ASSUME ~ overlap, ~ cut, ~ meddled PROVE AgreeInv'
      BY <1>1 DEF AgreeInv
  <2>2. /\ db.pair = None => db.recorded = {}
        /\ db.pair = "user" => Both(file, "user")
        /\ Both(file, "user") /\ ~ Both(file, "managed") => ~ Installed(file["managed"].prv)
        /\ BothSidesAgree
        /\ c.mem.recorded = db.recorded /\ c.mem.pair = db.pair
      BY <1>1, <1>2, <2>1 DEF IInv, AgreeInv
  <2>3. BothSidesAgree'
      BY <1>1, <2>1, SameDatabase
  <2>4. CASE c.op = "share"
    <3>1. ~ Resolved(d)
        BY <1>1, <2>4 DEF Resolved
    <3>2. QED
        BY <1>1, <1>4, <1>6, <2>1, <2>2, <2>3, <2>4, <3>1 DEF AgreeInv, Both, Installed
  <2>5. CASE c.op # "share"
    <3>1. d.pair = ensureProjectSSHKeyPair(file, db.pair) /\ db.pair \in {None, "user", "managed"}
        BY <1>1, <1>2, <2>2, <2>5 DEF Bases
    <3>2. /\ d.pair = "user" => Both(file, "user")
          /\ \/ db.pair \in {None, d.pair}
             \/ db.pair = "managed" /\ d.pair = "user" /\ ~ Both(file, "managed")
        BY <2>2, <3>1, HostPair, PairsDiffer
    <3>3. \A p \in db.recorded : box[p].up => file[d.pair].prv \in box[p].keys
        BY <2>1, <2>2, <3>1 DEF BothSidesAgree, KeyToConnect
    <3>4. d.mem.recorded = db.recorded /\ d.mem.pair = d.pair /\ Resolved(d) /\ d.pc # "save"
        BY <1>1, <1>3, <2>2, <2>5
    <3>5. QED
        BY <1>1, <1>4, <1>6, <2>1, <2>2, <2>3, <3>2, <3>3, <3>4 DEF AgreeInv, Both, Installed
  <2>6. QED
      BY <2>4, <2>5
<1>11. QED
    BY <1>4, <1>5, <1>7, <1>8, <1>9, <1>10 DEF IInv

-----------------------------------------------------------------------------
(***************************************************************************)
(* What the user does beside the commands.                                 *)
(***************************************************************************)
\* A pair of the user that comes or goes while the host does not use it.
LEMMA UserKeysOK ==
    ASSUME IInv, UserKeys
    PROVE  IInv'
<1>1. /\ TypeOK /\ FlowInv /\ UNCHANGED <<proc, db, box, overlap, cut, mixed, commands>> /\ done' = Nothing
      /\ events' \in 0..MaxEvents /\ keys \in Nat
      /\ meddled' = (meddled \/ Both(file, "user")
                        \/ (~ Both(file, "managed") /\ Installed(file["managed"].prv)))
    BY BoundsAssumption DEF IInv, TypeOK, UserKeys, Event
<1>2. PICK k \in Keys : /\ file' = [file EXCEPT !["user"] = [prv |-> k, pub |-> k]]
                        /\ keys' \in 0..MaxKeys
                        /\ \/ k = Absent /\ keys' = keys
                           \/ k = keys + 1 /\ keys' = keys + 1
  <2>1. CASE file' = [file EXCEPT !["user"] = [prv |-> Absent, pub |-> Absent]] /\ keys' = keys
      BY <1>1, <2>1, KeysOK DEF TypeOK
  <2>2. CASE keys < MaxKeys /\ keys' = keys + 1
             /\ file' = [file EXCEPT !["user"] = [prv |-> keys + 1, pub |-> keys + 1]]
    <3>1. keys + 1 \in 0..MaxKeys
        BY <1>1, <2>2, BoundsAssumption
    <3>2. QED
        BY <2>2, <3>1, KeysOK
  <2>3. QED
      BY <2>1, <2>2 DEF UserKeys
<1>3. /\ file' \in [Pairs -> [prv : Keys, pub : Keys]]
      /\ \A q \in Pairs : q # "user" => file'[q] = file[q]
      /\ file'["user"].prv = k /\ file'["user"].pub = k /\ file'["managed"] = file["managed"]
  <2>1. "user" \in Pairs /\ "managed" \in Pairs /\ "user" # "managed"
      BY PairsDiffer
  <2>2. [prv |-> k, pub |-> k] \in [prv : Keys, pub : Keys] /\ file \in [Pairs -> [prv : Keys, pub : Keys]]
      BY <1>1 DEF TypeOK
  <2>3. file' = [file EXCEPT !["user"] = [prv |-> k, pub |-> k]]
      BY <1>2
  <2>4. QED
      BY <2>1, <2>2, <2>3
<1>4. TypeOK'
  <2>1. meddled' \in BOOLEAN
      BY <1>1, Zenon DEF TypeOK
  <2>2. keys' \in 0..MaxKeys
      BY <1>2
  <2>3. QED
      BY <1>1, <1>3, <2>1, <2>2 DEF TypeOK
<1>5. FlowInv'
    BY <1>1 DEF FlowInv
<1>6. ~ overlap /\ ~ cut =>
          /\ \A q \in Pairs : file[q].prv \in 0..keys /\ file[q].pub \in 0..keys
          /\ \A p \in Projects : box[p].keys \subseteq 1..keys /\ Absent \notin box[p].keys
    BY <1>1 DEF IInv, PairInv, Absent
<1>7. \A y \in Procs : proc[y] # Idle =>
          LET c == proc[y] IN
          /\ c.pc \in {"writePrv", "writePub"} => c.pair \in Pairs /\ c.pair # "user"
          /\ c.p \in Projects
  <2>1. ASSUME NEW y \in Procs, proc[y] # Idle, proc[y].pc \in {"writePrv", "writePub"}
        PROVE  proc[y].pair \in Pairs /\ proc[y].pair # "user"
      BY <1>1, <2>1, PairOf DEF FlowInv
  <2>2. QED
      BY <1>1, <2>1, Mine DEF Commands
<1>8. PairInv'
  <2>1. SUFFICES ASSUME ~ overlap, ~ cut PROVE PairInv'
      BY <1>1, <1>3 DEF PairInv
  <2>2. /\ \A q \in Pairs : file'[q].prv \in 0..keys' /\ file'[q].pub \in 0..keys'
        /\ \A p \in Projects : box[p].keys \subseteq 1..keys'
      BY <1>1, <1>2, <1>3, <1>6, <2>1 DEF Absent
  <2>3. \A q \in Pairs : k = Absent \/ k \notin {file[q].prv, file[q].pub}
      BY <1>1, <1>2, <1>6, <2>1
  <2>4. \A q, r \in Pairs : q # r =>
                {file'[q].prv, file'[q].pub} \cap {file'[r].prv, file'[r].pub} \subseteq {Absent}
    <3>1. \A q \in Pairs : {file'[q].prv, file'[q].pub} =
                             IF q = "user" THEN {k} ELSE {file[q].prv, file[q].pub}
        BY <1>3
    <3>2. \A q, r \in Pairs : q # r =>
                {file[q].prv, file[q].pub} \cap {file[r].prv, file[r].pub} \subseteq {Absent}
        BY <2>1 DEF IInv, PairInv
    <3>3. QED
        BY <2>3, <3>1, <3>2
  <2>5. file'["managed"].pub \in {Absent, file'["managed"].prv} /\ Alone'
      BY <1>1, <1>3, <2>1 DEF IInv, PairInv, Alone
  <2>6. ASSUME NEW y \in Procs, proc[y] # Idle
        PROVE  LET c == proc[y] IN
               /\ c.pc = "writePrv" =>
                     /\ c.key \in 1..keys' /\ file'[c.pair].prv = Absent
                     /\ \A q \in Pairs : c.key \notin {file'[q].prv, file'[q].pub}
                     /\ \A p \in Projects : c.key \notin box[p].keys
               /\ c.pc = "writePub" => c.key = file'[c.pair].prv /\ c.key # Absent
               /\ c.pc \in {"install", "revoke"} => c.key = file'[c.p].pub /\ c.key # Absent
    <3>1. /\ proc[y].pc = "writePrv" =>
                /\ proc[y].key \in 1..keys /\ file[proc[y].pair].prv = Absent
                /\ \A q \in Pairs : proc[y].key \notin {file[q].prv, file[q].pub}
                /\ \A p \in Projects : proc[y].key \notin box[p].keys
          /\ proc[y].pc = "writePub" => proc[y].key = file[proc[y].pair].prv /\ proc[y].key # Absent
          /\ proc[y].pc \in {"install", "revoke"} =>
                proc[y].key = file[proc[y].p].pub /\ proc[y].key # Absent
        BY <2>1, <2>6 DEF IInv, PairInv
    <3>2. proc[y].key \in 1..keys => proc[y].key # k /\ proc[y].key \in 1..keys'
        BY <1>1, <1>2 DEF Absent
    <3>3. QED
        BY <1>3, <1>7, <2>6, <3>1, <3>2, PairsDiffer
  <2>7. QED
      BY <1>1, <1>3, <2>2, <2>4, <2>5, <2>6 DEF PairInv
<1>9. ShareInv'
  <2>1. SUFFICES ASSUME ~ overlap, ~ cut PROVE ShareInv'
      BY <1>1 DEF ShareInv
  <2>2. ASSUME NEW p \in Projects, NEW j \in box[p].keys, OfHost(j)
        PROVE  OfHost(j)'
    <3>1. CASE j = file["user"].prv
      <4>1. j # Absent /\ file["user"].pub = j
          BY <1>6, <2>1, <2>2, <3>1 DEF IInv, PairInv
      <4>2. Both(file, "user")
          BY <3>1, <4>1 DEF Both, regularFileExists
      <4>3. QED
          BY <1>1, <4>2 DEF OfHost
    <3>2. CASE j = file["managed"].prv \/ meddled
        BY <1>1, <1>3, <3>2 DEF OfHost
    <3>3. QED
        BY <2>2, <3>1, <3>2 DEF OfHost
  <2>3. \A p \in Projects : file'[p] = file[p]
      BY <1>3, PairsDiffer
  <2>4. QED
      BY <1>1, <1>7, <2>1, <2>2, <2>3 DEF IInv, ShareInv
<1>10. WorkInv'
  <2>1. \A p \in Projects : file'[p] = file[p]
      BY <1>3, PairsDiffer
  <2>2. SharedKeyWorks'
      BY <1>1 DEF SharedKeyWorks
  <2>3. QED
      BY <1>1, <2>1, <2>2 DEF IInv, WorkInv
<1>11. AgreeInv'
  <2>1. SUFFICES ASSUME ~ overlap, ~ cut, ~ meddled'
                 PROVE  AgreeInv'
      BY <1>1 DEF AgreeInv
  <2>2. /\ ~ meddled /\ ~ Both(file, "user")
        /\ ~ Both(file, "managed") => ~ Installed(file["managed"].prv)
      BY <1>1, <2>1
  <2>3. /\ db.pair = None => db.recorded = {}
        /\ db.pair \in {None, "managed"}
        /\ \A p \in db.recorded : box[p].up => file["managed"].prv \in box[p].keys
        /\ db.recorded \subseteq Projects
      BY <1>1, <2>1, <2>2, HostPair, PairsDiffer
         DEF IInv, AgreeInv, BothSidesAgree, KeyToConnect, TypeOK, Bases
  <2>4. BothSidesAgree'
    <3>1. CASE Both(file, "managed")
      <4>1. db.pair = "managed" => KeyToConnect' = file["managed"].prv
          BY <1>1, <1>3, <3>1, PairsDiffer DEF KeyToConnect, ensureProjectSSHKeyPair, Both
      <4>2. QED
          BY <1>1, <2>3, <4>1 DEF BothSidesAgree
    <3>2. CASE ~ Both(file, "managed")
        BY <1>1, <2>2, <2>3, <3>2 DEF BothSidesAgree, Installed
    <3>3. QED
        BY <3>1, <3>2
  <2>5. ASSUME NEW y \in Procs, proc[y] # Idle, Resolved(proc[y])
        PROVE  proc[y].pair = "managed"
      BY <1>1, <2>1, <2>2, <2>5 DEF IInv, AgreeInv, FlowInv
  <2>6. Both(file', "managed") = Both(file, "managed")
      BY <1>3 DEF Both
  <2>7. Installed(file["managed"].prv)' = Installed(file["managed"].prv)
      BY <1>1, <1>3 DEF Installed
  <2>8. ASSUME NEW y \in Procs, proc[y] # Idle
        PROVE  LET c == proc[y] IN
               /\ c.mem.recorded = db.recorded
               /\ ~ Resolved(c) => c.mem.pair = db.pair
               /\ Resolved(c) =>
                    /\ c.mem.pair = c.pair
                    /\ \A p \in db.recorded \cup (IF c.pc = "save" THEN {c.p} ELSE {}) :
                          box[p].up => file[c.pair].prv \in box[p].keys
      BY <2>1, <2>2, <2>8 DEF IInv, AgreeInv
  <2>9. QED
      BY <1>1, <1>3, <2>1, <2>2, <2>3, <2>4, <2>5, <2>6, <2>7, <2>8, PairsDiffer DEF AgreeInv, Both
<1>12. QED
    BY <1>4, <1>5, <1>8, <1>9, <1>10, <1>11 DEF IInv

\* A public key of the host that goes while the user has no pair.
LEMMA UserRemovesPublicOK ==
    ASSUME IInv, UserRemovesPublic
    PROVE  IInv'
<1>1. /\ TypeOK /\ FlowInv /\ UNCHANGED <<proc, keys, db, box, overlap, cut, mixed, commands>>
      /\ done' = Nothing /\ events' \in 0..MaxEvents
      /\ meddled' = (meddled \/ Both(file, "user"))
      /\ file' = [file EXCEPT !["managed"].pub = Absent]
    BY BoundsAssumption DEF IInv, TypeOK, UserRemovesPublic, Event
<1>2. /\ file' \in [Pairs -> [prv : Keys, pub : Keys]]
      /\ \A q \in Pairs : file'[q].prv = file[q].prv /\ (q # "managed" => file'[q] = file[q])
      /\ file'["managed"].pub = Absent
    BY <1>1, KeysOK, PairsDiffer DEF TypeOK
<1>3. TypeOK' /\ FlowInv'
    BY <1>1, <1>2 DEF TypeOK, FlowInv
<1>4. \A y \in Procs : proc[y] # Idle =>
          LET c == proc[y] IN
          /\ c.pc \in {"writePrv", "writePub"} => c.pair \in Pairs
          /\ c.p \in Projects
    BY <1>1, Mine, PairOf DEF Commands
<1>5. /\ file'["user"] = file["user"] /\ file'["managed"].prv = file["managed"].prv
      /\ \A p \in Projects : file'[p] = file[p]
    BY <1>2, PairsDiffer
<1>6. PairInv'
  <2>1. SUFFICES ASSUME ~ overlap, ~ cut PROVE PairInv'
      BY <1>1, <1>5 DEF IInv, PairInv
  <2>2. \A q \in Pairs : /\ {file'[q].prv, file'[q].pub} \subseteq {Absent, file[q].prv, file[q].pub}
                         /\ file'[q].pub \in {Absent, file[q].pub}
      BY <1>2
  <2>3. \A q \in Pairs : file'[q].prv \in 0..keys /\ file'[q].pub \in 0..keys
      BY <1>1, <1>2, <2>1 DEF IInv, PairInv, TypeOK, Absent
  <2>4. \A q, r \in Pairs : q # r =>
                {file'[q].prv, file'[q].pub} \cap {file'[r].prv, file'[r].pub} \subseteq {Absent}
    <3>1. \A q, r \in Pairs : q # r =>
                {file[q].prv, file[q].pub} \cap {file[r].prv, file[r].pub} \subseteq {Absent}
        BY <2>1 DEF IInv, PairInv
    <3>2. QED
        BY <2>2, <3>1
  <2>5. ASSUME NEW y \in Procs, proc[y] # Idle
        PROVE  LET c == proc[y] IN
               /\ c.pc = "writePrv" =>
                     /\ c.key \in 1..keys /\ file'[c.pair].prv = Absent
                     /\ \A q \in Pairs : c.key \notin {file'[q].prv, file'[q].pub}
                     /\ \A p \in Projects : c.key \notin box[p].keys
               /\ c.pc = "writePub" => c.key = file'[c.pair].prv /\ c.key # Absent
               /\ c.pc \in {"install", "revoke"} => c.key = file'[c.p].pub /\ c.key # Absent
    <3>1. /\ proc[y].pc = "writePrv" =>
                /\ proc[y].key \in 1..keys /\ file[proc[y].pair].prv = Absent
                /\ \A q \in Pairs : proc[y].key \notin {file[q].prv, file[q].pub}
                /\ \A p \in Projects : proc[y].key \notin box[p].keys
          /\ proc[y].pc = "writePub" => proc[y].key = file[proc[y].pair].prv /\ proc[y].key # Absent
          /\ proc[y].pc \in {"install", "revoke"} =>
                proc[y].key = file[proc[y].p].pub /\ proc[y].key # Absent
        BY <2>1, <2>5 DEF IInv, PairInv
    <3>2. proc[y].key \in 1..keys => proc[y].key # Absent
        BY <1>1 DEF TypeOK, Absent
    <3>3. QED
        BY <1>2, <1>4, <1>5, <2>2, <2>5, <3>1, <3>2
  <2>6. QED
      BY <1>1, <1>2, <1>5, <2>1, <2>3, <2>4, <2>5 DEF IInv, PairInv, Alone
<1>7. ShareInv'
  <2>1. \A j : OfHost(j) => OfHost(j)'
      BY <1>1, <1>5 DEF OfHost
  <2>2. QED
      BY <1>1, <1>4, <1>5, <2>1 DEF IInv, ShareInv
<1>8. WorkInv'
  <2>1. SharedKeyWorks'
      BY <1>1 DEF SharedKeyWorks
  <2>2. QED
      BY <1>1, <1>5, <2>1 DEF IInv, WorkInv
<1>9. AgreeInv'
  <2>1. SUFFICES ASSUME ~ overlap, ~ cut, ~ meddled'
                 PROVE  AgreeInv'
      BY <1>1 DEF AgreeInv
  <2>2. ~ meddled /\ ~ Both(file, "user") /\ ~ Both(file', "user")
      BY <1>1, <1>5, <2>1 DEF Both
  <2>3. /\ db.pair = None => db.recorded = {}
        /\ db.pair \in {None, "managed"}
        /\ BothSidesAgree
        /\ db \in Bases
      BY <1>1, <2>1, <2>2 DEF IInv, AgreeInv, TypeOK, Bases
  <2>4. KeyToConnect = file["managed"].prv /\ KeyToConnect' = file["managed"].prv
      BY <1>1, <1>5, <2>2, <2>3, PairsDiffer DEF KeyToConnect, ensureProjectSSHKeyPair, Both
  <2>5. BothSidesAgree'
      BY <1>1, <2>1, <2>2, <2>3, <2>4 DEF BothSidesAgree
  <2>6. ASSUME NEW y \in Procs, proc[y] # Idle
        PROVE  LET c == proc[y] IN
               /\ c.mem.recorded = db.recorded
               /\ ~ Resolved(c) => c.mem.pair = db.pair
               /\ Resolved(c) =>
                    /\ c.mem.pair = c.pair /\ c.pair = "managed"
                    /\ \A p \in db.recorded \cup (IF c.pc = "save" THEN {c.p} ELSE {}) :
                          box[p].up => file[c.pair].prv \in box[p].keys
      BY <1>1, <2>1, <2>2, <2>6 DEF IInv, AgreeInv, FlowInv
  <2>7. QED
      BY <1>1, <1>5, <2>1, <2>2, <2>3, <2>5, <2>6, PairsDiffer DEF AgreeInv, Both
<1>10. QED
    BY <1>3, <1>6, <1>7, <1>8, <1>9 DEF IInv

-----------------------------------------------------------------------------
(***************************************************************************)
(* The invariant, and what follows from it.                                *)
(***************************************************************************)
\* Before the first command the user may have a pair; nothing else is there.
LEMMA InitOK == Init => IInv
<1> SUFFICES ASSUME Init PROVE IInv
    OBVIOUS
<1>1. PICK own \in {Absent, 1} :
          /\ file = [q \in Pairs |-> [prv |-> IF q = "user" THEN own ELSE Absent,
                                      pub |-> IF q = "user" THEN own ELSE Absent]]
          /\ keys = own
    BY DEF Init
<1>2. own \in Keys /\ own \in 0..MaxKeys /\ own \in Nat
    BY BoundsAssumption DEF Keys, Absent
<1>3. /\ \A q \in Pairs : file[q].prv = file[q].pub /\ (q # "user" => file[q].prv = Absent)
      /\ file["user"].prv = own
      /\ file \in [Pairs -> [prv : Keys, pub : Keys]]
    BY <1>1, <1>2, KeysOK, PairsDiffer
<1>4. /\ \A p \in Projects : box[p].keys = {} /\ ~ box[p].up
      /\ box \in [Projects -> [up : BOOLEAN, keys : SUBSET Keys]]
      /\ \A x \in Procs : proc[x] = Idle
      /\ db.pair = None /\ db.recorded = {} /\ db \in Bases
    BY DEF Init, NoContainer, Bases
<1>5. TypeOK
  <2>1. proc \in [Procs -> Commands \cup {Idle}] /\ keys \in 0..MaxKeys
      BY <1>1, <1>2 DEF Init
  <2>2. commands \in 0..MaxCommands /\ events \in 0..MaxEvents
      BY BoundsAssumption DEF Init
  <2>3. QED
      BY <1>3, <1>4, <2>1, <2>2 DEF Init, TypeOK
<1>6. FlowInv
    BY <1>4 DEF FlowInv
<1>7. PairInv
  <2>1. \A q \in Pairs : file[q].prv \in 0..keys /\ file[q].pub \in 0..keys
      BY <1>1, <1>2, <1>3 DEF Absent
  <2>2. QED
      BY <1>3, <1>4, <2>1, PairsDiffer DEF PairInv, Alone
<1>8. ShareInv /\ WorkInv
    BY <1>3, <1>4, PairsDiffer DEF Init, ShareInv, WorkInv, SharedKeyWorks
<1>9. AgreeInv
    BY <1>4, PairsDiffer DEF AgreeInv, BothSidesAgree, Installed
<1>10. QED
    BY <1>5, <1>6, <1>7, <1>8, <1>9 DEF IInv

\* The commands begin, each at its own place.
LEMMA BeginsOK ==
    ASSUME IInv, NEW x \in Procs,
           projectRun(x) \/ projectSsh(x) \/ projectShare(x) \/ projectUnshare(x)
    PROVE  IInv'
<1>1. db.recorded \subseteq Projects
    BY DEF IInv, TypeOK, Bases
<1>2. CASE projectRun(x)
    BY <1>2, BeginOK DEF projectRun
<1>3. CASE projectSsh(x)
    BY <1>1, <1>3, BeginOK DEF projectSsh
<1>4. CASE projectShare(x)
    BY <1>1, <1>4, BeginOK DEF projectShare
<1>5. CASE projectUnshare(x)
    BY <1>1, <1>5, BeginOK DEF projectUnshare
<1>6. QED
    BY <1>2, <1>3, <1>4, <1>5

\* Nothing changes, and no command ends with a stutter.
LEMMA StutterOK == IInv /\ UNCHANGED vars => IInv'
<1> SUFFICES ASSUME IInv, UNCHANGED vars PROVE IInv'
    OBVIOUS
<1>1. TypeOK' /\ FlowInv'
    BY DEF vars, IInv, TypeOK, FlowInv
<1>2. PairInv' /\ ShareInv'
    BY DEF vars, IInv, PairInv, Alone, ShareInv, OfHost
<1>3. WorkInv'
    BY DEF vars, IInv, WorkInv, SharedKeyWorks
<1>4. AgreeInv'
    BY DEF vars, IInv, AgreeInv, BothSidesAgree, KeyToConnect, ensureProjectSSHKeyPair, Both, Installed
<1>5. QED
    BY <1>1, <1>2, <1>3, <1>4 DEF IInv

\* Every step keeps the invariant.
LEMMA NextOK == IInv /\ [Next]_vars => IInv'
<1> SUFFICES ASSUME IInv, [Next]_vars PROVE IInv'
    OBVIOUS
<1>1. ASSUME NEW x \in Procs,
             \/ projectRun(x) \/ projectSsh(x) \/ projectShare(x) \/ projectUnshare(x)
             \/ DeleteContainer(x) \/ Resolve(x) \/ WriteKey(x) \/ Deploy(x) \/ Save(x)
             \/ Connect(x) \/ ReadShared(x) \/ InstallShared(x) \/ RevokeShared(x) \/ Fails(x)
      PROVE  IInv'
  <2>1. CASE projectRun(x) \/ projectSsh(x) \/ projectShare(x) \/ projectUnshare(x)
      BY <2>1, BeginsOK
  <2>2. CASE DeleteContainer(x)
      BY <2>2, DeleteOK
  <2>3. CASE Resolve(x)
      BY <2>3, ResolveOK
  <2>4. CASE WriteKey(x)
    <3>1. proc[x].pc \in {"writePrv", "writePub"}
        BY <2>4 DEF WriteKey
    <3>2. QED
        BY <2>4, <3>1, WritePrvOK, WritePubOK
  <2>5. CASE Deploy(x)
      BY <2>5, DeployOK
  <2>6. CASE Save(x) \/ Connect(x)
      BY <2>6, SaveOK
  <2>7. CASE ReadShared(x)
      BY <2>7, ReadOK
  <2>8. CASE InstallShared(x)
      BY <2>8, InstallOK
  <2>9. CASE RevokeShared(x)
    <3>1. proc[x].pc \in {"revoke", "removePrv", "removePub"}
        BY <2>9 DEF RevokeShared
    <3>2. QED
        BY <2>9, <3>1, TakeBackOK, RemovePrvOK, RemovePubOK
  <2>10. CASE Fails(x)
      BY <2>10, FailsOK
  <2>11. QED
      BY <1>1, <2>1, <2>2, <2>3, <2>4, <2>5, <2>6, <2>7, <2>8, <2>9, <2>10
<1>2. CASE UserKeys
    BY <1>2, UserKeysOK
<1>3. CASE UserRemovesPublic
    BY <1>3, UserRemovesPublicOK
<1>4. CASE UNCHANGED vars
    BY <1>4, StutterOK
<1>5. QED
    BY <1>1, <1>2, <1>3, <1>4 DEF Next

\* The invariant holds in every state.
THEOREM Invariant == Spec => []IInv
    BY InitOK, NextOK, PTL DEF Spec

\* Every variable has its type, whatever the commands, failures and acts of the user.
THEOREM TypeCorrect == Spec => []TypeOK
<1>1. IInv => TypeOK
    BY DEF IInv
<1>2. QED
    BY <1>1, Invariant, PTL

\* project_ssh_key.go, project_run.go: the key a command would connect with opens every
\* recorded container that runs, after any sequence of commands that succeeded, failed
\* or were killed between two writes.
THEOREM BothAgree == Spec => []BothSidesAgree
<1>1. IInv => BothSidesAgree
    BY DEF IInv, AgreeInv, BothSidesAgree
<1>2. QED
    BY <1>1, Invariant, PTL

\* project_share_key.go: a key that share installed is in the public file of its
\* project, where unshare reads it, at every moment it is installed.
THEOREM SharedRevocable == Spec => []SharedCanBeRevoked
<1>1. IInv => SharedCanBeRevoked
    BY DEF IInv, ShareInv, SharedCanBeRevoked, OfHost
<1>2. QED
    BY <1>1, Invariant, PTL

\* project_share.go: the private key that share hands out belongs to the key it has
\* installed.
THEOREM SharedWorks == Spec => []SharedKeyWorks
<1>1. IInv => SharedKeyWorks
    BY DEF IInv, WorkInv, SharedKeyWorks
<1>2. QED
    BY <1>1, Invariant, PTL
=============================================================================
