----------------------- MODULE ContainerService_proofs -----------------------
(***************************************************************************)
(* Proofs about ContainerService, for any number of handlers, names,       *)
(* projects and plans.  The inductive invariant says of every deployment   *)
(* that what the configuration asks for is either done in the container    *)
(* the deployment created or still a command in its list, as long as       *)
(* nobody else touched what it works on.  The proof has two sides: what a  *)
(* call does keeps the invariant of that call, and whatever others do is   *)
(* either recorded by the call as touching it or leaves alone what the     *)
(* invariant speaks of.                                                    *)
(***************************************************************************)
EXTENDS ContainerService, SequenceTheorems, TLAPS

(***************************************************************************)
(* The types.                                                              *)
(***************************************************************************)
AllUsers == Users \cup {Root}

Stored == Contents \cup {None}

Runs == [image : Images, ports : Ports]

Dos == {"mkdir", "initialize", "run", "ensure", "post", "ssh"}

Commands == [do : Dos, user : AllUsers, with : Runs \cup Stored]

\* A deployment is before its commands are known, or works on them, or is over.
Early == {"prepare", "upload", "init", "auth", "authFetch", "image", "build"}
Late == {"key", "keyFetch", "exec"}

Tags == {"container", "area"}

Deployments ==
    [op : {"deploy"}, id : Nat, plan : Plans, pc : Early \cup Late \cup {"end"},
     failedAt : FailPoints \cup {None},
     missing : SUBSET Ids, cmds : Seq(Commands), image : Images, key : Stored,
     fault : BOOLEAN, touched : SUBSET Tags, taken : BOOLEAN]

Removals == {r \in [op : {"delete"}, id : Nat, name : Names, project : Projects \cup {None},
                    pc : {"rm", "sweep", "end"}, touched : SUBSET Tags] :
                r.pc = "sweep" => r.project # None}

Views == Statuses \cup {"absent"}

Answers == UNION {[D -> {"running", "exited", "deleted"}] : D \in SUBSET Names}

Readings == [op : Reads, id : Nat, name : Names \cup {None}, project : {None},
             pc : {"inspect", "ps", "end"}, ports : SUBSET {"22/tcp", "other"},
             answer : Answers \cup {None}, seen : [Names -> SUBSET Views]]

CallStates == {Nobody} \cup Deployments \cup Removals \cup Readings

TypeOK ==
    /\ call \in [Calls -> CallStates]
    /\ staged \in [Projects -> [Ids -> Stored]]
    /\ auth \in Stored
    /\ image \in [Names -> Images]
    /\ podman \in [Names -> Containers \cup {None}]
    /\ calls \in 0 .. MaxCalls
    /\ faults \in 0 .. MaxFaults

(***************************************************************************)
(* Identities: calls and containers are told apart by the call number.     *)
(***************************************************************************)
Of(s, c) == podman[c] # None /\ podman[c].id = call[s].id

CallIds ==
    /\ \A s \in Calls : call[s].op # "none" => call[s].id \in 1 .. calls
    /\ \A s, t \in Calls :
          s # t /\ call[s].op # "none" /\ call[t].op # "none" => call[s].id # call[t].id

PodIds ==
    /\ \A c \in Names : podman[c] # None => podman[c].id \in 1 .. calls
    /\ \A c, d \in Names :
          c # d /\ podman[c] # None /\ podman[d] # None => podman[c].id # podman[d].id

IdInv == CallIds /\ PodIds

(***************************************************************************)
(* The list of commands: what a command may come before, what each one is, *)
(* and which are still in the list.                                        *)
(***************************************************************************)
Before(do, next) ==
    /\ next \in {"mkdir", "initialize", "run"} => do \in {"mkdir", "initialize"}
    /\ next = "ensure" => do # "post"

InOrder(q) == \A i, j \in DOMAIN q : i < j => Before(q[i].do, q[j].do)

CmdOK(cmd, cfg, key) ==
    /\ cmd.do = "run" => cmd.with \in Runs
    /\ cmd.do = "ensure" => cmd.user \in Users
    /\ cmd.do = "post" => cmd.user = cfg.containerUser
    /\ cmd.do = "ssh" => cmd.user = cfg.remoteUser /\ cmd.with = key /\ key # None

Has(q, do) == \E i \in DOMAIN q : q[i].do = do

Ensures(q, u) == \E i \in DOMAIN q : q[i].do = "ensure" /\ q[i].user = u

Configured(cfg) == {cfg.containerUser, cfg.remoteUser} \ {Root}

\* The commands of a deployment that created no container yet, or has the list of
\* what its container still lacks.
Awaits(s) == call[s].pc \in Early \/ (call[s].pc \in Late /\ Has(call[s].cmds, "run"))

Underway(s) == call[s].pc \in Late \/ (call[s].pc = "end" /\ call[s].failedAt = None)

ListInv(s) ==
    LET d == call[s]
        cfg == d.plan.config
    IN  /\ Awaits(s) => \A c \in Names : ~ Of(s, c)
        /\ d.pc \in Early \cup {"key", "keyFetch"} => d.key = None
        /\ d.pc = "end" /\ d.failedAt = None => d.cmds = <<>>
        /\ Underway(s) => InOrder(d.cmds) /\ \A i \in DOMAIN d.cmds : CmdOK(d.cmds[i], cfg, d.key)

UserDone(s, u) == ~ Awaits(s) /\ \A c \in Names : Of(s, c) => u \in podman[c].users

PostDone(s) == ~ Awaits(s) /\ \A c \in Names : Of(s, c) => podman[c].post

KeyDone(s, u, key) ==
    ~ Awaits(s) /\ \A c \in Names : Of(s, c) => <<u, key>> \in podman[c].keys

\* What is left to do is in the list, what is not in the list is done.
WorkInv(s) ==
    LET d == call[s]
        cfg == d.plan.config
    IN  "container" \notin d.touched =>
        /\ Awaits(s) /\ ~ d.taken => podman[d.plan.name] = None
        /\ d.pc \in Late /\ ~ Awaits(s) =>
              Of(s, d.plan.name) /\ podman[d.plan.name].status = "Up"
        /\ Underway(s) =>
              /\ \A u \in Configured(cfg) : Ensures(d.cmds, u) \/ UserDone(s, u)
              /\ cfg.post => Has(d.cmds, "post") \/ PostDone(s)
              /\ d.key # None => Has(d.cmds, "ssh") \/ KeyDone(s, cfg.remoteUser, d.key)

(***************************************************************************)
(* The staging area, as long as no other call changes it, holds what the   *)
(* client has staged, and the key read from it is the client's.            *)
(***************************************************************************)
IsStaged(s, i) ==
    Artifacts(call[s].plan)[i] # None =>
        staged[call[s].plan.project][i] = Artifacts(call[s].plan)[i]

Informed == {"init", "auth", "authFetch", "image", "build", "key", "keyFetch"}

AreaInv(s) ==
    LET d == call[s] IN
    "area" \notin d.touched =>
        /\ d.pc = "upload" => \A i \in Ids \ d.missing : IsStaged(s, i)
        /\ d.pc \in Informed => \A i \in Ids : IsStaged(s, i)
        /\ d.pc = "authFetch" => staged[d.plan.project]["authfile"] # None
        /\ d.pc = "exec" \/ (d.pc = "end" /\ d.failedAt = None) => d.key = d.plan.client.key

\* A deployment that goes on has not failed, and one that has failed has a cause.
HasCause(d) ==
    \/ d.fault \/ d.touched # {} \/ d.taken
    \/ d.plan.config.image = "none"
    \/ CollectFails(d.plan.config, d.plan.client)

CauseInv(s) ==
    LET d == call[s] IN
    /\ d.pc # "end" => d.failedAt = None /\ ~ CollectFails(d.plan.config, d.plan.client)
    /\ d.failedAt # None => HasCause(d)

(***************************************************************************)
(* A read that goes on has noted what every container shows now.           *)
(***************************************************************************)
WasTrue(status, seen) ==
    /\ status = "exited" => "Exited" \in seen
    /\ status = "deleted" => "absent" \in seen
    /\ status = "running" => seen \cap {"Up", "Created"} # {}

ReadInv(s) ==
    LET r == call[s] IN
    /\ r.op = "get" => r.name \in Names
    /\ r.pc # "end" => r.answer = None /\ \A c \in Names : Shown(podman[c]) \in r.seen[c]
    /\ r.answer # None => \A c \in DOMAIN r.answer : WasTrue(r.answer[c], r.seen[c])

DeployInv(s) == AreaInv(s) /\ CauseInv(s) /\ ListInv(s) /\ WorkInv(s)

CallInv(s) ==
    /\ call[s].op = "deploy" => DeployInv(s)
    /\ call[s].op \in Reads => ReadInv(s)

IInv == TypeOK /\ IdInv /\ \A s \in Calls : CallInv(s)

-----------------------------------------------------------------------------
(***************************************************************************)
(* Facts about single calls.                                               *)
(***************************************************************************)

\* The state of a handler is a record of the kind its operation says.
LEMMA StateKind ==
    ASSUME NEW r \in CallStates
    PROVE  /\ r.op \in {"none", "deploy", "delete"} \cup Reads
           /\ r.op = "none" => r = Nobody
           /\ r.op = "deploy" => r \in Deployments
           /\ r.op = "delete" => r \in Removals
           /\ r.op \in Reads => r \in Readings
<1>1. CASE r = Nobody
  BY <1>1 DEF Nobody, Reads
<1>2. CASE r \in Deployments
  BY <1>2 DEF Deployments, Reads
<1>3. CASE r \in Removals
  BY <1>3 DEF Removals, Reads
<1>4. CASE r \in Readings
  BY <1>4 DEF Readings, Reads
<1> QED
  BY <1>1, <1>2, <1>3, <1>4 DEF CallStates

LEMMA KindOf ==
    ASSUME TypeOK, NEW s \in Calls
    PROVE  /\ call[s].op \in {"none", "deploy", "delete"} \cup Reads
           /\ call[s].op = "none" => call[s] = Nobody
           /\ call[s].op = "deploy" => call[s] \in Deployments
           /\ call[s].op = "delete" => call[s] \in Removals
           /\ call[s].op \in Reads => call[s] \in Readings
<1>1. call[s] \in CallStates
  BY DEF TypeOK
<1> QED
  BY <1>1, StateKind

\* The order of the phases, one by one.
LEMMA AfterIs ==
    /\ After("prepare") = "upload" /\ After("upload") = "init" /\ After("init") = "auth"
    /\ After("auth") = "image" /\ After("image") = "key" /\ After("key") = "exec"
    /\ After("exec") = "end"
<1> DEFINE n == 8
<1>1. DOMAIN Phases = 1 .. n
  BY DEF Phases
<1>2. /\ Phases[1] = "prepare" /\ Phases[2] = "upload" /\ Phases[3] = "init"
      /\ Phases[4] = "auth" /\ Phases[5] = "image" /\ Phases[6] = "key"
      /\ Phases[7] = "exec" /\ Phases[8] = "end"
  BY DEF Phases
<1>3. ASSUME NEW k \in 1 .. 7
      PROVE  (CHOOSE i \in DOMAIN Phases : Phases[i] = Phases[k]) = k
  <2>1. \A i \in DOMAIN Phases : Phases[i] = Phases[k] <=> i = k
    BY <1>1, <1>2, <1>3
  <2>2. k \in DOMAIN Phases
    BY <1>1, <1>3
  <2>3. DEFINE P(i) == Phases[i] = Phases[k]
  <2>4. \E i \in DOMAIN Phases : P(i)
    BY <2>1, <2>2
  <2>5. P(CHOOSE i \in DOMAIN Phases : P(i)) /\ (CHOOSE i \in DOMAIN Phases : P(i)) \in DOMAIN Phases
    BY <2>4
  <2> QED
    BY <2>1, <2>5
<1>4. \A k \in 1 .. 7 : After(Phases[k]) = Phases[k + 1]
  BY <1>3 DEF After
<1> QED
  BY <1>2, <1>4

(***************************************************************************)
(* What a call that does not act notes of a step that may change the       *)
(* containers of X and the staging areas of P.                             *)
(***************************************************************************)
Noted(r, n, X, P) ==
    /\ n \in CallStates /\ n.op = r.op
    /\ r.op # "none" => n.id = r.id
    /\ r.op = "deploy" =>
          /\ n.plan = r.plan /\ n.pc = r.pc /\ n.failedAt = r.failedAt
          /\ n.cmds = r.cmds /\ n.key = r.key /\ n.fault = r.fault /\ n.taken = r.taken
          /\ n.missing = r.missing /\ r.touched \subseteq n.touched
          /\ r.pc # "end" /\ r.plan.name \in X => "container" \in n.touched
          /\ r.pc # "end" /\ r.plan.project \in P => "area" \in n.touched
    /\ r.op \in Reads =>
          /\ n.name = r.name /\ n.pc = r.pc /\ n.answer = r.answer
          /\ \A c \in Names : r.seen[c] \subseteq n.seen[c]
          /\ r.pc # "end" => \A c \in X \cap Names : Shown(podman'[c]) \in n.seen[c]

Saw(t, X, P) == Noted(call[t], call'[t], X, P)

Changes(X, P) ==
    /\ \A c \in Names \ X : podman'[c] = podman[c]
    /\ \A p \in Projects \ P : staged'[p] = staged[p]

\* The containers of call number i were there before, and have lost nothing.
Heirs(i) ==
    \A c \in Names : podman'[c] # None /\ podman'[c].id = i =>
        \E d \in Names : /\ podman[d] # None /\ podman[d].id = i
                         /\ podman[d].users \subseteq podman'[c].users
                         /\ podman[d].keys \subseteq podman'[c].keys
                         /\ podman[d].post => podman'[c].post

\* A call that does not act keeps its invariant.
LEMMA OthersOK ==
    ASSUME IInv, NEW t \in Calls, NEW X, NEW P, Saw(t, X, P), Changes(X, P),
           call[t].op = "deploy" => Heirs(call[t].id)
    PROVE  CallInv(t)'
<1>1. TypeOK /\ CallInv(t)
  BY DEF IInv
<1>2. ASSUME call[t].op = "deploy" PROVE DeployInv(t)'
  <2>1. DeployInv(t) /\ call[t] \in Deployments
    BY <1>1, <1>2, KindOf DEF CallInv
  <2>2. /\ call'[t].plan = call[t].plan /\ call'[t].pc = call[t].pc
        /\ call'[t].failedAt = call[t].failedAt
        /\ call'[t].cmds = call[t].cmds /\ call'[t].key = call[t].key
        /\ call'[t].fault = call[t].fault /\ call'[t].taken = call[t].taken
        /\ call'[t].missing = call[t].missing /\ call[t].touched \subseteq call'[t].touched
        /\ call'[t].id = call[t].id
    BY <1>2 DEF Saw, Noted
  <2>3. call[t].plan.name \in Names /\ call[t].plan.project \in Projects
    BY <2>1, PlansAssumption DEF Deployments
  <2>4. call[t].pc # "end" /\ "container" \notin call'[t].touched =>
            podman'[call[t].plan.name] = podman[call[t].plan.name]
    BY <1>2, <2>3 DEF Saw, Noted, Changes
  <2>5. call[t].pc # "end" /\ "area" \notin call'[t].touched =>
            staged'[call[t].plan.project] = staged[call[t].plan.project]
    BY <1>2, <2>3 DEF Saw, Noted, Changes
  <2>6. Awaits(t)' = Awaits(t) /\ Underway(t)' = Underway(t)
    BY <2>2 DEF Awaits, Underway
  <2>7. \A c \in Names : Of(t, c)' =>
            \E d \in Names : /\ Of(t, d) /\ podman[d].users \subseteq podman'[c].users
                             /\ podman[d].keys \subseteq podman'[c].keys
                             /\ podman[d].post => podman'[c].post
    BY <1>2, <2>2 DEF Heirs, Of
  <2>8. AreaInv(t)'
    BY <2>1, <2>2, <2>5 DEF DeployInv, AreaInv, IsStaged, Informed
  <2>9. CauseInv(t)'
    BY <2>1, <2>2 DEF DeployInv, CauseInv, HasCause
  <2>10. ListInv(t)'
    BY <2>1, <2>2, <2>6, <2>7 DEF DeployInv, ListInv
  <2>11. WorkInv(t)'
    <3>1. SUFFICES ASSUME "container" \notin call'[t].touched PROVE WorkInv(t)'
      BY DEF WorkInv
    <3>2. "container" \notin call[t].touched
      BY <2>2, <3>1
    <3>3. \A u \in Configured(call[t].plan.config) : UserDone(t, u) => UserDone(t, u)'
      BY <2>6, <2>7 DEF UserDone
    <3>4. PostDone(t) => PostDone(t)'
      BY <2>6, <2>7 DEF PostDone
    <3>5. KeyDone(t, call[t].plan.config.remoteUser, call[t].key) =>
            (~ Awaits(t)' /\ \A c \in Names : Of(t, c)' =>
                <<call[t].plan.config.remoteUser, call[t].key>> \in podman'[c].keys)
      BY <2>6, <2>7 DEF KeyDone
    <3>6. Awaits(t) => call[t].pc # "end"
      BY DEF Awaits, Early, Late
    <3>7. call[t].pc \in Late => call[t].pc # "end"
      BY DEF Late
    <3>8. call[t].pc # "end" => Of(t, call[t].plan.name)' = Of(t, call[t].plan.name)
      BY <2>2, <2>4, <3>1 DEF Of
    <3>9. /\ Awaits(t) /\ ~ call[t].taken => podman'[call[t].plan.name] = None
          /\ call[t].pc \in Late /\ ~ Awaits(t) =>
                Of(t, call[t].plan.name)' /\ podman'[call[t].plan.name].status = "Up"
      BY <2>1, <2>4, <3>1, <3>2, <3>6, <3>7, <3>8 DEF DeployInv, WorkInv
    <3> QED
      BY <2>1, <2>2, <2>6, <3>2, <3>3, <3>4, <3>5, <3>9 DEF DeployInv, WorkInv, KeyDone, Of
  <2> QED
    BY <2>8, <2>9, <2>10, <2>11 DEF DeployInv
<1>3. ASSUME call[t].op \in Reads PROVE ReadInv(t)'
  <2>1. ReadInv(t) /\ call[t] \in Readings
    BY <1>1, <1>3, KindOf DEF CallInv
  <2>2. /\ call'[t].op = call[t].op /\ call'[t].name = call[t].name
        /\ call'[t].pc = call[t].pc /\ call'[t].answer = call[t].answer
        /\ \A c \in Names : call[t].seen[c] \subseteq call'[t].seen[c]
        /\ call[t].pc # "end" =>
              \A c \in X \cap Names : Shown(podman'[c]) \in call'[t].seen[c]
    BY <1>3 DEF Saw, Noted
  <2>3. \A c \in Names : call[t].pc # "end" => Shown(podman'[c]) \in call'[t].seen[c]
    BY <2>1, <2>2 DEF ReadInv, Changes
  <2>4. call[t].answer # None => DOMAIN call[t].answer \subseteq Names
    BY <2>1 DEF Readings, Answers
  <2>5. call'[t].answer # None =>
            \A c \in DOMAIN call'[t].answer : WasTrue(call'[t].answer[c], call'[t].seen[c])
    BY <2>1, <2>2, <2>4 DEF ReadInv, WasTrue
  <2> QED
    BY <2>1, <2>2, <2>3, <2>5 DEF ReadInv
<1> QED
  BY <1>2, <1>3 DEF CallInv, Saw, Noted

-----------------------------------------------------------------------------
(***************************************************************************)
(* Steps of one call.                                                      *)
(***************************************************************************)

\* A call that stays as it is has seen a step that changes nothing.
LEMMA SawSame ==
    ASSUME TypeOK, NEW t \in Calls, call'[t] = call[t]
    PROVE  Saw(t, {}, {})
BY DEF TypeOK, Saw, Noted

\* A witness notes the container c and the area of p.
LEMMA WitnessNotes ==
    ASSUME NEW r \in CallStates, NEW c \in Names \cup {None}, NEW p \in Projects \cup {None},
           podman' \in [Names -> Containers \cup {None}]
    PROVE  Noted(r, Witness(r, c, p), {c}, {p})
<1> DEFINE n == Witness(r, c, p)
<1>1. CASE r.op = "none" \/ r.pc = "end"
  <2>1. n = r /\ r \in CallStates
    BY <1>1 DEF Witness
  <2> QED
    BY <1>1, <2>1, StateKind DEF Noted, Reads
<1>2. CASE ~ (r.op = "none" \/ r.pc = "end") /\ r.op = "deploy"
  <2> DEFINE T == r.touched \cup (IF r.plan.name = c THEN {"container"} ELSE {})
                            \cup (IF r.plan.project = p THEN {"area"} ELSE {})
  <2>1. r \in Deployments
    BY <1>2, StateKind
  <2>2. n = [r EXCEPT !.touched = T]
    BY <1>2 DEF Witness, Name, Project, Reads
  <2>3. T \in SUBSET Tags
    BY <2>1 DEF Deployments, Tags
  <2> HIDE DEF T
  <2>4. n \in Deployments
    BY <2>1, <2>2, <2>3 DEF Deployments
  <2>5. /\ n.op = r.op /\ n.id = r.id /\ n.plan = r.plan /\ n.pc = r.pc /\ n.failedAt = r.failedAt
        /\ n.cmds = r.cmds /\ n.key = r.key /\ n.fault = r.fault /\ n.taken = r.taken
        /\ n.missing = r.missing /\ n.touched = T
    BY <2>1, <2>2 DEF Deployments
  <2>6. /\ r.touched \subseteq T
        /\ r.plan.name = c => "container" \in T
        /\ r.plan.project = p => "area" \in T
    BY DEF T
  <2>7. n \in CallStates /\ r.op = "deploy" /\ r.op \notin Reads
    BY <1>2, <2>4 DEF CallStates, Reads
  <2> HIDE DEF n
  <2> QED
    BY <2>5, <2>6, <2>7 DEF Noted, n
<1>3. CASE ~ (r.op = "none" \/ r.pc = "end") /\ r.op = "delete"
  <2> DEFINE T == r.touched \cup (IF Name(r) = c THEN {"container"} ELSE {})
                            \cup (IF Project(r) = p THEN {"area"} ELSE {})
  <2>1. r \in Removals
    BY <1>3, StateKind
  <2>2. n = [r EXCEPT !.touched = T]
    BY <1>3 DEF Witness, Reads
  <2>3. T \in SUBSET Tags
    BY <2>1 DEF Removals, Tags
  <2> HIDE DEF T
  <2>4. n \in Removals /\ n.op = r.op /\ n.id = r.id
    BY <2>1, <2>2, <2>3 DEF Removals
  <2> QED
    BY <1>3, <2>4 DEF Noted, CallStates, Reads
<1>4. CASE ~ (r.op = "none" \/ r.pc = "end") /\ r.op \in Reads /\ c = None
  <2>1. n = r /\ r \in CallStates /\ {c} \cap Names = {}
    BY <1>4, NoneAssumption DEF Witness
  <2> QED
    BY <1>4, <2>1 DEF Noted, Reads
<1>5. CASE ~ (r.op = "none" \/ r.pc = "end") /\ r.op \in Reads /\ c \in Names
  <2>0. c # None
    BY <1>5, NoneAssumption
  <2> DEFINE v == Shown(podman'[c])
             seen == [r.seen EXCEPT ![c] = @ \cup {v}]
  <2>1. r \in Readings
    BY <1>5, StateKind
  <2>2. n = [r EXCEPT !.seen = seen]
    BY <1>5, <2>0 DEF Witness
  <2>3. v \in Views
    BY <1>5 DEF Shown, Views, Containers
  <2>4. seen \in [Names -> SUBSET Views] /\ v \in seen[c] /\ \A x \in Names : r.seen[x] \subseteq seen[x]
    BY <1>5, <2>1, <2>3 DEF Readings
  <2> HIDE DEF seen, v
  <2>5. n \in Readings /\ n.op = r.op /\ n.id = r.id
        /\ n.name = r.name /\ n.pc = r.pc /\ n.answer = r.answer /\ n.seen = seen
    BY <2>1, <2>2, <2>4 DEF Readings
  <2>6. \A x \in {c} \cap Names : Shown(podman'[x]) = v
    BY DEF v
  <2> QED
    BY <1>5, <2>4, <2>5, <2>6 DEF Noted, CallStates, Reads
<1> QED
  BY <1>1, <1>2, <1>3, <1>4, <1>5, StateKind

LEMMA SawWitness ==
    ASSUME TypeOK, NEW t \in Calls, NEW c \in Names \cup {None}, NEW p \in Projects \cup {None},
           call'[t] = Witness(call[t], c, p), podman' \in [Names -> Containers \cup {None}]
    PROVE  Saw(t, {c}, {p})
<1>1. call[t] \in CallStates
  BY DEF TypeOK
<1> QED
  BY <1>1, WitnessNotes DEF Saw

\* Two notes of the same step.
LEMMA NotedTwice ==
    ASSUME NEW r, NEW m, NEW n, NEW X, NEW Y, NEW P, NEW Q,
           Noted(r, m, X, P), Noted(m, n, Y, Q)
    PROVE  Noted(r, n, X \cup Y, P \cup Q)
BY DEF Noted

\* The state of every call but s, when s alone moves and writes no container and no
\* area.
LEMMA MoveOK ==
    ASSUME IInv, NEW s \in Calls, NEW r \in CallStates, Move(s, r),
           r.op = call[s].op, r.op # "none", r.id = call[s].id,
           UNCHANGED <<staged, podman, calls>>,
           auth' \in Stored, image' \in [Names -> Images], faults' \in 0 .. MaxFaults,
           r.op = "deploy" => DeployInv(s)', r.op \in Reads => ReadInv(s)'
    PROVE  IInv'
<1>1. TypeOK /\ IdInv
  BY DEF IInv
<1>2. call'[s] = r /\ \A t \in Calls : t # s => call'[t] = call[t]
  BY <1>1 DEF Move, TypeOK
<1>3. TypeOK'
  BY <1>1, <1>2 DEF Move, TypeOK
<1>4. \A t \in Calls : call'[t].op = call[t].op /\ (call[t].op # "none" => call'[t].id = call[t].id)
  BY <1>2
<1>5. IdInv'
  BY <1>1, <1>4 DEF IdInv, CallIds, PodIds
<1>6. ASSUME NEW t \in Calls, t # s PROVE CallInv(t)'
  <2>1. Saw(t, {}, {})
    BY <1>1, <1>2, <1>6, SawSame
  <2>2. Changes({}, {}) /\ Heirs(call[t].id)
    BY DEF Changes, Heirs
  <2> QED
    BY <2>1, <2>2, OthersOK
<1>7. CallInv(s)'
  BY <1>2 DEF CallInv
<1> QED
  BY <1>3, <1>5, <1>6, <1>7 DEF IInv

\* A deployment that is over with a cause for its failure is in order.
LEMMA OverOK ==
    ASSUME NEW s \in Calls, call'[s].pc = "end", call'[s].failedAt # None, HasCause(call'[s])
    PROVE  DeployInv(s)'
BY DEF DeployInv, AreaInv, CauseInv, ListInv, WorkInv, Awaits, Underway, Informed, Early, Late

\* What a deployment is that fails.
LEMMA FailAtIs ==
    ASSUME TypeOK, NEW s \in Calls, call[s].op = "deploy",
           NEW pc \in FailPoints, NEW f \in BOOLEAN
    PROVE  LET r == FailAt(s, pc, f) IN
           /\ r \in Deployments /\ r.op = "deploy" /\ r.id = call[s].id /\ r.pc = "end"
           /\ r.failedAt = pc /\ r.failedAt # None /\ r.plan = call[s].plan
           /\ f \/ HasCause(call[s]) => HasCause(r)
<1> DEFINE r == FailAt(s, pc, f)
<1>1. call[s] \in Deployments
  BY KindOf
<1>2. /\ r \in Deployments /\ r.op = "deploy" /\ r.id = call[s].id /\ r.pc = "end"
      /\ r.failedAt = pc /\ r.plan = call[s].plan /\ r.fault = (call[s].fault \/ f)
      /\ r.touched = call[s].touched /\ r.taken = call[s].taken
  BY <1>1 DEF FailAt, Deployments
<1>3. pc # None
  BY NoneAssumption
<1> QED
  BY <1>2, <1>3 DEF HasCause

\* A deployment that fails, of a fault or with a cause, and changes nothing.
LEMMA FailsOK ==
    ASSUME IInv, NEW s \in Calls, call[s].op = "deploy",
           NEW pc \in FailPoints, NEW f \in BOOLEAN, f \/ HasCause(call[s]),
           Move(s, FailAt(s, pc, f)),
           UNCHANGED <<staged, auth, image, podman, calls>>, faults' \in 0 .. MaxFaults
    PROVE  IInv'
<1> DEFINE r == FailAt(s, pc, f)
<1>1. /\ r \in CallStates /\ r.op = "deploy" /\ r.id = call[s].id /\ r.pc = "end"
      /\ r.failedAt # None /\ HasCause(r)
  BY FailAtIs DEF IInv, CallStates
<1>2. call'[s] = r
  BY DEF IInv, TypeOK, Move
<1>3. DeployInv(s)'
  BY <1>1, <1>2, OverOK
<1>4. auth' \in Stored /\ image' \in [Names -> Images]
  BY DEF IInv, TypeOK
<1> HIDE DEF r
<1> QED
  BY <1>1, <1>3, <1>4, MoveOK DEF r, Reads

-----------------------------------------------------------------------------
(***************************************************************************)
(* Lists of commands.                                                      *)
(***************************************************************************)

\* Executing the first command of a list leaves the rest, in order.
LEMMA TailList ==
    ASSUME NEW q \in Seq(Commands), q # <<>>
    PROVE  /\ Head(q) \in Commands /\ Tail(q) \in Seq(Commands)
           /\ \E i \in DOMAIN q : q[i] = Head(q)
           /\ \A i \in DOMAIN Tail(q) : \E j \in DOMAIN q : Tail(q)[i] = q[j]
           /\ \A do : Has(q, do) <=> Head(q).do = do \/ Has(Tail(q), do)
           /\ \A u : Ensures(q, u) <=> \/ Head(q).do = "ensure" /\ Head(q).user = u
                                       \/ Ensures(Tail(q), u)
           /\ InOrder(q) => /\ InOrder(Tail(q))
                            /\ \A i \in DOMAIN Tail(q) : Before(Head(q).do, Tail(q)[i].do)
<1> DEFINE r == Tail(q)
           n == Len(q)
<1>1. /\ Head(q) \in Commands /\ r \in Seq(Commands) /\ Len(r) = n - 1
      /\ \A i \in 1 .. Len(r) : r[i] = q[i + 1]
  BY HeadTailProperties
<1>2. /\ n \in Nat \ {0} /\ DOMAIN q = 1 .. n /\ DOMAIN r = 1 .. n - 1 /\ Head(q) = q[1]
  BY <1>1
<1> HIDE DEF r, n
<1>3. \A i \in DOMAIN r : i + 1 \in DOMAIN q /\ r[i] = q[i + 1]
  BY <1>1, <1>2
<1>4. 1 \in DOMAIN q /\ \A j \in DOMAIN q : j = 1 \/ (j - 1 \in DOMAIN r /\ q[j] = r[j - 1])
  <2>1. \A j \in DOMAIN q : j # 1 => j - 1 \in DOMAIN r /\ (j - 1) + 1 = j
    BY <1>2
  <2> QED
    BY <1>2, <1>3, <2>1
<1>5. \A do : Has(q, do) <=> Head(q).do = do \/ Has(r, do)
  BY <1>2, <1>3, <1>4 DEF Has
<1>6. \A u : Ensures(q, u) <=> (Head(q).do = "ensure" /\ Head(q).user = u) \/ Ensures(r, u)
  BY <1>2, <1>3, <1>4 DEF Ensures
<1>7. ASSUME InOrder(q)
      PROVE  InOrder(r) /\ \A i \in DOMAIN r : Before(Head(q).do, r[i].do)
  <2>1. ASSUME NEW i \in DOMAIN r, NEW j \in DOMAIN r, i < j
        PROVE  Before(r[i].do, r[j].do)
    <3>1. i + 1 \in DOMAIN q /\ j + 1 \in DOMAIN q /\ i + 1 < j + 1
      BY <1>2, <2>1
    <3> QED
      BY <1>3, <1>7, <3>1 DEF InOrder
  <2>2. ASSUME NEW i \in DOMAIN r
        PROVE  Before(Head(q).do, r[i].do)
    <3>1. 1 < i + 1 /\ i + 1 \in DOMAIN q
      BY <1>2, <1>3, <2>2
    <3> QED
      BY <1>2, <1>3, <1>4, <1>7, <3>1 DEF InOrder
  <2> QED
    BY <2>1, <2>2 DEF InOrder
<1> QED
  BY <1>1, <1>2, <1>3, <1>4, <1>5, <1>6, <1>7 DEF r

\* Two lists put together.
LEMMA ConcatList ==
    ASSUME NEW q \in Seq(Commands), NEW r \in Seq(Commands)
    PROVE  /\ q \o r \in Seq(Commands)
           /\ \A i \in DOMAIN (q \o r) : \/ \E j \in DOMAIN q : (q \o r)[i] = q[j]
                                         \/ \E j \in DOMAIN r : (q \o r)[i] = r[j]
           /\ \A do : Has(q \o r, do) <=> Has(q, do) \/ Has(r, do)
           /\ \A u : Ensures(q \o r, u) <=> Ensures(q, u) \/ Ensures(r, u)
           /\ /\ InOrder(q) /\ InOrder(r)
              /\ \A i \in DOMAIN q, j \in DOMAIN r : Before(q[i].do, r[j].do)
              => InOrder(q \o r)
<1> DEFINE z == q \o r
           m == Len(q)
           n == Len(r)
<1>1. /\ z \in Seq(Commands) /\ Len(z) = m + n
      /\ \A i \in 1 .. m + n : z[i] = IF i <= m THEN q[i] ELSE r[i - m]
  BY ConcatProperties
<1>2. /\ m \in Nat /\ n \in Nat /\ DOMAIN q = 1 .. m /\ DOMAIN r = 1 .. n /\ DOMAIN z = 1 .. m + n
  BY <1>1
<1> HIDE DEF z, m, n
<1>3. \A i \in DOMAIN z : \/ i <= m /\ i \in DOMAIN q /\ z[i] = q[i]
                          \/ i > m /\ i - m \in DOMAIN r /\ z[i] = r[i - m]
  BY <1>1, <1>2
<1>4. \A i \in DOMAIN q : i \in DOMAIN z /\ z[i] = q[i]
  BY <1>1, <1>2
<1>5. \A i \in DOMAIN r : i + m \in DOMAIN z /\ z[i + m] = r[i]
  <2>1. \A i \in DOMAIN r : i + m \in 1 .. m + n /\ ~ (i + m <= m) /\ (i + m) - m = i
    BY <1>2
  <2> QED
    BY <1>1, <1>2, <2>1
<1>6. \A do : Has(z, do) <=> Has(q, do) \/ Has(r, do)
  BY <1>3, <1>4, <1>5 DEF Has
<1>7. \A u : Ensures(z, u) <=> Ensures(q, u) \/ Ensures(r, u)
  BY <1>3, <1>4, <1>5 DEF Ensures
<1>8. ASSUME InOrder(q), InOrder(r),
             \A i \in DOMAIN q, j \in DOMAIN r : Before(q[i].do, r[j].do)
      PROVE  InOrder(z)
  <2>1. SUFFICES ASSUME NEW i \in DOMAIN z, NEW j \in DOMAIN z, i < j
                 PROVE  Before(z[i].do, z[j].do)
    BY DEF InOrder
  <2>2. CASE j <= m
    <3>1. i \in DOMAIN q /\ z[i] = q[i] /\ j \in DOMAIN q /\ z[j] = q[j]
      BY <1>2, <1>3, <2>1, <2>2
    <3> QED
      BY <1>8, <2>1, <3>1 DEF InOrder
  <2>3. CASE i > m
    <3>1. i - m \in DOMAIN r /\ z[i] = r[i - m] /\ j - m \in DOMAIN r /\ z[j] = r[j - m]
          /\ i - m < j - m
      BY <1>2, <1>3, <2>1, <2>3
    <3> QED
      BY <1>8, <3>1 DEF InOrder
  <2>4. CASE i <= m /\ j > m
    <3>1. i \in DOMAIN q /\ z[i] = q[i] /\ j - m \in DOMAIN r /\ z[j] = r[j - m]
      BY <1>2, <1>3, <2>1, <2>4
    <3> QED
      BY <1>8, <3>1
  <2> QED
    BY <1>2, <2>1, <2>2, <2>3, <2>4
<1> QED
  BY <1>1, <1>3, <1>6, <1>7, <1>8 DEF z

\* A list of one command, and the empty list.
LEMMA OneCommand ==
    ASSUME NEW do \in Dos, NEW u \in AllUsers, NEW w \in Runs \cup Stored,
           NEW q, q = <<Cmd(do, u, w)>>
    PROVE  /\ q \in Seq(Commands) /\ InOrder(q) /\ Has(q, do)
           /\ \A i \in DOMAIN q : q[i].do = do /\ q[i].user = u /\ q[i].with = w
<1> DEFINE c == Cmd(do, u, w)
<1>1. c \in Commands /\ c.do = do /\ c.user = u /\ c.with = w
  BY DEF Cmd, Commands
<1> HIDE DEF c
<1>2. q = <<c>>
  BY DEF c
<1>3. q \in Seq(Commands) /\ DOMAIN q = {1} /\ q[1] = c
  BY <1>1, <1>2
<1> QED
  BY <1>1, <1>3 DEF InOrder, Has

LEMMA NoCommand == <<>> \in Seq(Commands) /\ InOrder(<<>>) /\ DOMAIN <<>> = {}
BY DEF InOrder

\* The users to create: those configured, but for root, each once.
LEMMA UsersList ==
    ASSUME NEW cfg \in Configs
    PROVE  LET e == ensureConfiguredUsers(cfg) IN
           /\ e \in Seq(Commands)
           /\ \A i \in DOMAIN e : e[i].do = "ensure" /\ e[i].user \in Users
           /\ \A u \in Configured(cfg) : Ensures(e, u)
<1> DEFINE e == ensureConfiguredUsers(cfg)
           us == uniqueNonRootUsers(cfg.containerUser, cfg.remoteUser)
           a == cfg.containerUser
           b == cfg.remoteUser
<1>1. a \in AllUsers /\ b \in AllUsers
  BY DEF Configs, AllUsers
<1>2. /\ us \in Seq(Users)
      /\ \A u \in Configured(cfg) : \E i \in DOMAIN us : us[i] = u
  <2> HIDE DEF us, a, b
  <2>0. /\ us = (IF a = Root THEN <<>> ELSE <<a>>) \o (IF b = Root \/ b = a THEN <<>> ELSE <<b>>)
        /\ Configured(cfg) = {a, b} \ {Root}
    BY DEF us, a, b, uniqueNonRootUsers, Configured
  <2>1. CASE a = Root /\ b = Root
    <3>1. us = <<>> /\ Configured(cfg) = {}
      BY <2>0, <2>1, ConcatEmptySeq
    <3> QED
      BY <3>1
  <2>2. CASE a = Root /\ b # Root
    <3>1. us = <<b>> /\ Configured(cfg) = {b} /\ b \in Users
      BY <1>1, <2>0, <2>2, ConcatEmptySeq DEF AllUsers
    <3> QED
      BY <3>1
  <2>3. CASE a # Root /\ (b = Root \/ b = a)
    <3>1. a \in Users /\ <<a>> \in Seq(Users) /\ Configured(cfg) = {a}
      BY <1>1, <2>0, <2>3 DEF AllUsers
    <3>2. us = <<a>>
      BY <2>0, <2>3, <3>1, ConcatEmptySeq
    <3> QED
      BY <3>1, <3>2
  <2>4. CASE a # Root /\ b # Root /\ b # a
    <3>1. /\ a \in Users /\ <<a>> \in Seq(Users) /\ b \in Users /\ <<b>> \in Seq(Users)
          /\ Configured(cfg) = {a, b} /\ us = <<a>> \o <<b>>
      BY <1>1, <2>0, <2>4 DEF AllUsers
    <3>2. us \in Seq(Users) /\ Len(us) = 2 /\ us[1] = a /\ us[2] = b
      BY <3>1, ConcatProperties
    <3>3. 1 \in DOMAIN us /\ 2 \in DOMAIN us
      BY <3>2
    <3> QED
      BY <3>1, <3>2, <3>3
  <2> QED
    BY <2>1, <2>2, <2>3, <2>4
<1> HIDE DEF us, e
<1>3. e = [k \in DOMAIN us |-> Cmd("ensure", us[k], None)]
  BY DEF ensureConfiguredUsers, us, e
<1>4. \A k \in DOMAIN us : us[k] \in Users
  BY <1>2
<1>5. \A u \in Users : Cmd("ensure", u, None) \in Commands
  BY DEF Cmd, Commands, Dos, AllUsers, Stored
<1>6. e \in Seq(Commands)
  <2>1. DOMAIN us = 1 .. Len(us) /\ Len(us) \in Nat
    BY <1>2
  <2> QED
    BY <1>3, <1>4, <1>5, <2>1, IsASeq
<1>7. \A i \in DOMAIN e : e[i].do = "ensure" /\ e[i].user \in Users
  BY <1>3, <1>4 DEF Cmd
<1>8. \A u \in Configured(cfg) : Ensures(e, u)
  BY <1>2, <1>3 DEF Ensures, Cmd
<1> QED
  BY <1>6, <1>7, <1>8 DEF e

\* What a deployment has to do, in an order in which every command finds what it
\* needs: the container runs before anything is done in it, and its users exist
\* before the post-create command.
LEMMA BuiltList ==
    ASSUME NEW cfg \in Configs, NEW img \in Images
    PROVE  LET q == BuildCommands(cfg, img) IN
           /\ q \in Seq(Commands) /\ InOrder(q) /\ Has(q, "run")
           /\ \A u \in Configured(cfg) : Ensures(q, u)
           /\ cfg.post => Has(q, "post")
           /\ \A key : \A i \in DOMAIN q : CmdOK(q[i], cfg, key)
<1> DEFINE mk == <<Cmd("mkdir", Root, None)>>
           init == IF cfg.initialize THEN <<Cmd("initialize", Root, None)>> ELSE <<>>
           pre == preContainerRun(cfg)
           run == containerRun(cfg, img)
           ens == ensureConfiguredUsers(cfg)
           post == postContainerRun(cfg)
           q1 == pre \o run
           q2 == q1 \o ens
           q == BuildCommands(cfg, img)
           Are(r, D) == \A i \in DOMAIN r : r[i].do \in D
<1>1. /\ cfg.containerUser \in AllUsers /\ cfg.remoteUser \in AllUsers /\ Root \in AllUsers
      /\ cfg.appPorts \in 0 .. 2 /\ cfg.exposed \in {"none", "before", "after"}
      /\ None \in Runs \cup Stored /\ q = q2 \o post
  BY DEF Configs, AllUsers, Stored, BuildCommands
<1>2. mk \in Seq(Commands) /\ InOrder(mk) /\ Are(mk, {"mkdir"})
  BY <1>1, OneCommand DEF Dos
<1>3. init \in Seq(Commands) /\ InOrder(init) /\ Are(init, {"initialize"})
  BY <1>1, OneCommand, NoCommand DEF Dos
<1>4. pre \in Seq(Commands) /\ InOrder(pre) /\ Are(pre, {"mkdir", "initialize"})
  <2>1. \A i \in DOMAIN mk, j \in DOMAIN init : Before(mk[i].do, init[j].do)
    BY <1>2, <1>3 DEF Before
  <2>2. pre = mk \o init
    BY DEF preContainerRun
  <2> HIDE DEF mk, init, pre
  <2> QED
    BY <1>2, <1>3, <2>1, <2>2, ConcatList
<1>5. /\ run \in Seq(Commands) /\ InOrder(run) /\ Are(run, {"run"}) /\ Has(run, "run")
      /\ \A i \in DOMAIN run : run[i].with \in Runs
  <2> DEFINE Entry == [port : {"22/tcp", "other"}, hosts : 0 .. 2]
             x == [port |-> "22/tcp", hosts |-> publishedSsh(cfg)]
             y == [port |-> "other", hosts |-> 0]
             ports == CASE cfg.exposed = "none" -> <<x>>
                        [] cfg.exposed = "before" -> <<y>> \o <<x>>
                        [] cfg.exposed = "after" -> <<x>> \o <<y>>
             w == [image |-> img, ports |-> ports]
  <2>1. x \in Entry /\ y \in Entry
    BY <1>1 DEF publishedSsh
  <2> HIDE DEF x, y, Entry
  <2>2. <<x>> \in Seq(Entry) /\ <<y>> \in Seq(Entry)
    BY <2>1
  <2>3. <<y>> \o <<x>> \in Seq(Entry) /\ <<x>> \o <<y>> \in Seq(Entry)
    BY <2>2, ConcatProperties
  <2>4. ports \in Ports
    BY <1>1, <2>2, <2>3 DEF Ports, Entry
  <2>5. run = <<Cmd("run", Root, w)>>
    BY DEF containerRun, x, y
  <2> HIDE DEF ports
  <2>6. w \in Runs
    BY <2>4 DEF Runs
  <2> HIDE DEF w, run
  <2> QED
    BY <1>1, <2>5, <2>6, OneCommand DEF Dos, Has
<1>6. /\ ens \in Seq(Commands) /\ Are(ens, {"ensure"})
      /\ \A i \in DOMAIN ens : ens[i].user \in Users
      /\ \A u \in Configured(cfg) : Ensures(ens, u)
  BY UsersList
<1>7. /\ post \in Seq(Commands) /\ InOrder(post) /\ Are(post, {"post"})
      /\ \A i \in DOMAIN post : post[i].user = cfg.containerUser
      /\ cfg.post => Has(post, "post")
  <2>1. CASE cfg.post
    <3>1. post = <<Cmd("post", cfg.containerUser, None)>>
      BY <2>1 DEF postContainerRun
    <3> HIDE DEF post
    <3> QED
      BY <1>1, <3>1, OneCommand DEF Dos, Has
  <2>2. CASE ~ cfg.post
    BY <2>2, NoCommand DEF postContainerRun
  <2> QED
    BY <2>1, <2>2
<1> HIDE DEF pre, run, ens, post, q
<1>8. /\ q1 \in Seq(Commands) /\ InOrder(q1) /\ Are(q1, {"mkdir", "initialize", "run"})
      /\ Has(q1, "run") /\ \A i \in DOMAIN q1 : q1[i].do = "run" => q1[i].with \in Runs
  <2>1. \A i \in DOMAIN pre, j \in DOMAIN run : Before(pre[i].do, run[j].do)
    BY <1>4, <1>5 DEF Before
  <2> QED
    BY <1>4, <1>5, <2>1, ConcatList
<1>9. InOrder(ens)
  BY <1>6 DEF InOrder, Before
<1> HIDE DEF q1
<1>10. /\ q2 \in Seq(Commands) /\ InOrder(q2) /\ Are(q2, {"mkdir", "initialize", "run", "ensure"})
       /\ Has(q2, "run") /\ \A u \in Configured(cfg) : Ensures(q2, u)
       /\ \A i \in DOMAIN q2 : /\ q2[i].do = "run" => q2[i].with \in Runs
                               /\ q2[i].do = "ensure" => q2[i].user \in Users
  <2>1. \A i \in DOMAIN q1, j \in DOMAIN ens : Before(q1[i].do, ens[j].do)
    BY <1>6, <1>8 DEF Before
  <2> QED
    BY <1>6, <1>8, <1>9, <2>1, ConcatList
<1> HIDE DEF q2
<1>11. \A i \in DOMAIN q2, j \in DOMAIN post : Before(q2[i].do, post[j].do)
  BY <1>7, <1>10 DEF Before
<1>12. /\ q \in Seq(Commands) /\ InOrder(q) /\ Has(q, "run")
       /\ \A u \in Configured(cfg) : Ensures(q, u)
       /\ cfg.post => Has(q, "post")
  BY <1>1, <1>7, <1>10, <1>11, ConcatList
<1>13. \A i \in DOMAIN q : \/ \E j \in DOMAIN q2 : q[i] = q2[j]
                           \/ \E j \in DOMAIN post : q[i] = post[j]
  BY <1>1, <1>7, <1>10, ConcatList
<1>14. \A key : \A i \in DOMAIN q : CmdOK(q[i], cfg, key)
  BY <1>7, <1>10, <1>13 DEF CmdOK
<1> QED
  BY <1>12, <1>14 DEF q

-----------------------------------------------------------------------------
(***************************************************************************)
(* The steps of a deployment that lead to its list of commands.            *)
(***************************************************************************)

\* What is known of a deployment and of its plan.
LEMMA DeployIs ==
    ASSUME IInv, NEW s \in Calls, call[s].op = "deploy"
    PROVE  /\ TypeOK /\ IdInv /\ call[s] \in Deployments /\ DeployInv(s)
           /\ call[s].plan.name \in Names /\ call[s].plan.project \in Projects
           /\ call[s].plan.config \in Configs /\ call[s].plan.client \in Clients
           /\ \A i \in Ids : Artifacts(call[s].plan)[i] \in Stored
           /\ Artifacts(call[s].plan)["pubkey"] = call[s].plan.client.key
           /\ call[s].plan.client.key \in Contents
           /\ \A i \in Ids : Area(s)[i] \in Stored
<1>1. TypeOK /\ IdInv /\ call[s] \in Deployments /\ DeployInv(s)
  BY KindOf DEF IInv, CallInv
<1> DEFINE pl == call[s].plan
<1>2. pl \in Plans
  BY <1>1 DEF Deployments
<1>3. pl.name \in Names /\ pl.project \in Projects /\ pl.config \in Configs /\ pl.client \in Clients
  BY <1>2, PlansAssumption
<1>4. /\ pl.client.key \in Contents /\ pl.client.authfile \in Stored
      /\ pl.client.dockerfile \in Stored
  BY <1>3 DEF Clients, Stored
<1>5. /\ \A i \in Ids : Artifacts(pl)[i] \in Stored
      /\ Artifacts(pl)["pubkey"] = pl.client.key
  BY <1>4 DEF Artifacts, collectArtifactCandidates, dockerfileCollector, Ids, Stored
<1>6. \A i \in Ids : Area(s)[i] \in Stored
  BY <1>1, <1>3 DEF Area, TypeOK
<1> QED
  BY <1>1, <1>3, <1>4, <1>5, <1>6

\* A fault keeps the count of faults in its bound.
LEMMA FaultOK == ASSUME TypeOK, Fault PROVE faults' \in 0 .. MaxFaults
BY BoundsAssumption DEF TypeOK, Fault

\* A deployment moves on before or after its list is built, without changing it.
LEMMA ProgressOK ==
    ASSUME IInv, NEW s \in Calls, call[s].op = "deploy",
           call[s].pc \in Early \cup {"key", "keyFetch"},
           NEW r \in Deployments, Move(s, r),
           r.id = call[s].id, r.plan = call[s].plan, r.failedAt = call[s].failedAt,
           r.cmds = call[s].cmds, r.key = call[s].key, r.fault = call[s].fault,
           r.touched = call[s].touched, r.taken = call[s].taken,
           call[s].pc \in Early <=> r.pc \in Early, r.pc \in Early \cup Late,
           UNCHANGED <<staged, image, podman, calls, faults>>, auth' \in Stored,
           AreaInv(s)'
    PROVE  IInv'
<1>1. TypeOK /\ DeployInv(s) /\ call[s] \in Deployments
  BY DeployIs
<1>2. call'[s] = r
  BY <1>1 DEF Move, TypeOK
<1>3. /\ r.pc # "end" /\ call[s].pc # "end"
      /\ r.pc \in Late <=> call[s].pc \in Late
      /\ r.op = "deploy" /\ r \in CallStates
  BY DEF Early, Late, Deployments, CallStates
<1>4. Awaits(s)' = Awaits(s) /\ Underway(s)' = Underway(s)
  BY <1>2, <1>3 DEF Awaits, Underway
<1>5. \A c \in Names : Of(s, c)' = Of(s, c)
  BY <1>2 DEF Of
<1>6. CauseInv(s)'
  BY <1>1, <1>2, <1>3 DEF DeployInv, CauseInv, HasCause
<1>7. ListInv(s)'
  BY <1>1, <1>2, <1>3, <1>4, <1>5 DEF DeployInv, ListInv
<1>8. WorkInv(s)'
  <2>1. /\ Of(s, call[s].plan.name)' = Of(s, call[s].plan.name)
        /\ \A u : UserDone(s, u)' = UserDone(s, u)
        /\ PostDone(s)' = PostDone(s)
        /\ \A u, k : KeyDone(s, u, k)' = KeyDone(s, u, k)
    BY <1>2, <1>4, <1>5 DEF UserDone, PostDone, KeyDone, Of
  <2> QED
    BY <1>1, <1>2, <1>3, <1>4, <2>1 DEF DeployInv, WorkInv, KeyDone, Of
<1>9. auth' \in Stored /\ image' \in [Names -> Images] /\ faults' \in 0 .. MaxFaults
  BY <1>1 DEF TypeOK
<1> QED
  BY <1>3, <1>6, <1>7, <1>8, <1>9, MoveOK DEF DeployInv, Reads

LEMMA PrepareOK ==
    ASSUME IInv, NEW s \in Calls, Prepare(s) PROVE IInv'
<1> DEFINE m == PrepareArtifacts(call[s].plan)
           r == [call[s] EXCEPT !.pc = "upload", !.missing = m]
<1>1. call[s].op = "deploy" /\ call[s].pc = "prepare" /\ Move(s, r)
      /\ UNCHANGED <<staged, auth, image, podman, calls, faults>>
  BY AfterIs DEF Prepare, At
<1>2. call[s] \in Deployments /\ TypeOK
  BY <1>1, DeployIs
<1>3. m \in SUBSET Ids
  BY DEF PrepareArtifacts
<1>4. r \in Deployments /\ r.pc = "upload" /\ r.missing = m
      /\ r.id = call[s].id /\ r.plan = call[s].plan /\ r.failedAt = call[s].failedAt
      /\ r.cmds = call[s].cmds /\ r.key = call[s].key /\ r.fault = call[s].fault
      /\ r.touched = call[s].touched /\ r.taken = call[s].taken
  BY <1>2, <1>3 DEF Deployments, Early
<1>5. call'[s] = r /\ staged' = staged
  BY <1>1, <1>2 DEF Move, TypeOK
<1>6. AreaInv(s)'
  BY <1>4, <1>5 DEF AreaInv, IsStaged, PrepareArtifacts, fileMatchesDescriptor, Informed
<1>7. auth' \in Stored
  BY <1>1, <1>2 DEF TypeOK
<1> HIDE DEF r
<1> QED
  BY <1>1, <1>4, <1>6, <1>7, ProgressOK DEF Early, Late

\* The steps that only move the deployment to another place.
LEMMA PlaceOK ==
    ASSUME IInv, NEW s \in Calls, call[s].op = "deploy",
           call[s].pc \in Early \cup {"key", "keyFetch"}, NEW pc,
           Move(s, [call[s] EXCEPT !.pc = pc]),
           call[s].pc \in Early <=> pc \in Early, pc \in Early \cup Late,
           UNCHANGED <<staged, image, podman, calls, faults>>, auth' \in Stored,
           "area" \notin call[s].touched =>
               /\ pc # "upload"
               /\ pc \in Informed => \/ call[s].pc \in Informed
                                     \/ call[s].missing = {} /\ call[s].pc = "upload"
               /\ pc = "authFetch" => Area(s)["authfile"] # None
               /\ pc = "exec" => call[s].key = call[s].plan.client.key
    PROVE  IInv'
<1> DEFINE r == [call[s] EXCEPT !.pc = pc]
<1>1. call[s] \in Deployments /\ TypeOK /\ AreaInv(s)
  BY DeployIs DEF DeployInv
<1>2. r \in Deployments /\ r.pc = pc /\ r.missing = call[s].missing
      /\ r.id = call[s].id /\ r.plan = call[s].plan /\ r.failedAt = call[s].failedAt
      /\ r.cmds = call[s].cmds /\ r.key = call[s].key /\ r.fault = call[s].fault
      /\ r.touched = call[s].touched /\ r.taken = call[s].taken
  BY <1>1 DEF Deployments
<1>3. call'[s] = r /\ staged' = staged
  BY <1>1 DEF Move, TypeOK
<1>4. pc # "end"
  BY DEF Early, Late
<1>5. AreaInv(s)'
  BY <1>1, <1>2, <1>3, <1>4 DEF AreaInv, IsStaged, Area
<1> HIDE DEF r
<1> QED
  BY <1>2, <1>5, ProgressOK DEF r

LEMMA AllUploadedOK ==
    ASSUME IInv, NEW s \in Calls, AllUploaded(s) PROVE IInv'
<1>1. auth \in Stored
  BY DEF IInv, TypeOK
<1> QED
  BY <1>1, AfterIs, PlaceOK DEF AllUploaded, At, Early, Late, Informed

LEMMA AnnounceOK ==
    ASSUME IInv, NEW s \in Calls, Announce(s) PROVE IInv'
<1>1. auth \in Stored
  BY DEF IInv, TypeOK
<1> QED
  BY <1>1, AfterIs, PlaceOK DEF Announce, At, Early, Late, Informed

LEMMA AuthFileExistsOK ==
    ASSUME IInv, NEW s \in Calls, AuthFileExists(s) PROVE IInv'
<1>1. auth \in Stored
  BY DEF IInv, TypeOK
<1>2. CASE Area(s)["authfile"] = None
  BY <1>1, <1>2, AfterIs, PlaceOK DEF AuthFileExists, At, Early, Late, Informed
<1>3. CASE Area(s)["authfile"] # None
  BY <1>1, <1>3, AfterIs, PlaceOK DEF AuthFileExists, At, Early, Late, Informed
<1> QED
  BY <1>2, <1>3

\* The file seen to exist can only be gone if another call removed it.
LEMMA AddHostConfigurationFilesOK ==
    ASSUME IInv, NEW s \in Calls, addHostConfigurationFiles(s) PROVE IInv'
<1>1. /\ call[s].op = "deploy" /\ call[s].pc = "authFetch"
      /\ UNCHANGED <<staged, image, podman, calls, faults>>
  BY DEF addHostConfigurationFiles, At
<1>2. TypeOK /\ AreaInv(s) /\ call[s] \in Deployments /\ \A i \in Ids : Area(s)[i] \in Stored
  BY <1>1, DeployIs DEF DeployInv
<1>3. CASE Area(s)["authfile"] = None
  <2>1. HasCause(call[s])
    BY <1>1, <1>2, <1>3 DEF AreaInv, Area, HasCause
  <2>2. Move(s, FailAt(s, "authFetch", FALSE)) /\ UNCHANGED auth /\ faults' \in 0 .. MaxFaults
    BY <1>1, <1>2, <1>3 DEF addHostConfigurationFiles, TypeOK
  <2> QED
    BY <1>1, <2>1, <2>2, FailsOK DEF FailPoints
<1>4. CASE Area(s)["authfile"] # None
  <2>1. Move(s, [call[s] EXCEPT !.pc = "image"]) /\ auth' \in Stored
    BY <1>2, <1>4, AfterIs DEF addHostConfigurationFiles, Ids
  <2> QED
    BY <1>1, <2>1, PlaceOK DEF Early, Late, Informed
<1> QED
  BY <1>3, <1>4

LEMMA PubKeyExistsOK ==
    ASSUME IInv, NEW s \in Calls, PubKeyExists(s) PROVE IInv'
<1>1. auth \in Stored
  BY DEF IInv, TypeOK
<1>2. call[s].op = "deploy" /\ call[s].pc = "key" /\ UNCHANGED <<staged, auth, image, podman, calls, faults>>
  BY DEF PubKeyExists, At
<1>3. CASE Area(s)["pubkey"] = None
  <2>1. "area" \in call[s].touched
    BY <1>2, <1>3, DeployIs, NoneAssumption DEF DeployInv, AreaInv, IsStaged, Area, Informed, Ids
  <2>2. Move(s, [call[s] EXCEPT !.pc = "exec"])
    BY <1>3, AfterIs DEF PubKeyExists
  <2> QED
    BY <1>1, <1>2, <2>1, <2>2, PlaceOK DEF Early, Late
<1>4. CASE Area(s)["pubkey"] # None
  <2>1. Move(s, [call[s] EXCEPT !.pc = "keyFetch"])
    BY <1>4 DEF PubKeyExists
  <2> QED
    BY <1>1, <1>2, <2>1, PlaceOK DEF Early, Late, Informed
<1> QED
  BY <1>3, <1>4

-----------------------------------------------------------------------------
(***************************************************************************)
(* Steps that other calls may notice.                                      *)
(***************************************************************************)

\* Call s moves on to r, and the others note the container c and the area of p.
LEMMA ProceedOK ==
    ASSUME IInv, NEW s \in Calls, NEW r \in CallStates,
           NEW c \in Names \cup {None}, NEW p \in Projects \cup {None}, Proceed(s, r, c, p),
           r.op = call[s].op, r.op # "none", r.id = call[s].id,
           Changes({c}, {p}), PodIds', calls' = calls,
           staged' \in [Projects -> [Ids -> Stored]],
           podman' \in [Names -> Containers \cup {None}],
           auth' \in Stored, image' \in [Names -> Images], faults' \in 0 .. MaxFaults,
           \A t \in Calls : t # s /\ call[t].op = "deploy" => Heirs(call[t].id),
           r.op = "deploy" => DeployInv(s)', r.op \in Reads => ReadInv(s)'
    PROVE  IInv'
<1>1. TypeOK /\ IdInv
  BY DEF IInv
<1>2. call'[s] = r /\ \A t \in Calls : t # s => call'[t] = Witness(call[t], c, p)
  BY DEF Proceed
<1>3. \A t \in Calls : t # s => Saw(t, {c}, {p})
  BY <1>1, <1>2, SawWitness
<1>4. call' \in [Calls -> CallStates]
  <2>1. \A t \in Calls : call'[t] \in CallStates
    BY <1>2, <1>3 DEF Saw, Noted
  <2>2. call' = [t \in Calls |-> call'[t]]
    BY DEF Proceed
  <2> QED
    BY <2>1, <2>2
<1>5. TypeOK'
  BY <1>1, <1>4 DEF TypeOK
<1>6. \A t \in Calls : call'[t].op = call[t].op /\ (call[t].op # "none" => call'[t].id = call[t].id)
  BY <1>2, <1>3 DEF Saw, Noted
<1>7. IdInv'
  BY <1>1, <1>6 DEF IdInv, CallIds
<1>8. \A t \in Calls : t # s => CallInv(t)'
  BY <1>3, OthersOK
<1>9. CallInv(s)'
  BY <1>2 DEF CallInv
<1> QED
  BY <1>5, <1>7, <1>8, <1>9 DEF IInv

\* A client uploads an artifact that was missing.
LEMMA UploadArtifactOK ==
    ASSUME IInv, NEW s \in Calls, UploadArtifact(s) PROVE IInv'
<1>1. call[s].op = "deploy" /\ call[s].pc = "upload" /\ UNCHANGED <<auth, image, podman, calls, faults>>
  BY DEF UploadArtifact, At
<1> DEFINE p == call[s].plan.project
           a == Artifacts(call[s].plan)
<1>2. /\ TypeOK /\ IdInv /\ call[s] \in Deployments /\ DeployInv(s) /\ p \in Projects
      /\ call[s].missing \subseteq Ids /\ \A i \in Ids : a[i] \in Stored
  BY <1>1, DeployIs DEF Deployments
<1> HIDE DEF a
<1>3. PICK i \in call[s].missing :
        /\ staged' = [staged EXCEPT ![p][i] = a[i]]
        /\ Proceed(s, [call[s] EXCEPT !.missing = @ \ {i}], None, p)
  BY DEF UploadArtifact, a
<1> DEFINE r == [call[s] EXCEPT !.missing = @ \ {i}]
<1>4. i \in Ids /\ a[i] \in Stored
  BY <1>2, <1>3
<1>5. r \in Deployments /\ r.op = "deploy" /\ r.pc = "upload" /\ r.missing = call[s].missing \ {i}
      /\ r.id = call[s].id /\ r.plan = call[s].plan /\ r.failedAt = call[s].failedAt
      /\ r.cmds = call[s].cmds /\ r.key = call[s].key /\ r.fault = call[s].fault
      /\ r.touched = call[s].touched /\ r.taken = call[s].taken
  BY <1>1, <1>2 DEF Deployments
<1>6. /\ staged' \in [Projects -> [Ids -> Stored]]
      /\ staged'[p][i] = a[i] /\ \A j \in Ids : j # i => staged'[p][j] = staged[p][j]
      /\ \A q \in Projects : q # p => staged'[q] = staged[q]
  BY <1>2, <1>3, <1>4 DEF TypeOK
<1>7. call'[s] = r
  BY <1>3 DEF Proceed
<1> HIDE DEF r
<1>8. DeployInv(s)'
  <2>1. Awaits(s) /\ Awaits(s)' /\ ~ Underway(s)' /\ r.pc # "end" /\ r.pc \notin Late /\ r.pc \in Early
    BY <1>1, <1>5, <1>7 DEF Awaits, Underway, Early, Late
  <2>2. \A c \in Names : Of(s, c)' = Of(s, c)
    BY <1>1, <1>5, <1>7 DEF Of
  <2>3. CauseInv(s)'
    BY <1>1, <1>2, <1>5, <1>7 DEF DeployInv, CauseInv, HasCause
  <2>4. ListInv(s)'
    BY <1>1, <1>2, <1>5, <1>7, <2>1, <2>2 DEF DeployInv, ListInv, Early
  <2>5. WorkInv(s)'
    BY <1>1, <1>2, <1>5, <1>7, <2>1 DEF DeployInv, WorkInv
  <2>6. AreaInv(s)'
    <3>1. \A j \in Ids \ call[s].missing : "area" \notin call[s].touched => IsStaged(s, j)
      BY <1>1, <1>2 DEF DeployInv, AreaInv
    <3>2. \A j \in Ids \ r.missing : "area" \notin call[s].touched => IsStaged(s, j)'
      BY <1>5, <1>6, <1>7, <3>1 DEF IsStaged, a
    <3> QED
      BY <1>5, <1>7, <3>2 DEF AreaInv, Informed
  <2> QED
    BY <2>3, <2>4, <2>5, <2>6 DEF DeployInv
<1>9. Changes({None}, {p}) /\ (\A t \in Calls : Heirs(call[t].id)) /\ PodIds'
  BY <1>1, <1>2, <1>6 DEF Changes, Heirs, IdInv, PodIds
<1>10. /\ podman' \in [Names -> Containers \cup {None}] /\ auth' \in Stored
       /\ image' \in [Names -> Images] /\ faults' \in 0 .. MaxFaults /\ r \in CallStates
  BY <1>1, <1>2, <1>5 DEF TypeOK, CallStates
<1> QED
  BY <1>1, <1>2, <1>3, <1>5, <1>6, <1>8, <1>9, <1>10, ProceedOK DEF r, Reads

\* A deployment d with the list for image img.
WithList(d, shown, img) ==
    [d EXCEPT !.pc = "key", !.image = shown, !.cmds = BuildCommands(d.plan.config, img)]

\* The list of a deployment is built: everything is still to be done.
LEMMA BuiltOK ==
    ASSUME IInv, NEW s \in Calls, call[s].op = "deploy", call[s].pc \in {"image", "build"},
           NEW img \in Images, UNCHANGED <<staged, podman>>,
           NEW shown \in Images,
           call'[s] = WithList(call[s], shown, img)
    PROVE  /\ DeployInv(s)' /\ call'[s] \in CallStates
           /\ call'[s].op = "deploy" /\ call'[s].id = call[s].id
<1> DEFINE q == BuildCommands(call[s].plan.config, img)
           cfg == call[s].plan.config
           r == call'[s]
<1>1. TypeOK /\ call[s] \in Deployments /\ DeployInv(s) /\ cfg \in Configs
  BY DeployIs
<1>2. /\ q \in Seq(Commands) /\ InOrder(q) /\ Has(q, "run")
      /\ \A u \in Configured(cfg) : Ensures(q, u)
      /\ cfg.post => Has(q, "post")
      /\ \A key : \A i \in DOMAIN q : CmdOK(q[i], cfg, key)
  BY <1>1, BuiltList
<1> HIDE DEF q
<1>3. /\ r \in Deployments /\ r.op = "deploy" /\ r.pc = "key" /\ r.cmds = q
      /\ r.id = call[s].id /\ r.plan = call[s].plan /\ r.failedAt = call[s].failedAt
      /\ r.key = call[s].key /\ r.fault = call[s].fault
      /\ r.touched = call[s].touched /\ r.taken = call[s].taken
  BY <1>1, <1>2 DEF Deployments, Late, WithList, q
<1> HIDE DEF r
<1>4. Awaits(s) /\ Awaits(s)'
  BY <1>2, <1>3 DEF Awaits, Early, Late, r
<1>5. \A c \in Names : Of(s, c)' = Of(s, c)
  BY <1>3 DEF Of, r
<1>6. AreaInv(s)'
  BY <1>1, <1>3 DEF DeployInv, AreaInv, IsStaged, Informed, r
<1>7. CauseInv(s)'
  BY <1>1, <1>3 DEF DeployInv, CauseInv, HasCause, r
<1>8. ListInv(s)'
  BY <1>1, <1>2, <1>3, <1>4, <1>5 DEF DeployInv, ListInv, Early, r
<1>9. WorkInv(s)'
  <2>1. r.key = None
    BY <1>1, <1>3 DEF DeployInv, ListInv, Early
  <2> QED
    BY <1>1, <1>2, <1>3, <1>4, <2>1 DEF DeployInv, WorkInv, r
<1> QED
  BY <1>3, <1>6, <1>7, <1>8, <1>9 DEF DeployInv, CallStates, r

\* The image is named, or missing, or its dockerfile is read: that one is missing
\* only if the client's was removed by another call.
LEMMA PrepareImageOK ==
    ASSUME IInv, NEW s \in Calls, prepareImage(s) PROVE IInv'
<1> DEFINE cfg == call[s].plan.config
           f == Area(s)["dockerfile"]
<1>1. /\ call[s].op = "deploy" /\ call[s].pc = "image"
      /\ UNCHANGED <<staged, auth, image, podman, calls, faults>>
      /\ \/ cfg.image = "none" /\ Move(s, FailAt(s, "image", FALSE))
         \/ cfg.image = "url" /\ Move(s, WithList(call[s], "url", "url"))
         \/ cfg.image = "dockerfile" /\ f = None /\ Move(s, FailAt(s, "image", FALSE))
         \/ f # None /\ Move(s, [call[s] EXCEPT !.pc = "build", !.image = f])
  BY AfterIs DEF prepareImage, At, WithList
<1>2. /\ TypeOK /\ DeployInv(s) /\ call[s] \in Deployments /\ f \in Stored
      /\ auth' \in Stored /\ image' \in [Names -> Images] /\ faults' \in 0 .. MaxFaults
  BY <1>1, DeployIs DEF TypeOK, Ids
<1>3. CASE cfg.image = "none" /\ Move(s, FailAt(s, "image", FALSE))
  <2>1. HasCause(call[s])
    BY <1>3 DEF HasCause
  <2> QED
    BY <1>1, <1>2, <1>3, <2>1, FailsOK DEF FailPoints
<1>4. CASE cfg.image = "url" /\ Move(s, WithList(call[s], "url", "url"))
  <2>1. call'[s] = WithList(call[s], "url", "url") /\ "url" \in Images
    BY <1>2, <1>4 DEF Move, TypeOK, Images
  <2>2. DeployInv(s)' /\ call'[s] \in CallStates /\ call'[s].op = "deploy" /\ call'[s].id = call[s].id
    BY <1>1, <2>1, BuiltOK
  <2>3. Move(s, call'[s])
    BY <1>4, <2>1
  <2> QED
    BY <1>1, <1>2, <2>2, <2>3, MoveOK DEF Reads
<1>5. CASE cfg.image = "dockerfile" /\ f = None /\ Move(s, FailAt(s, "image", FALSE))
  <2>1. Artifacts(call[s].plan)["dockerfile"] # None
    BY <1>1, <1>2, <1>5
       DEF DeployInv, CauseInv, CollectFails, Artifacts, collectArtifactCandidates, dockerfileCollector
  <2>2. "area" \in call[s].touched
    BY <1>1, <1>2, <1>5, <2>1 DEF DeployInv, AreaInv, IsStaged, Area, Informed, Ids
  <2>3. HasCause(call[s])
    BY <2>2 DEF HasCause
  <2> QED
    BY <1>1, <1>2, <1>5, <2>3, FailsOK DEF FailPoints
<1>6. CASE f # None /\ Move(s, [call[s] EXCEPT !.pc = "build", !.image = f])
  <2> DEFINE r == [call[s] EXCEPT !.pc = "build", !.image = f]
  <2>1. r \in Deployments /\ r.pc = "build"
        /\ r.id = call[s].id /\ r.plan = call[s].plan /\ r.failedAt = call[s].failedAt
        /\ r.cmds = call[s].cmds /\ r.key = call[s].key /\ r.fault = call[s].fault
        /\ r.touched = call[s].touched /\ r.taken = call[s].taken
    BY <1>2, <1>6 DEF Deployments, Early, Images, Stored
  <2>2. call'[s] = r
    BY <1>2, <1>6 DEF Move, TypeOK
  <2> HIDE DEF r
  <2>3. AreaInv(s)'
    BY <1>1, <1>2, <2>1, <2>2 DEF DeployInv, AreaInv, IsStaged, Informed
  <2> QED
    BY <1>1, <1>2, <1>6, <2>1, <2>3, ProgressOK DEF Early, Late, r
<1> QED
  BY <1>1, <1>3, <1>4, <1>5, <1>6

LEMMA BuildDockerfileOK ==
    ASSUME IInv, NEW s \in Calls, buildDockerfile(s) PROVE IInv'
<1> DEFINE cfg == call[s].plan.config
           n == call[s].plan.name
           r == [call[s] EXCEPT !.pc = "key", !.cmds = BuildCommands(cfg, "built")]
<1>1. /\ call[s].op = "deploy" /\ call[s].pc = "build"
      /\ UNCHANGED <<staged, auth, podman, calls, faults>>
      /\ image' = [image EXCEPT ![n] = call[s].image]
      /\ Proceed(s, r, n, None)
  BY AfterIs DEF buildDockerfile, At
<1>2. /\ TypeOK /\ IdInv /\ call[s] \in Deployments /\ n \in Names /\ call[s].image \in Images
      /\ "built" \in Images
  BY <1>1, DeployIs DEF Deployments, Images
<1>3. call'[s] = WithList(call[s], call[s].image, "built")
  BY <1>1, <1>2 DEF Proceed, Deployments, WithList
<1>4. /\ DeployInv(s)' /\ call'[s] \in CallStates
      /\ call'[s].op = "deploy" /\ call'[s].id = call[s].id
  BY <1>1, <1>2, <1>3, BuiltOK
<1>5. Proceed(s, call'[s], n, None)
  BY <1>1 DEF Proceed
<1>6. /\ Changes({n}, {None}) /\ PodIds' /\ \A t \in Calls : Heirs(call[t].id)
      /\ staged' \in [Projects -> [Ids -> Stored]]
      /\ podman' \in [Names -> Containers \cup {None}]
      /\ auth' \in Stored /\ image' \in [Names -> Images] /\ faults' \in 0 .. MaxFaults
  BY <1>1, <1>2 DEF Changes, IdInv, PodIds, Heirs, TypeOK
<1> HIDE DEF r, n
<1> QED
  BY <1>1, <1>2, <1>4, <1>5, <1>6, ProceedOK DEF Reads

\* The key that is read is installed last; without interference it is the client's.
LEMMA BuildSSHKeyInstallCommandsOK ==
    ASSUME IInv, NEW s \in Calls, buildSSHKeyInstallCommands(s) PROVE IInv'
<1> DEFINE cfg == call[s].plan.config
           key == Area(s)["pubkey"]
           q == call[s].cmds
           z == <<Cmd("ssh", cfg.remoteUser, key)>>
<1>1. /\ call[s].op = "deploy" /\ call[s].pc = "keyFetch"
      /\ UNCHANGED <<staged, auth, image, podman, calls, faults>>
  BY DEF buildSSHKeyInstallCommands, At
<1>2. /\ TypeOK /\ DeployInv(s) /\ call[s] \in Deployments /\ key \in Stored
      /\ q \in Seq(Commands) /\ cfg.remoteUser \in AllUsers
      /\ auth' \in Stored /\ image' \in [Names -> Images] /\ faults' \in 0 .. MaxFaults
  BY <1>1, DeployIs DEF TypeOK, Ids, Deployments, Configs, AllUsers
<1>3. "area" \notin call[s].touched => key = call[s].plan.client.key
  BY <1>1, DeployIs, NoneAssumption DEF DeployInv, AreaInv, IsStaged, Area, Informed, Ids
<1>4. CASE key = None
  <2>1. HasCause(call[s])
    BY <1>1, <1>3, <1>4, DeployIs, NoneAssumption DEF HasCause
  <2>2. Move(s, FailAt(s, "keyFetch", FALSE))
    BY <1>4 DEF buildSSHKeyInstallCommands
  <2> QED
    BY <1>1, <1>2, <2>1, <2>2, FailsOK DEF FailPoints
<1>5. CASE key # None
  <2> DEFINE r == [call[s] EXCEPT !.pc = "exec", !.key = key, !.cmds = q \o z]
  <2>1. Move(s, r)
    BY <1>5, AfterIs DEF buildSSHKeyInstallCommands, sshKeyHandler
  <2> HIDE DEF key, z
  <2>2. /\ z \in Seq(Commands) /\ InOrder(z) /\ Has(z, "ssh")
        /\ \A i \in DOMAIN z : z[i].do = "ssh" /\ z[i].user = cfg.remoteUser /\ z[i].with = key
    <3>1. z = <<Cmd("ssh", cfg.remoteUser, key)>> /\ key \in Runs \cup Stored /\ "ssh" \in Dos
      BY <1>2 DEF z, Dos
    <3> QED
      BY <1>2, <3>1, OneCommand
  <2>3. /\ q \o z \in Seq(Commands)
        /\ \A i \in DOMAIN (q \o z) : \/ \E j \in DOMAIN q : (q \o z)[i] = q[j]
                                      \/ \E j \in DOMAIN z : (q \o z)[i] = z[j]
        /\ \A do : Has(q \o z, do) <=> Has(q, do) \/ Has(z, do)
        /\ \A u : Ensures(q \o z, u) <=> Ensures(q, u) \/ Ensures(z, u)
        /\ InOrder(q) => InOrder(q \o z)
    <3>1. \A i \in DOMAIN q, j \in DOMAIN z : Before(q[i].do, z[j].do)
      BY <2>2 DEF Before
    <3> HIDE DEF q
    <3> QED
      BY <1>2, <2>2, <3>1, ConcatList
  <2> DEFINE y == q \o z
  <2> HIDE DEF y
  <2>4. /\ r \in Deployments /\ r.op = "deploy" /\ r.pc = "exec" /\ r.cmds = y /\ r.key = key
        /\ r.id = call[s].id /\ r.plan = call[s].plan /\ r.failedAt = call[s].failedAt
        /\ r.fault = call[s].fault /\ r.touched = call[s].touched /\ r.taken = call[s].taken
    BY <1>1, <1>2, <2>3 DEF Deployments, Late, y
  <2>5. call'[s] = r
    BY <1>2, <2>1 DEF Move, TypeOK
  <2> HIDE DEF r
  <2>6. /\ call[s].key = None /\ InOrder(q) /\ \A i \in DOMAIN q : CmdOK(q[i], cfg, None)
    BY <1>1, <1>2 DEF DeployInv, ListInv, Underway, Late
  <2>7. Awaits(s)' = Awaits(s)
    <3>1. ~ Has(z, "run")
      BY <2>2 DEF Has
    <3>2. Has(y, "run") <=> Has(q, "run")
      BY <2>3, <3>1 DEF y
    <3> QED
      BY <1>1, <2>4, <2>5, <3>2 DEF Awaits, Early, Late
  <2>8. \A c \in Names : Of(s, c)' = Of(s, c)
    BY <1>1, <2>4, <2>5 DEF Of
  <2>9. AreaInv(s)'
    BY <1>3, <2>4, <2>5 DEF AreaInv, Informed
  <2>10. CauseInv(s)'
    BY <1>1, <1>2, <2>4, <2>5 DEF DeployInv, CauseInv, HasCause
  <2>11. ListInv(s)'
    <3>1. \A i \in DOMAIN y : CmdOK(y[i], cfg, key)
      BY <1>5, <2>2, <2>3, <2>6 DEF CmdOK, y
    <3>2. (Awaits(s) => \A c \in Names : ~ Of(s, c)) /\ InOrder(y)
      BY <1>2, <2>3, <2>6 DEF DeployInv, ListInv, y
    <3> QED
      BY <2>4, <2>5, <2>7, <2>8, <3>1, <3>2 DEF ListInv, Early
  <2>12. WorkInv(s)'
    <3>1. /\ \A u : UserDone(s, u)' = UserDone(s, u)
          /\ PostDone(s)' = PostDone(s)
      BY <1>1, <2>7, <2>8 DEF UserDone, PostDone
    <3>2. Has(y, "ssh") /\ (Has(q, "post") => Has(y, "post")) /\ \A u : Ensures(q, u) => Ensures(y, u)
      BY <2>2, <2>3 DEF y
    <3>3. Underway(s) /\ call[s].pc \in Late
      BY <1>1 DEF Underway, Late
    <3>4. Of(s, call[s].plan.name)' = Of(s, call[s].plan.name)
      BY <1>1, <2>4, <2>5 DEF Of
    <3>5. "container" \notin call[s].touched =>
            /\ \A u \in Configured(cfg) : Ensures(y, u) \/ UserDone(s, u)'
            /\ cfg.post => Has(y, "post") \/ PostDone(s)'
            /\ Awaits(s)' /\ ~ call[s].taken => podman[call[s].plan.name] = None
            /\ ~ Awaits(s)' => Of(s, call[s].plan.name) /\ podman[call[s].plan.name].status = "Up"
      BY <1>2, <2>7, <3>1, <3>2, <3>3 DEF DeployInv, WorkInv
    <3> QED
      BY <1>1, <2>4, <2>5, <3>2, <3>4, <3>5 DEF WorkInv, Of
  <2> QED
    BY <1>1, <1>2, <2>1, <2>4, <2>9, <2>10, <2>11, <2>12, MoveOK DEF DeployInv, CallStates, Reads, r
<1> QED
  BY <1>4, <1>5

\* The end of the list is the end of the deployment: nothing is left to do.
LEMMA SendDeployResponseOK ==
    ASSUME IInv, NEW s \in Calls, sendDeployResponse(s) PROVE IInv'
<1> DEFINE r == [call[s] EXCEPT !.pc = "end"]
<1>1. /\ call[s].op = "deploy" /\ call[s].pc = "exec" /\ call[s].cmds = <<>>
      /\ UNCHANGED <<staged, auth, image, podman, calls, faults>> /\ Move(s, r)
  BY AfterIs DEF sendDeployResponse, At
<1>2. /\ TypeOK /\ DeployInv(s) /\ call[s] \in Deployments
      /\ auth' \in Stored /\ image' \in [Names -> Images] /\ faults' \in 0 .. MaxFaults
  BY <1>1, DeployIs DEF TypeOK
<1>3. /\ r \in Deployments /\ r.op = "deploy" /\ r.pc = "end" /\ r.cmds = call[s].cmds
      /\ r.id = call[s].id /\ r.plan = call[s].plan /\ r.failedAt = call[s].failedAt
      /\ r.key = call[s].key /\ r.fault = call[s].fault
      /\ r.touched = call[s].touched /\ r.taken = call[s].taken
  BY <1>2 DEF Deployments
<1>4. call'[s] = r
  BY <1>1, <1>2 DEF Move, TypeOK
<1> HIDE DEF r
<1>5. ~ Awaits(s) /\ ~ Awaits(s)' /\ Underway(s)
  BY <1>1, <1>3, <1>4 DEF Awaits, Underway, Early, Late, Has
<1>6. \A c \in Names : Of(s, c)' = Of(s, c)
  BY <1>1, <1>3, <1>4 DEF Of
<1>7. AreaInv(s)'
  BY <1>1, <1>2, <1>3, <1>4 DEF DeployInv, AreaInv, Informed
<1>8. CauseInv(s)'
  BY <1>1, <1>2, <1>3, <1>4 DEF DeployInv, CauseInv, HasCause
<1>9. ListInv(s)'
  BY <1>1, <1>2, <1>3, <1>4, <1>5, <1>6 DEF DeployInv, ListInv, Early
<1>10. WorkInv(s)'
  <2>1. /\ \A u : UserDone(s, u)' = UserDone(s, u)
        /\ PostDone(s)' = PostDone(s)
        /\ \A u, k : KeyDone(s, u, k) =>
              ~ Awaits(s)' /\ \A c \in Names : Of(s, c)' => <<u, k>> \in podman'[c].keys
    BY <1>1, <1>5, <1>6 DEF UserDone, PostDone, KeyDone
  <2> QED
    BY <1>1, <1>2, <1>3, <1>4, <1>5, <2>1 DEF DeployInv, WorkInv, Late, KeyDone
<1> QED
  BY <1>1, <1>2, <1>3, <1>7, <1>8, <1>9, <1>10, MoveOK DEF DeployInv, CallStates, Reads, r

LEMMA StepFailsOK ==
    ASSUME IInv, NEW s \in Calls, StepFails(s) PROVE IInv'
<1>1. call[s].pc \in FailPoints /\ faults' \in 0 .. MaxFaults
  BY FaultOK DEF StepFails, FailPoints, IInv
<1> QED
  BY <1>1, FailsOK DEF StepFails

-----------------------------------------------------------------------------
(***************************************************************************)
(* The containers.                                                         *)
(***************************************************************************)

\* A container that is there changes and loses nothing.
LEMMA GrowsOK ==
    ASSUME IInv, NEW c \in Names, podman[c] # None, NEW k \in Containers,
           k.id = podman[c].id, podman[c].users \subseteq k.users,
           podman[c].keys \subseteq k.keys, podman[c].post => k.post,
           podman' = [podman EXCEPT ![c] = k], calls' \in Nat, calls <= calls'
    PROVE  /\ podman' \in [Names -> Containers \cup {None}] /\ PodIds'
           /\ podman'[c] = k /\ \A d \in Names \ {c} : podman'[d] = podman[d]
           /\ \A i : Heirs(i)
<1>1. TypeOK /\ PodIds /\ k # None
  BY NoneAssumption DEF IInv, IdInv
<1>2. /\ podman' \in [Names -> Containers \cup {None}]
      /\ podman'[c] = k /\ \A d \in Names \ {c} : podman'[d] = podman[d]
  BY <1>1 DEF TypeOK
<1>3. \A d \in Names : podman'[d] # None <=> podman[d] # None
  BY <1>1, <1>2
<1>4. \A d \in Names : podman[d] # None => podman'[d].id = podman[d].id
  BY <1>2
<1>5. PodIds'
  <2>1. calls \in Nat
    BY <1>1 DEF TypeOK
  <2> QED
    BY <1>1, <1>3, <1>4, <2>1 DEF PodIds
<1>6. ASSUME NEW i PROVE Heirs(i)
  <2>1. SUFFICES ASSUME NEW d \in Names, podman'[d] # None, podman'[d].id = i
                 PROVE  /\ podman[d] # None /\ podman[d].id = i
                        /\ podman[d].users \subseteq podman'[d].users
                        /\ podman[d].keys \subseteq podman'[d].keys
                        /\ podman[d].post => podman'[d].post
    BY DEF Heirs
  <2> QED
    BY <1>2, <1>3, <1>4, <2>1
<1> QED
  BY <1>2, <1>5, <1>6

\* A container is created for a call that has none.
LEMMA CreatesOK ==
    ASSUME IInv, NEW c \in Names, podman[c] = None, NEW k \in Containers,
           k.id \in 1 .. calls, \A d \in Names : podman[d] # None => podman[d].id # k.id,
           podman' = [podman EXCEPT ![c] = k], calls' = calls
    PROVE  /\ podman' \in [Names -> Containers \cup {None}] /\ PodIds'
           /\ podman'[c] = k /\ \A d \in Names \ {c} : podman'[d] = podman[d]
           /\ \A i : i # k.id => Heirs(i)
<1>1. TypeOK /\ PodIds /\ k # None
  BY NoneAssumption DEF IInv, IdInv
<1>2. /\ podman' \in [Names -> Containers \cup {None}]
      /\ podman'[c] = k /\ \A d \in Names \ {c} : podman'[d] = podman[d]
  BY <1>1 DEF TypeOK
<1>3. PodIds'
  BY <1>1, <1>2 DEF PodIds
<1>4. \A i : i # k.id => Heirs(i)
  BY <1>2 DEF Heirs
<1> QED
  BY <1>2, <1>3, <1>4

\* What a command names is what it was built with, but for the image of a `run`.
LEMMA ResolvedIs ==
    ASSUME IInv, NEW s \in Calls, call[s].op = "deploy", NEW h \in Commands,
           h.do = "run" => h.with \in Runs
    PROVE  /\ Resolved(s, h).do = h.do /\ Resolved(s, h).user = h.user
           /\ h.do # "run" => Resolved(s, h) = h
           /\ h.do = "run" => Resolved(s, h).with \in Runs
<1>1. call[s].plan.name \in Names /\ image[call[s].plan.name] \in Images
  BY DeployIs DEF TypeOK
<1>2. CASE h.do = "run" /\ h.with.image = "built"
  <2> DEFINE img == image[call[s].plan.name]
             w == [h.with EXCEPT !.image = img]
  <2>1. w \in Runs
    BY <1>1, <1>2 DEF Runs
  <2>2. Resolved(s, h) = [h EXCEPT !.with = w]
    BY <1>2 DEF Resolved
  <2> HIDE DEF w
  <2> QED
    BY <1>2, <2>1, <2>2 DEF Commands
<1>3. CASE ~ (h.do = "run" /\ h.with.image = "built")
  BY <1>3 DEF Resolved
<1> QED
  BY <1>2, <1>3

\* Whether the command works or fails with an effect, the containers of other calls
\* lose nothing, and what it is for is done.
LEMMA EffectIs ==
    ASSUME IInv, NEW s \in Calls, call[s].op = "deploy", NEW h \in Commands,
           CmdOK(h, call[s].plan.config, call[s].key), h.do = "run" => Awaits(s),
           Executable(call[s].plan.name, Resolved(s, h)),
           \/ podman' = Effect(call[s].plan.name, Resolved(s, h), call[s].id)
           \/ podman' = EffectOfFailed(call[s].plan.name, Resolved(s, h), call[s].id),
           calls' = calls
    PROVE  LET c == call[s].plan.name IN
           /\ podman' \in [Names -> Containers \cup {None}] /\ PodIds'
           /\ \A d \in Names \ {c} : podman'[d] = podman[d]
           /\ \A t \in Calls : t # s /\ call[t].op = "deploy" => Heirs(call[t].id)
           /\ h.do # "run" => Heirs(call[s].id)
           /\ h.do \in {"mkdir", "initialize"} => podman' = podman
           /\ h.do = "run" =>
                 /\ podman'[c] # None /\ podman'[c].id = call[s].id
                 /\ podman' = Effect(c, Resolved(s, h), call[s].id) => podman'[c].status = "Up"
           /\ h.do \in {"ensure", "post", "ssh"} =>
                 /\ podman[c] # None /\ podman[c].status = "Up"
                 /\ podman'[c] # None /\ podman'[c].id = podman[c].id
                 /\ podman'[c].status = podman[c].status
           /\ h.do = "ensure" => h.user \in podman'[c].users
           /\ h.do = "post" => podman'[c].post
           /\ h.do = "ssh" => <<h.user, h.with>> \in podman'[c].keys
<1> DEFINE c == call[s].plan.name
           x == Resolved(s, h)
           id == call[s].id
<1>1. /\ TypeOK /\ IdInv /\ call[s] \in Deployments /\ c \in Names /\ DeployInv(s)
      /\ call[s].key \in Stored /\ id \in 1 .. calls /\ id \in Nat /\ calls' \in Nat /\ calls <= calls'
  BY DeployIs DEF Deployments, IdInv, CallIds, TypeOK
<1>2. /\ x.do = h.do /\ x.user = h.user
      /\ h.do # "run" => x = h
      /\ h.do = "run" => x.with \in Runs
  BY ResolvedIs DEF CmdOK
<1>3. h.do \in Dos /\ h.user \in AllUsers
  BY DEF Commands
<1>7. /\ Executable(c, x)
      /\ podman' = Effect(c, x, id) \/ podman' = EffectOfFailed(c, x, id)
      /\ h.do = "run" => \A d \in Names : podman[d] # None => podman[d].id # id
  BY <1>1 DEF DeployInv, ListInv, Of
<1> HIDE DEF x, c, id
<1>4. CASE h.do \in {"mkdir", "initialize"}
  <2>1. podman' = podman
    BY <1>2, <1>4, <1>7 DEF Effect, EffectOfFailed
  <2>2. PodIds' /\ \A i : Heirs(i)
    BY <1>1, <2>1 DEF IdInv, PodIds, Heirs
  <2> QED
    BY <1>1, <1>4, <2>1, <2>2 DEF TypeOK, c
<1>5. CASE h.do = "run"
  <2> DEFINE up == NewContainer(id, x.with, "Up")
             created == NewContainer(id, x.with, "Created")
  <2>1. podman[c] = None /\ \A d \in Names : podman[d] # None => podman[d].id # id
    BY <1>2, <1>5, <1>7 DEF Executable
  <2>2. up \in Containers /\ created \in Containers
    BY <1>1, <1>2, <1>5 DEF NewContainer, Containers, Runs, Statuses
  <2>3. up.id = id /\ created.id = id /\ up.status = "Up"
    BY DEF NewContainer
  <2>4. Effect(c, x, id) = [podman EXCEPT ![c] = up]
    BY <1>2, <1>5 DEF Effect, up
  <2>5. EffectOfFailed(c, x, id) = [podman EXCEPT ![c] = created]
    BY <1>2, <1>5 DEF EffectOfFailed, created
  <2> HIDE DEF up, created
  <2>6. PICK k \in {up, created} :
            podman' = [podman EXCEPT ![c] = k] /\ (podman' = Effect(c, x, id) => k.status = "Up")
    <3>1. CASE podman' = Effect(c, x, id)
      BY <2>3, <2>4, <3>1
    <3>2. CASE podman' # Effect(c, x, id)
      BY <1>7, <2>5, <3>2
    <3> QED
      BY <3>1, <3>2
  <2>7. k \in Containers /\ k.id = id /\ k # None
    BY <2>2, <2>3, <2>6, NoneAssumption
  <2>8. /\ podman' \in [Names -> Containers \cup {None}] /\ PodIds'
        /\ podman'[c] = k /\ \A d \in Names \ {c} : podman'[d] = podman[d]
        /\ \A i : i # k.id => Heirs(i)
    BY <1>1, <2>1, <2>6, <2>7, CreatesOK
  <2>9. \A t \in Calls : t # s /\ call[t].op = "deploy" => Heirs(call[t].id)
    BY <1>1, <2>7, <2>8 DEF IdInv, CallIds, id
  <2> QED
    BY <1>5, <2>6, <2>7, <2>8, <2>9 DEF x, c, id
<1>6. CASE h.do \in {"ensure", "post", "ssh"}
  <2> DEFINE old == podman[c]
  <2>1. old # None /\ old \in Containers /\ old.status = "Up" /\ x = h
    BY <1>1, <1>2, <1>6, <1>7 DEF Executable, TypeOK
  <2>2. podman' = Effect(c, h, id)
    BY <1>6, <1>7, <2>1 DEF EffectOfFailed
  <2>3. PICK k \in Containers :
            /\ podman' = [podman EXCEPT ![c] = k]
            /\ k.id = old.id /\ k.status = old.status
            /\ old.users \subseteq k.users /\ old.keys \subseteq k.keys /\ (old.post => k.post)
            /\ h.do = "ensure" => h.user \in k.users
            /\ h.do = "post" => k.post
            /\ h.do = "ssh" => <<h.user, h.with>> \in k.keys
    <3>1. CASE h.do = "ensure"
      <4> DEFINE k == [old EXCEPT !.users = @ \cup ({h.user} \ {Root})]
      <4>1. h.user \in Users
        BY <3>1 DEF CmdOK
      <4>2. podman' = [podman EXCEPT ![c] = k]
        BY <1>1, <2>2, <3>1 DEF Effect, TypeOK
      <4>3. k \in Containers /\ k.id = old.id /\ k.status = old.status /\ h.user \in k.users
            /\ old.users \subseteq k.users /\ old.keys \subseteq k.keys /\ (old.post => k.post)
        BY <2>1, <4>1, RootAssumption DEF Containers
      <4> QED
        BY <3>1, <4>2, <4>3
    <3>2. CASE h.do = "post"
      <4> DEFINE k == [old EXCEPT !.post = TRUE]
      <4>1. podman' = [podman EXCEPT ![c] = k]
        BY <1>1, <2>2, <3>2 DEF Effect, TypeOK
      <4>2. k \in Containers /\ k.id = old.id /\ k.status = old.status /\ k.post
            /\ old.users \subseteq k.users /\ old.keys \subseteq k.keys
        BY <2>1 DEF Containers
      <4> QED
        BY <3>2, <4>1, <4>2
    <3>3. CASE h.do = "ssh"
      <4> DEFINE u == {h.user} \ {Root}
                 k == [old EXCEPT !.users = @ \cup u, !.keys = @ \cup {<<h.user, h.with>>}]
      <4>1. h.with \in Contents
        BY <1>1, <3>3 DEF CmdOK, Stored
      <4>2. podman' = [podman EXCEPT ![c] = k]
        BY <1>1, <2>2, <3>3 DEF Effect, TypeOK
      <4>3. u \subseteq Users /\ <<h.user, h.with>> \in (Users \cup {Root}) \X Contents
        BY <1>3, <4>1 DEF AllUsers
      <4>4. k \in Containers /\ k.id = old.id /\ k.status = old.status /\ <<h.user, h.with>> \in k.keys
            /\ old.users \subseteq k.users /\ old.keys \subseteq k.keys /\ (old.post => k.post)
        BY <2>1, <4>3 DEF Containers
      <4> QED
        BY <3>3, <4>2, <4>4
    <3> QED
      BY <1>6, <3>1, <3>2, <3>3
  <2>4. /\ podman' \in [Names -> Containers \cup {None}] /\ PodIds'
        /\ podman'[c] = k /\ \A d \in Names \ {c} : podman'[d] = podman[d]
        /\ \A i : Heirs(i)
    BY <1>1, <2>1, <2>3, GrowsOK
  <2>5. k # None
    BY NoneAssumption
  <2> QED
    BY <1>6, <2>1, <2>3, <2>4, <2>5 DEF c
<1> QED
  BY <1>3, <1>4, <1>5, <1>6 DEF Dos

-----------------------------------------------------------------------------
(***************************************************************************)
(* The execution of the commands.                                          *)
(***************************************************************************)

\* The command at the head of the list of a deployment, and the rest.
LEMMA HeadIs ==
    ASSUME IInv, NEW s \in Calls, call[s].op = "deploy", call[s].pc = "exec", call[s].cmds # <<>>
    PROVE  LET q == call[s].cmds
               h == Head(q)
               cfg == call[s].plan.config
           IN  /\ h \in Commands /\ CmdOK(h, cfg, call[s].key)
               /\ Tail(q) \in Seq(Commands) /\ InOrder(Tail(q))
               /\ \A i \in DOMAIN Tail(q) : CmdOK(Tail(q)[i], cfg, call[s].key)
               /\ Awaits(s) <=> Has(q, "run")
               /\ \A do : Has(q, do) <=> h.do = do \/ Has(Tail(q), do)
               /\ \A u : Ensures(q, u) <=> (h.do = "ensure" /\ h.user = u) \/ Ensures(Tail(q), u)
               /\ h.do = "run" => ~ Has(Tail(q), "run")
               /\ h.do \in {"ensure", "post", "ssh"} => ~ Has(q, "run")
               /\ h.do = "post" => \A u : ~ Ensures(q, u)
<1> DEFINE q == call[s].cmds
           h == Head(q)
           cfg == call[s].plan.config
           r == Tail(q)
<1>1. /\ q \in Seq(Commands) /\ InOrder(q) /\ \A i \in DOMAIN q : CmdOK(q[i], cfg, call[s].key)
  BY DeployIs DEF Deployments, DeployInv, ListInv, Underway, Late
<1>2. /\ h \in Commands /\ r \in Seq(Commands)
      /\ \E i \in DOMAIN q : q[i] = h
      /\ \A i \in DOMAIN r : \E j \in DOMAIN q : r[i] = q[j]
      /\ \A do : Has(q, do) <=> h.do = do \/ Has(r, do)
      /\ \A u : Ensures(q, u) <=> (h.do = "ensure" /\ h.user = u) \/ Ensures(r, u)
      /\ InOrder(r) /\ \A i \in DOMAIN r : Before(h.do, r[i].do)
  BY <1>1, TailList
<1> HIDE DEF q, h, r
<1>3. CmdOK(h, cfg, call[s].key) /\ \A i \in DOMAIN r : CmdOK(r[i], cfg, call[s].key)
  BY <1>1, <1>2
<1>4. Awaits(s) <=> Has(q, "run")
  BY DEF Awaits, Early, Late, q
<1>5. h.do \in {"run", "ensure", "post", "ssh"} => ~ Has(r, "run")
  BY <1>2 DEF Before, Has
<1>6. h.do = "post" => \A u : ~ Ensures(r, u)
  BY <1>2 DEF Before, Ensures
<1>7. h.do \in {"ensure", "post", "ssh"} => ~ Has(q, "run")
  BY <1>2, <1>5
<1>8. h.do = "post" => \A u : ~ Ensures(q, u)
  BY <1>2, <1>6
<1> QED
  BY <1>2, <1>3, <1>4, <1>5, <1>7, <1>8 DEF q, h, r

\* The next command can be executed, unless another call interfered or the name was
\* taken: this is what the order of the commands is for.
LEMMA HeadExecutable ==
    ASSUME IInv, NEW s \in Calls, call[s].op = "deploy", call[s].pc = "exec", call[s].cmds # <<>>,
           call[s].touched = {}, ~ call[s].taken
    PROVE  Executable(call[s].plan.name, Resolved(s, Head(call[s].cmds)))
<1> DEFINE q == call[s].cmds
           h == Head(q)
           cfg == call[s].plan.config
           c == call[s].plan.name
           x == Resolved(s, h)
<1>1. /\ h \in Commands /\ CmdOK(h, cfg, call[s].key)
      /\ Awaits(s) <=> Has(q, "run")
      /\ \A do : Has(q, do) <=> h.do = do \/ Has(Tail(q), do)
      /\ h.do \in {"ensure", "post", "ssh"} => ~ Has(q, "run")
      /\ h.do = "post" => \A u : ~ Ensures(q, u)
  BY HeadIs
<1>2. /\ x.do = h.do /\ x.user = h.user
  BY <1>1, ResolvedIs DEF CmdOK
<1>3. WorkInv(s) /\ c \in Names /\ cfg.containerUser \in AllUsers /\ Underway(s) /\ call[s].pc \in Late
  BY DeployIs DEF DeployInv, Configs, AllUsers, Underway, Late
<1> HIDE DEF h, x, q, c
<1>4. CASE h.do \in {"mkdir", "initialize"}
  BY <1>2, <1>4 DEF Executable, x, h, q, c
<1>5. CASE h.do = "run"
  <2>1. podman[c] = None
    BY <1>1, <1>3, <1>5 DEF WorkInv, c
  <2> QED
    BY <1>2, <1>5, <2>1 DEF Executable, x, h, q, c
<1>6. CASE h.do \in {"ensure", "post", "ssh"}
  <2>1. Of(s, c) /\ podman[c].status = "Up" /\ podman[c] # None
    BY <1>1, <1>3, <1>6 DEF WorkInv, Of, c
  <2>2. ASSUME h.do = "post" PROVE UserKnown(c, h.user)
    <3>1. h.user = cfg.containerUser
      BY <1>1, <2>2 DEF CmdOK
    <3>2. cfg.containerUser # Root => UserDone(s, cfg.containerUser)
      BY <1>1, <1>3, <2>2 DEF WorkInv, Configured, q
    <3> QED
      BY <1>3, <2>1, <3>1, <3>2 DEF UserKnown, UserDone
  <2>3. Executable(c, x)
    BY <1>2, <1>6, <2>1, <2>2 DEF Executable
  <2> QED
    BY <2>3 DEF x, h, q, c
<1> QED
  BY <1>1, <1>4, <1>5, <1>6 DEF Commands, Dos

\* A command that works: what it is for is done, the rest is still in the list.
LEMMA ExecutedOK ==
    ASSUME IInv, NEW s \in Calls, call[s].op = "deploy", call[s].pc = "exec", call[s].cmds # <<>>,
           Executable(call[s].plan.name, Resolved(s, Head(call[s].cmds))),
           podman' = Effect(call[s].plan.name, Resolved(s, Head(call[s].cmds)), call[s].id),
           UNCHANGED <<staged, calls>>,
           call'[s] = [call[s] EXCEPT !.cmds = Tail(@)]
    PROVE  call'[s] \in Deployments /\ call'[s].id = call[s].id /\ DeployInv(s)'
<1> DEFINE q == call[s].cmds
           h == Head(q)
           rest == Tail(q)
           cfg == call[s].plan.config
           c == call[s].plan.name
           r == call'[s]
<1>1. /\ TypeOK /\ IdInv /\ DeployInv(s) /\ call[s] \in Deployments /\ c \in Names
  BY DeployIs
<1>2. /\ h \in Commands /\ CmdOK(h, cfg, call[s].key)
      /\ rest \in Seq(Commands) /\ InOrder(rest)
      /\ \A i \in DOMAIN rest : CmdOK(rest[i], cfg, call[s].key)
      /\ Awaits(s) <=> Has(q, "run")
      /\ \A do : Has(q, do) <=> h.do = do \/ Has(rest, do)
      /\ \A u : Ensures(q, u) <=> (h.do = "ensure" /\ h.user = u) \/ Ensures(rest, u)
      /\ h.do = "run" => ~ Has(rest, "run")
      /\ h.do \in {"ensure", "post", "ssh"} => ~ Has(q, "run")
  BY HeadIs
<1>3. /\ podman' \in [Names -> Containers \cup {None}] /\ PodIds'
      /\ \A d \in Names \ {c} : podman'[d] = podman[d]
      /\ h.do # "run" => Heirs(call[s].id)
      /\ h.do \in {"mkdir", "initialize"} => podman' = podman
      /\ h.do = "run" => podman'[c] # None /\ podman'[c].id = call[s].id /\ podman'[c].status = "Up"
      /\ h.do \in {"ensure", "post", "ssh"} =>
            /\ podman[c] # None /\ podman[c].status = "Up"
            /\ podman'[c] # None /\ podman'[c].id = podman[c].id
            /\ podman'[c].status = podman[c].status
      /\ h.do = "ensure" => h.user \in podman'[c].users
      /\ h.do = "post" => podman'[c].post
      /\ h.do = "ssh" => <<h.user, h.with>> \in podman'[c].keys
  BY <1>2, EffectIs
<1>4. /\ r \in Deployments /\ r.op = "deploy" /\ r.pc = "exec" /\ r.cmds = rest
      /\ r.id = call[s].id /\ r.plan = call[s].plan /\ r.failedAt = call[s].failedAt
      /\ r.key = call[s].key /\ r.fault = call[s].fault
      /\ r.touched = call[s].touched /\ r.taken = call[s].taken
  BY <1>1, <1>2 DEF Deployments
<1> HIDE DEF q, h, rest, c, r
<1>5. h.do \in Dos
  BY <1>2 DEF Commands
<1>6. Awaits(s)' <=> Has(rest, "run")
  BY <1>4 DEF Awaits, Early, Late, r
<1>7. AreaInv(s)'
  BY <1>1, <1>4 DEF DeployInv, AreaInv, Informed, r
<1>8. CauseInv(s)'
  BY <1>1, <1>4 DEF DeployInv, CauseInv, HasCause, r
<1>9. \A d \in Names : Of(s, d)' <=> podman'[d] # None /\ podman'[d].id = call[s].id
  BY <1>4 DEF Of, r
<1>10. h.do # "run" => (Awaits(s)' <=> Awaits(s))
  BY <1>2, <1>6
<1>11. ListInv(s)'
  <2>1. Awaits(s)' => \A d \in Names : ~ Of(s, d)'
    <3>1. Awaits(s)' => h.do # "run" /\ Awaits(s)
      BY <1>2, <1>6, <1>10
    <3>2. h.do # "run" /\ Awaits(s) => \A d \in Names : ~ Of(s, d)'
      BY <1>1, <1>3, <1>9 DEF Heirs, DeployInv, ListInv, Of
    <3> QED
      BY <3>1, <3>2
  <2> QED
    BY <1>2, <1>4, <2>1 DEF ListInv, Early, r
<1>12. WorkInv(s)'
  <2>1. SUFFICES ASSUME "container" \notin call[s].touched PROVE WorkInv(s)'
    BY <1>4 DEF WorkInv, r
  <2>2. Underway(s) /\ call[s].pc \in Late /\ WorkInv(s)
    BY <1>1 DEF Underway, Late, DeployInv
  <2>3. /\ Awaits(s) /\ ~ call[s].taken => podman[c] = None
        /\ ~ Awaits(s) => Of(s, c) /\ podman[c].status = "Up"
        /\ \A u \in Configured(cfg) : Ensures(q, u) \/ UserDone(s, u)
        /\ cfg.post => Has(q, "post") \/ PostDone(s)
        /\ call[s].key # None => Has(q, "ssh") \/ KeyDone(s, cfg.remoteUser, call[s].key)
    BY <2>1, <2>2 DEF WorkInv, q, c
  <2>4. Awaits(s)' /\ ~ call[s].taken => podman'[c] = None
    <3>1. Awaits(s)' => h.do \in {"mkdir", "initialize"} /\ Awaits(s)
      BY <1>2, <1>5, <1>6 DEF Dos
    <3> QED
      BY <1>3, <2>3, <3>1
  <2>5. ~ Awaits(s)' => /\ podman'[c] # None /\ podman'[c].id = call[s].id
                        /\ podman'[c].status = "Up"
    BY <1>3, <1>5, <1>10, <2>3 DEF Dos, Of
  <2>6. ~ Awaits(s)' => \A d \in Names : Of(s, d)' => d = c
    <3>1. SUFFICES ASSUME ~ Awaits(s)', NEW d \in Names, Of(s, d)' PROVE d = c
      OBVIOUS
    <3>2. podman'[d] # None /\ podman'[d].id = call[s].id
      BY <1>9, <3>1
    <3>3. podman'[c] # None /\ podman'[c].id = call[s].id
      BY <2>5, <3>1
    <3>4. \A a, b \in Names : a # b /\ podman'[a] # None /\ podman'[b] # None =>
                                podman'[a].id # podman'[b].id
      BY <1>3 DEF PodIds
    <3> QED
      BY <1>1, <3>2, <3>3, <3>4
  <2>7. ASSUME NEW d \in Names, Of(s, d)', ~ Awaits(s), h.do # "run"
        PROVE  \E e \in Names : /\ Of(s, e) /\ podman[e].users \subseteq podman'[d].users
                                /\ podman[e].keys \subseteq podman'[d].keys
                                /\ podman[e].post => podman'[d].post
    BY <1>3, <1>9, <2>7 DEF Heirs, Of
  <2>8. h.do = "run" => Awaits(s)
    BY <1>2
  <2>9. ASSUME NEW u \in Configured(cfg)
        PROVE  Ensures(rest, u) \/ (~ Awaits(s)' /\ \A d \in Names : Of(s, d)' => u \in podman'[d].users)
    <3>1. CASE Ensures(rest, u)
      BY <3>1
    <3>2. CASE h.do = "ensure" /\ h.user = u
      <4>1. ~ Awaits(s)'
        BY <1>2, <1>10, <3>2
      <4> QED
        BY <1>3, <2>6, <3>2, <4>1
    <3>3. CASE UserDone(s, u)
      BY <1>10, <2>7, <2>8, <3>3 DEF UserDone
    <3> QED
      BY <1>2, <2>3, <3>1, <3>2, <3>3
  <2>10. ASSUME cfg.post
         PROVE  Has(rest, "post") \/ (~ Awaits(s)' /\ \A d \in Names : Of(s, d)' => podman'[d].post)
    <3>1. CASE Has(rest, "post")
      BY <3>1
    <3>2. CASE h.do = "post"
      <4>1. ~ Awaits(s)'
        BY <1>2, <1>10, <3>2
      <4> QED
        BY <1>3, <2>6, <3>2, <4>1
    <3>3. CASE PostDone(s)
      BY <1>10, <2>7, <2>8, <3>3 DEF PostDone
    <3> QED
      BY <1>2, <2>3, <2>10, <3>1, <3>2, <3>3
  <2>11. ASSUME call[s].key # None
         PROVE  \/ Has(rest, "ssh")
                \/ /\ ~ Awaits(s)'
                   /\ \A d \in Names : Of(s, d)' => <<cfg.remoteUser, call[s].key>> \in podman'[d].keys
    <3>1. CASE Has(rest, "ssh")
      BY <3>1
    <3>2. CASE h.do = "ssh"
      <4>1. ~ Awaits(s)' /\ h.user = cfg.remoteUser /\ h.with = call[s].key
        BY <1>2, <1>10, <3>2 DEF CmdOK
      <4> QED
        BY <1>3, <2>6, <3>2, <4>1
    <3>3. CASE KeyDone(s, cfg.remoteUser, call[s].key)
      BY <1>10, <2>7, <2>8, <3>3 DEF KeyDone
    <3> QED
      BY <1>2, <2>3, <2>11, <3>1, <3>2, <3>3
  <2> QED
    BY <1>4, <2>4, <2>5, <2>9, <2>10, <2>11 DEF WorkInv, UserDone, PostDone, KeyDone, Of, r, c
<1> QED
  BY <1>4, <1>7, <1>8, <1>11, <1>12 DEF DeployInv, r

LEMMA ExecuteCommandOK ==
    ASSUME IInv, NEW s \in Calls, ExecuteCommand(s) PROVE IInv'
<1> DEFINE c == call[s].plan.name
           h == Head(call[s].cmds)
           x == Resolved(s, h)
           e == IF podman' = podman THEN None ELSE c
<1>1. /\ call[s].op = "deploy" /\ call[s].pc = "exec" /\ call[s].cmds # <<>>
      /\ UNCHANGED <<staged, auth, image, calls, faults>>
      /\ IF Executable(c, x)
         THEN /\ podman' = Effect(c, x, call[s].id)
              /\ Proceed(s, [call[s] EXCEPT !.cmds = Tail(@)], e, None)
         ELSE Move(s, FailAt(s, x.do, FALSE)) /\ UNCHANGED podman
  BY DEF ExecuteCommand, At
<1>2. /\ TypeOK /\ c \in Names /\ staged' \in [Projects -> [Ids -> Stored]]
      /\ auth' \in Stored /\ image' \in [Names -> Images] /\ faults' \in 0 .. MaxFaults
  BY <1>1, DeployIs DEF TypeOK
<1>3. /\ h \in Commands /\ CmdOK(h, call[s].plan.config, call[s].key)
      /\ h.do = "run" => Awaits(s)
  BY <1>1, HeadIs
<1>4. CASE Executable(c, x)
  <2>1. podman' = Effect(c, x, call[s].id) /\ Proceed(s, [call[s] EXCEPT !.cmds = Tail(@)], e, None)
    BY <1>1, <1>4
  <2>2. call'[s] = [call[s] EXCEPT !.cmds = Tail(@)]
    BY <2>1 DEF Proceed
  <2>3. call'[s] \in Deployments /\ call'[s].id = call[s].id /\ DeployInv(s)'
    BY <1>1, <1>4, <2>1, <2>2, ExecutedOK
  <2>4. /\ podman' \in [Names -> Containers \cup {None}] /\ PodIds'
        /\ \A d \in Names \ {c} : podman'[d] = podman[d]
        /\ \A t \in Calls : t # s /\ call[t].op = "deploy" => Heirs(call[t].id)
    BY <1>1, <1>3, <1>4, <2>1, EffectIs
  <2>5. Changes({e}, {None}) /\ e \in Names \cup {None}
    BY <1>1, <1>2, <2>4 DEF Changes
  <2>6. Proceed(s, call'[s], e, None) /\ call'[s].op = "deploy" /\ call'[s] \in CallStates
    BY <2>1, <2>2, <2>3 DEF Proceed, Deployments, CallStates
  <2> HIDE DEF e
  <2> QED
    BY <1>1, <1>2, <2>3, <2>4, <2>5, <2>6, ProceedOK DEF Reads
<1>5. CASE ~ Executable(c, x)
  <2>1. HasCause(call[s])
    BY <1>1, <1>5, HeadExecutable DEF HasCause
  <2>2. x.do \in FailPoints
    BY <1>1, <1>3, ResolvedIs DEF CmdOK, Commands, Dos, FailPoints
  <2> HIDE DEF x
  <2> QED
    BY <1>1, <1>2, <1>5, <2>1, <2>2, FailsOK
<1> QED
  BY <1>4, <1>5

LEMMA CommandFailsOK ==
    ASSUME IInv, NEW s \in Calls, CommandFails(s) PROVE IInv'
<1> DEFINE c == call[s].plan.name
           h == Head(call[s].cmds)
           x == Resolved(s, h)
           r == FailAt(s, x.do, TRUE)
<1>1. /\ call[s].op = "deploy" /\ call[s].pc = "exec" /\ call[s].cmds # <<>>
      /\ UNCHANGED <<staged, auth, image, calls>> /\ Fault
      /\ \/ Move(s, r) /\ UNCHANGED podman
         \/ /\ Executable(c, x)
            /\ podman' = EffectOfFailed(c, x, call[s].id)
            /\ Proceed(s, r, c, None)
  BY DEF CommandFails, At
<1>2. /\ TypeOK /\ c \in Names /\ staged' \in [Projects -> [Ids -> Stored]]
      /\ auth' \in Stored /\ image' \in [Names -> Images] /\ faults' \in 0 .. MaxFaults
  BY <1>1, DeployIs, FaultOK DEF TypeOK
<1>3. /\ h \in Commands /\ CmdOK(h, call[s].plan.config, call[s].key)
      /\ h.do = "run" => Awaits(s)
  BY <1>1, HeadIs
<1>4. x.do \in FailPoints
  BY <1>1, <1>3, ResolvedIs DEF CmdOK, Commands, Dos, FailPoints
<1>5. CASE Move(s, r) /\ UNCHANGED podman
  <2> HIDE DEF x
  <2> QED
    BY <1>1, <1>2, <1>4, <1>5, FailsOK
<1>6. CASE /\ Executable(c, x)
           /\ podman' = EffectOfFailed(c, x, call[s].id)
           /\ Proceed(s, r, c, None)
  <2>1. /\ podman' \in [Names -> Containers \cup {None}] /\ PodIds'
        /\ \A d \in Names \ {c} : podman'[d] = podman[d]
        /\ \A t \in Calls : t # s /\ call[t].op = "deploy" => Heirs(call[t].id)
    BY <1>1, <1>3, <1>6, EffectIs
  <2> HIDE DEF x
  <2>2. /\ r \in Deployments /\ r.op = "deploy" /\ r.id = call[s].id /\ r.pc = "end"
        /\ r.failedAt # None /\ HasCause(r)
    BY <1>1, <1>2, <1>4, FailAtIs
  <2> HIDE DEF r, c
  <2>3. call'[s] = r
    BY <1>6 DEF Proceed
  <2>4. DeployInv(s)' /\ r \in CallStates
    BY <2>2, <2>3, OverOK DEF CallStates
  <2>5. Changes({c}, {None})
    BY <1>1, <2>1 DEF Changes
  <2> QED
    BY <1>1, <1>2, <1>6, <2>1, <2>2, <2>4, <2>5, ProceedOK DEF Reads
<1> QED
  BY <1>1, <1>5, <1>6

-----------------------------------------------------------------------------
(***************************************************************************)
(* The other calls and requests.                                           *)
(***************************************************************************)

\* A removal moves on.
LEMMA RemovalIs ==
    ASSUME IInv, NEW s \in Calls, call[s].op = "delete", NEW pc \in {"rm", "sweep", "end"},
           pc = "sweep" => call[s].project # None
    PROVE  LET r == [call[s] EXCEPT !.pc = pc] IN
           /\ r \in CallStates /\ r.op = "delete" /\ r.id = call[s].id
           /\ r.op = call[s].op /\ r.op \notin Reads
BY KindOf DEF IInv, Removals, CallStates, Reads

LEMMA DeleteContainerOK ==
    ASSUME IInv, NEW s \in Calls, DeleteContainer(s) PROVE IInv'
<1> DEFINE c == call[s].name
           pc == IF call[s].project = None THEN "end" ELSE "sweep"
           r == [call[s] EXCEPT !.pc = pc]
<1>1. /\ call[s].op = "delete" /\ UNCHANGED <<staged, auth, image, calls, faults>>
      /\ podman' = [podman EXCEPT ![c] = None] /\ Proceed(s, r, c, None)
  BY DEF DeleteContainer
<1>2. /\ r \in CallStates /\ r.op = "delete" /\ r.id = call[s].id /\ r.op \notin Reads
  BY <1>1, RemovalIs
<1>3. TypeOK /\ PodIds /\ c \in Names
  BY <1>1, KindOf DEF IInv, IdInv, Removals
<1> HIDE DEF r, c
<1>4. /\ podman' \in [Names -> Containers \cup {None}] /\ podman'[c] = None
      /\ \A d \in Names \ {c} : podman'[d] = podman[d]
      /\ staged' \in [Projects -> [Ids -> Stored]]
      /\ auth' \in Stored /\ image' \in [Names -> Images] /\ faults' \in 0 .. MaxFaults
  BY <1>1, <1>3 DEF TypeOK
<1>5. PodIds' /\ Changes({c}, {None}) /\ \A i : Heirs(i)
  BY <1>1, <1>3, <1>4 DEF PodIds, Changes, Heirs
<1> QED
  BY <1>1, <1>2, <1>3, <1>4, <1>5, ProceedOK

LEMMA DeleteProjectStagingOK ==
    ASSUME IInv, NEW s \in Calls, deleteProjectStaging(s) PROVE IInv'
<1> DEFINE p == call[s].project
           r == [call[s] EXCEPT !.pc = "end"]
<1>1. /\ call[s].op = "delete" /\ call[s].pc = "sweep"
      /\ UNCHANGED <<auth, image, podman, calls, faults>>
      /\ \/ Move(s, r) /\ UNCHANGED staged
         \/ \E i \in Ids : /\ staged' = [staged EXCEPT ![p][i] = None]
                           /\ Proceed(s, call[s], None, p)
  BY DEF deleteProjectStaging
<1>2. /\ TypeOK /\ IdInv /\ p \in Projects /\ call[s] \in CallStates
      /\ podman' \in [Names -> Containers \cup {None}]
      /\ auth' \in Stored /\ image' \in [Names -> Images] /\ faults' \in 0 .. MaxFaults
  BY <1>1, KindOf DEF IInv, Removals, TypeOK
<1>3. /\ r \in CallStates /\ r.op = "delete" /\ r.id = call[s].id /\ r.op \notin Reads
      /\ call[s].op \notin Reads
  BY <1>1, RemovalIs DEF Reads
<1>4. CASE Move(s, r) /\ UNCHANGED staged
  <2> HIDE DEF r
  <2> QED
    BY <1>1, <1>2, <1>3, <1>4, MoveOK
<1>5. CASE \E i \in Ids : /\ staged' = [staged EXCEPT ![p][i] = None]
                          /\ Proceed(s, call[s], None, p)
  <2>1. PICK i \in Ids : staged' = [staged EXCEPT ![p][i] = None] /\ Proceed(s, call[s], None, p)
    BY <1>5
  <2>2. /\ staged' \in [Projects -> [Ids -> Stored]]
        /\ \A q \in Projects \ {p} : staged'[q] = staged[q]
    BY <1>2, <2>1 DEF TypeOK, Stored
  <2>3. PodIds' /\ Changes({None}, {p}) /\ \A j : Heirs(j)
    BY <1>1, <1>2, <2>2 DEF IdInv, PodIds, Changes, Heirs
  <2> HIDE DEF p
  <2> QED
    BY <1>1, <1>2, <1>3, <2>1, <2>2, <2>3, ProceedOK
<1> QED
  BY <1>1, <1>4, <1>5

LEMMA DeleteFailsOK ==
    ASSUME IInv, NEW s \in Calls, DeleteFails(s) PROVE IInv'
<1> DEFINE r == [call[s] EXCEPT !.pc = "end"]
<1>1. /\ call[s].op = "delete" /\ Fault /\ Move(s, r)
      /\ UNCHANGED <<staged, auth, image, podman, calls>>
  BY DEF DeleteFails
<1>2. /\ r \in CallStates /\ r.op = "delete" /\ r.id = call[s].id /\ r.op \notin Reads
  BY <1>1, RemovalIs
<1>3. auth' \in Stored /\ image' \in [Names -> Images] /\ faults' \in 0 .. MaxFaults
  BY <1>1, FaultOK DEF IInv, TypeOK
<1> HIDE DEF r
<1> QED
  BY <1>1, <1>2, <1>3, MoveOK

\* A request of one command, noted by every call.
LEMMA RequestOK ==
    ASSUME IInv, NEW c \in Names, NEW d \in Names, Request(c, d),
           podman' \in [Names -> Containers \cup {None}], PodIds',
           \A x \in Names \ {c, d} : podman'[x] = podman[x], \A i : Heirs(i)
    PROVE  IInv'
<1>1. /\ call' = [s \in Calls |-> Witness(Witness(call[s], c, None), d, None)]
      /\ calls < MaxCalls /\ calls' = calls + 1 /\ UNCHANGED <<staged, auth, image, faults>>
      /\ TypeOK /\ IdInv
  BY DEF Request, IInv
<1>2. ASSUME NEW t \in Calls PROVE Saw(t, {c} \cup {d}, {None} \cup {None})
  <2> DEFINE m == Witness(call[t], c, None)
  <2>1. call[t] \in CallStates
    BY <1>1 DEF TypeOK
  <2>2. Noted(call[t], m, {c}, {None})
    BY <2>1, WitnessNotes
  <2>3. m \in CallStates
    BY <2>2 DEF Noted
  <2> HIDE DEF m
  <2>4. Noted(m, Witness(m, d, None), {d}, {None})
    BY <2>3, WitnessNotes
  <2>5. call'[t] = Witness(m, d, None)
    BY <1>1 DEF m
  <2>6. Noted(call[t], call'[t], {c} \cup {d}, {None} \cup {None})
    BY <2>2, <2>4, <2>5, NotedTwice
  <2> QED
    BY <2>6 DEF Saw
<1>3. \A t \in Calls : /\ call'[t] \in CallStates /\ call'[t].op = call[t].op
                       /\ call[t].op # "none" => call'[t].id = call[t].id
  BY <1>2 DEF Saw, Noted
<1>4. call' \in [Calls -> CallStates]
  BY <1>1, <1>3
<1>5. TypeOK' /\ calls' >= calls
  BY <1>1, <1>4, BoundsAssumption DEF TypeOK
<1>6. IdInv'
  BY <1>1, <1>3, <1>5 DEF IdInv, CallIds, TypeOK
<1>7. Changes({c} \cup {d}, {None} \cup {None})
  BY <1>1 DEF Changes
<1>8. \A t \in Calls : CallInv(t)'
  BY <1>2, <1>7, OthersOK
<1> QED
  BY <1>5, <1>6, <1>8 DEF IInv

LEMMA StartContainerOK ==
    ASSUME IInv, NEW c \in Names, StartContainer(c) PROVE IInv'
<1> DEFINE k == [podman[c] EXCEPT !.status = "Up"]
<1>1. /\ podman[c] # None /\ podman' = [podman EXCEPT ![c] = k] /\ Request(c, c)
      /\ TypeOK /\ calls' = calls + 1
  BY DEF StartContainer, Request, IInv, TypeOK
<1>2. /\ k \in Containers /\ k.id = podman[c].id /\ k.users = podman[c].users
      /\ k.keys = podman[c].keys /\ k.post = podman[c].post /\ calls' \in Nat /\ calls <= calls'
  BY <1>1 DEF TypeOK, Containers, Statuses
<1> HIDE DEF k
<1>3. /\ podman' \in [Names -> Containers \cup {None}] /\ PodIds'
      /\ (\A d \in Names \ {c} : podman'[d] = podman[d]) /\ \A i : Heirs(i)
  BY <1>1, <1>2, GrowsOK
<1> QED
  BY <1>1, <1>3, RequestOK

LEMMA StopContainerOK ==
    ASSUME IInv, NEW c \in Names, StopContainer(c) PROVE IInv'
<1> DEFINE k == [podman[c] EXCEPT !.status = "Exited"]
<1>1. /\ podman[c] # None /\ podman' = [podman EXCEPT ![c] = k] /\ Request(c, c)
      /\ TypeOK /\ calls' = calls + 1
  BY DEF StopContainer, Request, IInv, TypeOK
<1>2. /\ k \in Containers /\ k.id = podman[c].id /\ k.users = podman[c].users
      /\ k.keys = podman[c].keys /\ k.post = podman[c].post /\ calls' \in Nat /\ calls <= calls'
  BY <1>1 DEF TypeOK, Containers, Statuses
<1> HIDE DEF k
<1>3. /\ podman' \in [Names -> Containers \cup {None}] /\ PodIds'
      /\ \A d \in Names \ {c} : podman'[d] = podman[d]
      /\ \A i : Heirs(i)
  BY <1>1, <1>2, GrowsOK
<1> QED
  BY <1>1, <1>3, RequestOK

\* A renamed container keeps its identity and all that was done in it.
LEMMA RenameContainerOK ==
    ASSUME IInv, NEW c \in Names, NEW d \in Names, RenameContainer(c, d) PROVE IInv'
<1>1. /\ podman[c] # None /\ podman[d] = None /\ c # d /\ Request(c, d)
      /\ podman' = [podman EXCEPT ![c] = None, ![d] = podman[c]]
      /\ TypeOK /\ PodIds /\ calls' = calls + 1 /\ calls \in Nat
  BY DEF RenameContainer, Request, IInv, IdInv, TypeOK
<1>2. /\ podman' \in [Names -> Containers \cup {None}]
      /\ podman'[c] = None /\ podman'[d] = podman[c]
      /\ \A x \in Names \ {c, d} : podman'[x] = podman[x]
  BY <1>1 DEF TypeOK
<1>3. PodIds'
  BY <1>1, <1>2 DEF PodIds
<1>4. \A i : Heirs(i)
  BY <1>1, <1>2 DEF Heirs
<1> QED
  BY <1>1, <1>2, <1>3, <1>4, RequestOK

-----------------------------------------------------------------------------
(***************************************************************************)
(* The calls that read.                                                    *)
(***************************************************************************)

\* A read ends with an answer that was true at a moment of the call.
LEMMA AnswerOK ==
    ASSUME IInv, NEW s \in Calls, call[s].op \in Reads, NEW a \in Answers \cup {None},
           a # None => \A c \in DOMAIN a : WasTrue(a[c], call[s].seen[c]), Answer(s, a),
           UNCHANGED <<staged, auth, image, podman, calls>>, faults' \in 0 .. MaxFaults
    PROVE  IInv'
<1> DEFINE r == [call[s] EXCEPT !.pc = "end", !.answer = a]
<1>1. /\ TypeOK /\ call[s] \in Readings /\ ReadInv(s) /\ Move(s, r)
  BY KindOf DEF IInv, CallInv, Answer
<1>2. /\ r \in Readings /\ r.op = call[s].op /\ r.id = call[s].id /\ r.name = call[s].name
      /\ r.pc = "end" /\ r.answer = a /\ r.seen = call[s].seen
  BY <1>1 DEF Readings
<1>3. call'[s] = r
  BY <1>1 DEF Move, TypeOK
<1> HIDE DEF r
<1>4. ReadInv(s)'
  BY <1>1, <1>2, <1>3 DEF ReadInv
<1>5. auth' \in Stored /\ image' \in [Names -> Images] /\ r \in CallStates
  BY <1>1, <1>2 DEF TypeOK, CallStates
<1> QED
  BY <1>1, <1>2, <1>4, <1>5, MoveOK DEF Reads

\* What `podman ps` is read to say of a container is true of what it shows.
LEMMA ParsedIs ==
    ASSUME TypeOK, NEW c \in Names, NEW seen, Shown(podman[c]) \in seen
    PROVE  /\ parsePsFormattedOutput(podman[c]) \in {"running", "exited", "deleted"}
           /\ WasTrue(parsePsFormattedOutput(podman[c]), seen)
<1>1. podman[c] = None \/ podman[c].status \in Statuses
  BY DEF TypeOK, Containers
<1> QED
  BY <1>1 DEF parsePsFormattedOutput, parseContainerRawData, WasTrue, Shown, Statuses

LEMMA InspectOK ==
    ASSUME IInv, NEW s \in Calls, Inspect(s) PROVE IInv'
<1> DEFINE k == podman[call[s].name]
           ports == parseInspectFormattedOutput(k.ports)
           r == [call[s] EXCEPT !.pc = "ps", !.ports = ports]
<1>1. /\ call[s].op = "get" /\ call[s].pc = "inspect" /\ call[s].op \in Reads
      /\ UNCHANGED <<staged, auth, image, podman, calls, faults>>
      /\ \/ Answer(s, None)
         \/ k # None /\ ports # None /\ Move(s, r)
  BY DEF Inspect, Reads
<1>2. /\ TypeOK /\ call[s] \in Readings /\ ReadInv(s) /\ call[s].name \in Names
      /\ auth' \in Stored /\ image' \in [Names -> Images] /\ faults' \in 0 .. MaxFaults
  BY <1>1, KindOf DEF IInv, CallInv, ReadInv, TypeOK
<1>3. CASE Answer(s, None)
  BY <1>1, <1>2, <1>3, AnswerOK
<1>4. CASE k # None /\ ports # None /\ Move(s, r)
  <2>1. k \in Containers
    BY <1>2, <1>4 DEF TypeOK
  <2> DEFINE Entry == [port : {"22/tcp", "other"}, hosts : 0 .. 2]
             q == k.ports
  <2>2. q \in Seq(Entry)
    BY <2>1 DEF Containers, Ports
  <2>3. \A j \in DOMAIN q : q[j].port \in {"22/tcp", "other"}
    <3>1. SUFFICES ASSUME NEW j \in DOMAIN q PROVE q[j] \in Entry
      OBVIOUS
    <3> HIDE DEF Entry, q
    <3>2. DOMAIN q = 1 .. Len(q) /\ Len(q) \in Nat
      BY <2>2
    <3> QED
      BY <2>2, <3>1, <3>2, ElementOfSeq
  <2>4. ports \in SUBSET {"22/tcp", "other"}
    BY <1>4, <2>3 DEF parseInspectFormattedOutput
  <2> HIDE DEF ports
  <2>5. /\ r \in Readings /\ r.op = call[s].op /\ r.id = call[s].id /\ r.name = call[s].name
        /\ r.pc = "ps" /\ r.answer = call[s].answer /\ r.seen = call[s].seen
    BY <1>2, <2>4 DEF Readings
  <2>6. call'[s] = r
    BY <1>2, <1>4 DEF Move, TypeOK
  <2> HIDE DEF r
  <2>7. ReadInv(s)' /\ r \in CallStates
    BY <1>1, <1>2, <2>5, <2>6 DEF ReadInv, CallStates
  <2> QED
    BY <1>1, <1>2, <1>4, <2>5, <2>7, MoveOK DEF Reads
<1> QED
  BY <1>1, <1>3, <1>4

LEMMA GetContainerStatusOK ==
    ASSUME IInv, NEW s \in Calls, GetContainerStatus(s) PROVE IInv'
<1> DEFINE a == [c \in {call[s].name} |-> parsePsFormattedOutput(podman[c])]
<1>1. /\ call[s].op \in Reads /\ call[s].op = "get" /\ call[s].pc = "ps" /\ Answer(s, a)
      /\ UNCHANGED <<staged, auth, image, podman, calls, faults>>
  BY DEF GetContainerStatus, Reads
<1>2. TypeOK /\ call[s].name \in Names /\ Shown(podman[call[s].name]) \in call[s].seen[call[s].name]
      /\ faults' \in 0 .. MaxFaults
  BY <1>1 DEF IInv, CallInv, ReadInv, TypeOK
<1>3. a \in [{call[s].name} -> {"running", "exited", "deleted"}]
  BY <1>2, ParsedIs
<1>4. a \in Answers
  BY <1>2, <1>3 DEF Answers
<1>5. \A c \in DOMAIN a : WasTrue(a[c], call[s].seen[c])
  BY <1>2, ParsedIs
<1> HIDE DEF a
<1> QED
  BY <1>1, <1>2, <1>4, <1>5, AnswerOK

LEMMA ListContainersOK ==
    ASSUME IInv, NEW s \in Calls, ListContainers(s) PROVE IInv'
<1> DEFINE a == [c \in Names |-> parsePsFormattedOutput(podman[c])]
<1>1. /\ call[s].op \in Reads /\ call[s].pc = "ps" /\ Answer(s, a)
      /\ UNCHANGED <<staged, auth, image, podman, calls, faults>>
  BY DEF ListContainers, Reads
<1>2. /\ TypeOK /\ faults' \in 0 .. MaxFaults
      /\ \A c \in Names : Shown(podman[c]) \in call[s].seen[c]
  BY <1>1 DEF IInv, CallInv, ReadInv, TypeOK
<1>3. a \in [Names -> {"running", "exited", "deleted"}]
  BY <1>2, ParsedIs
<1>4. a \in Answers
  BY <1>3 DEF Answers
<1>5. \A c \in DOMAIN a : WasTrue(a[c], call[s].seen[c])
  BY <1>2, ParsedIs
<1> HIDE DEF a
<1> QED
  BY <1>1, <1>2, <1>4, <1>5, AnswerOK

LEMMA ReadFailsOK ==
    ASSUME IInv, NEW s \in Calls, ReadFails(s) PROVE IInv'
BY FaultOK, AnswerOK DEF ReadFails, IInv

-----------------------------------------------------------------------------
(***************************************************************************)
(* The start of a call, and the end of them all.                           *)
(***************************************************************************)

\* What a call starts as: no container is its own.
LEMMA BeginOK ==
    ASSUME IInv, NEW s \in Calls, Begin(s) PROVE IInv'
<1>1. /\ TypeOK /\ IdInv /\ calls' = calls + 1 /\ calls + 1 \in 0 .. MaxCalls /\ calls \in Nat
      /\ UNCHANGED <<staged, auth, image, podman, faults>>
  BY BoundsAssumption DEF Begin, IInv, TypeOK
<1>2. \A t \in Calls : t # s => call'[t] = call[t]
  BY <1>1 DEF Begin, TypeOK
<1>3. \A c \in Names : podman[c] # None => podman[c].id # calls + 1
  BY <1>1 DEF IdInv, PodIds
<1>4. /\ call'[s] \in CallStates /\ call'[s].op # "none" /\ call'[s].id = calls + 1
      /\ CallInv(s)'
  <2>1. CASE \E pl \in Plans : call' = [call EXCEPT ![s] = Deployment(pl)]
    <3>1. PICK pl \in Plans : call' = [call EXCEPT ![s] = Deployment(pl)]
      BY <2>1
    <3> DEFINE r == Deployment(pl)
               bad == CollectFails(pl.config, pl.client)
    <3>2. call'[s] = r
      BY <1>1, <3>1 DEF TypeOK
    <3>3. /\ r.op = "deploy" /\ r.id = calls + 1 /\ r.plan = pl
          /\ r.pc = (IF bad THEN "end" ELSE "prepare")
          /\ r.failedAt = (IF bad THEN "plan" ELSE None)
          /\ r.missing = {} /\ r.cmds = <<>> /\ r.image = None /\ r.key = None
          /\ r.fault = FALSE /\ r.touched = {} /\ r.taken = (podman[pl.name] # None)
      BY DEF Deployment
    <3>4. r \in Deployments
      <4>1. <<>> \in Seq(Commands) /\ (podman[pl.name] # None) \in BOOLEAN
        OBVIOUS
      <4>2. (IF bad THEN "end" ELSE "prepare") \in Early \cup Late \cup {"end"}
        BY DEF Early
      <4>3. (IF bad THEN "plan" ELSE None) \in FailPoints \cup {None}
        BY DEF FailPoints
      <4> HIDE DEF bad
      <4> QED
        BY <1>1, <4>1, <4>2, <4>3 DEF Deployment, Deployments, Images, Stored, bad
    <3> HIDE DEF r
    <3>5. DeployInv(s)'
      <4>1. CASE bad
        <5>1. r.failedAt # None /\ HasCause(r)
          BY <3>3, <4>1, NoneAssumption DEF HasCause, FailPoints
        <5> QED
          BY <3>2, <3>3, <4>1, <5>1, OverOK
      <4>2. CASE ~ bad
        <5>1. \A c \in Names : ~ Of(s, c)'
          BY <1>1, <1>3, <3>2, <3>3 DEF Of
        <5>2. ~ Underway(s)' /\ r.pc = "prepare" /\ r.failedAt = None /\ Awaits(s)'
          BY <3>2, <3>3, <4>2 DEF Underway, Awaits, Early, Late
        <5>3. AreaInv(s)'
          BY <3>2, <5>2 DEF AreaInv, Informed
        <5>4. CauseInv(s)'
          BY <3>2, <3>3, <4>2, <5>2 DEF CauseInv
        <5>5. ListInv(s)'
          BY <3>2, <3>3, <5>1, <5>2 DEF ListInv
        <5>6. WorkInv(s)'
          BY <1>1, <3>2, <3>3, <5>2 DEF WorkInv
        <5> QED
          BY <5>3, <5>4, <5>5, <5>6 DEF DeployInv
      <4> QED
        BY <4>1, <4>2
    <3> QED
      BY <3>2, <3>3, <3>4, <3>5 DEF CallInv, CallStates, Reads
  <2>2. CASE \E c \in Names, p \in Projects \cup {None} : call' = [call EXCEPT ![s] = Removal(c, p)]
    <3>1. PICK c \in Names, p \in Projects \cup {None} : call' = [call EXCEPT ![s] = Removal(c, p)]
      BY <2>2
    <3>2. call'[s] = Removal(c, p)
      BY <1>1, <3>1 DEF TypeOK
    <3>3. Removal(c, p) \in Removals /\ Removal(c, p).op = "delete" /\ Removal(c, p).id = calls + 1
      BY <1>1 DEF Removal, Removals
    <3> QED
      BY <3>2, <3>3 DEF CallInv, CallStates, Reads
  <2>3. ASSUME NEW op \in Reads, NEW c \in Names \cup {None}, op = "get" => c \in Names,
               call' = [call EXCEPT ![s] = Reading(op, c)]
        PROVE  /\ call'[s] \in CallStates /\ call'[s].op # "none" /\ call'[s].id = calls + 1
               /\ CallInv(s)'
    <3> DEFINE r == Reading(op, c)
    <3>1. call'[s] = r
      BY <1>1, <2>3 DEF TypeOK
    <3>2. /\ r.op = op /\ r.id = calls + 1 /\ r.name = c /\ r.answer = None
          /\ r.seen = [d \in Names |-> {Shown(podman[d])}]
      BY DEF Reading
    <3>3. r.seen \in [Names -> SUBSET Views]
      BY <1>1, <3>2 DEF TypeOK, Shown, Views, Containers
    <3>4. r \in Readings
      <4> DEFINE seen == [d \in Names |-> {Shown(podman[d])}]
                 pc == IF op = "get" THEN "inspect" ELSE "ps"
      <4>1. seen \in [Names -> SUBSET Views] /\ pc \in {"inspect", "ps", "end"}
        BY <3>2, <3>3
      <4>2. r = [op |-> op, id |-> calls + 1, name |-> c, project |-> None, pc |-> pc,
                 ports |-> {}, answer |-> None, seen |-> seen]
        BY DEF Reading
      <4> HIDE DEF seen, pc, r
      <4> QED
        BY <1>1, <2>3, <4>1, <4>2 DEF Readings
    <3> HIDE DEF r
    <3>5. ReadInv(s)'
      BY <1>1, <2>3, <3>1, <3>2 DEF ReadInv
    <3> QED
      BY <2>3, <3>1, <3>2, <3>4, <3>5 DEF CallInv, CallStates, Reads
  <2> QED
    BY <2>1, <2>2, <2>3 DEF Begin, Reads
<1>5. call' \in [Calls -> CallStates]
  <2>1. DOMAIN call' = Calls /\ call' = [t \in Calls |-> call'[t]]
    BY <1>1 DEF Begin, TypeOK
  <2> QED
    BY <1>1, <1>2, <1>4, <2>1 DEF TypeOK
<1>6. TypeOK'
  BY <1>1, <1>5 DEF TypeOK
<1>7. CallIds'
  BY <1>1, <1>2, <1>4 DEF IdInv, CallIds
<1>8. PodIds'
  BY <1>1 DEF IdInv, PodIds
<1>9. \A t \in Calls : t # s => CallInv(t)'
  <2>1. \A t \in Calls : t # s => Saw(t, {}, {})
    BY <1>1, <1>2, SawSame
  <2>2. Changes({}, {}) /\ \A i : Heirs(i)
    BY <1>1 DEF Changes, Heirs
  <2> QED
    BY <2>1, <2>2, OthersOK
<1> QED
  BY <1>4, <1>6, <1>7, <1>8, <1>9 DEF IInv, IdInv

\* A restart of the agent ends every call.
LEMMA CrashOK ==
    ASSUME IInv, Crash PROVE IInv'
<1>1. /\ TypeOK /\ IdInv /\ faults' \in 0 .. MaxFaults
      /\ UNCHANGED <<staged, auth, image, podman, calls>>
  BY FaultOK DEF Crash, IInv
<1>2. ASSUME NEW s \in Calls
      PROVE  /\ call'[s] \in CallStates /\ call'[s].op = call[s].op
             /\ call[s].op # "none" => call'[s].id = call[s].id
             /\ CallInv(s)'
  <2>1. CASE Ended(s)
    <3>1. call'[s] = call[s]
      BY <2>1 DEF Crash
    <3>2. Saw(s, {}, {}) /\ Changes({}, {}) /\ Heirs(call[s].id)
      BY <1>1, <3>1, SawSame DEF Changes, Heirs
    <3> QED
      BY <1>1, <3>1, <3>2, OthersOK DEF TypeOK
  <2>2. CASE ~ Ended(s) /\ call[s].op = "deploy"
    <3>1. call'[s] = FailAt(s, call[s].pc, TRUE)
      BY <2>2 DEF Crash
    <3>2. call[s].pc \in FailPoints
      BY <2>2, DeployIs DEF Ended, Deployments, Early, Late, FailPoints
    <3> DEFINE r == FailAt(s, call[s].pc, TRUE)
    <3>3. /\ r \in Deployments /\ r.op = "deploy" /\ r.id = call[s].id /\ r.pc = "end"
          /\ r.failedAt # None /\ HasCause(r)
      BY <1>1, <2>2, <3>2, FailAtIs
    <3> HIDE DEF r
    <3>4. DeployInv(s)'
      BY <3>1, <3>3, OverOK DEF r
    <3> QED
      BY <2>2, <3>1, <3>3, <3>4 DEF CallInv, CallStates, Reads, r
  <2>3. CASE ~ Ended(s) /\ call[s].op = "delete"
    <3> DEFINE r == [call[s] EXCEPT !.pc = "end"]
    <3>1. call'[s] = r
      BY <2>3 DEF Crash
    <3>2. /\ r \in CallStates /\ r.op = "delete" /\ r.id = call[s].id /\ r.op \notin Reads
      BY <2>3, RemovalIs
    <3> HIDE DEF r
    <3> QED
      BY <2>3, <3>1, <3>2 DEF CallInv, Reads
  <2>4. CASE ~ Ended(s) /\ call[s].op \in Reads
    <3> DEFINE r == [call[s] EXCEPT !.pc = "end"]
    <3>1. call'[s] = r
      BY <2>4 DEF Crash, Reads
    <3>2. call[s] \in Readings /\ ReadInv(s) /\ call[s].pc # "end"
      BY <1>1, <2>4, KindOf DEF IInv, CallInv, Ended
    <3>3. /\ r \in Readings /\ r.op = call[s].op /\ r.id = call[s].id /\ r.name = call[s].name
          /\ r.pc = "end" /\ r.answer = call[s].answer /\ r.seen = call[s].seen
      BY <3>2 DEF Readings
    <3> HIDE DEF r
    <3>4. ReadInv(s)'
      BY <3>1, <3>2, <3>3 DEF ReadInv
    <3> QED
      BY <2>4, <3>1, <3>3, <3>4 DEF CallInv, CallStates, Reads
  <2> QED
    BY <1>1, <2>1, <2>2, <2>3, <2>4, KindOf DEF Ended
<1>3. call' \in [Calls -> CallStates]
  <2>1. call' = [s \in Calls |-> call'[s]]
    BY DEF Crash
  <2> QED
    BY <1>2, <2>1
<1>4. TypeOK' /\ IdInv'
  BY <1>1, <1>2, <1>3 DEF TypeOK, IdInv, CallIds, PodIds
<1> QED
  BY <1>2, <1>4 DEF IInv

-----------------------------------------------------------------------------
(***************************************************************************)
(* The invariant.                                                          *)
(***************************************************************************)
LEMMA InitOK == Init => IInv
<1> SUFFICES ASSUME Init PROVE IInv
  OBVIOUS
<1>1. TypeOK
  BY BoundsAssumption DEF Init, TypeOK, CallStates, NoArtifacts, Stored, Images
<1>2. \A s \in Calls : call[s].op = "none"
  BY DEF Init, Nobody
<1>3. \A c \in Names : podman[c] = None
  BY DEF Init
<1>4. IdInv
  BY <1>2, <1>3 DEF IdInv, CallIds, PodIds
<1> QED
  BY <1>1, <1>2, <1>4 DEF IInv, CallInv, Reads

\* Nothing the invariant speaks of changes when nothing changes.
LEMMA StutterOK ==
    ASSUME IInv, UNCHANGED vars PROVE IInv'
<1>1. /\ call' = call /\ staged' = staged /\ auth' = auth /\ image' = image
      /\ podman' = podman /\ calls' = calls /\ faults' = faults
  BY DEF vars
<1>2. TypeOK' /\ IdInv'
  BY <1>1 DEF IInv, TypeOK, IdInv, CallIds, PodIds
<1>3. ASSUME NEW s \in Calls PROVE CallInv(s)'
  <2>1. CallInv(s)
    BY DEF IInv
  <2>2. Awaits(s)' = Awaits(s) /\ Underway(s)' = Underway(s)
    BY <1>1 DEF Awaits, Underway
  <2>3. \A c \in Names : Of(s, c)' = Of(s, c)
    BY <1>1 DEF Of
  <2>4. AreaInv(s) => AreaInv(s)'
    BY <1>1 DEF AreaInv, IsStaged
  <2>5. CauseInv(s) => CauseInv(s)'
    BY <1>1 DEF CauseInv
  <2>6. ListInv(s) => ListInv(s)'
    BY <1>1, <2>2, <2>3 DEF ListInv
  <2>7. WorkInv(s) => WorkInv(s)'
    BY <1>1 DEF WorkInv, UserDone, PostDone, KeyDone, Of, Awaits, Underway
  <2>8. ReadInv(s) => ReadInv(s)'
    BY <1>1 DEF ReadInv, Shown
  <2> QED
    BY <1>1, <2>1, <2>4, <2>5, <2>6, <2>7, <2>8 DEF CallInv, DeployInv
<1> QED
  BY <1>2, <1>3 DEF IInv

LEMMA NextOK == IInv /\ [Next]_vars => IInv'
<1> SUFFICES ASSUME IInv, [Next]_vars PROVE IInv'
  OBVIOUS
<1>1. ASSUME NEW s \in Calls, Begin(s) PROVE IInv'
  BY <1>1, BeginOK
<1>2. ASSUME NEW s \in Calls, Prepare(s) \/ UploadArtifact(s) \/ AllUploaded(s) PROVE IInv'
  BY <1>2, PrepareOK, UploadArtifactOK, AllUploadedOK
<1>3. ASSUME NEW s \in Calls,
             Announce(s) \/ AuthFileExists(s) \/ addHostConfigurationFiles(s)
      PROVE  IInv'
  BY <1>3, AnnounceOK, AuthFileExistsOK, AddHostConfigurationFilesOK
<1>4. ASSUME NEW s \in Calls, prepareImage(s) \/ buildDockerfile(s) PROVE IInv'
  BY <1>4, PrepareImageOK, BuildDockerfileOK
<1>5. ASSUME NEW s \in Calls, PubKeyExists(s) \/ buildSSHKeyInstallCommands(s) PROVE IInv'
  BY <1>5, PubKeyExistsOK, BuildSSHKeyInstallCommandsOK
<1>6. ASSUME NEW s \in Calls, ExecuteCommand(s) \/ sendDeployResponse(s) PROVE IInv'
  BY <1>6, ExecuteCommandOK, SendDeployResponseOK
<1>7. ASSUME NEW s \in Calls, CommandFails(s) \/ StepFails(s) PROVE IInv'
  BY <1>7, CommandFailsOK, StepFailsOK
<1>8. ASSUME NEW s \in Calls, DeleteContainer(s) \/ deleteProjectStaging(s) \/ DeleteFails(s)
      PROVE  IInv'
  BY <1>8, DeleteContainerOK, DeleteProjectStagingOK, DeleteFailsOK
<1>9. ASSUME NEW s \in Calls,
             Inspect(s) \/ GetContainerStatus(s) \/ ListContainers(s) \/ ReadFails(s)
      PROVE  IInv'
  BY <1>9, InspectOK, GetContainerStatusOK, ListContainersOK, ReadFailsOK
<1>10. ASSUME NEW c \in Names, NEW d \in Names,
              StartContainer(c) \/ StopContainer(c) \/ RenameContainer(c, d)
       PROVE  IInv'
  BY <1>10, StartContainerOK, StopContainerOK, RenameContainerOK
<1>11. CASE Crash
  BY <1>11, CrashOK
<1>12. CASE Done \/ UNCHANGED vars
  BY <1>12, StutterOK DEF Done
<1> QED
  BY <1>1, <1>2, <1>3, <1>4, <1>5, <1>6, <1>7, <1>8, <1>9, <1>10, <1>11, <1>12 DEF Next

\* Whatever calls run beside each other: what a deployment was asked for is done or
\* still to do, what it staged is there, what a read has noted was true, as long as
\* nobody else touched them.
THEOREM Invariant == Spec => []IInv
<1> QED
  BY InitOK, NextOK, PTL DEF Spec

\* Every state of the handlers, the staging areas and the engine is one of those
\* the records of container_service.go and engine.go can hold.
THEOREM TypeCorrect == Spec => []TypeOK
<1>1. IInv => TypeOK
  BY DEF IInv
<1> QED
  BY <1>1, Invariant, PTL

-----------------------------------------------------------------------------
(***************************************************************************)
(* What the invariant says of the calls that are over.                     *)
(***************************************************************************)

\* A deployment that succeeded has no command left, so that what was asked for has
\* been done in the container it created.
LEMMA DoneIs ==
    ASSUME IInv, NEW s \in Deploys, Succeeded(s), OwnContainer(s),
           "container" \notin call[s].touched
    PROVE  LET k == podman[call[s].plan.name]
               cfg == call[s].plan.config
           IN  /\ Configured(cfg) \subseteq k.users
               /\ cfg.post => k.post
               /\ call[s].key # None => <<cfg.remoteUser, call[s].key>> \in k.keys
<1>1. s \in Calls /\ call[s].op = "deploy" /\ TypeOK /\ ListInv(s) /\ WorkInv(s)
  BY DEF Deploys, IInv, CallInv, DeployInv
<1>2. call[s].pc = "end" /\ call[s].failedAt = None /\ Underway(s)
  BY <1>1 DEF Succeeded, Ended, Underway
<1>3. call[s].cmds = <<>>
  BY <1>1, <1>2 DEF ListInv
<1>4. \A do : ~ Has(call[s].cmds, do)
  BY <1>3, NoCommand DEF Has
<1>5. \A u : ~ Ensures(call[s].cmds, u)
  BY <1>3, NoCommand DEF Ensures
<1>6. call[s].plan.name \in Names /\ Of(s, call[s].plan.name)
  BY <1>1, KindOf, PlansAssumption DEF OwnContainer, Of, Deployments
<1> DEFINE cfg == call[s].plan.config
<1>7. \A u \in Configured(cfg) : UserDone(s, u)
  BY <1>1, <1>2, <1>5 DEF WorkInv
<1>8. cfg.post => PostDone(s)
  BY <1>1, <1>2, <1>4 DEF WorkInv
<1>9. call[s].key # None => KeyDone(s, cfg.remoteUser, call[s].key)
  BY <1>1, <1>2, <1>4 DEF WorkInv
<1> HIDE DEF cfg
<1>10. Configured(cfg) \subseteq podman[call[s].plan.name].users
  BY <1>6, <1>7 DEF UserDone
<1>11. cfg.post => podman[call[s].plan.name].post
  BY <1>6, <1>8 DEF PostDone
<1>12. call[s].key # None => <<cfg.remoteUser, call[s].key>> \in podman[call[s].plan.name].keys
  BY <1>6, <1>9 DEF KeyDone
<1> QED
  BY <1>10, <1>11, <1>12 DEF cfg

\* A deployment that is answered without an error has done in its container all
\* that the configuration asks for: DeployContainer executes what BuildCommands
\* has listed to the last command before it answers.
THEOREM Complete == Spec => []DeployedIsComplete
<1>1. IInv => DeployedIsComplete
  <2> SUFFICES ASSUME IInv, NEW s \in Deploys, Succeeded(s), OwnContainer(s),
                      "container" \notin call[s].touched
               PROVE  LET k == podman[call[s].plan.name]
                          cfg == call[s].plan.config
                      IN  /\ {cfg.containerUser, cfg.remoteUser} \subseteq k.users \cup {Root}
                          /\ cfg.post => k.post
                          /\ call[s].key # None => <<cfg.remoteUser, call[s].key>> \in k.keys
    BY DEF DeployedIsComplete
  <2> QED
    BY DoneIs DEF Configured
<1> QED
  BY <1>1, Invariant, PTL

\* A deployment fails only for a fault, for what another call did to its container
\* or its staging area, for a name that was taken, or for what its plan lacks: the
\* order in which BuildCommands puts the commands never makes one of them fail.
THEOREM Cause == Spec => []FailsForCause
<1>1. IInv => FailsForCause
  <2> SUFFICES ASSUME IInv, NEW s \in Deploys, call[s].failedAt # None PROVE HasCause(call[s])
    BY DEF FailsForCause, HasCause
  <2> QED
    BY DEF IInv, Deploys, CallInv, DeployInv, CauseInv
<1> QED
  BY <1>1, Invariant, PTL

\* A deployment that was left alone has installed the key of its own client, not
\* one an earlier deployment left in the staging area: PrepareArtifacts compares
\* the file with the content before it is reused.
THEOREM OwnKey == Spec => []OwnKeyInstalled
<1>1. IInv => OwnKeyInstalled
  <2> SUFFICES ASSUME IInv, NEW s \in Deploys, Succeeded(s), OwnContainer(s),
                      call[s].touched = {}
               PROVE  <<call[s].plan.config.remoteUser, call[s].plan.client.key>>
                          \in podman[call[s].plan.name].keys
    BY DEF OwnKeyInstalled
  <2>1. s \in Calls /\ call[s] \in Deployments /\ AreaInv(s)
    BY KindOf DEF IInv, Deploys, CallInv, DeployInv
  <2>2. call[s].pc = "end" /\ call[s].failedAt = None
    BY DEF Succeeded, Ended, Deploys
  <2>3. call[s].key = call[s].plan.client.key
    BY <2>1, <2>2 DEF AreaInv
  <2>4. call[s].plan.client.key \in Contents
    BY <2>1, PlansAssumption DEF Deployments, Clients
  <2>5. call[s].key # None
    BY <2>3, <2>4, NoneAssumption
  <2> QED
    BY <2>3, <2>5, DoneIs
<1> QED
  BY <1>1, Invariant, PTL

\* What GetContainer and ListContainers answer of a container was true of it at a
\* moment of the call, however many calls change containers meanwhile.
THEOREM StatusTrue == Spec => []StatusWasTrue
<1>1. IInv => StatusWasTrue
  <2> SUFFICES ASSUME IInv, NEW s \in Calls, call[s].op \in Reads, call[s].answer # None,
                      NEW c \in DOMAIN call[s].answer
               PROVE  CASE call[s].answer[c] = "exited"  -> "Exited" \in call[s].seen[c]
                        [] call[s].answer[c] = "deleted" -> "absent" \in call[s].seen[c]
                        [] call[s].answer[c] = "running" ->
                              call[s].seen[c] \cap {"Up", "Created"} # {}
    BY DEF StatusWasTrue
  <2>1. TypeOK /\ ReadInv(s)
    BY DEF IInv, CallInv
  <2>2. call[s].answer \in Answers
    BY <2>1, KindOf, NoneAssumption DEF Readings
  <2>3. call[s].answer[c] \in {"running", "exited", "deleted"}
    BY <2>2 DEF Answers
  <2>4. WasTrue(call[s].answer[c], call[s].seen[c])
    BY <2>1 DEF ReadInv
  <2> QED
    BY <2>3, <2>4 DEF WasTrue
<1> QED
  BY <1>1, Invariant, PTL

=============================================================================
