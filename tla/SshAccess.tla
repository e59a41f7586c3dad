------------------------------ MODULE SshAccess ------------------------------
(***************************************************************************)
(* The ssh keys of containers (internal/command project_ssh_key.go,        *)
(* project_share_key.go and the commands that use them, and                *)
(* internal/shexec/keys.go): the pair of a host, installed in every        *)
(* container deployed there and used to connect to it, and the pair of a   *)
(* project, made by share, installed by hand in its container, and taken   *)
(* back by unshare.                                                        *)
(*                                                                         *)
(* Key files live in ~/.ssh, outside the database; which pair a host uses  *)
(* is in the database, which a command loads when it starts and saves if   *)
(* it succeeds.  A key is a number; its private file and its public file   *)
(* hold it if they belong together.  One host, with one container per      *)
(* project.  What the commands do besides (see ProjectLifecycle) is left   *)
(* out.                                                                    *)
(***************************************************************************)
EXTENDS Integers, FiniteSets

CONSTANTS
    Procs,       \* concurrent cds processes
    Projects,    \* projects of one host
    None,        \* no pair, no project
    MaxKeys,     \* bound: keys made
    MaxCommands, \* bound: commands run
    MaxEvents    \* bound: what the user does with key files

ASSUME ProjectsAssumption ==
    {"user", "managed", None} \cap Projects = {} /\ None \notin {"user", "managed"}

ASSUME BoundsAssumption == MaxKeys \in Nat \ {0} /\ MaxCommands \in Nat /\ MaxEvents \in Nat

VARIABLES
    file,     \* key files of each pair: private, public
    db,       \* on disk: the pair of the host, the projects with a container
    box,      \* the authorized keys of each project's container, if it runs
    proc,     \* the running commands
    keys,     \* keys made
    done,     \* history: how the command that ended with the last step went
    overlap,  \* history: two commands ran at once
    cut,      \* history: a write of a key was cut short and left the file empty
    mixed,    \* history: a public key was not written after its private one, and an
              \*   older one left in its place
    meddled,  \* history: the user changed or removed a pair the host uses
    commands, events \* bounds

vars == <<file, db, box, proc, keys, done, overlap, cut, mixed, meddled, commands, events>>

\* The user's own pair (id_rsa or id_ed25519), the one CDS makes for the
\* host, and the one it makes to share each project.
Pairs == {"user", "managed"} \cup Projects

Absent == 0

Empty == -1

NoContainer == [up |-> FALSE, keys |-> {}]

-----------------------------------------------------------------------------
(***************************************************************************)
(* Pairs.                                                                  *)
(***************************************************************************)
regularFileExists(k) == k # Absent

Both(f, pair) == regularFileExists(f[pair].prv) /\ regularFileExists(f[pair].pub)

\* Mutant: the user's own keys come before the ones the host uses.
ensureProjectSSHKeyPair_UserFirst(f, registered) ==
    CASE Both(f, "user") -> "user"
      [] ~ Both(f, "user") /\ registered # None /\ Both(f, registered) -> registered
      [] OTHER -> "managed"

\* The pair registered for the host if its files are there, else the user's
\* own, else one that CDS makes.
ensureProjectSSHKeyPair(f, registered) ==
    IF registered # None /\ Both(f, registered) THEN registered
    ELSE IF Both(f, "user") THEN "user" ELSE "managed"

\* Mutant: a public key is enough.
MissingFiles_PublicOnly(f, pair) ==
    IF regularFileExists(f[pair].pub) THEN "none"
    ELSE IF regularFileExists(f[pair].prv) THEN "public" ELSE "both"

\* ensureManagedHostKeyPair and ensureProjectSharedKeyPair: a private key
\* without its public key gets one again; without a private key a pair is
\* made.
MissingFiles(f, pair) ==
    IF ~ regularFileExists(f[pair].prv) THEN "both"
    ELSE IF regularFileExists(f[pair].pub) THEN "none" ELSE "public"

(***************************************************************************)
(* Commands.                                                               *)
(***************************************************************************)
Idle == [pc |-> "idle"]

Nothing == [op |-> "none"]

Init ==
    /\ \E own \in {Absent, 1} :
          /\ file = [q \in Pairs |-> [prv |-> IF q = "user" THEN own ELSE Absent,
                                      pub |-> IF q = "user" THEN own ELSE Absent]]
          /\ keys = own
    /\ db = [pair |-> None, recorded |-> {}]
    /\ box = [p \in Projects |-> NoContainer]
    /\ proc = [x \in Procs |-> Idle]
    /\ done = Nothing
    /\ overlap = FALSE
    /\ cut = FALSE
    /\ mixed = FALSE
    /\ meddled = FALSE
    /\ commands = 0
    /\ events = 0

History == <<overlap, cut, mixed, meddled, commands, events>>

Begin(x, op, p, pc) ==
    /\ proc[x] = Idle
    /\ commands < MaxCommands
    /\ commands' = commands + 1
    /\ proc' = [proc EXCEPT ![x] = [op |-> op, p |-> p, pc |-> pc, mem |-> db, pair |-> None, key |-> Absent]]
    /\ overlap' = (overlap \/ \E y \in Procs \ {x} : proc[y] # Idle)
    /\ done' = Nothing
    /\ UNCHANGED <<file, db, box, keys, cut, mixed, meddled, events>>

Goto(x, c) ==
    /\ proc' = [proc EXCEPT ![x] = c]
    /\ done' = Nothing
    /\ UNCHANGED <<db, History>>

\* Only a command that succeeds saves the database.
Succeed(x, mem, works) ==
    /\ proc' = [proc EXCEPT ![x] = Idle]
    /\ db' = mem
    /\ done' = [op |-> proc[x].op, p |-> proc[x].p, works |-> works]
    /\ UNCHANGED History

\* Any step may fail, and the process may be killed; the write of a key file that
\* fails or is killed may leave it empty (the file is truncated first).
Fails(x) ==
    LET c == proc[x] IN
    /\ c # Idle
    /\ proc' = [proc EXCEPT ![x] = Idle]
    /\ \/ UNCHANGED <<file, cut>>
       \/ /\ c.pc \in {"writePrv", "writePub"}
          /\ file' = [file EXCEPT ![c.pair] = IF c.pc = "writePrv" THEN [@ EXCEPT !.prv = Empty]
                                              ELSE [@ EXCEPT !.pub = Empty]]
          /\ cut' = TRUE
    /\ mixed' = (mixed \/ (c.pc = "writePub" /\ regularFileExists(file[c.pair].pub)))
    /\ done' = Nothing
    /\ UNCHANGED <<db, box, keys, overlap, meddled, commands, events>>

\* project run and project rebuild: the container, if there is one, goes first.
projectRun(x) == \E p \in Projects : Begin(x, "run", p, "remove")

\* project ssh, rsh and expose.
projectSsh(x) == \E p \in db.recorded : Begin(x, "ssh", p, "resolve")

projectShare(x) == \E p \in db.recorded : Begin(x, "share", p, "resolve")

\* The shared public key has to be there.
projectUnshare(x) ==
    \E p \in db.recorded : regularFileExists(file[p].pub) /\ Begin(x, "unshare", p, "read")

DeleteContainer(x) ==
    LET c == proc[x] IN
    /\ c.pc = "remove"
    /\ box' = [box EXCEPT ![c.p] = NoContainer]
    /\ Goto(x, [c EXCEPT !.pc = "resolve"])
    /\ UNCHANGED <<file, keys>>

(***************************************************************************)
(* The pair is found or made; a host remembers it, in memory.              *)
(***************************************************************************)
\* persistHostKeyPair
Chosen(c, pair) ==
    IF c.op = "share" THEN [c EXCEPT !.pair = pair]
    ELSE [c EXCEPT !.pair = pair, !.mem.pair = pair]

Resolve(x) ==
    LET c == proc[x]
        pair == IF c.op = "share" THEN c.p ELSE ensureProjectSSHKeyPair(file, c.mem.pair)
        missing == IF pair = "user" THEN "none" ELSE MissingFiles(file, pair) IN
    /\ c.pc = "resolve"
    /\ CASE missing = "none" -> Goto(x, [Chosen(c, pair) EXCEPT !.pc = "use"]) /\ UNCHANGED keys
         [] missing = "public" ->
               /\ file[pair].prv # Empty
               /\ Goto(x, [Chosen(c, pair) EXCEPT !.pc = "writePub", !.key = file[pair].prv])
               /\ UNCHANGED keys
         [] missing = "both" ->
               /\ keys < MaxKeys
               /\ keys' = keys + 1
               /\ Goto(x, [Chosen(c, pair) EXCEPT !.pc = "writePrv", !.key = keys + 1])
    /\ UNCHANGED <<file, box>>

\* GenerateKeyPair writes the private key, then the public one, over what is
\* there; GeneratePublicKey writes the public one of a private key.
WriteKey(x) ==
    LET c == proc[x] IN
    /\ c.pc \in {"writePrv", "writePub"}
    /\ file' = [file EXCEPT ![c.pair] = IF c.pc = "writePrv" THEN [@ EXCEPT !.prv = c.key]
                                        ELSE [@ EXCEPT !.pub = c.key]]
    /\ Goto(x, [c EXCEPT !.pc = IF c.pc = "writePrv" THEN "writePub" ELSE "use"])
    /\ UNCHANGED <<box, keys>>

(***************************************************************************)
(* What the commands do with the pair.                                     *)
(***************************************************************************)
\* The public key is staged with the deployment and installed in the new
\* container.
Deploy(x) ==
    LET c == proc[x] IN
    /\ c.pc = "use" /\ c.op = "run"
    /\ regularFileExists(file[c.pair].pub)
    /\ box' = [box EXCEPT ![c.p] = [up |-> TRUE, keys |-> {file[c.pair].pub}]]
    /\ Goto(x, [c EXCEPT !.pc = "save"])
    /\ UNCHANGED <<file, keys>>

Save(x) ==
    LET c == proc[x] IN
    /\ c.pc = "save"
    /\ Succeed(x, [c.mem EXCEPT !.recorded = @ \cup {c.p}], TRUE)
    /\ UNCHANGED <<file, box, keys>>

\* An ssh connection is accepted or not; the command fails if it is not.
Connect(x) ==
    LET c == proc[x] IN
    /\ c.pc = "use" /\ c.op = "ssh"
    /\ box[c.p].up
    /\ file[c.pair].prv \in box[c.p].keys
    /\ Succeed(x, c.mem, TRUE)
    /\ UNCHANGED <<file, box, keys>>

\* installSharedKeyCommand; the key was read before the agent was called.
ReadShared(x) ==
    LET c == proc[x] IN
    /\ \/ c.pc = "use" /\ c.op = "share"
       \/ c.pc = "read"
    /\ regularFileExists(file[c.p].pub)
    /\ Goto(x, [c EXCEPT !.pc = IF c.op = "share" THEN "install" ELSE "revoke", !.key = file[c.p].pub])
    /\ UNCHANGED <<file, box, keys>>

InstallShared(x) ==
    LET c == proc[x] IN
    /\ c.pc = "install"
    /\ box[c.p].up
    /\ box' = [box EXCEPT ![c.p].keys = @ \cup {c.key}]
    /\ Succeed(x, c.mem, file[c.p].prv = c.key)
    /\ UNCHANGED <<file, keys>>

\* Mutant: the files are removed before the key is taken back.
RevokeShared_FilesFirst(x) ==
    LET c == proc[x] IN
    /\ \/ /\ c.pc = "revoke"
          /\ file' = [file EXCEPT ![c.p].prv = Absent]
          /\ Goto(x, [c EXCEPT !.pc = "removePub"])
          /\ UNCHANGED box
       \/ /\ c.pc = "removePub"
          /\ file' = [file EXCEPT ![c.p].pub = Absent]
          /\ Goto(x, [c EXCEPT !.pc = "takeBack"])
          /\ UNCHANGED box
       \/ /\ c.pc = "takeBack"
          /\ box' = [box EXCEPT ![c.p].keys = @ \ {c.key}]
          /\ Succeed(x, c.mem, TRUE)
          /\ UNCHANGED file
    /\ UNCHANGED keys

\* removeSharedKeyCommand in the container, then both files; a file that cannot be
\* removed stays, with a warning.
RevokeShared(x) ==
    LET c == proc[x] IN
    /\ \/ /\ c.pc = "revoke"
          /\ box[c.p].up
          /\ box' = [box EXCEPT ![c.p].keys = @ \ {c.key}]
          /\ Goto(x, [c EXCEPT !.pc = "removePrv"])
          /\ UNCHANGED file
       \/ /\ c.pc = "removePrv"
          /\ file' = [file EXCEPT ![c.p].prv = Absent] \/ UNCHANGED file
          /\ Goto(x, [c EXCEPT !.pc = "removePub"])
          /\ UNCHANGED box
       \/ /\ c.pc = "removePub"
          /\ file' = [file EXCEPT ![c.p].pub = Absent] \/ UNCHANGED file
          /\ Succeed(x, c.mem, TRUE)
          /\ UNCHANGED box
    /\ UNCHANGED keys

(***************************************************************************)
(* Beside the commands.                                                    *)
(***************************************************************************)
Event ==
    /\ events < MaxEvents
    /\ events' = events + 1
    /\ done' = Nothing
    /\ UNCHANGED <<db, box, overlap, commands>>

Installed(k) == \E p \in Projects : k \in box[p].keys

\* ssh-keygen, over an older pair perhaps, or rm.
UserKeys ==
    /\ \/ /\ keys < MaxKeys
          /\ keys' = keys + 1
          /\ file' = [file EXCEPT !["user"] = [prv |-> keys + 1, pub |-> keys + 1]]
       \/ /\ file' = [file EXCEPT !["user"] = [prv |-> Absent, pub |-> Absent]]
          /\ UNCHANGED keys
    /\ meddled' = (meddled \/ Both(file, "user") \/ (~ Both(file, "managed") /\ Installed(file["managed"].prv)))
    /\ Event
    /\ UNCHANGED <<proc, cut, mixed>>

\* Losing the public key is no harm while the user has no pair of their own:
\* it is made again from the private one.
UserRemovesPublic ==
    /\ file' = [file EXCEPT !["managed"].pub = Absent]
    /\ meddled' = (meddled \/ Both(file, "user"))
    /\ Event
    /\ UNCHANGED <<proc, keys, cut, mixed>>

Next ==
    \/ \E x \in Procs :
          \/ projectRun(x)
          \/ projectSsh(x)
          \/ projectShare(x)
          \/ projectUnshare(x)
          \/ DeleteContainer(x)
          \/ Resolve(x)
          \/ WriteKey(x)
          \/ Deploy(x)
          \/ Save(x)
          \/ Connect(x)
          \/ ReadShared(x)
          \/ InstallShared(x)
          \/ RevokeShared(x)
          \/ Fails(x)
    \/ UserKeys
    \/ UserRemovesPublic

Spec == Init /\ [][Next]_vars

-----------------------------------------------------------------------------
Keys == 0..MaxKeys \cup {Empty}

Bases == [pair : {None, "user", "managed"}, recorded : SUBSET Projects]

Commands ==
    [op : {"run", "ssh", "share", "unshare"}, p : Projects,
     pc : {"remove", "resolve", "writePrv", "writePub", "use", "save", "install",
           "read", "revoke", "removePrv", "removePub"},
     mem : Bases, pair : Pairs \cup {None}, key : Keys]

\* Every variable has its type.
TypeOK ==
    /\ file \in [Pairs -> [prv : Keys, pub : Keys]]
    /\ db \in Bases
    /\ box \in [Projects -> [up : BOOLEAN, keys : SUBSET Keys]]
    /\ proc \in [Procs -> Commands \cup {Idle}]
    /\ keys \in 0..MaxKeys
    /\ done \in [op : {"run", "ssh", "share", "unshare"}, p : Projects, works : BOOLEAN] \cup {Nothing}
    /\ overlap \in BOOLEAN /\ cut \in BOOLEAN /\ mixed \in BOOLEAN /\ meddled \in BOOLEAN
    /\ commands \in 0..MaxCommands /\ events \in 0..MaxEvents

\* The key pair a command would use to connect.
KeyToConnect ==
    LET pair == ensureProjectSSHKeyPair(file, db.pair) IN file[pair].prv

\* project_ssh_key.go: "The same pair is installed into the container at
\* deploy time and used to connect afterwards, so both sides always agree on
\* a single key": whatever failed, was killed or was added in between, as
\* long as the commands ran one after the other and the user left the pair
\* that the host uses alone.
BothSidesAgree ==
    ~ overlap /\ ~ cut /\ ~ meddled =>
        \A p \in db.recorded : box[p].up => KeyToConnect \in box[p].keys

\* A key that share installed can be taken back as long as it is installed:
\* unshare finds it in the file of the public key.
SharedCanBeRevoked ==
    ~ overlap /\ ~ cut =>
        \A p \in Projects : \A k \in box[p].keys :
            k \in {file["user"].prv, file["managed"].prv, file[p].pub} \/ meddled

\* The private key that share tells the user to hand out opens the
\* container, even after commands that failed or were killed half way, but
\* for one that left a new private key beside an older public one.
SharedKeyWorks ==
    ~ overlap /\ ~ cut /\ ~ mixed /\ done # Nothing /\ done.op = "share" =>
        done.works /\ regularFileExists(file[done.p].prv)

-----------------------------------------------------------------------------
(***************************************************************************)
(* The inductive invariant, in parts.                                      *)
(***************************************************************************)
Alone == \A x, y \in Procs : proc[x] # Idle /\ proc[y] # Idle => x = y

\* The pair of the host is resolved, in the copy of the command.
Resolved(c) == c.op \in {"run", "ssh"} /\ c.pc \in {"writePrv", "writePub", "use", "save"}

\* Where each command can be, and with which pair.
FlowInv ==
    \A x \in Procs : proc[x] # Idle => LET c == proc[x] IN
        /\ c.op = "run" => c.pc \in {"remove", "resolve", "writePrv", "writePub", "use", "save"}
        /\ c.op = "ssh" => c.pc \in {"resolve", "writePrv", "writePub", "use"}
        /\ c.op = "share" => c.pc \in {"resolve", "writePrv", "writePub", "use", "install"}
        /\ c.op = "unshare" => c.pc \in {"read", "revoke", "removePrv", "removePub"}
        /\ Resolved(c) => c.pair \in {"user", "managed"}
        /\ c.op = "share" /\ c.pc # "resolve" => c.pair = c.p
        /\ c.pc \in {"writePrv", "writePub"} => c.pair # "user"

\* What the files of a pair have in common; no two pairs share a key, and a key
\* that has been made is nowhere until it is written.
PairInv ==
    /\ file["user"].prv = file["user"].pub
    /\ ~ overlap /\ ~ cut =>
          /\ Alone
          /\ \A q \in Pairs : file[q].prv \in 0..keys /\ file[q].pub \in 0..keys
          /\ \A p \in Projects : box[p].keys \subseteq 1..keys
          /\ file["managed"].pub \in {Absent, file["managed"].prv}
          /\ \A q, r \in Pairs : q # r =>
                {file[q].prv, file[q].pub} \cap {file[r].prv, file[r].pub} \subseteq {Absent}
          /\ \A x \in Procs : proc[x] # Idle => LET c == proc[x] IN
                /\ c.pc = "writePrv" =>
                      /\ c.key \in 1..keys /\ file[c.pair].prv = Absent
                      /\ \A q \in Pairs : c.key \notin {file[q].prv, file[q].pub}
                      /\ \A p \in Projects : c.key \notin box[p].keys
                /\ c.pc = "writePub" => c.key = file[c.pair].prv /\ c.key # Absent
                /\ c.pc \in {"install", "revoke"} => c.key = file[c.p].pub /\ c.key # Absent

\* The host's own keys.
OfHost(k) == k \in {file["user"].prv, file["managed"].prv} \/ meddled

\* A key of the user or the host is in the file of its pair; any other key of a
\* container is the shared one, and while the files of a shared pair do not say
\* which that is, it is not installed.
ShareInv ==
    ~ overlap /\ ~ cut =>
        /\ \A p \in Projects : \A k \in box[p].keys : OfHost(k) \/ k = file[p].pub
        /\ \A p \in Projects : file[p].prv = Absent => \A k \in box[p].keys : OfHost(k)
        /\ \A x \in Procs : proc[x] # Idle => LET c == proc[x] IN
              /\ (c.op = "share" /\ c.pc = "writePub") \/ c.pc \in {"removePrv", "removePub"} =>
                    \A k \in box[c.p].keys : OfHost(k)
              /\ c.op = "share" /\ c.pc \in {"use", "install"} =>
                    regularFileExists(file[c.p].prv) /\ regularFileExists(file[c.p].pub)

\* The two files of a shared pair belong together, unless the second is being
\* written.
WorkInv ==
    ~ overlap /\ ~ cut /\ ~ mixed =>
        /\ \A p \in Projects :
              \/ file[p].prv = Absent \/ file[p].pub = Absent \/ file[p].prv = file[p].pub
              \/ \E x \in Procs : proc[x] # Idle /\ proc[x].pc = "writePub" /\ proc[x].pair = p
        /\ SharedKeyWorks

\* The pair a command has resolved is the one the database would lead to, and
\* its private key opens every container that runs.
AgreeInv ==
    ~ overlap /\ ~ cut /\ ~ meddled =>
        /\ db.pair = None => db.recorded = {}
        /\ db.pair = "user" => Both(file, "user")
        /\ Both(file, "user") /\ ~ Both(file, "managed") => ~ Installed(file["managed"].prv)
        /\ BothSidesAgree
        /\ \A x \in Procs : proc[x] # Idle => LET c == proc[x] IN
              /\ c.mem.recorded = db.recorded
              /\ ~ Resolved(c) => c.mem.pair = db.pair
              /\ Resolved(c) =>
                    /\ c.mem.pair = c.pair
                    /\ c.pair = "user" => Both(file, "user")
                    /\ \/ db.pair \in {None, c.pair}
                       \/ db.pair = "managed" /\ c.pair = "user" /\ ~ Both(file, "managed")
                    /\ \A p \in db.recorded \cup (IF c.pc = "save" THEN {c.p} ELSE {}) :
                          box[p].up => file[c.pair].prv \in box[p].keys

=============================================================================
