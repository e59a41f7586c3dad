------------------------------ MODULE CliConfig ------------------------------
(***************************************************************************)
(* The registry of agents a user has (internal/config): cliconfig.yaml, a  *)
(* list with one entry per host, read and written without a lock by every  *)
(* cds process; the manifest that says where it is; and aconfig.yaml of    *)
(* the agent, which cds and the agent move to its place when they find it  *)
(* where earlier versions kept it.                                         *)
(*                                                                         *)
(* A file is written by truncating it and writing the content; a process   *)
(* can be killed between the two, and the write can fail (a full disk),    *)
(* which both leave the file "cut".  YAML of an empty file is an error;    *)
(* that a part of the content can be stored, and read, is left out.        *)
(*                                                                         *)
(* A target server is what the user typed: a port (":8087"), a host with a *)
(* port, a URL, a host alone, or nothing at all, the host in any letters.  *)
(* Spaces around it and IPv6 brackets are left out.                        *)
(***************************************************************************)
EXTENDS Naturals, Sequences, SequencesExt

CONSTANTS
    Procs,        \* concurrent processes
    Localhost,    \* the name of the local host
    Names,        \* the names of hosts, in small and in capital letters
    Lower,        \* strings.ToLower
    Targets,      \* target servers used in commands
    Seeds,        \* lists cliconfig.yaml may hold at first, "absent" apart
    None,         \* no entry
    MaxStarts,    \* bound: processes started
    MaxFaults     \* bound: processes killed or failed

ASSUME NamesAssumption ==
    /\ Lower \in [Names -> Names]
    /\ \A n \in Names : Lower[Lower[n]] = Lower[n]
    /\ Localhost \in Names /\ Lower[Localhost] = Localhost
    /\ None \notin Names

VARIABLES
    disk,       \* the files: absent, cut or full
    agents,     \* the list in cliconfig.yaml
    clients,    \* aconfig.yaml holds the clients of the legacy file
    proc,       \* the processes
    registry,   \* what the finished updates mean
    answer,     \* history: how the command that ended with the last step went
    overlap,    \* history: two processes were between read and write at once
    spoiled,    \* history: the files left cut by a kill or a failed write
    moving,     \* history: at first only the legacy file was there
    starts, faults \* bounds

configVars == <<disk, agents, clients, proc, registry, answer, overlap, spoiled, moving, starts, faults>>

Files == {"manifest", "cliconfig", "legacy", "aconfig"}

-----------------------------------------------------------------------------
(***************************************************************************)
(* Target servers.                                                         *)
(***************************************************************************)
Address == [form : {"port", "hostport", "url", "host", "blank"},
            host : Names, port : Nat]

normalizeTargetServer(t) == IF t.form = "port" THEN t ELSE [t EXCEPT !.host = Lower[@]]

targetServerHostname(t) == IF t.form = "port" THEN Localhost ELSE Lower[t.host]

\* "target server is required"
Valid(t) == t.form # "blank"

\* A command without a target server is refused before it reads the list.
ASSUME TargetsAssumption == \A t \in Targets : t \in Address /\ Valid(t)

findAgentIndex(s, t) == SelectInSeq(s, LAMBDA a : a = t)

findAgentHostIndex(s, h) == SelectInSeq(s, LAMBDA a : targetServerHostname(a) = h)

\* Mutant: the first entry of a host is kept instead of the last.
PutAgent_FirstWins(s, a) ==
    IF findAgentHostIndex(s, targetServerHostname(a)) > 0 THEN s ELSE Append(s, a)

\* An entry takes the place of the one of its host.
PutAgent(s, a) ==
    LET i == findAgentHostIndex(s, targetServerHostname(a)) IN
    IF i > 0 THEN [s EXCEPT ![i] = a] ELSE Append(s, a)

sanitizeCLIAgentData(s) ==
    FoldLeft(LAMBDA acc, a : PutAgent(acc, normalizeTargetServer(a)), <<>>, s)

(***************************************************************************)
(* What the commands do to the list.  AddAgentToConfig and                 *)
(* UpdateAgentInConfig have no caller among the commands of today.         *)
(***************************************************************************)
Lookups == {"address", "agent"}

Commands ==
    [op : {"create", "upsert", "add", "delete"} \cup Lookups, t : Targets]
        \cup [op : {"update"}, t : Targets, a : Targets]

Result(ok, s) == [ok |-> ok, list |-> s]

CreateAgentInConfig(s, a) ==
    IF findAgentHostIndex(s, targetServerHostname(a)) > 0 THEN Result(FALSE, s)
    ELSE Result(TRUE, Append(s, a))

\* Every caller registers an address of the host it names.
UpsertAgentForHostInConfig(s, a) == Result(TRUE, PutAgent(s, a))

AddAgentToConfig(s, a) == Result(TRUE, Append(s, a))

UpdateAgentInConfig(s, t, a) ==
    LET i == findAgentIndex(s, t)
        j == findAgentHostIndex(s, targetServerHostname(a)) IN
    IF i = 0 \/ j \notin {0, i} THEN Result(FALSE, s)
    ELSE Result(TRUE, [s EXCEPT ![i] = a])

\* Mutant: there is no fallback from the address to its host.
DeleteAgentFromConfig_Exact(s, t) ==
    LET i == findAgentIndex(s, t) IN
    IF i = 0 THEN Result(FALSE, s) ELSE Result(TRUE, RemoveAt(s, i))

\* The address itself, or else its host.
DeleteAgentFromConfig(s, t) ==
    LET exact == findAgentIndex(s, t)
        i == IF exact > 0 THEN exact ELSE findAgentHostIndex(s, targetServerHostname(t)) IN
    IF i = 0 THEN Result(FALSE, s) ELSE Result(TRUE, RemoveAt(s, i))

\* AgentAddress: what is registered for the host.
AgentAddressIfRegistered(s, t) ==
    Result(findAgentHostIndex(s, targetServerHostname(t)) > 0, s)

RegisteredAgent(s, t) == Result(findAgentIndex(s, t) > 0, s)

Apply(c, s) ==
    LET t == normalizeTargetServer(c.t) IN
    CASE c.op = "create" -> CreateAgentInConfig(s, t)
      [] c.op = "upsert" -> UpsertAgentForHostInConfig(s, t)
      [] c.op = "add"    -> AddAgentToConfig(s, c.t)
      [] c.op = "update" -> UpdateAgentInConfig(s, t, normalizeTargetServer(c.a))
      [] c.op = "delete" -> DeleteAgentFromConfig(s, t)
      [] c.op = "address" -> AgentAddressIfRegistered(s, t)
      [] c.op = "agent"   -> RegisteredAgent(s, t)

(***************************************************************************)
(* What the list means, and what the commands are meant to do: at most one *)
(* address for each host, however it is spelled.                           *)
(***************************************************************************)
Host(t) == IF t.form = "port" THEN Localhost ELSE Lower[t.host]

Plain(t) == [t EXCEPT !.host = Host(t)]

Meaning(s) ==
    [h \in Range(Lower) |->
        LET of == {i \in DOMAIN s : Valid(s[i]) /\ Host(s[i]) = h} IN
        IF of = {} THEN None ELSE Plain(s[CHOOSE i \in of : \A j \in of : j <= i])]

HostOf(c) == Host(c.t)

Allowed(c, r) ==
    CASE c.op = "create" -> r[HostOf(c)] = None
      [] c.op \in {"upsert", "add"} -> TRUE
      [] c.op = "update" ->
            /\ r[HostOf(c)] = Plain(c.t)
            /\ Host(c.a) = HostOf(c) \/ r[Host(c.a)] = None
      [] c.op \in {"delete", "address"} -> r[HostOf(c)] # None
      [] c.op = "agent" -> r[HostOf(c)] = Plain(c.t)

Meant(c, r) ==
    CASE c.op \in {"create", "upsert", "add"} -> [r EXCEPT ![HostOf(c)] = Plain(c.t)]
      [] c.op = "update" ->
            [r EXCEPT ![HostOf(c)] = None, ![Host(c.a)] = Plain(c.a)]
      [] c.op = "delete" -> [r EXCEPT ![HostOf(c)] = None]
      [] c.op \in Lookups -> r

-----------------------------------------------------------------------------
(***************************************************************************)
(* Processes.                                                              *)
(***************************************************************************)
Idle == [pc |-> "idle"]

Nothing == [op |-> "none"]

\* A kill or an end before the files are closed is not an overlap; being
\* anywhere between looking at cliconfig.yaml and having written it is.
Inside(x) == x.pc \in {"ensure", "update", "truncate", "write"} /\ x.file = "cliconfig"

ConfigInit ==
    /\ \E f \in [Files -> {"absent", "full"}] :
          /\ disk = f
          /\ f["cliconfig"] = "full" <=> f["manifest"] = "full"
          /\ f["aconfig"] = "absent"
    /\ agents \in IF disk["cliconfig"] = "full" THEN Seeds ELSE {<<>>}
    /\ clients = FALSE
    /\ proc = [p \in Procs |-> Idle]
    /\ registry = Meaning(agents)
    /\ answer = Nothing
    /\ overlap = FALSE
    /\ spoiled = {}
    /\ moving = (disk["legacy"] = "full" /\ disk["aconfig"] = "absent")
    /\ starts = 0
    /\ faults = 0

Put(p, x) ==
    /\ proc' = [proc EXCEPT ![p] = x]
    /\ overlap' = (overlap \/ (Inside(x) /\ \E q \in Procs \ {p} : Inside(proc[q])))

Goto(p, x) ==
    /\ Put(p, x)
    /\ answer' = Nothing
    /\ UNCHANGED <<registry, spoiled, moving, starts, faults>>

\* The process ends; outcome is that of its command, or an earlier error.
End(p, outcome) ==
    /\ Put(p, Idle)
    /\ answer' = outcome
    /\ UNCHANGED <<spoiled, moving, starts, faults>>

Failed == [op |-> "failed"]

\* What a command answered, and what it should have.
Answered(c, ok) == [op |-> c.op, ok |-> ok, meant |-> Allowed(c, registry)]

\* The agent, or a cds process, which comes to its command when it has read
\* its configuration.
Pending == [op |-> "pending"]

Start(p) ==
    /\ proc[p] = Idle
    /\ starts < MaxStarts
    /\ starts' = starts + 1
    /\ \E c \in {Pending, Nothing} :
          Put(p, [pc |-> "migrate", cmd |-> c, file |-> "legacy", mem |-> <<>>,
                  next |-> "none", found |-> FALSE])
    /\ answer' = Nothing
    /\ UNCHANGED <<disk, agents, clients, registry, spoiled, moving, faults>>

IsAgent(x) == x.cmd = Nothing

\* The process stops where it is.
Stopped(p, outcome) ==
    /\ faults < MaxFaults
    /\ faults' = faults + 1
    /\ Put(p, Idle)
    /\ spoiled' = IF proc[p].pc = "write" THEN spoiled \cup {proc[p].file} ELSE spoiled
    /\ answer' = outcome
    /\ UNCHANGED <<disk, agents, clients, registry, moving, starts>>

Kill(p) ==
    /\ proc[p] # Idle
    /\ Stopped(p, Nothing)

\* Any step may fail, except that migrateLegacyAgentConfig takes an error
\* for the absence of a file; a write that fails leaves the file cut.
Fails(p) ==
    /\ proc[p].pc \notin {"idle", "migrate"}
    /\ Stopped(p, Failed)

\* cos.WriteFile, in two steps; next follows.
WriteFile(x, f, next) == [x EXCEPT !.pc = "truncate", !.file = f, !.next = next]

Truncate(p) ==
    LET x == proc[p] IN
    /\ x.pc = "truncate"
    /\ disk' = [disk EXCEPT ![x.file] = "cut"]
    /\ Goto(p, [x EXCEPT !.pc = "write"])
    /\ UNCHANGED <<agents, clients>>

\* The last write of a command ends it.
Write(p) ==
    LET x == proc[p] IN
    /\ x.pc = "write"
    /\ disk' = [disk EXCEPT ![x.file] = "full"]
    /\ agents' = IF x.file = "cliconfig" THEN x.mem ELSE agents
    /\ clients' = IF x.file = "aconfig" THEN x.found ELSE clients
    /\ IF x.next = "end"
       THEN /\ End(p, IF IsAgent(x) THEN Nothing ELSE Answered(x.cmd, TRUE))
            /\ registry' = IF IsAgent(x) THEN registry ELSE Meant(x.cmd, registry)
       ELSE Goto(p, [x EXCEPT !.pc = x.next, !.file = "cliconfig"])

(***************************************************************************)
(* migrateLegacyAgentConfig, the first thing both programs do.             *)
(***************************************************************************)
\* Mutant: the legacy file is removed before its content is written.
migrateLegacyAgentConfig_RemoveFirst(p) ==
    LET x == proc[p] IN
    /\ \/ /\ x.pc = "migrate"
          /\ Goto(p, [x EXCEPT !.pc =
                IF disk["legacy"] = "full" /\ disk["aconfig"] = "absent" THEN "copy" ELSE "remove"])
          /\ UNCHANGED disk
       \/ /\ x.pc = "copy"
          /\ disk' = [disk EXCEPT !["legacy"] = "absent"]
          /\ Goto(p, WriteFile([x EXCEPT !.found = TRUE], "aconfig", "remove"))
       \/ /\ x.pc = "remove"
          /\ disk' = [disk EXCEPT !["legacy"] = "absent"]
          /\ Goto(p, [x EXCEPT !.found = FALSE, !.file = IF IsAgent(x) THEN "aconfig" ELSE "cliconfig",
                               !.pc = IF IsAgent(x) THEN "ensure" ELSE "manifest"])
    /\ UNCHANGED <<agents, clients, registry>>

\* The legacy file is looked for, read, written to its place, and removed
\* whether or not it was copied.
migrateLegacyAgentConfig(p) ==
    LET x == proc[p] IN
    /\ \/ /\ x.pc = "migrate"
          /\ Goto(p, [x EXCEPT !.pc =
                IF disk["legacy"] = "full" /\ disk["aconfig"] = "absent" THEN "copy" ELSE "remove"])
          /\ UNCHANGED disk
       \/ /\ x.pc = "copy"
          /\ IF disk["legacy"] = "absent" THEN End(p, Failed)
             ELSE Goto(p, WriteFile([x EXCEPT !.found = TRUE], "aconfig", "remove"))
          /\ UNCHANGED disk
       \/ /\ x.pc = "remove"
          /\ disk' = [disk EXCEPT !["legacy"] = "absent"]
          /\ Goto(p, [x EXCEPT !.found = FALSE, !.file = IF IsAgent(x) THEN "aconfig" ELSE "cliconfig",
                               !.pc = IF IsAgent(x) THEN "ensure" ELSE "manifest"])
    /\ UNCHANGED <<agents, clients, registry>>

(***************************************************************************)
(* InitCLIConfig: the manifest and cliconfig.yaml exist, and the list is   *)
(* brought into its normal form.  InitAgentConfig: aconfig.yaml exists.    *)
(***************************************************************************)
LoadManifest(p) ==
    LET x == proc[p] IN
    /\ x.pc = "manifest"
    /\ CASE disk["manifest"] = "absent" -> Goto(p, WriteFile(x, "manifest", "ensure"))
         [] disk["manifest"] = "cut" -> End(p, Failed)
         [] disk["manifest"] = "full" -> Goto(p, [x EXCEPT !.pc = "ensure"])
    /\ UNCHANGED <<disk, agents, clients, registry>>

\* The content of a file that is missing is empty.
EnsureSourceWithDefault(p) ==
    LET x == proc[p] IN
    /\ x.pc = "ensure"
    /\ CASE disk[x.file] = "absent" ->
               Goto(p, WriteFile(x, x.file, IF IsAgent(x) THEN "end" ELSE "normalize"))
         [] disk[x.file] # "absent" /\ IsAgent(x) -> End(p, Nothing)
         [] OTHER -> Goto(p, [x EXCEPT !.pc = "normalize"])
    /\ UNCHANGED <<disk, agents, clients, registry>>

\* The manifest is read again before cliconfig.yaml is.
CanRead ==
    /\ disk["manifest"] = "full" /\ disk["cliconfig"] = "full"
    /\ \A i \in DOMAIN agents : Valid(agents[i])

\* readCLIAgentData fails.
ReadFails(p) ==
    /\ proc[p].pc \in {"normalize", "update"}
    /\ ~ CanRead
    /\ End(p, Failed)
    /\ UNCHANGED <<disk, agents, clients, registry>>

normalizeCLIAgentConfig(p) ==
    LET x == proc[p] IN
    /\ x.pc = "normalize"
    /\ CanRead
    /\ Goto(p, WriteFile([x EXCEPT !.mem = sanitizeCLIAgentData(agents)], "cliconfig", "update"))
    /\ UNCHANGED <<disk, agents, clients, registry>>

\* The command: it reads the list, and writes it unless it only looks or is
\* refused.
updateCLIAgentData(p) ==
    LET x == proc[p] IN
    /\ x.pc = "update"
    /\ CanRead
    /\ \E c \in Commands :
          LET r == Apply(c, sanitizeCLIAgentData(agents)) IN
          IF r.ok /\ c.op \notin Lookups
          THEN Goto(p, WriteFile([x EXCEPT !.cmd = c, !.mem = sanitizeCLIAgentData(r.list)],
                                 "cliconfig", "end"))
          ELSE End(p, Answered(c, r.ok))
    /\ UNCHANGED <<disk, agents, clients, registry>>

ConfigNext ==
    \E p \in Procs :
        \/ Start(p)
        \/ migrateLegacyAgentConfig(p)
        \/ LoadManifest(p)
        \/ EnsureSourceWithDefault(p)
        \/ ReadFails(p)
        \/ normalizeCLIAgentConfig(p)
        \/ updateCLIAgentData(p)
        \/ Truncate(p)
        \/ Write(p)
        \/ Kill(p)
        \/ Fails(p)

ConfigSpec == ConfigInit /\ [][ConfigNext]_configVars

-----------------------------------------------------------------------------
\* Every variable has its type; the list holds no host twice once a process
\* has written it.
ConfigTypeOK ==
    /\ disk \in [Files -> {"absent", "cut", "full"}]
    /\ disk["legacy"] # "cut"
    /\ \A i \in DOMAIN agents : agents[i] \in Address
    /\ clients \in BOOLEAN
    /\ overlap \in BOOLEAN
    /\ spoiled \subseteq {"manifest", "cliconfig", "aconfig"}

\* readCLIAgentData, sanitizeCLIAgentData and the commands together: as long
\* as no two processes were between reading and writing cliconfig.yaml at
\* once, a list that is there says exactly what the commands that finished
\* were meant to do, one address for each host, from whatever duplicates and
\* spellings it started with.  What two such processes do to each other is
\* not said.
RegistryIsSequential ==
    ~ overlap /\ disk["cliconfig"] = "full" => Meaning(agents) = registry

\* A command is refused, or finds its host, just when it should: `host
\* delete localhost` finds ":8087", and capitals do not hide a host.  As
\* above, not for a command whose view another process changed meanwhile.
AnswersAgree ==
    ~ overlap /\ answer \notin {Nothing, Failed} => answer.ok = answer.meant

\* migrateLegacyAgentConfig: the clients in the legacy file are there, in the
\* new file, or in the hands of a process about to write them, unless a
\* process was killed in the middle of that write, or the write failed.
MigrationKeepsClients ==
    moving =>
    \/ disk["legacy"] = "full"
    \/ disk["aconfig"] = "full" /\ clients
    \/ \E p \in Procs : proc[p] # Idle /\ proc[p].found
    \/ "aconfig" \in spoiled

-----------------------------------------------------------------------------
(***************************************************************************)
(* Why MigrationKeepsClients holds: what every step preserves.             *)
(***************************************************************************)
\* A running process has these fields, writes any file but the legacy one,
\* and comes to remove that one only from writing aconfig.yaml, if it wrote.
Shaped(x) ==
    /\ x = [pc |-> x.pc, cmd |-> x.cmd, file |-> x.file, mem |-> x.mem,
            next |-> x.next, found |-> x.found]
    /\ x.pc \in {"truncate", "write"} =>
          /\ x.file \in Files \ {"legacy"}
          /\ x.next = "remove" => x.file = "aconfig"
    /\ x.pc = "manifest" => x.file = "cliconfig"
    /\ x.pc = "ensure" => x.file \in {"aconfig", "cliconfig"}

Writes(x) == x.pc = "write" /\ x.file = "aconfig" /\ x.found

\* Once the legacy file may be removed aconfig.yaml is there for good, so
\* that nobody ever writes it empty; and it is cut only while a process
\* holds the clients, or because of a kill or a failed write.
MoveInv ==
    /\ disk \in [Files -> {"absent", "cut", "full"}] /\ disk["legacy"] # "cut"
    /\ DOMAIN proc = Procs
    /\ \A p \in Procs : proc[p] # Idle => Shaped(proc[p])
    /\ moving =>
          /\ \A p \in Procs : proc[p] # Idle =>
                /\ proc[p].pc = "remove" => disk["aconfig"] # "absent"
                /\ proc[p].pc = "ensure" /\ proc[p].file = "aconfig" => disk["aconfig"] # "absent"
                /\ proc[p].pc \in {"truncate", "write"} /\ proc[p].file = "aconfig" => proc[p].found
          /\ disk["legacy"] = "absent" => disk["aconfig"] # "absent"
          /\ disk["aconfig"] # "absent" =>
                \/ disk["aconfig"] = "full" /\ clients
                \/ \E p \in Procs : proc[p] # Idle /\ Writes(proc[p])
                \/ "aconfig" \in spoiled

=============================================================================
