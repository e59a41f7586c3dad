-------------------------- MODULE ContainerService --------------------------
(***************************************************************************)
(* A deployment from end to end: the client collects the artifacts of its  *)
(* plan (internal/containerconf) and stages them (internal/command/        *)
(* project_agent.go), the agent's DeployContainer                          *)
(* (internal/agent/container_service.go) has the engine build a list of    *)
(* commands (internal/engine), reading the staging area while it does so,  *)
(* and executes them one by one.  Any number of calls run at the same      *)
(* time; containers are addressed by name.                                 *)
(*                                                                         *)
(* Simplifications: an upload or an unlink of an artifact is one step,     *)
(* which is what ArtifactStaging is shown to implement (StagingStore); a   *)
(* configuration is an image source, two users, the ports and whether it   *)
(* has an initialize and a post-create command; images have no users but   *)
(* root; other options of `podman run` and the effect of user commands are *)
(* left out.                                                               *)
(* The agent passes no features, so that the engine's steps for them do    *)
(* nothing.                                                                *)
(***************************************************************************)
EXTENDS Integers, Sequences

CONSTANTS
    Calls,      \* handlers that can run at the same time
    Names,      \* container names
    Projects,
    Users,      \* users other than root
    Contents,   \* contents of artifacts
    Plans,      \* the deployments clients ask for
    None,
    MaxCalls,   \* bound: calls made
    MaxFaults   \* bound: commands, uploads and sends that fail

Root == "root"

\* The identifiers the collectors produce.
Ids == {"pubkey", "authfile", "dockerfile"}

Configs == [image : {"url", "dockerfile", "none"},
            containerUser : Users \cup {Root}, remoteUser : Users \cup {Root},
            initialize : BOOLEAN, post : BOOLEAN,
            appPorts : 0 .. 2,                       \* entries that publish port 22
            exposed : {"none", "before", "after"}]   \* a port of the image that is
                                                     \* not published, as it sorts

\* The client's side: its files, whether REGISTRY_AUTH_FILE names the auth file,
\* the managed key of the project (see SshAccess) and the user's own public key.
Clients == [dockerfile : Contents \cup {None}, authfile : Contents \cup {None},
            authEnv : BOOLEAN, key : Contents, userKey : {"none", "good", "empty"}]

ASSUME PlansAssumption ==
    Plans \subseteq [project : Projects, name : Names, config : Configs,
                     client : Clients]

ASSUME RootAssumption == Root \notin Users

ASSUME BoundsAssumption == MaxCalls \in Nat /\ MaxFaults \in Nat

VARIABLES
    call,     \* [Calls -> what the handler is doing]
    staged,   \* the staging areas: [Projects -> [Ids -> Contents or None]]
    auth,     \* ~/.config/containers/auth.json of the agent's user
    image,    \* images built from dockerfiles, by container name
    podman,   \* [Names -> a container or None]
    calls,    \* bound, and the identity of the next call
    faults    \* bound

vars == <<call, staged, auth, image, podman, calls, faults>>

Nobody == [op |-> "none"]

NoArtifacts == [i \in Ids |-> None]

(***************************************************************************)
(* podman: a container remembers the call whose `run` created it.          *)
(***************************************************************************)
Statuses == {"Up", "Exited", "Created"}

\* The images `run` is given and their ports as it publishes them.
Images == Contents \cup {"url", "built", None}
Ports == Seq([port : {"22/tcp", "other"}, hosts : 0 .. 2])

Containers == [id : Nat, image : Images, ports : Ports, status : Statuses,
               users : SUBSET Users, keys : SUBSET ((Users \cup {Root}) \X Contents),
               post : BOOLEAN]

\* The places and commands a deployment can fail at.
FailPoints ==
    {"plan", "prepare", "upload", "init", "auth", "authFetch", "image", "build",
     "key", "keyFetch", "exec",
     "mkdir", "initialize", "run", "ensure", "post", "ssh"}

ASSUME NoneAssumption ==
    None \notin Contents \cup Names \cup Projects \cup Containers \cup FailPoints

NewContainer(id, with, status) ==
    [id |-> id, image |-> with.image, ports |-> with.ports, status |-> status,
     users |-> {}, keys |-> {}, post |-> FALSE]

Shown(k) == IF k = None THEN "absent" ELSE k.status

-----------------------------------------------------------------------------
(***************************************************************************)
(* The artifacts of a plan: the dockerfile the configuration names, the    *)
(* auth file if there is one and the project's own key.                    *)
(***************************************************************************)
dockerfileCollector(cfg, cl) ==
    IF cfg.image = "dockerfile" THEN cl.dockerfile ELSE None

\* The auth file is optional unless the environment names it; an empty key of the
\* user's is an error even though that key is then replaced.
CollectFails(cfg, cl) ==
    \/ cl.authEnv /\ cl.authfile = None
    \/ cl.userKey = "empty"
    \/ cfg.image = "dockerfile" /\ cl.dockerfile = None

collectArtifactCandidates(cfg, cl) ==
    [pubkey |-> cl.key, authfile |-> cl.authfile,
     dockerfile |-> dockerfileCollector(cfg, cl)]

-----------------------------------------------------------------------------
(***************************************************************************)
(* The commands of a deployment, in the order run() appends them.          *)
(***************************************************************************)
Cmd(do, user, with) == [do |-> do, user |-> user, with |-> with]

preContainerRun(cfg) ==
    <<Cmd("mkdir", Root, None)>>
    \o (IF cfg.initialize THEN <<Cmd("initialize", Root, None)>> ELSE <<>>)

\* Port 22 is published once more only when no appPort does it.
publishedSsh(cfg) == IF cfg.appPorts = 0 THEN 1 ELSE cfg.appPorts

\* The ports a container has for `podman inspect`, in the order of their names,
\* with the number of addresses of the host each is published on.
containerRun(cfg, img) ==
    LET ssh == <<[port |-> "22/tcp", hosts |-> publishedSsh(cfg)]>>
        other == <<[port |-> "other", hosts |-> 0]>>
    IN  <<Cmd("run", Root,
              [image |-> img,
               ports |-> CASE cfg.exposed = "none" -> ssh
                           [] cfg.exposed = "before" -> other \o ssh
                           [] cfg.exposed = "after" -> ssh \o other])>>

\* Trimmed, without root, each once, in order of first appearance.
uniqueNonRootUsers(u, v) ==
    (IF u = Root THEN <<>> ELSE <<u>>) \o (IF v \in {Root, u} THEN <<>> ELSE <<v>>)

ensureConfiguredUsers(cfg) ==
    LET us == uniqueNonRootUsers(cfg.containerUser, cfg.remoteUser)
    IN  [k \in DOMAIN us |-> Cmd("ensure", us[k], None)]

postContainerRun(cfg) ==
    IF cfg.post THEN <<Cmd("post", cfg.containerUser, None)>> ELSE <<>>

\* Mutant: the post-create command goes before the users it runs as.
BuildCommands_PostFirst(cfg, img) ==
    preContainerRun(cfg) \o containerRun(cfg, img) \o postContainerRun(cfg)
        \o ensureConfiguredUsers(cfg)

BuildCommands(cfg, img) ==
    preContainerRun(cfg) \o containerRun(cfg, img) \o ensureConfiguredUsers(cfg)
        \o postContainerRun(cfg)

sshKeyHandler(cfg, key) == <<Cmd("ssh", cfg.remoteUser, key)>>

(***************************************************************************)
(* What a command does when it works.  `podman run` wants a free name,     *)
(* `podman exec` a running container and an existing user; the ssh script  *)
(* creates the user it installs the key for.                               *)
(***************************************************************************)
UserKnown(c, u) == u = Root \/ u \in podman[c].users

Executable(c, cmd) ==
    CASE cmd.do \in {"mkdir", "initialize"} -> TRUE
      [] cmd.do = "run" -> podman[c] = None
      [] OTHER -> /\ podman[c] # None
                  /\ podman[c].status = "Up"
                  /\ cmd.do = "post" => UserKnown(c, cmd.user)

Effect(c, cmd, id) ==
    LET u == {cmd.user} \ {Root}
    IN  CASE cmd.do \in {"mkdir", "initialize"} -> podman
          [] cmd.do = "run" ->
                [podman EXCEPT ![c] = NewContainer(id, cmd.with, "Up")]
          [] cmd.do = "ensure" -> [podman EXCEPT ![c].users = @ \cup u]
          [] cmd.do = "post"   -> [podman EXCEPT ![c].post = TRUE]
          [] cmd.do = "ssh"    -> [podman EXCEPT ![c].users = @ \cup u,
                                     ![c].keys = @ \cup {<<cmd.user, cmd.with>>}]

\* A `run` whose start fails, for instance because a port is taken, leaves the
\* container created; any other failed command may have had its effect.
EffectOfFailed(c, cmd, id) ==
    IF cmd.do = "run"
    THEN [podman EXCEPT ![c] = NewContainer(id, cmd.with, "Created")]
    ELSE Effect(c, cmd, id)

-----------------------------------------------------------------------------
(***************************************************************************)
(* A call for a deployment: the client's plan, the place, the artifacts    *)
(* left to upload, what was read from the staging area, the commands left; *)
(* as history, whether a fault hit it, whether another call changed its    *)
(* container or its staging area meanwhile, and whether its name was       *)
(* taken when it began.                                                    *)
(***************************************************************************)
Deployment(pl) ==
    LET bad == CollectFails(pl.config, pl.client) IN
    [op |-> "deploy", id |-> calls + 1, plan |-> pl,
     pc |-> IF bad THEN "end" ELSE "prepare", failedAt |-> IF bad THEN "plan" ELSE None,
     missing |-> {}, cmds |-> <<>>, image |-> None, key |-> None,
     fault |-> FALSE, touched |-> {}, taken |-> podman[pl.name] # None]

Removal(c, p) ==
    [op |-> "delete", id |-> calls + 1, name |-> c, project |-> p, pc |-> "rm",
     touched |-> {}]

\* A call that only reads: as history, what was shown of each container during it.
Reading(op, c) ==
    [op |-> op, id |-> calls + 1, name |-> c, project |-> None,
     pc |-> IF op = "get" THEN "inspect" ELSE "ps", ports |-> {}, answer |-> None,
     seen |-> [d \in Names |-> {Shown(podman[d])}]]

Reads == {"get", "list"}

Ended(s) == call[s].op # "none" => call[s].pc = "end"

Active(s) == ~Ended(s)

Name(r) == IF r.op = "deploy" THEN r.plan.name ELSE r.name

Project(r) == IF r.op = "deploy" THEN r.plan.project ELSE r.project

\* Call r when another one has changed container c or the area of p.
Witness(r, c, p) ==
    IF r.op = "none" \/ r.pc = "end" THEN r
    ELSE IF r.op \in Reads
    THEN IF c = None THEN r ELSE [r EXCEPT !.seen[c] = @ \cup {Shown(podman'[c])}]
    ELSE [r EXCEPT !.touched = @ \cup (IF Name(r) = c THEN {"container"} ELSE {})
                                 \cup (IF Project(r) = p THEN {"area"} ELSE {})]

\* Call s moves on to r, having changed container c or the area of p.
Proceed(s, r, c, p) ==
    call' = [t \in Calls |-> IF t = s THEN r ELSE Witness(call[t], c, p)]

Move(s, r) == call' = [call EXCEPT ![s] = r]

At(s, pc) == call[s].op = "deploy" /\ call[s].pc = pc

\* The order in which the handler of a deployment does things.
Phases == <<"prepare", "upload", "init", "auth", "image", "key", "exec", "end">>

After(pc) ==
    LET k == CHOOSE i \in DOMAIN Phases : Phases[i] = pc
    IN  Phases[k + 1]

FailAt(s, pc, fault) ==
    [call[s] EXCEPT !.pc = "end", !.failedAt = pc, !.fault = @ \/ fault]

\* A fault of the environment: counted, and remembered by the call it hits.
Fault == faults < MaxFaults /\ faults' = faults + 1

Begin(s) ==
    /\ Ended(s)
    /\ calls < MaxCalls
    /\ calls' = calls + 1
    /\ \/ \E pl \in Plans : call' = [call EXCEPT ![s] = Deployment(pl)]
       \/ \E c \in Names, p \in Projects \cup {None} :
            call' = [call EXCEPT ![s] = Removal(c, p)]
       \/ \E c \in Names : call' = [call EXCEPT ![s] = Reading("get", c)]
       \/ call' = [call EXCEPT ![s] = Reading("list", None)]
    /\ UNCHANGED <<staged, auth, image, podman, faults>>

(***************************************************************************)
(* The client stages: PrepareArtifacts compares each descriptor with the   *)
(* file of its identifier, and what differs is uploaded.                   *)
(***************************************************************************)
fileMatchesDescriptor(p, i, content) == staged[p][i] = content

Artifacts(pl) == collectArtifactCandidates(pl.config, pl.client)

\* Mutant: an identifier with any file counts as found.
PrepareArtifacts_AnyFile(pl) ==
    {i \in Ids : Artifacts(pl)[i] # None /\ staged[pl.project][i] = None}

PrepareArtifacts(pl) ==
    {i \in Ids : /\ Artifacts(pl)[i] # None
                 /\ ~fileMatchesDescriptor(pl.project, i, Artifacts(pl)[i])}

Prepare(s) ==
    /\ At(s, "prepare")
    /\ Move(s, [call[s] EXCEPT !.pc = After("prepare"),
                               !.missing = PrepareArtifacts(call[s].plan)])
    /\ UNCHANGED <<staged, auth, image, podman, calls, faults>>

UploadArtifact(s) ==
    /\ At(s, "upload")
    /\ \E i \in call[s].missing :
         LET p == call[s].plan.project IN
         /\ staged' = [staged EXCEPT ![p][i] = Artifacts(call[s].plan)[i]]
         /\ Proceed(s, [call[s] EXCEPT !.missing = @ \ {i}], None, p)
    /\ UNCHANGED <<auth, image, podman, calls, faults>>

AllUploaded(s) ==
    /\ At(s, "upload")
    /\ call[s].missing = {}
    /\ Move(s, [call[s] EXCEPT !.pc = After("upload")])
    /\ UNCHANGED <<staged, auth, image, podman, calls, faults>>

(***************************************************************************)
(* DeployContainer: validate, announce, build the commands.  FileExists    *)
(* and FetchFile are two looks at the staging area; the absence the first  *)
(* one sees is not an error.                                               *)
(***************************************************************************)
Area(s) == staged[call[s].plan.project]

Announce(s) ==
    /\ At(s, "init")
    /\ Move(s, [call[s] EXCEPT !.pc = After("init")])
    /\ UNCHANGED <<staged, auth, image, podman, calls, faults>>

AuthFileExists(s) ==
    /\ At(s, "auth")
    /\ Move(s, [call[s] EXCEPT !.pc = IF Area(s)["authfile"] = None
                                      THEN After("auth") ELSE "authFetch"])
    /\ UNCHANGED <<staged, auth, image, podman, calls, faults>>

addHostConfigurationFiles(s) ==
    /\ At(s, "authFetch")
    /\ IF Area(s)["authfile"] = None
       THEN Move(s, FailAt(s, "authFetch", FALSE)) /\ UNCHANGED auth
       ELSE /\ auth' = Area(s)["authfile"]
            /\ Move(s, [call[s] EXCEPT !.pc = After("auth")])
    /\ UNCHANGED <<staged, image, podman, calls, faults>>

\* The image is named, or its dockerfile is fetched and built at once.
prepareImage(s) ==
    /\ At(s, "image")
    /\ LET cfg == call[s].plan.config
           Built(img) == [call[s] EXCEPT !.pc = After("image"), !.image = img,
                                         !.cmds = BuildCommands(cfg, img)]
       IN  \/ cfg.image = "none" /\ Move(s, FailAt(s, "image", FALSE))
           \/ cfg.image = "url" /\ Move(s, Built("url"))
           \/ /\ cfg.image = "dockerfile"
              /\ Area(s)["dockerfile"] = None
              /\ Move(s, FailAt(s, "image", FALSE))
           \/ /\ cfg.image = "dockerfile"
              /\ Area(s)["dockerfile"] # None
              /\ Move(s, [call[s] EXCEPT !.pc = "build",
                                         !.image = Area(s)["dockerfile"]])
    /\ UNCHANGED <<staged, auth, image, podman, calls, faults>>

\* `podman build -t` under the container's name, during the building of commands.
buildDockerfile(s) ==
    /\ At(s, "build")
    /\ LET cfg == call[s].plan.config IN
       /\ UNCHANGED podman
       /\ image' = [image EXCEPT ![call[s].plan.name] = call[s].image]
       /\ Proceed(s, [call[s] EXCEPT !.pc = After("image"),
                        !.cmds = BuildCommands(cfg, "built")],
                  call[s].plan.name, None)
    /\ UNCHANGED <<staged, auth, calls, faults>>

PubKeyExists(s) ==
    /\ At(s, "key")
    /\ Move(s, [call[s] EXCEPT !.pc = IF Area(s)["pubkey"] = None
                                      THEN After("key") ELSE "keyFetch"])
    /\ UNCHANGED <<staged, auth, image, podman, calls, faults>>

buildSSHKeyInstallCommands(s) ==
    /\ At(s, "keyFetch")
    /\ LET key == Area(s)["pubkey"] IN
       Move(s, IF key = None
               THEN FailAt(s, "keyFetch", FALSE)
               ELSE [call[s] EXCEPT !.pc = After("key"), !.key = key,
                       !.cmds = @ \o sshKeyHandler(call[s].plan.config, key)])
    /\ UNCHANGED <<staged, auth, image, podman, calls, faults>>

(***************************************************************************)
(* The commands, one report and one execution each; the first error ends   *)
(* the deployment and nothing is undone.                                   *)
(***************************************************************************)
\* An image that was built is looked up by its name when `run` gets to it.
Resolved(s, cmd) ==
    IF cmd.do = "run" /\ cmd.with.image = "built"
    THEN [cmd EXCEPT !.with.image = image[call[s].plan.name]]
    ELSE cmd

ExecuteCommand(s) ==
    /\ At(s, "exec")
    /\ call[s].cmds # <<>>
    /\ LET c == call[s].plan.name
           cmd == Resolved(s, Head(call[s].cmds))
       IN  IF Executable(c, cmd)
           THEN /\ podman' = Effect(c, cmd, call[s].id)
                /\ Proceed(s, [call[s] EXCEPT !.cmds = Tail(@)],
                           IF podman' = podman THEN None ELSE c, None)
           ELSE /\ Move(s, FailAt(s, cmd.do, FALSE))
                /\ UNCHANGED podman
    /\ UNCHANGED <<staged, auth, image, calls, faults>>

sendDeployResponse(s) ==
    /\ At(s, "exec")
    /\ call[s].cmds = <<>>
    /\ Move(s, [call[s] EXCEPT !.pc = After("exec")])
    /\ UNCHANGED <<staged, auth, image, podman, calls, faults>>

\* Mutant: the error of a command is noted and the next command executed.
CommandFails_CarryOn(s) ==
    /\ At(s, "exec")
    /\ call[s].cmds # <<>>
    /\ Fault
    /\ Move(s, [call[s] EXCEPT !.cmds = Tail(@), !.fault = TRUE])
    /\ UNCHANGED <<staged, auth, image, podman, calls>>

\* A command fails, with its effect or without, or the report before it cannot
\* be sent because the client has gone.
CommandFails(s) ==
    /\ At(s, "exec")
    /\ call[s].cmds # <<>>
    /\ Fault
    /\ LET c == call[s].plan.name
           cmd == Resolved(s, Head(call[s].cmds))
       IN  \/ /\ Move(s, FailAt(s, cmd.do, TRUE))
              /\ UNCHANGED podman
           \/ /\ Executable(c, cmd)
              /\ podman' = EffectOfFailed(c, cmd, call[s].id)
              /\ Proceed(s, FailAt(s, cmd.do, TRUE), c, None)
    /\ UNCHANGED <<staged, auth, image, calls>>

\* A call of the client or a step of the building fails before its effect.
StepFails(s) ==
    /\ call[s].op = "deploy"
    /\ call[s].pc \in {"prepare", "upload", "init", "authFetch", "build", "keyFetch"}
    /\ Fault
    /\ Move(s, FailAt(s, call[s].pc, TRUE))
    /\ UNCHANGED <<staged, auth, image, podman, calls>>

-----------------------------------------------------------------------------
(***************************************************************************)
(* The other handlers: one command each, but for the delete, which clears  *)
(* the project's staging area when the container is gone.                  *)
(***************************************************************************)
\* podman rm -f, which is content with a container that is not there.
DeleteContainer(s) ==
    /\ call[s].op = "delete" /\ call[s].pc = "rm"
    /\ podman' = [podman EXCEPT ![call[s].name] = None]
    /\ Proceed(s, [call[s] EXCEPT !.pc = IF call[s].project = None THEN "end" ELSE "sweep"],
               call[s].name, None)
    /\ UNCHANGED <<staged, auth, image, calls, faults>>

deleteProjectStaging(s) ==
    /\ call[s].op = "delete" /\ call[s].pc = "sweep"
    /\ LET p == call[s].project IN
       IF staged[p] = NoArtifacts
       THEN Move(s, [call[s] EXCEPT !.pc = "end"]) /\ UNCHANGED staged
       ELSE \E i \in {j \in Ids : staged[p][j] # None} :
              /\ staged' = [staged EXCEPT ![p][i] = None]
              /\ Proceed(s, call[s], None, p)
    /\ UNCHANGED <<auth, image, podman, calls, faults>>

DeleteFails(s) ==
    /\ call[s].op = "delete" /\ call[s].pc = "rm"
    /\ Fault
    /\ Move(s, [call[s] EXCEPT !.pc = "end"])
    /\ UNCHANGED <<staged, auth, image, podman, calls>>

\* Requests that are one command each; a request podman refuses changes nothing.
Request(c, d) ==
    /\ call' = [s \in Calls |-> Witness(Witness(call[s], c, None), d, None)]
    /\ calls < MaxCalls
    /\ calls' = calls + 1
    /\ UNCHANGED <<staged, auth, image, faults>>

StartContainer(c) ==
    /\ podman[c] # None /\ podman[c].status # "Up"
    /\ podman' = [podman EXCEPT ![c].status = "Up"]
    /\ Request(c, c)

StopContainer(c) ==
    /\ podman[c] # None /\ podman[c].status = "Up"
    /\ podman' = [podman EXCEPT ![c].status = "Exited"]
    /\ Request(c, c)

RenameContainer(c, d) ==
    /\ podman[c] # None /\ podman[d] = None
    /\ podman' = [podman EXCEPT ![c] = None, ![d] = podman[c]]
    /\ Request(c, d)

(***************************************************************************)
(* GetContainer and ListContainers.  A get is two commands, between which  *)
(* others work: the ports come from the first, the status from the second. *)
(***************************************************************************)
\* None answers that the call failed.
Answer(s, a) == Move(s, [call[s] EXCEPT !.pc = "end", !.answer = a])

\* An unpublished port swallows the port after it, and a second address has no
\* port before it; what follows the last published port is cut off.
parseInspectFormattedOutput(ports) ==
    IF \E k \in DOMAIN ports :
          \/ ports[k].hosts > 1
          \/ ports[k].hosts = 0 /\ \E j \in DOMAIN ports : j > k /\ ports[j].hosts > 0
    THEN None
    ELSE {ports[k].port : k \in {j \in DOMAIN ports : ports[j].hosts = 1}}

Inspect(s) ==
    /\ call[s].op = "get" /\ call[s].pc = "inspect"
    /\ LET k == podman[call[s].name] IN
       IF k = None THEN Answer(s, None)
       ELSE LET ports == parseInspectFormattedOutput(k.ports) IN
            IF ports = None THEN Answer(s, None)
            ELSE Move(s, [call[s] EXCEPT !.pc = "ps", !.ports = ports])
    /\ UNCHANGED <<staged, auth, image, podman, calls, faults>>

\* The status is running unless the row says otherwise, as its type starts there.
parseContainerRawData(status) == IF status = "Exited" THEN "exited" ELSE "running"

\* Mutant: `podman ps` without -a.
parsePsFormattedOutput_Running(k) ==
    IF k = None \/ k.status # "Up" THEN "deleted" ELSE parseContainerRawData(k.status)

\* What `podman ps -a` says of a container; "deleted" has no row.
parsePsFormattedOutput(k) ==
    IF k = None THEN "deleted" ELSE parseContainerRawData(k.status)

GetContainerStatus(s) ==
    /\ call[s].op = "get" /\ call[s].pc = "ps"
    /\ Answer(s, [c \in {call[s].name} |-> parsePsFormattedOutput(podman[c])])
    /\ UNCHANGED <<staged, auth, image, podman, calls, faults>>

ListContainers(s) ==
    /\ call[s].op = "list" /\ call[s].pc = "ps"
    /\ Answer(s, [c \in Names |-> parsePsFormattedOutput(podman[c])])
    /\ UNCHANGED <<staged, auth, image, podman, calls, faults>>

ReadFails(s) ==
    /\ call[s].op \in Reads /\ call[s].pc # "end"
    /\ Fault
    /\ Answer(s, None)
    /\ UNCHANGED <<staged, auth, image, podman, calls>>

\* The agent is killed and started again: the calls are lost, files and
\* containers stay.
Crash ==
    /\ Fault
    /\ call' = [s \in Calls |->
                   IF Ended(s) THEN call[s]
                   ELSE IF call[s].op = "deploy" THEN FailAt(s, call[s].pc, TRUE)
                   ELSE [call[s] EXCEPT !.pc = "end"]]
    /\ UNCHANGED <<staged, auth, image, podman, calls>>

-----------------------------------------------------------------------------
Init ==
    /\ call = [s \in Calls |-> Nobody]
    /\ staged = [p \in Projects |-> NoArtifacts]
    /\ auth = None
    /\ image = [c \in Names |-> None]
    /\ podman = [c \in Names |-> None]
    /\ calls = 0
    /\ faults = 0

Done == calls = MaxCalls /\ (\A s \in Calls : Ended(s)) /\ UNCHANGED vars

Next ==
    \/ \E s \in Calls :
         \/ Begin(s)
         \/ Prepare(s) \/ UploadArtifact(s) \/ AllUploaded(s)
         \/ Announce(s) \/ AuthFileExists(s) \/ addHostConfigurationFiles(s)
         \/ prepareImage(s) \/ buildDockerfile(s)
         \/ PubKeyExists(s) \/ buildSSHKeyInstallCommands(s)
         \/ ExecuteCommand(s) \/ sendDeployResponse(s)
         \/ CommandFails(s) \/ StepFails(s)
         \/ DeleteContainer(s) \/ deleteProjectStaging(s) \/ DeleteFails(s)
         \/ Inspect(s) \/ GetContainerStatus(s) \/ ListContainers(s) \/ ReadFails(s)
    \/ \E c, d \in Names :
         StartContainer(c) \/ StopContainer(c) \/ RenameContainer(c, d)
    \/ Crash
    \/ Done

Spec == Init /\ [][Next]_vars

-----------------------------------------------------------------------------
Deploys == {s \in Calls : call[s].op = "deploy"}

Succeeded(s) == Ended(s) /\ call[s].failedAt = None

\* The container that the deployment of s created is there under its name.
OwnContainer(s) ==
    /\ podman[call[s].plan.name] # None
    /\ podman[call[s].plan.name].id = call[s].id

\* A deployment answered without an error has made its container all that the
\* configuration asks for, whatever happened to the staging area meanwhile: the
\* configured users exist, the post-create command has run, and the key that was
\* read is installed for the remote user (container_service.go:154 to 175).
DeployedIsComplete ==
    \A s \in Deploys :
        Succeeded(s) /\ OwnContainer(s) /\ "container" \notin call[s].touched =>
            LET k == podman[call[s].plan.name]
                cfg == call[s].plan.config
            IN  /\ {cfg.containerUser, cfg.remoteUser} \subseteq k.users \cup {Root}
                /\ cfg.post => k.post
                /\ call[s].key # None => <<cfg.remoteUser, call[s].key>> \in k.keys

\* A deployment nothing interfered with fails only for the lack of an image or
\* of a file of the client or because its name was taken: the order of the
\* commands never makes one fail,
\* for instance a post-create command run as a user still to be created.
FailsForCause ==
    \A s \in Deploys :
        Ended(s) /\ call[s].failedAt # None =>
            \/ call[s].fault \/ call[s].touched # {} \/ call[s].taken
            \/ call[s].plan.config.image = "none"
            \/ CollectFails(call[s].plan.config, call[s].plan.client)

\* A deployment whose staging area and container were left alone installs the key
\* of its own client, also when the area still held files of an earlier one.
OwnKeyInstalled ==
    \A s \in Deploys :
        Succeeded(s) /\ OwnContainer(s) /\ call[s].touched = {} =>
            <<call[s].plan.config.remoteUser, call[s].plan.client.key>>
                \in podman[call[s].plan.name].keys

\* A status that GetContainer or ListContainers answers was the container's at a
\* moment of the call, though a get looks twice and others work meanwhile: one
\* that is exited was exited, one that is deleted or has no row was not there, and
\* one that is running was there and not exited (engine.go:391 to 411).
StatusWasTrue ==
    \A s \in Calls : call[s].op \in Reads /\ call[s].answer # None =>
        \A c \in DOMAIN call[s].answer :
            LET status == call[s].answer[c]
                seen == call[s].seen[c]
            IN  CASE status = "exited"  -> "Exited" \in seen
                  [] status = "deleted" -> "absent" \in seen
                  [] status = "running" -> seen \cap {"Up", "Created"} # {}

=============================================================================
