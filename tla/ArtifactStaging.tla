--------------------------- MODULE ArtifactStaging ---------------------------
(***************************************************************************)
(* The staging area of the agent for one project                           *)
(* (internal/agent/artifact_service.go): concurrent UploadArtifact streams *)
(* that write a temporary file and rename it to the artifact's path, and   *)
(* the removal of the whole area by DeleteContainer                        *)
(* (internal/agent/container_service.go), which no lock keeps apart from   *)
(* them.  A name that passes its checks is a model value; a request that   *)
(* does not is answered with an error before anything changes.  A digest   *)
(* is the content itself (SHA-256 is taken to be injective).               *)
(*                                                                         *)
(* os.RemoveAll is external: it reads the entries of the directory,        *)
(* unlinks them one by one and then removes the directory, which fails if  *)
(* an entry has appeared meanwhile.                                        *)
(***************************************************************************)
EXTENDS Integers, Sequences

CONSTANTS
    Ids,        \* artifact identifiers of the project
    Streams,    \* UploadArtifact streams
    Bytes,      \* the alphabet of contents
    Requests,   \* what the clients declare and send
    MaxCrashes, \* bound: kills of the agent
    Absent      \* no file, no digest

Contents == Seq(Bytes)

(***************************************************************************)
(* A stream of chunks: the size and the digest the first one declares, and *)
(* the bytes the client has.  The CLI computes the former from the latter; *)
(* another client may leave either out, or describe a file that changes.   *)
(***************************************************************************)
ASSUME RequestsAssumption ==
    Requests \subseteq
        [size : Nat, digest : Contents \cup {Absent}, data : Contents]

ASSUME AbsentAssumption == Absent \notin Contents \cup Requests

ASSUME MaxCrashesAssumption == MaxCrashes \in Nat

VARIABLES
    dir,      \* the staging directory of the project exists
    files,    \* its committed artifacts
    temps,    \* its temporary files, by the stream that created them
    junk,     \* it holds a temporary file of a killed agent
    up,       \* the handler of each stream
    wipe,     \* the RemoveAll of DeleteContainer: entries left to unlink
    origin,   \* history: the upload that committed each artifact
    crashes   \* bound

vars == <<dir, files, temps, junk, up, wipe, origin, crashes>>

-----------------------------------------------------------------------------
(***************************************************************************)
(* The locals of UploadArtifact: the artifact, its descriptor (with what   *)
(* the client is sending), and what was written to the file (buf, whose    *)
(* length is totalWritten).                                                *)
(***************************************************************************)
NoUpload == [pc |-> "idle"]

Uploads ==
    [pc   : {"mkdir", "recv", "close", "commit"},
     id   : Ids,
     desc : Requests,
     buf  : Contents]

NoWipe == [on |-> FALSE, ids |-> {}, temps |-> {}, junk |-> FALSE]

Init ==
    /\ dir = FALSE
    /\ files = [i \in Ids |-> Absent]
    /\ temps = [s \in Streams |-> Absent]
    /\ junk = FALSE
    /\ up = [s \in Streams |-> NoUpload]
    /\ wipe = NoWipe
    /\ origin = [i \in Ids |-> Absent]
    /\ crashes = 0

\* Mutant: the deferred removal is forgotten.
Return_LeavesTemp(s) ==
    /\ up' = [up EXCEPT ![s] = NoUpload]
    /\ UNCHANGED <<dir, files, temps, junk, wipe, origin, crashes>>

(***************************************************************************)
(* UploadArtifact.                                                         *)
(***************************************************************************)
\* The handler returns: the deferred function removes what is at tempPath.
Return(s) ==
    /\ up' = [up EXCEPT ![s] = NoUpload]
    /\ temps' = [temps EXCEPT ![s] = Absent]
    /\ UNCHANGED <<dir, files, junk, wipe, origin, crashes>>

\* The first chunk passes the checks; MkdirAll.
FirstChunk(s) ==
    /\ up[s].pc = "idle"
    /\ \E i \in Ids, r \in Requests :
          up' = [up EXCEPT ![s] =
                   [pc |-> "mkdir", id |-> i, desc |-> r, buf |-> <<>>]]
    /\ dir' = TRUE
    /\ UNCHANGED <<files, temps, junk, wipe, origin, crashes>>

\* Mutant: the file is created elsewhere when the directory is gone.
CreateTemp_Anywhere(s) ==
    /\ up[s].pc = "mkdir"
    /\ temps' = [temps EXCEPT ![s] = <<>>]
    /\ wipe' = [wipe EXCEPT !.temps = @ \ {s}]
    /\ up' = [up EXCEPT ![s].pc = "recv"]
    /\ UNCHANGED <<dir, files, junk, origin, crashes>>

\* A new name: an entry that RemoveAll has already listed is another one.
CreateTemp(s) ==
    /\ up[s].pc = "mkdir"
    /\ dir
    /\ temps' = [temps EXCEPT ![s] = <<>>]
    /\ wipe' = [wipe EXCEPT !.temps = @ \ {s}]
    /\ up' = [up EXCEPT ![s].pc = "recv"]
    /\ UNCHANGED <<dir, files, junk, origin, crashes>>

CreateTempFails(s) ==
    /\ up[s].pc = "mkdir"
    /\ ~ dir
    /\ Return(s)

\* The bytes from offset + 1 to end of what the client is sending.
Slice(s, offset, end) == SubSeq(up[s].desc.data, offset + 1, end)

\* Mutant: a gap is accepted.
AcceptsChunk_Gap(s, offset) == offset >= Len(up[s].buf)

\* A chunk continues the file only where the previous one ended.
AcceptsChunk(s, offset) == offset = Len(up[s].buf)

\* A write goes to the open file, whether or not it still has a name.
ReceiveChunk(s) ==
    /\ up[s].pc = "recv"
    /\ \E offset, end \in 0 .. Len(up[s].desc.data), finish \in BOOLEAN :
          /\ offset <= end
          /\ AcceptsChunk(s, offset)
          /\ LET written == up[s].buf \o Slice(s, offset, end) IN
             /\ up' = [up EXCEPT ![s].buf = written,
                                 ![s].pc = IF finish THEN "close" ELSE "recv"]
             /\ temps' = [temps EXCEPT ![s] = IF @ = Absent THEN Absent ELSE written]
    /\ UNCHANGED <<dir, files, junk, wipe, origin, crashes>>

\* A chunk at another offset, one that changes the project or the upload id
\* or repeats the descriptor, a failed write, or a broken stream.
RejectChunk(s) ==
    /\ up[s].pc = "recv"
    /\ Return(s)

\* io.EOF is accepted without a chunk marked as the last one.
EndOfStream(s) ==
    /\ up[s].pc = "recv"
    /\ up' = [up EXCEPT ![s].pc = "close"]
    /\ UNCHANGED <<dir, files, temps, junk, wipe, origin, crashes>>

SizeMatches(r, c) == r.size > 0 => r.size = Len(c)

DigestMatches(r, c) == r.digest # Absent => r.digest = c

\* Mutant: the digest is not compared.
Verified_SizeOnly(s) ==
    /\ SizeMatches(up[s].desc, up[s].buf)
    /\ temps[s] # Absent

\* The size is that of what was written, the digest that of the file.
Verified(s) ==
    /\ SizeMatches(up[s].desc, up[s].buf)
    /\ temps[s] # Absent
    /\ DigestMatches(up[s].desc, temps[s])

Verify(s) ==
    /\ up[s].pc = "close"
    /\ Verified(s)
    /\ up' = [up EXCEPT ![s].pc = "commit"]
    /\ UNCHANGED <<dir, files, temps, junk, wipe, origin, crashes>>

VerifyFails(s) ==
    /\ up[s].pc = "close"
    /\ ~ Verified(s)
    /\ Return(s)

Rename(s) ==
    /\ up[s].pc = "commit"
    /\ temps[s] # Absent
    /\ files' = [files EXCEPT ![up[s].id] = temps[s]]
    /\ temps' = [temps EXCEPT ![s] = Absent]
    /\ origin' = [origin EXCEPT ![up[s].id] = up[s].desc]
    /\ up' = [up EXCEPT ![s] = NoUpload]
    /\ UNCHANGED <<dir, junk, wipe, crashes>>

RenameFails(s) ==
    /\ up[s].pc = "commit"
    /\ temps[s] = Absent
    /\ Return(s)

(***************************************************************************)
(* deleteProjectStaging: os.RemoveAll, one system call at a time.          *)
(***************************************************************************)
ReadEntries ==
    /\ ~ wipe.on
    /\ dir
    /\ wipe' = [on    |-> TRUE,
                ids   |-> {i \in Ids : files[i] # Absent},
                temps |-> {s \in Streams : temps[s] # Absent},
                junk  |-> junk]
    /\ UNCHANGED <<dir, files, temps, junk, up, origin, crashes>>

UnlinkArtifact ==
    /\ \E i \in wipe.ids :
          /\ files' = [files EXCEPT ![i] = Absent]
          /\ origin' = [origin EXCEPT ![i] = Absent]
          /\ wipe' = [wipe EXCEPT !.ids = @ \ {i}]
    /\ UNCHANGED <<dir, temps, junk, up, crashes>>

UnlinkTemp ==
    /\ \E s \in wipe.temps :
          /\ temps' = [temps EXCEPT ![s] = Absent]
          /\ wipe' = [wipe EXCEPT !.temps = @ \ {s}]
    /\ UNCHANGED <<dir, files, junk, up, origin, crashes>>

UnlinkJunk ==
    /\ wipe.junk
    /\ junk' = FALSE
    /\ wipe' = [wipe EXCEPT !.junk = FALSE]
    /\ UNCHANGED <<dir, files, temps, up, origin, crashes>>

Empty ==
    /\ \A i \in Ids : files[i] = Absent
    /\ \A s \in Streams : temps[s] = Absent
    /\ ~ junk

\* ENOTEMPTY is the error DeleteContainer then returns.
RemoveDir ==
    /\ wipe.on /\ wipe.ids = {} /\ wipe.temps = {} /\ ~ wipe.junk
    /\ dir' = (dir /\ ~ Empty)
    /\ wipe' = NoWipe
    /\ UNCHANGED <<files, temps, junk, up, origin, crashes>>

\* The agent is killed: deferred removals do not run.
Crash ==
    /\ crashes < MaxCrashes
    /\ crashes' = crashes + 1
    /\ junk' = (junk \/ \E s \in Streams : temps[s] # Absent)
    /\ temps' = [s \in Streams |-> Absent]
    /\ up' = [s \in Streams |-> NoUpload]
    /\ wipe' = NoWipe
    /\ UNCHANGED <<dir, files, origin>>

UploadArtifact(s) ==
    \/ FirstChunk(s)
    \/ CreateTemp(s)
    \/ CreateTempFails(s)
    \/ ReceiveChunk(s)
    \/ RejectChunk(s)
    \/ EndOfStream(s)
    \/ Verify(s)
    \/ VerifyFails(s)
    \/ Rename(s)
    \/ RenameFails(s)

deleteProjectStaging ==
    \/ ReadEntries
    \/ UnlinkArtifact
    \/ UnlinkTemp
    \/ UnlinkJunk
    \/ RemoveDir

Next ==
    \/ \E s \in Streams : UploadArtifact(s)
    \/ deleteProjectStaging
    \/ Crash

Spec == Init /\ [][Next]_vars

-----------------------------------------------------------------------------
(***************************************************************************)
(* Every variable has its type: files hold contents, streams are uploads   *)
(* with a descriptor, the removal works on names it has listed.            *)
(***************************************************************************)
TypeOK ==
    /\ dir \in BOOLEAN
    /\ files \in [Ids -> Contents \cup {Absent}]
    /\ temps \in [Streams -> Contents \cup {Absent}]
    /\ junk \in BOOLEAN
    /\ up \in [Streams -> Uploads \cup {NoUpload}]
    /\ wipe \in [on : BOOLEAN, ids : SUBSET Ids, temps : SUBSET Streams, junk : BOOLEAN]
    /\ origin \in [Ids -> Requests \cup {Absent}]
    /\ crashes \in 0 .. MaxCrashes

Store == INSTANCE StagingStore WITH store <- files

(***************************************************************************)
(* A file at an artifact's path is what the upload that committed it       *)
(* declared, and a gap-free beginning of what that client was sending,     *)
(* whatever streams write to the same path, and whatever is unlinked,      *)
(* cut off or killed in between: a deployment never reads half a key.      *)
(***************************************************************************)
StagedIsDeclared ==
    \A i \in Ids : files[i] # Absent =>
        /\ origin[i] # Absent
        /\ Store!Delivers(origin[i], files[i])

(***************************************************************************)
(* A temporary file outlives its stream only if the agent was killed:      *)
(* every way out of the handler removes it, also after the rename and      *)
(* after RemoveAll took it away.                                           *)
(***************************************************************************)
TempsAreOwned ==
    /\ \A s \in Streams : temps[s] # Absent => up[s].pc \in {"recv", "close", "commit"}
    /\ crashes = 0 => ~ junk

(***************************************************************************)
(* Nothing exists in a directory that is gone: a handler whose directory   *)
(* was removed under it fails instead of writing somewhere else.           *)
(***************************************************************************)
NothingOutside == ~ dir => Empty

(***************************************************************************)
(* The whole area implements an atomic map of artifacts.                   *)
(***************************************************************************)
StoreSpec == Store!Spec

(***************************************************************************)
(* The inductive invariant: what a handler has written is the beginning of *)
(* what it is sent, and its temporary file, while it has a name, holds     *)
(* exactly that; past the checks, that is what was declared.               *)
(***************************************************************************)
UploadOK(s) ==
    /\ up[s].pc \in {"idle", "mkdir"} => temps[s] = Absent
    /\ up[s].pc = "mkdir" => up[s].buf = <<>>
    /\ up[s].pc # "idle" => Store!Begins(up[s].buf, up[s].desc.data)
    /\ temps[s] # Absent => temps[s] = up[s].buf
    /\ up[s].pc = "commit" =>
          Store!Delivers(up[s].desc, up[s].buf)

IInv ==
    /\ TypeOK
    /\ \A s \in Streams : UploadOK(s)
    /\ StagedIsDeclared
    /\ NothingOutside
    /\ crashes = 0 => ~ junk
=============================================================================
