----------------------------- MODULE Agent_proofs -----------------------------
(***************************************************************************)
(* Proofs about three state machines that every agent is part of, for all  *)
(* values of their constants: ArtifactStaging, its staging area; in        *)
(* CliConfig, the migration of its clients to aconfig.yaml; AgentShutdown, *)
(* the end of its process.                                                 *)
(*                                                                         *)
(* The argument for the first: a handler's temporary file holds exactly    *)
(* what it has written (buf), which is a beginning of what it is sent; the *)
(* checks before the rename make that what was declared; RemoveAll can     *)
(* only take the file's name away, which the handler then notices.         *)
(***************************************************************************)
EXTENDS ArtifactStaging, CliConfig, AgentShutdown, SequenceTheorems, TLAPS

(***************************************************************************)
(* A chunk that is a slice of the data, taken where the file ends, leaves  *)
(* the file a beginning of the data.                                       *)
(***************************************************************************)
LEMMA SliceExtends ==
    ASSUME NEW data \in Contents, NEW buf \in Contents,
           Store!Begins(buf, data), NEW end \in Len(buf) .. Len(data)
    PROVE  LET w == buf \o SubSeq(data, Len(buf) + 1, end) IN
           w \in Contents /\ Store!Begins(w, data)
<1> DEFINE b == Len(buf)
           t == SubSeq(data, b + 1, end)
<1>1. /\ b \in Nat /\ Len(data) \in Nat /\ end \in Nat
      /\ b <= end /\ end <= Len(data)
  BY DEF Contents
<1>2. /\ t \in Contents
      /\ Len(t) = end - b
      /\ \A k \in 1 .. (end - b) : t[k] = data[b + k]
  BY <1>1, SubSeqProperties DEF Contents
<1>3. /\ buf \o t \in Contents
      /\ Len(buf \o t) = end
      /\ \A k \in 1 .. end : (buf \o t)[k] = IF k <= b THEN buf[k] ELSE t[k - b]
  BY <1>1, <1>2, ConcatProperties DEF Contents
<1>4. \A k \in 1 .. b : buf[k] = data[k]
  BY DEF Store!Begins
<1>5. ASSUME NEW k \in 1 .. end PROVE (buf \o t)[k] = data[k]
  <2>1. CASE k <= b
    BY <2>1, <1>1, <1>3, <1>4
  <2>2. CASE ~ (k <= b)
    <3>1. k - b \in 1 .. (end - b) /\ b + (k - b) = k
      BY <2>2, <1>1
    <3>2. t[k - b] = data[b + (k - b)]
      BY <3>1, <1>2
    <3> QED
      BY <2>2, <3>1, <3>2, <1>1, <1>3
  <2> QED
    BY <2>1, <2>2
<1> QED
  BY <1>1, <1>3, <1>5 DEF Store!Begins

(***************************************************************************)
(* The empty file begins any data.                                         *)
(***************************************************************************)
LEMMA EmptyBegins ==
    ASSUME NEW data \in Contents
    PROVE  <<>> \in Contents /\ Store!Begins(<<>>, data)
BY DEF Contents, Store!Begins

\* The empty area satisfies the inductive invariant.
LEMMA InitOK == Init => IInv
<1> SUFFICES ASSUME Init PROVE IInv
  OBVIOUS
<1>1. wipe \in [on : BOOLEAN, ids : SUBSET Ids, temps : SUBSET Streams, junk : BOOLEAN]
  BY Zenon DEF Init, NoWipe
<1>2. crashes \in 0 .. MaxCrashes
  BY MaxCrashesAssumption DEF Init
<1>3. TypeOK
  BY <1>1, <1>2, Zenon DEF Init, TypeOK
<1> QED
  BY <1>3 DEF Init, IInv, UploadOK, StagedIsDeclared, NothingOutside, Empty, NoUpload

(***************************************************************************)
(* A handler that returns, from whatever point.                            *)
(***************************************************************************)
LEMMA ReturnOK ==
    ASSUME IInv, NEW s \in Streams, Return(s)
    PROVE  IInv'
<1>1. TypeOK'
  BY DEF IInv, TypeOK, Return
<1>2. ASSUME NEW t \in Streams PROVE UploadOK(t)'
  BY DEF IInv, TypeOK, UploadOK, Return, NoUpload
<1>3. StagedIsDeclared'
  BY DEF IInv, StagedIsDeclared, Return
<1>4. NothingOutside' /\ (crashes = 0 => ~ junk)'
  BY DEF IInv, TypeOK, NothingOutside, Empty, Return
<1> QED
  BY <1>1, <1>2, <1>3, <1>4 DEF IInv

(***************************************************************************)
(* Steps of UploadArtifact.                                                *)
(***************************************************************************)
LEMMA FirstChunkOK ==
    ASSUME IInv, NEW s \in Streams, FirstChunk(s)
    PROVE  IInv'
<1> PICK i \in Ids, r \in Requests :
        up' = [up EXCEPT ![s] = [pc |-> "mkdir", id |-> i, desc |-> r, buf |-> <<>>]]
  BY DEF FirstChunk
<1>1. r.data \in Contents
  BY RequestsAssumption
<1>2. <<>> \in Contents /\ Store!Begins(<<>>, r.data)
  BY <1>1, EmptyBegins
<1>3. [pc |-> "mkdir", id |-> i, desc |-> r, buf |-> <<>>] \in Uploads
  BY <1>2 DEF Uploads
<1>4. up' \in [Streams -> Uploads \cup {NoUpload}]
  BY <1>3 DEF IInv, TypeOK
<1>5. TypeOK'
  BY <1>4, Zenon DEF IInv, TypeOK, FirstChunk
<1>6. temps[s] = Absent
  BY DEF IInv, UploadOK, FirstChunk
<1>7. ASSUME NEW t \in Streams PROVE UploadOK(t)'
  BY <1>2, <1>6 DEF IInv, TypeOK, UploadOK, FirstChunk
<1>8. StagedIsDeclared' /\ NothingOutside' /\ (crashes = 0 => ~ junk)'
  BY DEF IInv, StagedIsDeclared, NothingOutside, FirstChunk
<1> QED
  BY <1>5, <1>7, <1>8 DEF IInv

\* A new temporary file is empty, and lies in an existing directory.
LEMMA CreateTempOK ==
    ASSUME IInv, NEW s \in Streams, CreateTemp(s)
    PROVE  IInv'
<1>1. up[s] \in Uploads
  BY DEF IInv, TypeOK, CreateTemp, NoUpload
<1>2. <<>> \in Contents
  BY DEF Contents
<1>3. up' \in [Streams -> Uploads \cup {NoUpload}]
  BY <1>1 DEF IInv, TypeOK, CreateTemp, Uploads
<1>4. temps' \in [Streams -> Contents \cup {Absent}]
  BY <1>2 DEF IInv, TypeOK, CreateTemp
<1>5. wipe' \in [on : BOOLEAN, ids : SUBSET Ids, temps : SUBSET Streams, junk : BOOLEAN]
  BY DEF IInv, TypeOK, CreateTemp
<1>6. TypeOK'
  BY <1>3, <1>4, <1>5, Zenon DEF IInv, TypeOK, CreateTemp
<1>7. ASSUME NEW t \in Streams PROVE UploadOK(t)'
  BY <1>1 DEF IInv, TypeOK, UploadOK, CreateTemp, Uploads
<1>8. StagedIsDeclared' /\ NothingOutside' /\ (crashes = 0 => ~ junk)'
  BY DEF IInv, StagedIsDeclared, NothingOutside, CreateTemp
<1> QED
  BY <1>6, <1>7, <1>8 DEF IInv

\* A chunk extends a temporary file to a longer beginning of the data.
LEMMA ReceiveChunkOK ==
    ASSUME IInv, NEW s \in Streams, ReceiveChunk(s)
    PROVE  IInv'
<1>1. up[s] \in Uploads
  BY DEF IInv, TypeOK, ReceiveChunk, NoUpload
<1> DEFINE data == up[s].desc.data
<1>2. /\ up[s].pc = "recv"
      /\ up[s].buf \in Contents
      /\ data \in Contents
      /\ Store!Begins(up[s].buf, data)
  BY <1>1, RequestsAssumption DEF IInv, UploadOK, ReceiveChunk, Uploads
<1>3. PICK offset \in 0 .. Len(data), end \in 0 .. Len(data), finish \in BOOLEAN :
        LET written == up[s].buf \o SubSeq(data, offset + 1, end) IN
        /\ offset <= end
        /\ offset = Len(up[s].buf)
        /\ up' = [up EXCEPT ![s].buf = written,
                            ![s].pc = IF finish THEN "close" ELSE "recv"]
        /\ temps' = [temps EXCEPT ![s] = IF @ = Absent THEN Absent ELSE written]
  BY Zenon DEF ReceiveChunk, AcceptsChunk, Slice
<1> DEFINE written == up[s].buf \o SubSeq(data, Len(up[s].buf) + 1, end)
           pcs == IF finish THEN "close" ELSE "recv"
<1>4. written \in Contents /\ Store!Begins(written, data)
  <2>1. end \in Len(up[s].buf) .. Len(data)
    BY <1>2, <1>3 DEF Contents
  <2> QED
    BY <1>2, <2>1, SliceExtends
<1>5. /\ up' = [up EXCEPT ![s] = [up[s] EXCEPT !.buf = written, !.pc = pcs]]
      /\ temps' = [temps EXCEPT ![s] = IF temps[s] = Absent THEN Absent ELSE written]
  BY <1>3 DEF IInv, TypeOK
<1> HIDE DEF written, data
<1>6. [up[s] EXCEPT !.buf = written, !.pc = pcs] \in Uploads
  BY <1>1, <1>4 DEF Uploads
<1>7. TypeOK'
  <2>1. up' \in [Streams -> Uploads \cup {NoUpload}]
    BY <1>5, <1>6 DEF IInv, TypeOK
  <2>2. temps' \in [Streams -> Contents \cup {Absent}]
    BY <1>4, <1>5 DEF IInv, TypeOK
  <2> QED
    BY <2>1, <2>2, Zenon DEF IInv, TypeOK, ReceiveChunk
<1>8. UploadOK(s)'
  <2>1. /\ up'[s].pc = pcs
        /\ up'[s].buf = written
        /\ up'[s].desc = up[s].desc
        /\ temps'[s] = IF temps[s] = Absent THEN Absent ELSE written
    BY <1>1, <1>5 DEF IInv, TypeOK, Uploads
  <2> QED
    BY <2>1, <1>4 DEF UploadOK, data
<1>9. ASSUME NEW t \in Streams, t # s PROVE UploadOK(t)'
  BY <1>5, <1>9 DEF IInv, TypeOK, UploadOK
<1>10. StagedIsDeclared' /\ (crashes = 0 => ~ junk)'
  BY DEF IInv, StagedIsDeclared, ReceiveChunk
<1>11. NothingOutside'
  BY <1>5 DEF IInv, TypeOK, NothingOutside, Empty, ReceiveChunk
<1> QED
  BY <1>7, <1>8, <1>9, <1>10, <1>11 DEF IInv

\* The end of the stream changes no file.
LEMMA EndOfStreamOK ==
    ASSUME IInv, NEW s \in Streams, EndOfStream(s)
    PROVE  IInv'
<1>1. up[s] \in Uploads
  BY DEF IInv, TypeOK, EndOfStream, NoUpload
<1>2. up' \in [Streams -> Uploads \cup {NoUpload}]
  BY <1>1 DEF IInv, TypeOK, EndOfStream, Uploads
<1>3. TypeOK'
  BY <1>2, Zenon DEF IInv, TypeOK, EndOfStream
<1>4. ASSUME NEW t \in Streams PROVE UploadOK(t)'
  BY <1>1 DEF IInv, TypeOK, UploadOK, EndOfStream, Uploads
<1>5. StagedIsDeclared' /\ NothingOutside' /\ (crashes = 0 => ~ junk)'
  BY DEF IInv, StagedIsDeclared, NothingOutside, Empty, EndOfStream
<1> QED
  BY <1>3, <1>4, <1>5 DEF IInv

\* A stream that passes the checks delivers what it declared.
LEMMA VerifyOK ==
    ASSUME IInv, NEW s \in Streams, Verify(s)
    PROVE  IInv'
<1>1. up[s] \in Uploads
  BY DEF IInv, TypeOK, Verify, NoUpload
<1>2. up' \in [Streams -> Uploads \cup {NoUpload}]
  BY <1>1 DEF IInv, TypeOK, Verify, Uploads
<1>3. TypeOK'
  BY <1>2, Zenon DEF IInv, TypeOK, Verify
<1>4. /\ temps[s] = up[s].buf
      /\ Store!Delivers(up[s].desc, up[s].buf)
  BY DEF IInv, UploadOK, Verify, Verified, SizeMatches, DigestMatches,
         Store!Delivers, Store!SizeMatches, Store!DigestMatches
<1>5. ASSUME NEW t \in Streams PROVE UploadOK(t)'
  BY <1>1, <1>4 DEF IInv, TypeOK, UploadOK, Verify, Uploads
<1>6. StagedIsDeclared' /\ NothingOutside' /\ (crashes = 0 => ~ junk)'
  BY DEF IInv, StagedIsDeclared, NothingOutside, Empty, Verify
<1> QED
  BY <1>3, <1>5, <1>6 DEF IInv

\* The rename commits a content that was checked.
LEMMA RenameOK ==
    ASSUME IInv, NEW s \in Streams, Rename(s)
    PROVE  IInv'
<1>1. up[s] \in Uploads /\ up[s].id \in Ids /\ up[s].desc \in Requests
  BY DEF IInv, TypeOK, Rename, NoUpload, Uploads
<1>2. /\ temps[s] = up[s].buf
      /\ Store!Delivers(up[s].desc, temps[s])
      /\ temps[s] \in Contents
  BY DEF IInv, TypeOK, UploadOK, Rename
<1>3. TypeOK'
  BY <1>1, <1>2, Zenon DEF IInv, TypeOK, Rename
<1>4. ASSUME NEW t \in Streams PROVE UploadOK(t)'
  BY DEF IInv, TypeOK, UploadOK, Rename, NoUpload
<1>5. StagedIsDeclared'
  <2>1. up[s].desc # Absent
    BY <1>1, AbsentAssumption
  <2> QED
    BY <1>1, <1>2, <2>1 DEF IInv, TypeOK, StagedIsDeclared, Rename
<1>6. dir
  BY DEF IInv, NothingOutside, Empty, Rename
<1>7. NothingOutside' /\ (crashes = 0 => ~ junk)'
  BY <1>6 DEF IInv, NothingOutside, Rename
<1> QED
  BY <1>3, <1>4, <1>5, <1>7 DEF IInv
(***************************************************************************)
(* Steps of RemoveAll and of a kill.                                       *)
(***************************************************************************)
LEMMA WipeOK ==
    ASSUME IInv, deleteProjectStaging
    PROVE  IInv'
<1> USE DEF IInv
<1>1. CASE ReadEntries
  <2>1. wipe' \in [on : BOOLEAN, ids : SUBSET Ids, temps : SUBSET Streams, junk : BOOLEAN]
    BY <1>1, Zenon DEF TypeOK, ReadEntries
  <2>2. TypeOK'
    BY <1>1, <2>1, Zenon DEF TypeOK, ReadEntries
  <2> QED
    BY <1>1, <2>2 DEF ReadEntries, UploadOK, StagedIsDeclared, NothingOutside, Empty
<1>2. CASE UnlinkArtifact
  <2> PICK i \in wipe.ids :
         /\ files' = [files EXCEPT ![i] = Absent]
         /\ origin' = [origin EXCEPT ![i] = Absent]
         /\ wipe' = [wipe EXCEPT !.ids = @ \ {i}]
    BY <1>2 DEF UnlinkArtifact
  <2>1. i \in Ids
    BY DEF TypeOK
  <2>2. TypeOK'
    BY <1>2, <2>1 DEF TypeOK, UnlinkArtifact
  <2> QED
    BY <1>2, <2>1, <2>2 DEF UnlinkArtifact, TypeOK, UploadOK, StagedIsDeclared, NothingOutside, Empty
<1>3. CASE UnlinkTemp
  <2> PICK s \in wipe.temps :
         /\ temps' = [temps EXCEPT ![s] = Absent]
         /\ wipe' = [wipe EXCEPT !.temps = @ \ {s}]
    BY <1>3 DEF UnlinkTemp
  <2>1. s \in Streams
    BY DEF TypeOK
  <2>2. TypeOK'
    BY <1>3, <2>1 DEF TypeOK, UnlinkTemp
  <2> QED
    BY <1>3, <2>1, <2>2 DEF UnlinkTemp, TypeOK, UploadOK, StagedIsDeclared, NothingOutside, Empty
<1>4. CASE UnlinkJunk
  <2>1. TypeOK'
    BY <1>4 DEF TypeOK, UnlinkJunk
  <2> QED
    BY <1>4, <2>1 DEF UnlinkJunk, UploadOK, StagedIsDeclared, NothingOutside, Empty
<1>5. CASE RemoveDir
  <2>1. TypeOK'
    BY <1>5, Zenon DEF TypeOK, RemoveDir, NoWipe
  <2> QED
    BY <1>5, <2>1 DEF RemoveDir, UploadOK, StagedIsDeclared, NothingOutside, Empty
<1> QED
  BY <1>1, <1>2, <1>3, <1>4, <1>5 DEF deleteProjectStaging

\* A kill of the agent leaves committed files as they are.
LEMMA CrashOK ==
    ASSUME IInv, Crash
    PROVE  IInv'
<1>1. wipe' \in [on : BOOLEAN, ids : SUBSET Ids, temps : SUBSET Streams, junk : BOOLEAN]
  BY Zenon DEF Crash, NoWipe
<1>2. crashes' \in 0 .. MaxCrashes /\ crashes' # 0
  BY MaxCrashesAssumption DEF IInv, TypeOK, Crash
<1>3. TypeOK'
  BY <1>1, <1>2, Zenon DEF IInv, TypeOK, Crash
<1> QED
  BY <1>2, <1>3 DEF IInv, Crash, UploadOK, StagedIsDeclared, NothingOutside, Empty, NoUpload

(***************************************************************************)
(* Every step of the staging area keeps the inductive invariant.           *)
(***************************************************************************)
LEMMA NextOK == IInv /\ [Next]_vars => IInv'
<1> SUFFICES ASSUME IInv, [Next]_vars PROVE IInv'
  OBVIOUS
<1>1. ASSUME NEW s \in Streams, UploadArtifact(s) PROVE IInv'
  <2>1. CASE FirstChunk(s)
    BY <2>1, FirstChunkOK
  <2>2. CASE CreateTemp(s)
    BY <2>2, CreateTempOK
  <2>3. CASE ReceiveChunk(s)
    BY <2>3, ReceiveChunkOK
  <2>4. CASE EndOfStream(s)
    BY <2>4, EndOfStreamOK
  <2>5. CASE Verify(s)
    BY <2>5, VerifyOK
  <2>6. CASE Rename(s)
    BY <2>6, RenameOK
  <2>7. CASE Return(s)
    BY <2>7, ReturnOK
  <2> QED
    BY <1>1, <2>1, <2>2, <2>3, <2>4, <2>5, <2>6, <2>7
    DEF UploadArtifact, CreateTempFails, RejectChunk, VerifyFails, RenameFails
<1>2. CASE deleteProjectStaging
  BY <1>2, WipeOK
<1>3. CASE Crash
  BY <1>3, CrashOK
<1>4. CASE UNCHANGED vars
  BY <1>4 DEF vars, IInv, TypeOK, UploadOK, StagedIsDeclared, NothingOutside, Empty
<1> QED
  BY <1>1, <1>2, <1>3, <1>4 DEF Next

(***************************************************************************)
(* A staged artifact is what the upload that committed it declared and a   *)
(* gap-free beginning of what that client sent.                            *)
(***************************************************************************)
THEOREM StagedIsDeclaredHolds == Spec => []StagedIsDeclared
<1>1. IInv => StagedIsDeclared
  BY DEF IInv
<1> QED
  BY InitOK, NextOK, <1>1, PTL DEF Spec

(***************************************************************************)
(* A temporary file belongs to a running upload, unless the agent was      *)
(* killed.                                                                 *)
(***************************************************************************)
THEOREM TempsAreOwnedHolds == Spec => []TempsAreOwned
<1>1. IInv => TempsAreOwned
  BY DEF IInv, TypeOK, UploadOK, TempsAreOwned, Uploads, NoUpload
<1> QED
  BY InitOK, NextOK, <1>1, PTL DEF Spec

(***************************************************************************)
(* No handler leaves a file behind in a directory that was removed.        *)
(***************************************************************************)
THEOREM NothingOutsideHolds == Spec => []NothingOutside
<1>1. IInv => NothingOutside
  BY DEF IInv
<1> QED
  BY InitOK, NextOK, <1>1, PTL DEF Spec

(***************************************************************************)
(* A step changes the committed artifacts by at most one rename of a       *)
(* verified file or one unlink.                                            *)
(***************************************************************************)
LEMMA StoreStep == IInv /\ [Next]_vars => [Store!Next]_files
<1> SUFFICES ASSUME IInv, [Next]_vars PROVE [Store!Next]_files
  OBVIOUS
<1>1. ASSUME NEW s \in Streams, Rename(s) PROVE Store!Next
  <2>1. up[s].id \in Ids /\ up[s].desc \in Requests
    BY <1>1 DEF IInv, TypeOK, Rename, NoUpload, Uploads
  <2>2. /\ temps[s] \in Contents
        /\ Store!Delivers(up[s].desc, temps[s])
        /\ files'[up[s].id] = temps[s]
    BY <1>1, <2>1 DEF IInv, TypeOK, UploadOK, Rename
  <2>3. \A j \in Ids \ {up[s].id} : files'[j] = files[j]
    BY <1>1 DEF IInv, TypeOK, Rename
  <2>4. Store!Put(up[s].id)
    BY <2>1, <2>2, <2>3 DEF Store!Put, Contents
  <2> QED
    BY <2>1, <2>4 DEF Store!Next
<1>2. CASE UnlinkArtifact
  BY <1>2 DEF IInv, TypeOK, UnlinkArtifact, Store!Next, Store!Drop
<1>3. CASE (\A s \in Streams : ~ Rename(s)) /\ ~ UnlinkArtifact
  BY <1>3 DEF Next, UploadArtifact, deleteProjectStaging, vars, FirstChunk, CreateTemp,
     CreateTempFails, ReceiveChunk, RejectChunk, EndOfStream, Verify, VerifyFails,
     RenameFails, Return, ReadEntries, UnlinkTemp, UnlinkJunk, RemoveDir, Crash
<1> QED
  BY <1>1, <1>2, <1>3

(***************************************************************************)
(* The staging area implements the atomic map of StagingStore.             *)
(***************************************************************************)
THEOREM StoreSpecHolds == Spec => StoreSpec
<1>1. Init => Store!Init
  BY DEF Init, Store!Init
<1> QED
  BY InitOK, NextOK, StoreStep, <1>1, PTL DEF Spec, StoreSpec, Store!Spec

(***************************************************************************)
(* The registry of agents: what the migration of aconfig.yaml keeps.       *)
(***************************************************************************)
\* What a running process may be like, when the clients are on the move.
Careful(y, d) ==
    /\ y.pc = "remove" => d["aconfig"] # "absent"
    /\ y.pc = "ensure" /\ y.file = "aconfig" => d["aconfig"] # "absent"
    /\ y.pc \in {"truncate", "write"} /\ y.file = "aconfig" => y.found

\* It is enough to look at the process that takes the step.
LEMMA MoveStep ==
    ASSUME MoveInv, NEW p \in Procs, NEW y, proc' = [proc EXCEPT ![p] = y],
           moving' = moving,
           disk' \in [Files -> {"absent", "cut", "full"}], disk'["legacy"] # "cut",
           y # Idle => Shaped(y),
           moving =>
              /\ disk["aconfig"] # "absent" => disk'["aconfig"] # "absent"
              /\ y # Idle => Careful(y, disk')
              /\ disk'["legacy"] = "absent" => disk'["aconfig"] # "absent"
              /\ disk'["aconfig"] # "absent" =>
                    \/ disk'["aconfig"] = "full" /\ clients'
                    \/ y # Idle /\ Writes(y)
                    \/ \E q \in Procs \ {p} : proc[q] # Idle /\ Writes(proc[q])
                    \/ "aconfig" \in spoiled'
    PROVE  MoveInv'
<1>1. DOMAIN proc = Procs
    BY DEF MoveInv
<1>2. DOMAIN proc' = Procs /\ proc'[p] = y /\ \A q \in Procs \ {p} : proc'[q] = proc[q]
    BY <1>1
<1>3. ASSUME NEW q \in Procs, proc'[q] # Idle
      PROVE  Shaped(proc'[q]) /\ (moving => Careful(proc'[q], disk'))
    <2>1. CASE q = p
        BY <2>1, <1>2, <1>3, Zenon
    <2>2. CASE q # p
        <3>1. proc'[q] = proc[q]
            BY <2>2, <1>2
        <3>2. Shaped(proc[q]) /\ (moving => Careful(proc[q], disk))
            BY <1>3, <3>1, Zenon DEF MoveInv, Careful
        <3>3. moving => Careful(proc[q], disk')
            BY <3>2, Zenon DEF Careful
        <3> QED
            BY <3>1, <3>2, <3>3, Zenon
    <2> QED
        BY <2>1, <2>2
<1>4. ASSUME moving, disk'["aconfig"] # "absent"
      PROVE  \/ disk'["aconfig"] = "full" /\ clients'
             \/ \E q \in Procs : proc'[q] # Idle /\ Writes(proc'[q])
             \/ "aconfig" \in spoiled'
    BY <1>2, <1>4, Zenon
<1> QED
    BY <1>2, <1>3, <1>4, Zenon DEF MoveInv, Careful

\* Steps that leave the files alone are taken by processes that do not write.
LEMMA MoveQuiet ==
    ASSUME MoveInv, NEW p \in Procs, NEW y, proc' = [proc EXCEPT ![p] = y],
           UNCHANGED <<disk, clients, moving>>,
           proc[p] # Idle /\ Writes(proc[p]) => "aconfig" \in spoiled',
           \A f \in spoiled : f \in spoiled',
           y # Idle => Shaped(y),
           y # Idle /\ moving => Careful(y, disk)
    PROVE  MoveInv'
<1>1. ASSUME moving, disk["aconfig"] # "absent"
      PROVE  \/ disk["aconfig"] = "full" /\ clients
             \/ \E q \in Procs \ {p} : proc[q] # Idle /\ Writes(proc[q])
             \/ "aconfig" \in spoiled'
    <2>1. \/ disk["aconfig"] = "full" /\ clients
          \/ \E q \in Procs : proc[q] # Idle /\ Writes(proc[q])
          \/ "aconfig" \in spoiled
        BY <1>1, Zenon DEF MoveInv
    <2> QED
        BY <2>1, Zenon
<1>2. /\ disk \in [Files -> {"absent", "cut", "full"}] /\ disk["legacy"] # "cut"
      /\ moving => (disk["legacy"] = "absent" => disk["aconfig"] # "absent")
    BY Zenon DEF MoveInv
<1> QED
    BY <1>1, <1>2, MoveStep, Zenon

\* At first no process runs, and the files are there or not.
LEMMA MoveInit == ConfigInit => MoveInv
<1> SUFFICES ASSUME ConfigInit PROVE MoveInv
    OBVIOUS
<1>1. disk \in [Files -> {"absent", "full"}]
    BY Zenon DEF ConfigInit
<1>2. disk \in [Files -> {"absent", "cut", "full"}] /\ disk["legacy"] # "cut"
    BY <1>1 DEF Files
<1>3. DOMAIN proc = Procs /\ \A p \in Procs : proc[p] = Idle
    BY DEF ConfigInit
<1>4. moving => disk["legacy"] = "full" /\ disk["aconfig"] = "absent"
    BY Zenon DEF ConfigInit
<1> QED
    BY <1>2, <1>3, <1>4 DEF MoveInv

\* A process whose fields are named.
Proc(pc, cmd, file, mem, next, found) ==
    [pc |-> pc, cmd |-> cmd, file |-> file, mem |-> mem, next |-> next, found |-> found]

\* What the fields of a process are, also after one of them was changed.
LEMMA Fields ==
    ASSUME NEW a, NEW b, NEW c, NEW d, NEW e, NEW g, NEW v
    PROVE  /\ Proc(a, b, c, d, e, g).pc = a /\ Proc(a, b, c, d, e, g).cmd = b
           /\ Proc(a, b, c, d, e, g).file = c /\ Proc(a, b, c, d, e, g).mem = d
           /\ Proc(a, b, c, d, e, g).next = e /\ Proc(a, b, c, d, e, g).found = g
           /\ [Proc(a, b, c, d, e, g) EXCEPT !.pc = v] = Proc(v, b, c, d, e, g)
           /\ [Proc(a, b, c, d, e, g) EXCEPT !.file = v] = Proc(a, b, v, d, e, g)
           /\ [Proc(a, b, c, d, e, g) EXCEPT !.mem = v] = Proc(a, b, c, v, e, g)
           /\ [Proc(a, b, c, d, e, g) EXCEPT !.next = v] = Proc(a, b, c, d, v, g)
           /\ [Proc(a, b, c, d, e, g) EXCEPT !.found = v] = Proc(a, b, c, d, e, v)
<1>1. /\ Proc(a, b, c, d, e, g).pc = a /\ Proc(a, b, c, d, e, g).cmd = b
      /\ Proc(a, b, c, d, e, g).file = c /\ Proc(a, b, c, d, e, g).mem = d
      /\ Proc(a, b, c, d, e, g).next = e /\ Proc(a, b, c, d, e, g).found = g
    BY DEF Proc
<1>2. [Proc(a, b, c, d, e, g) EXCEPT !.pc = v] = Proc(v, b, c, d, e, g)
    BY DEF Proc
<1>3. [Proc(a, b, c, d, e, g) EXCEPT !.file = v] = Proc(a, b, v, d, e, g)
    BY DEF Proc
<1>4. [Proc(a, b, c, d, e, g) EXCEPT !.mem = v] = Proc(a, b, c, v, e, g)
    BY DEF Proc
<1>5. [Proc(a, b, c, d, e, g) EXCEPT !.next = v] = Proc(a, b, c, d, v, g)
    BY DEF Proc
<1>6. [Proc(a, b, c, d, e, g) EXCEPT !.found = v] = Proc(a, b, c, d, e, v)
    BY DEF Proc
<1> QED
    BY <1>1, <1>2, <1>3, <1>4, <1>5, <1>6

LEMMA CommandField ==
    ASSUME NEW a, NEW b, NEW c, NEW d, NEW e, NEW g, NEW v
    PROVE  [Proc(a, b, c, d, e, g) EXCEPT !.cmd = v] = Proc(a, v, c, d, e, g)
BY DEF Proc

\* A running process has such fields.
LEMMA HasFields ==
    ASSUME MoveInv, NEW p \in Procs, proc[p] # Idle
    PROVE  LET x == proc[p] IN x = Proc(x.pc, x.cmd, x.file, x.mem, x.next, x.found)
BY Zenon DEF MoveInv, Shaped, Proc

\* What has them, and writes as it may, is a running process.
LEMMA IsShaped ==
    ASSUME NEW a, NEW b, NEW c, NEW d, NEW e, NEW g,
           a \in {"truncate", "write"} => c \in Files \ {"legacy"} /\ (e = "remove" => c = "aconfig"),
           a = "manifest" => c = "cliconfig",
           a = "ensure" => c \in {"aconfig", "cliconfig"}
    PROVE  Shaped(Proc(a, b, c, d, e, g))
<1>1. LET x == Proc(a, b, c, d, e, g)
      IN  /\ x = [pc |-> x.pc, cmd |-> x.cmd, file |-> x.file, mem |-> x.mem,
                  next |-> x.next, found |-> x.found]
          /\ x.pc = a /\ x.file = c /\ x.next = e
    BY Fields, Zenon DEF Proc
<1> QED
    BY <1>1, Zenon DEF Shaped

\* A process that starts, is killed, fails, truncates a file or writes it.
LEMMA MoveFiles ==
    ASSUME MoveInv, NEW p \in Procs,
           Start(p) \/ Kill(p) \/ Fails(p) \/ Truncate(p) \/ Write(p)
    PROVE  MoveInv'
<1> DEFINE x == proc[p]
<1>d. /\ disk \in [Files -> {"absent", "cut", "full"}] /\ disk["legacy"] # "cut"
      /\ {"legacy", "aconfig", "cliconfig"} \subseteq Files
    BY DEF MoveInv, Files
<1>m. /\ moving /\ x # Idle => Careful(x, disk)
      /\ moving /\ disk["legacy"] = "absent" => disk["aconfig"] # "absent"
    BY Zenon DEF MoveInv, Careful
<1>h. x # Idle => Shaped(x)
    BY Zenon DEF MoveInv
<1>k. ASSUME moving, disk["aconfig"] # "absent"
      PROVE  \/ disk["aconfig"] = "full" /\ clients
             \/ x # Idle /\ Writes(x)
             \/ \E q \in Procs \ {p} : proc[q] # Idle /\ Writes(proc[q])
             \/ "aconfig" \in spoiled
    BY <1>k, Zenon DEF MoveInv
<1>1. CASE Start(p)
    <2>1. PICK c : proc' = [proc EXCEPT ![p] = Proc("migrate", c, "legacy", <<>>, "none", FALSE)]
        BY <1>1, Zenon DEF Start, Put, Proc
    <2>2. UNCHANGED <<disk, clients, moving, spoiled>> /\ proc[p] = Idle
        BY <1>1, Zenon DEF Start
    <2> DEFINE y == Proc("migrate", c, "legacy", <<>>, "none", FALSE)
    <2>3. Shaped(y)
        BY IsShaped
    <2>4. y.pc = "migrate"
        BY DEF Proc
    <2>5. Careful(y, disk)
        BY <2>4 DEF Careful
    <2> HIDE DEF y
    <2> QED
        BY <2>1, <2>2, <2>3, <2>5, MoveQuiet DEF y
<1>2. CASE Kill(p) \/ Fails(p)
    <2>1. proc' = [proc EXCEPT ![p] = Idle] /\ UNCHANGED <<disk, clients, moving>>
        BY <1>2, Zenon DEF Kill, Fails, Stopped, Put
    <2>2. spoiled' = IF proc[p].pc = "write" THEN spoiled \cup {proc[p].file} ELSE spoiled
        BY <1>2, Zenon DEF Kill, Fails, Stopped
    <2>3. Writes(proc[p]) => "aconfig" \in spoiled'
        BY <2>2 DEF Writes
    <2>4. \A f \in spoiled : f \in spoiled'
        BY <2>2
    <2> QED
        BY <2>1, <2>3, <2>4, MoveQuiet
<1>3. CASE Truncate(p)
    <2> DEFINE y == [x EXCEPT !.pc = "write"]
    <2>1. x.pc = "truncate" /\ disk' = [disk EXCEPT ![x.file] = "cut"]
        BY <1>3, Zenon DEF Truncate
    <2>2. proc' = [proc EXCEPT ![p] = y] /\ UNCHANGED <<clients, spoiled, moving>>
        BY <1>3, Zenon DEF Truncate, Goto, Put
    <2>3. x # Idle
        BY <2>1 DEF Idle
    <2>4. x.file \in Files \ {"legacy"} /\ (x.next = "remove" => x.file = "aconfig")
        BY <2>1, <2>3, <1>h, Zenon DEF Shaped
    <2>x. x = Proc(x.pc, x.cmd, x.file, x.mem, x.next, x.found)
        BY <2>3, HasFields
    <2>5. y = Proc("write", x.cmd, x.file, x.mem, x.next, x.found)
        BY <2>x, Fields
    <2>6. Shaped(y)
        BY <2>4, <2>5, IsShaped
    <2> HIDE DEF y
    <2>7. y.pc = "write" /\ y.file = x.file /\ y.found = x.found
        BY <2>5 DEF Proc
    <2>8. /\ disk' \in [Files -> {"absent", "cut", "full"}] /\ disk'["legacy"] = disk["legacy"]
          /\ disk'["aconfig"] = IF x.file = "aconfig" THEN "cut" ELSE disk["aconfig"]
        BY <2>1, <2>4, <1>d
    <2>9. moving /\ x.file = "aconfig" => x.found
        BY <2>1, <2>3, <1>m, Zenon DEF Careful
    <2>10. moving => Careful(y, disk')
        BY <2>7, <2>9 DEF Careful
    <2>11. ASSUME moving, disk'["aconfig"] # "absent"
           PROVE  \/ disk'["aconfig"] = "full" /\ clients'
                  \/ Writes(y)
                  \/ \E q \in Procs \ {p} : proc[q] # Idle /\ Writes(proc[q])
                  \/ "aconfig" \in spoiled'
        <3>1. CASE x.file = "aconfig"
            BY <2>7, <2>9, <2>11, <3>1 DEF Writes
        <3>2. CASE x.file # "aconfig"
            <4>1. ~ Writes(x) /\ disk'["aconfig"] = disk["aconfig"]
                BY <2>1, <2>8, <3>2 DEF Writes
            <4> QED
                BY <4>1, <2>2, <2>11, <1>k
        <3> QED
            BY <3>1, <3>2
    <2>12. disk["aconfig"] # "absent" => disk'["aconfig"] # "absent"
        BY <2>8
    <2>13. moving /\ disk'["legacy"] = "absent" => disk'["aconfig"] # "absent"
        BY <2>8, <1>m
    <2>14. moving' = moving /\ disk'["legacy"] # "cut" /\ y # Idle
        BY <2>2, <2>7, <2>8, <1>d DEF Idle
    <2> QED
        BY <2>2, <2>6, <2>8, <2>10, <2>11, <2>12, <2>13, <2>14, MoveStep, Zenon
<1>4. CASE Write(p)
    <2> DEFINE z == [x EXCEPT !.pc = x.next, !.file = "cliconfig"]
    <2>1. /\ x.pc = "write" /\ disk' = [disk EXCEPT ![x.file] = "full"]
          /\ clients' = IF x.file = "aconfig" THEN x.found ELSE clients
        BY <1>4, Zenon DEF Write
    <2>2. /\ UNCHANGED <<spoiled, moving>>
          /\ proc' = [proc EXCEPT ![p] = Idle] \/ proc' = [proc EXCEPT ![p] = z]
        BY <1>4, Zenon DEF Write, End, Goto, Put
    <2>3. x # Idle
        BY <2>1 DEF Idle
    <2>4. x.file \in Files \ {"legacy"} /\ (x.next = "remove" => x.file = "aconfig")
        BY <2>1, <2>3, <1>h, Zenon DEF Shaped
    <2>x. x = Proc(x.pc, x.cmd, x.file, x.mem, x.next, x.found)
        BY <2>3, HasFields
    <2>5. z = Proc(x.next, x.cmd, "cliconfig", x.mem, x.next, x.found)
        <3>1. [x EXCEPT !.pc = x.next] = Proc(x.next, x.cmd, x.file, x.mem, x.next, x.found)
            BY <2>x, Fields
        <3>2. [Proc(x.next, x.cmd, x.file, x.mem, x.next, x.found) EXCEPT !.file = "cliconfig"]
                = Proc(x.next, x.cmd, "cliconfig", x.mem, x.next, x.found)
            BY Fields
        <3> QED
            BY <3>1, <3>2, Zenon
    <2>6. Shaped(z)
        BY <2>4, <2>5, <1>d, IsShaped
    <2> HIDE DEF z
    <2>7. z.pc = x.next /\ z.file = "cliconfig"
        BY <2>5 DEF Proc
    <2>8. /\ disk' \in [Files -> {"absent", "cut", "full"}] /\ disk'["legacy"] = disk["legacy"]
          /\ disk'["aconfig"] = IF x.file = "aconfig" THEN "full" ELSE disk["aconfig"]
        BY <2>1, <2>4, <1>d
    <2>9. moving /\ x.file = "aconfig" => x.found
        BY <2>1, <2>3, <1>m, Zenon DEF Careful
    <2>10. Careful(z, disk')
        BY <2>4, <2>7, <2>8 DEF Careful
    <2>11. ASSUME moving, disk'["aconfig"] # "absent"
           PROVE  \/ disk'["aconfig"] = "full" /\ clients'
                  \/ \E q \in Procs \ {p} : proc[q] # Idle /\ Writes(proc[q])
                  \/ "aconfig" \in spoiled'
        <3>1. CASE x.file = "aconfig"
            <4>1. clients' = x.found /\ x.found
                BY <2>1, <2>9, <2>11, <3>1
            <4> QED
                BY <2>8, <3>1, <4>1
        <3>2. CASE x.file # "aconfig"
            <4>1. ~ Writes(x) /\ disk'["aconfig"] = disk["aconfig"] /\ clients' = clients
                BY <2>1, <2>8, <3>2 DEF Writes
            <4> QED
                BY <4>1, <2>2, <2>11, <1>k
        <3> QED
            BY <3>1, <3>2
    <2>12. disk["aconfig"] # "absent" => disk'["aconfig"] # "absent"
        BY <2>8
    <2>13. moving /\ disk'["legacy"] = "absent" => disk'["aconfig"] # "absent"
        BY <2>8, <1>m
    <2>14. moving' = moving /\ disk'["legacy"] # "cut"
        BY <2>2, <2>8, <1>d
    <2>15. CASE proc' = [proc EXCEPT ![p] = Idle]
        BY <2>15, <2>8, <2>11, <2>12, <2>13, <2>14, MoveStep, Zenon
    <2>16. CASE proc' = [proc EXCEPT ![p] = z]
        BY <2>16, <2>6, <2>8, <2>10, <2>11, <2>12, <2>13, <2>14, MoveStep, Zenon
    <2> QED
        BY <2>2, <2>15, <2>16
<1> QED
    BY <1>1, <1>2, <1>3, <1>4

\* A process that looks at the files, and goes on, writes one next, or ends.
LEMMA MovePlaces ==
    ASSUME MoveInv, NEW p \in Procs,
           \/ migrateLegacyAgentConfig(p) \/ LoadManifest(p)
           \/ EnsureSourceWithDefault(p) \/ ReadFails(p)
           \/ normalizeCLIAgentConfig(p) \/ updateCLIAgentData(p)
    PROVE  MoveInv'
<1> DEFINE x == proc[p]
<1>d. /\ disk \in [Files -> {"absent", "cut", "full"}] /\ disk["legacy"] # "cut"
      /\ {"legacy", "aconfig", "cliconfig", "manifest"} \subseteq Files
    BY DEF MoveInv, Files
<1>f. disk["legacy"] \in {"absent", "full"}
    BY <1>d
<1>m. /\ moving /\ x # Idle => Careful(x, disk)
      /\ moving /\ disk["legacy"] = "absent" => disk["aconfig"] # "absent"
    BY Zenon DEF MoveInv, Careful
<1>h. x # Idle => Shaped(x)
    BY Zenon DEF MoveInv
<1>i. x.pc \in {"migrate", "copy", "remove", "manifest", "ensure", "normalize", "update"}
    BY Zenon DEF migrateLegacyAgentConfig, LoadManifest,
        EnsureSourceWithDefault, ReadFails, normalizeCLIAgentConfig,
        updateCLIAgentData
<1>n. x # Idle /\ ~ Writes(x)
    BY <1>i DEF Idle, Writes
<1>x. x = Proc(x.pc, x.cmd, x.file, x.mem, x.next, x.found)
    BY <1>n, HasFields
<1>y. ASSUME NEW w, NEW f, NEW pc
      PROVE  /\ [x EXCEPT !.found = w] = Proc(x.pc, x.cmd, x.file, x.mem, x.next, w)
             /\ [x EXCEPT !.found = w, !.file = f, !.pc = pc] = Proc(pc, x.cmd, f, x.mem, x.next, w)
    <2>1. [x EXCEPT !.found = w] = Proc(x.pc, x.cmd, x.file, x.mem, x.next, w)
        BY <1>x, Fields
    <2>2. [Proc(x.pc, x.cmd, x.file, x.mem, x.next, w) EXCEPT !.file = f]
            = Proc(x.pc, x.cmd, f, x.mem, x.next, w)
        BY Fields
    <2>3. [Proc(x.pc, x.cmd, f, x.mem, x.next, w) EXCEPT !.pc = pc]
            = Proc(pc, x.cmd, f, x.mem, x.next, w)
        BY Fields
    <2> QED
        BY <2>1, <2>2, <2>3, Zenon
\* The process goes on to y, or ends.
<1>q. ASSUME NEW y, proc' = [proc EXCEPT ![p] = y], UNCHANGED <<disk, clients, spoiled, moving>>,
             Shaped(y), moving => Careful(y, disk)
      PROVE  MoveInv'
    BY <1>n, <1>q, MoveQuiet
<1>e. ASSUME NEW o, End(p, o), UNCHANGED <<disk, clients>> PROVE MoveInv'
    <2>1. proc' = [proc EXCEPT ![p] = Idle] /\ UNCHANGED <<spoiled, moving>>
        BY <1>e, Zenon DEF End, Put
    <2> QED
        BY <1>e, <1>n, <2>1, MoveQuiet
<1>g. ASSUME NEW pc \in {"copy", "remove", "ensure", "normalize"},
             Goto(p, [x EXCEPT !.pc = pc]), UNCHANGED <<disk, clients>>,
             pc = "remove" /\ moving => disk["aconfig"] # "absent",
             pc = "ensure" => x.file = "cliconfig"
      PROVE  MoveInv'
    <2> DEFINE y == [x EXCEPT !.pc = pc]
    <2>1. proc' = [proc EXCEPT ![p] = y] /\ UNCHANGED <<spoiled, moving>>
        BY <1>g, Zenon DEF Goto, Put
    <2>2. y = Proc(pc, x.cmd, x.file, x.mem, x.next, x.found)
        BY <1>x, Fields
    <2>3. Shaped(y)
        BY <2>2, <1>g, IsShaped
    <2> HIDE DEF y
    <2>4. y.pc = pc /\ y.file = x.file
        BY <2>2 DEF Proc
    <2>5. moving => Careful(y, disk)
        BY <2>4, <1>g DEF Careful
    <2> QED
        BY <2>1, <2>3, <2>5, <1>g, <1>q, Zenon
\* The process writes f next, and goes on to n.
<1>w. ASSUME NEW z, NEW f \in {"manifest", "cliconfig", "aconfig"},
             NEW n \in {"remove", "ensure", "normalize", "update", "end"},
             Goto(p, WriteFile(z, f, n)), UNCHANGED <<disk, clients>>,
             z = Proc(z.pc, z.cmd, z.file, z.mem, z.next, z.found),
             n = "remove" => f = "aconfig",
             f = "aconfig" /\ moving => z.found
      PROVE  MoveInv'
    <2> DEFINE y == WriteFile(z, f, n)
    <2>1. proc' = [proc EXCEPT ![p] = y] /\ UNCHANGED <<spoiled, moving>>
        BY <1>w, Zenon DEF Goto, Put
    <2>2. y = Proc("truncate", z.cmd, f, z.mem, n, z.found)
        <3>1. [z EXCEPT !.pc = "truncate"] = Proc("truncate", z.cmd, z.file, z.mem, z.next, z.found)
            BY <1>w, Fields
        <3>2. [Proc("truncate", z.cmd, z.file, z.mem, z.next, z.found) EXCEPT !.file = f]
                = Proc("truncate", z.cmd, f, z.mem, z.next, z.found)
            BY Fields
        <3>3. [Proc("truncate", z.cmd, f, z.mem, z.next, z.found) EXCEPT !.next = n]
                = Proc("truncate", z.cmd, f, z.mem, n, z.found)
            BY Fields
        <3> QED
            BY <3>1, <3>2, <3>3, Zenon DEF WriteFile
    <2>3. f \in Files \ {"legacy"}
        BY DEF Files
    <2>4. Shaped(y)
        BY <2>2, <2>3, <1>w, IsShaped
    <2> HIDE DEF y
    <2>5. y.pc = "truncate" /\ y.file = f /\ y.found = z.found
        BY <2>2 DEF Proc
    <2>6. moving => Careful(y, disk)
        BY <2>5, <1>w DEF Careful
    <2> QED
        BY <2>1, <2>4, <2>6, <1>w, <1>q, Zenon
<1>1. CASE migrateLegacyAgentConfig(p)
    <2>1. CASE x.pc = "migrate"
        <3>1. UNCHANGED <<disk, clients>>
            BY <1>1, <2>1, Zenon DEF migrateLegacyAgentConfig
        <3>2. \/ Goto(p, [x EXCEPT !.pc = "copy"])
              \/ /\ Goto(p, [x EXCEPT !.pc = "remove"])
                 /\ ~ (disk["legacy"] = "full" /\ disk["aconfig"] = "absent")
            BY <1>1, <2>1, Zenon DEF migrateLegacyAgentConfig
        <3>3. CASE Goto(p, [x EXCEPT !.pc = "copy"])
            BY <3>1, <3>3, <1>g
        <3>4. CASE /\ Goto(p, [x EXCEPT !.pc = "remove"])
                   /\ ~ (disk["legacy"] = "full" /\ disk["aconfig"] = "absent")
            BY <3>1, <3>4, <1>f, <1>m, <1>g
        <3> QED
            BY <3>2, <3>3, <3>4
    <2>2. CASE x.pc = "copy"
        <3> DEFINE z == [x EXCEPT !.found = TRUE]
        <3>1. UNCHANGED <<disk, clients>>
            BY <1>1, <2>2, Zenon DEF migrateLegacyAgentConfig
        <3>2. \/ End(p, Failed)
              \/ Goto(p, WriteFile(z, "aconfig", "remove"))
            BY <1>1, <2>2, Zenon DEF migrateLegacyAgentConfig
        <3>3. z = Proc(x.pc, x.cmd, x.file, x.mem, x.next, TRUE)
            BY <1>y, Zenon
        <3> HIDE DEF z
        <3>4. z = Proc(z.pc, z.cmd, z.file, z.mem, z.next, z.found) /\ z.found
            BY <3>3 DEF Proc
        <3> QED
            BY <3>1, <3>2, <3>4, <1>e, <1>w
    <2>3. CASE x.pc = "remove"
        <3> DEFINE pc == IF IsAgent(x) THEN "ensure" ELSE "manifest"
                   f == IF IsAgent(x) THEN "aconfig" ELSE "cliconfig"
                   y == [x EXCEPT !.found = FALSE, !.file = f, !.pc = pc]
        <3>1. disk' = [disk EXCEPT !["legacy"] = "absent"] /\ clients' = clients
            BY <1>1, <2>3, Zenon DEF migrateLegacyAgentConfig
        <3>2. proc' = [proc EXCEPT ![p] = y] /\ UNCHANGED <<spoiled, moving>>
            BY <1>1, <2>3, Zenon DEF migrateLegacyAgentConfig, Goto, Put
        <3>3. y = Proc(pc, x.cmd, f, x.mem, x.next, FALSE)
            BY <1>y, Zenon
        <3>4. (pc = "ensure" /\ f = "aconfig") \/ (pc = "manifest" /\ f = "cliconfig")
            OBVIOUS
        <3> HIDE DEF y, f, pc
        <3>5. Shaped(y)
            BY <3>3, <3>4, IsShaped
        <3>6. y.pc = pc /\ y.file = f
            BY <3>3 DEF Proc
        <3>7. moving => disk["aconfig"] # "absent"
            BY <2>3, <1>m, <1>n, Zenon DEF Careful
        <3>8. /\ disk' \in [Files -> {"absent", "cut", "full"}]
              /\ disk'["legacy"] = "absent" /\ disk'["aconfig"] = disk["aconfig"]
            BY <3>1, <1>d
        <3>9. moving => Careful(y, disk')
            BY <3>4, <3>6, <3>7, <3>8 DEF Careful
        <3>10. ASSUME moving
               PROVE  \/ disk'["aconfig"] = "full" /\ clients'
                      \/ \E q \in Procs \ {p} : proc[q] # Idle /\ Writes(proc[q])
                      \/ "aconfig" \in spoiled'
            <4>1. \/ disk["aconfig"] = "full" /\ clients
                  \/ \E q \in Procs : proc[q] # Idle /\ Writes(proc[q])
                  \/ "aconfig" \in spoiled
                BY <3>7, <3>10, Zenon DEF MoveInv
            <4>2. spoiled' = spoiled
                BY <3>2
            <4> QED
                BY <3>1, <3>8, <4>1, <4>2, <1>n, Zenon
        <3>11. moving' = moving /\ disk'["legacy"] # "cut"
            BY <3>2, <3>8
        <3> QED
            BY <3>2, <3>5, <3>7, <3>8, <3>9, <3>10, <3>11, MoveStep, Zenon
    <2> QED
        BY <1>1, <2>1, <2>2, <2>3, Zenon DEF migrateLegacyAgentConfig
<1>2. CASE LoadManifest(p)
    <2>1. x.pc = "manifest" /\ UNCHANGED <<disk, clients>>
        BY <1>2, Zenon DEF LoadManifest
    <2>2. \/ Goto(p, WriteFile(x, "manifest", "ensure"))
          \/ End(p, Failed)
          \/ Goto(p, [x EXCEPT !.pc = "ensure"])
        BY <1>2, <1>d DEF LoadManifest
    <2>3. x.file = "cliconfig"
        BY <2>1, <1>h, <1>n, Zenon DEF Shaped
    <2> QED
        BY <2>1, <2>2, <2>3, <1>x, <1>e, <1>w, <1>g
<1>3. CASE EnsureSourceWithDefault(p)
    <2>1. x.pc = "ensure" /\ UNCHANGED <<disk, clients>>
        BY <1>3, Zenon DEF EnsureSourceWithDefault
    <2>2. x.file \in {"aconfig", "cliconfig"} /\ (moving /\ x.file = "aconfig" => disk["aconfig"] # "absent")
        BY <2>1, <1>h, <1>m, <1>n, Zenon DEF Shaped, Careful
    <2>3. \/ /\ disk[x.file] = "absent"
             /\ \E n \in {"end", "normalize"} : Goto(p, WriteFile(x, x.file, n))
          \/ End(p, Nothing)
          \/ Goto(p, [x EXCEPT !.pc = "normalize"])
        BY <1>3 DEF EnsureSourceWithDefault
    <2>4. CASE /\ disk[x.file] = "absent"
               /\ \E n \in {"end", "normalize"} : Goto(p, WriteFile(x, x.file, n))
        <3>1. ~ (moving /\ x.file = "aconfig")
            BY <2>2, <2>4
        <3> QED
            BY <2>1, <2>2, <2>4, <3>1, <1>x, <1>w
    <2> QED
        BY <2>1, <2>3, <2>4, <1>e, <1>g
<1>4. CASE ReadFails(p)
    BY <1>4, <1>e DEF ReadFails
<1>5. CASE normalizeCLIAgentConfig(p)
    <2> DEFINE z == [x EXCEPT !.mem = sanitizeCLIAgentData(agents)]
    <2>1. /\ UNCHANGED <<disk, clients>>
          /\ Goto(p, WriteFile(z, "cliconfig", "update"))
        BY <1>5, Zenon DEF normalizeCLIAgentConfig
    <2>2. z = Proc(z.pc, z.cmd, z.file, z.mem, z.next, z.found)
        <3>1. z = Proc(x.pc, x.cmd, x.file, sanitizeCLIAgentData(agents), x.next, x.found)
            BY <1>x, Fields
        <3> HIDE DEF z
        <3> QED
            BY <3>1 DEF Proc
    <2> HIDE DEF z
    <2> QED
        BY <2>1, <2>2, <1>w
<1>6. CASE updateCLIAgentData(p)
    <2>1. UNCHANGED <<disk, clients>>
        BY <1>6, Zenon DEF updateCLIAgentData
    <2>2. PICK c \in Commands :
             LET r == Apply(c, sanitizeCLIAgentData(agents)) IN
             \/ Goto(p, WriteFile([x EXCEPT !.cmd = c, !.mem = sanitizeCLIAgentData(r.list)],
                                  "cliconfig", "end"))
             \/ End(p, Answered(c, r.ok))
        BY <1>6, Zenon DEF updateCLIAgentData
    <2> DEFINE m == sanitizeCLIAgentData(Apply(c, sanitizeCLIAgentData(agents)).list)
               z == [x EXCEPT !.cmd = c, !.mem = m]
    <2>3. z = Proc(z.pc, z.cmd, z.file, z.mem, z.next, z.found)
        <3> HIDE DEF m
        <3>1. [x EXCEPT !.cmd = c] = Proc(x.pc, c, x.file, x.mem, x.next, x.found)
            BY <1>x, CommandField
        <3>2. [Proc(x.pc, c, x.file, x.mem, x.next, x.found) EXCEPT !.mem = m]
                = Proc(x.pc, c, x.file, m, x.next, x.found)
            BY Fields
        <3>3. z = Proc(x.pc, c, x.file, m, x.next, x.found)
            BY <3>1, <3>2, Zenon
        <3> HIDE DEF z
        <3> QED
            BY <3>3 DEF Proc
    <2>4. \/ Goto(p, WriteFile(z, "cliconfig", "end"))
          \/ \E o : End(p, o)
        BY <2>2, Zenon
    <2> HIDE DEF z, m
    <2> QED
        BY <2>1, <2>3, <2>4, <1>w, <1>e
<1> QED
    BY <1>1, <1>2, <1>3, <1>4, <1>5, <1>6

\* Every step of a process keeps what the migration relies on.
LEMMA MoveNext == MoveInv /\ [ConfigNext]_configVars => MoveInv'
<1> SUFFICES ASSUME MoveInv, [ConfigNext]_configVars PROVE MoveInv'
    OBVIOUS
<1>1. CASE UNCHANGED configVars
    BY <1>1, Zenon DEF configVars, MoveInv
<1>2. CASE ConfigNext
    BY <1>2, MoveFiles, MovePlaces, Zenon DEF ConfigNext
<1> QED
    BY <1>1, <1>2

\* The clients of an earlier version are in a file, or in the hands of a
\* process about to write them, unless one was killed in that write or the
\* write failed, for any number of processes that start, overlap, fail at
\* any step and are killed.
THEOREM ClientsKept == ConfigSpec => []MigrationKeepsClients
<1>1. MoveInv => MigrationKeepsClients
    <2> SUFFICES ASSUME MoveInv, moving, disk["legacy"] # "full"
                 PROVE  \/ disk["aconfig"] = "full" /\ clients
                        \/ \E p \in Procs : proc[p] # Idle /\ proc[p].found
                        \/ "aconfig" \in spoiled
        BY DEF MigrationKeepsClients
    <2>1. disk["legacy"] = "absent"
        BY DEF MoveInv, Files
    <2> QED
        BY <2>1, Zenon DEF MoveInv, Writes
<1> QED
    BY <1>1, MoveInit, MoveNext, PTL DEF ConfigSpec

(***************************************************************************)
(* The shutdown of the agent, which is the same program on every host.     *)
(* That it terminates is left to TLC.                                      *)
(***************************************************************************)
\* The stopping goroutine passes GracefulStop only when no handler runs, no
\* call begins afterwards, and main returns only after that goroutine left.
IdleInv ==
    /\ ShutdownTypeOK
    /\ stopper \in Ending => active = {}
    /\ main = "returned" => stopper = "left"

\* The initial state of main satisfies the inductive invariant.
LEMMA IdleInit == ShutdownInit => IdleInv
<1> SUFFICES ASSUME ShutdownInit PROVE IdleInv
    OBVIOUS
<1>1. signals \in 0..MaxSignals
    BY MaxSignalsAssumption DEF ShutdownInit
<1> QED
    BY <1>1, Zenon DEF ShutdownInit, IdleInv, ShutdownTypeOK, Ending

\* Every step of a goroutine, a call or a signal preserves it.
LEMMA IdleNext == IdleInv /\ [ShutdownNext]_shutdownVars => IdleInv'
<1> SUFFICES ASSUME IdleInv, [ShutdownNext]_shutdownVars PROVE IdleInv'
    OBVIOUS
<1> USE DEF IdleInv, ShutdownTypeOK, Ending
<1>1. ASSUME NEW c \in Calls, CallBegins(c) PROVE IdleInv'
    BY <1>1 DEF CallBegins, goroutines
<1>2. ASSUME NEW c \in Calls, CallEnds(c) PROVE IdleInv'
    BY <1>2 DEF CallEnds, goroutines
<1>3. CASE AcceptFails
    BY <1>3 DEF AcceptFails
<1>4. CASE Serve
    BY <1>4 DEF Serve
<1>5. CASE GracefulStop
    BY <1>5 DEF GracefulStop, Ended
<1>6. CASE WatchSignals
    BY <1>6 DEF WatchSignals
<1>7. CASE SignalArrives
    <2>1. signals' \in 0..MaxSignals
        BY <1>7, MaxSignalsAssumption DEF SignalArrives
    <2>2. UNCHANGED <<server, stopper, watcher, done, active, made>>
        BY <1>7 DEF SignalArrives
    <2>3. buffered' \in BOOLEAN
        BY <1>7, Zenon DEF SignalArrives
    <2>4. main' \in {main, "killed", "panicked"}
        BY <1>7, Zenon DEF SignalArrives
    <2> QED
        BY <2>1, <2>2, <2>3, <2>4
<1>8. CASE CloseDone
    BY <1>8 DEF CloseDone
<1>9. CASE MainReturns
    BY <1>9 DEF MainReturns, WaitGroup
<1>10. CASE UNCHANGED shutdownVars
    BY <1>10 DEF shutdownVars
<1> QED
    BY <1>1, <1>2, <1>3, <1>4, <1>5, <1>6, <1>7, <1>8, <1>9, <1>10 DEF ShutdownNext

\* Every variable of the shutdown keeps its type, and `done` is closed before
\* the server is stopped, for any number of calls and signals.
THEOREM ShutdownTypeCorrect == ShutdownSpec => []ShutdownTypeOK
<1>1. IdleInv => ShutdownTypeOK
    BY DEF IdleInv
<1> QED
    BY <1>1, IdleInit, IdleNext, PTL DEF ShutdownSpec

\* main never returns while the handler of a call runs.
THEOREM ReturnsWhenIdleHolds == ShutdownSpec => []ReturnsWhenIdle
<1>1. IdleInv => ReturnsWhenIdle
    BY DEF IdleInv, ReturnsWhenIdle, Ending
<1> QED
    BY <1>1, IdleInit, IdleNext, PTL DEF ShutdownSpec

=============================================================================
