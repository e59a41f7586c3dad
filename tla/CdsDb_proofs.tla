---------------------------- MODULE CdsDb_proofs ----------------------------
(* Proofs about CdsDb, for any sets of names, processes and operations. *)
EXTENDS CdsDb, TLAPS

(* The empty database is well formed. *)
LEMMA EmptyDataOK == EmptyData \in Data /\ WellFormed(EmptyData)
  BY DEF EmptyData, Data, NoContainers, WellFormed, RowsOnly, AtMostOneDefault

(* The columns of the hosts after normalizeHosts. *)
LEMMA NormalizeHostsFields ==
  ASSUME NEW d \in Data
  PROVE  /\ normalizeHosts(d) \in Data
         /\ normalizeHosts(d).projects = d.projects
         /\ normalizeHosts(d).host = d.host
         /\ normalizeHosts(d).context = d.context
         /\ normalizeHosts(d).isDefault = d.isDefault
         /\ normalizeHosts(d).hosts = d.hosts \cup {h \in HostNames : mappedTo(d, h) # {}}
         /\ \A h \in HostNames :
              normalizeHosts(d).hostProjects[h] = normalizeHostProjects(d, h)
         /\ normalizeHosts(d).inUse = {h \in HostNames : normalizeHostProjects(d, h) # {}}
<1>1. \A h \in HostNames : normalizeHostProjects(d, h) \in SUBSET ProjectNames
  BY DEF normalizeHostProjects, mappedTo, Data
<1>2. QED  BY <1>1 DEF normalizeHosts, Data

(* The context after normalizeContext; nothing else changes. *)
LEMMA NormalizeContextFields ==
  ASSUME NEW d \in Data
  PROVE  /\ normalizeContext(d) \in Data
         /\ normalizeContext(d).projects = d.projects
         /\ normalizeContext(d).host = d.host
         /\ normalizeContext(d).isDefault = d.isDefault
         /\ normalizeContext(d).hosts = d.hosts
         /\ normalizeContext(d).hostProjects = d.hostProjects
         /\ normalizeContext(d).inUse = d.inUse
         /\ \/ normalizeContext(d).context = None
            \/ \E p \in d.projects : normalizeContext(d).context = Exact(p)
<1> DEFINE ctx == IF d.context # None /\ normalizeProjectName(d.context) \in d.projects
                  THEN Exact(normalizeProjectName(d.context)) ELSE None
<1>1. \/ ctx = None
      \/ \E p \in d.projects : ctx = Exact(p)
  BY DEF Data
<1>2. \A p \in ProjectNames : Exact(p) \in Spellings
  BY DEF Exact, Spellings
<1>3. d.projects \subseteq ProjectNames
  BY DEF Data
<1>4. ctx \in Spellings \cup {None}
  BY <1>1, <1>2, <1>3
<1>5. normalizeContext(d) = [d EXCEPT !.context = ctx]
  BY DEF normalizeContext
<1> HIDE DEF ctx
<1>6. QED  BY <1>1, <1>4, <1>5 DEF Data

(* normalize keeps the types and the shape of any database. *)
LEMMA NormalizeOK ==
  ASSUME NEW d \in Data, WellFormed(d)
  PROVE  normalize(d) \in Data /\ WellFormed(normalize(d))
<1> DEFINE e == normalizeHosts(d)
<1>1. e \in Data  BY NormalizeHostsFields
<1>2. RowsOnly(e)
  BY NormalizeHostsFields DEF WellFormed, RowsOnly, normalizeHostProjects, mappedTo
<1>3. AtMostOneDefault(e)
  BY NormalizeHostsFields DEF WellFormed, AtMostOneDefault
<1>4. QED
  BY <1>1, <1>2, <1>3, NormalizeContextFields
  DEF normalize, WellFormed, RowsOnly, AtMostOneDefault

(* normalize mends every reference. *)
LEMMA NormalizeIntegrity ==
  ASSUME NEW d \in Data, WellFormed(d)
  PROVE  Integrity(normalize(d))
<1> DEFINE e == normalizeHosts(d)
           n == normalizeContext(e)
<1>0. e \in Data  BY NormalizeHostsFields
<1> HIDE DEF e
<1>1. ContextExists(n)
  BY <1>0, NormalizeContextFields DEF ContextExists
<1>2. MappedIsListed(e)
  BY NormalizeHostsFields
  DEF e, MappedIsListed, normalizeHostProjects, mappedTo, Data
<1>3. ListedIsMapped(e)
  BY NormalizeHostsFields
  DEF e, ListedIsMapped, normalizeHostProjects, mappedTo, WellFormed, RowsOnly
<1>4. InUseAgrees(e)
  BY NormalizeHostsFields DEF e, InUseAgrees
<1>5. MappedIsListed(n) /\ ListedIsMapped(n) /\ InUseAgrees(n)
  BY <1>0, <1>2, <1>3, <1>4, NormalizeContextFields
  DEF MappedIsListed, ListedIsMapped, InUseAgrees
<1>6. QED  BY <1>1, <1>5 DEF Integrity, normalize, e

(* An intact database is a fixed point of normalize. *)
LEMMA NormalizeFixpoint ==
  ASSUME NEW d \in Data, Integrity(d)
  PROVE  normalize(d) = d
<1> USE DEF Integrity
<1>1. \A h \in HostNames : normalizeHostProjects(d, h) = d.hostProjects[h]
  <2> SUFFICES ASSUME NEW h \in HostNames
               PROVE  normalizeHostProjects(d, h) = d.hostProjects[h]
    OBVIOUS
  <2>1. d.hostProjects[h] \subseteq d.projects
    BY DEF ListedIsMapped
  <2>2. \A p \in d.hostProjects[h] : d.host[p] \in {None, h}
    BY DEF ListedIsMapped
  <2>3. \A p \in d.projects : d.host[p] = h => p \in d.hostProjects[h]
    BY NoneAssumption DEF MappedIsListed
  <2>4. QED  BY <2>1, <2>2, <2>3 DEF normalizeHostProjects, mappedTo
<1>2. d.hosts \cup {h \in HostNames : mappedTo(d, h) # {}} = d.hosts
  BY NoneAssumption DEF MappedIsListed, mappedTo
<1>3. {h \in HostNames : d.hostProjects[h] # {}} = d.inUse
  BY DEF InUseAgrees, Data
<1>4. [h \in HostNames |-> normalizeHostProjects(d, h)] = d.hostProjects
  BY <1>1 DEF Data
<1>5. normalizeHosts(d) = d
  <2>1. normalizeHosts(d) = [d EXCEPT !.hosts = d.hosts,
                                      !.hostProjects = d.hostProjects,
                                      !.inUse = d.inUse]
    BY <1>2, <1>3, <1>4 DEF normalizeHosts
  <2>2. QED  BY <2>1 DEF Data
<1>6. normalizeContext(d) = d
  <2>1. CASE d.context = None
    BY <2>1 DEF normalizeContext, Data
  <2>2. CASE d.context # None
    <3>1. PICK p \in d.projects : d.context = Exact(p)
      BY <2>2 DEF ContextExists
    <3>2. normalizeProjectName(d.context) = p
      BY <3>1 DEF Exact, normalizeProjectName
    <3>3. normalizeContext(d) = [d EXCEPT !.context = d.context]
      BY <2>2, <3>1, <3>2 DEF normalizeContext
    <3>4. QED  BY <3>3 DEF Data
  <2>3. QED  BY <2>1, <2>2
<1>7. QED  BY <1>5, <1>6 DEF normalize

-----------------------------------------------------------------------------
(* Every operation on projects keeps a database well formed. *)
LEMMA ProjectOpsOK ==
  ASSUME NEW d \in Data, WellFormed(d), NEW p \in ProjectNames
  PROVE  /\ \A s \in Spellings : normalizeProjectName(s) = p =>
              /\ AddProject(d, s) \in Data /\ WellFormed(AddProject(d, s))
              /\ DeleteProject(d, s) \in Data /\ WellFormed(DeleteProject(d, s))
         /\ RemoveHostAndContainersFromProject(d, p) \in Data
         /\ WellFormed(RemoveHostAndContainersFromProject(d, p))
         /\ \A c \in ContainerNames, i \in ContainerInfos :
              /\ AddContainerInfo(d, p, c, i) \in Data
              /\ WellFormed(AddContainerInfo(d, p, c, i))
              /\ UpsertProjectContainer(d, p, c, i) \in Data
              /\ WellFormed(UpsertProjectContainer(d, p, c, i))
         /\ \A C \in SUBSET ContainerNames :
              /\ RemoveProjectContainers(d, p, C) \in Data
              /\ WellFormed(RemoveProjectContainers(d, p, C))
         /\ \A h \in HostNames \cup {None} :
              SetProjectHost(d, p, h) \in Data /\ WellFormed(SetProjectHost(d, p, h))
         /\ \A o \in Settings :
              SetProjectSetting(d, p, o) \in Data /\ WellFormed(SetProjectSetting(d, p, o))
<1> USE DEF WellFormed, RowsOnly, AtMostOneDefault
<1>1. ASSUME NEW s \in Spellings, normalizeProjectName(s) = p
      PROVE  /\ AddProject(d, s) \in Data /\ WellFormed(AddProject(d, s))
             /\ DeleteProject(d, s) \in Data /\ WellFormed(DeleteProject(d, s))
  BY <1>1 DEF AddProject, DeleteProject, RemoveProjectRow, Data, NoContainers
<1>2. /\ RemoveHostAndContainersFromProject(d, p) \in Data
      /\ WellFormed(RemoveHostAndContainersFromProject(d, p))
  BY DEF RemoveHostAndContainersFromProject, Data, NoContainers
<1>3. ASSUME NEW c \in ContainerNames, NEW i \in ContainerInfos
      PROVE  /\ AddContainerInfo(d, p, c, i) \in Data
             /\ WellFormed(AddContainerInfo(d, p, c, i))
             /\ UpsertProjectContainer(d, p, c, i) \in Data
             /\ WellFormed(UpsertProjectContainer(d, p, c, i))
  BY DEF AddContainerInfo, UpsertProjectContainer, Data
<1>4. ASSUME NEW C \in SUBSET ContainerNames
      PROVE  /\ RemoveProjectContainers(d, p, C) \in Data
             /\ WellFormed(RemoveProjectContainers(d, p, C))
  <2> DEFINE kept == [c \in ContainerNames |->
                         IF c \in C THEN None ELSE d.containers[p][c]]
  <2>1. kept \in [ContainerNames -> ContainerInfos \cup {None}]
    BY DEF Data
  <2>2. RemoveProjectContainers(d, p, C) = [d EXCEPT !.containers[p] = kept]
    BY DEF RemoveProjectContainers
  <2> HIDE DEF kept
  <2>3. [d EXCEPT !.containers[p] = kept] \in Data
    BY <2>1 DEF Data
  <2>4. WellFormed([d EXCEPT !.containers[p] = kept])
    BY DEF Data
  <2>5. QED  BY <2>2, <2>3, <2>4
<1>5. ASSUME NEW h \in HostNames \cup {None}
      PROVE  SetProjectHost(d, p, h) \in Data /\ WellFormed(SetProjectHost(d, p, h))
  BY DEF SetProjectHost, Data
<1>6. ASSUME NEW o \in Settings
      PROVE  SetProjectSetting(d, p, o) \in Data /\ WellFormed(SetProjectSetting(d, p, o))
  BY DEF SetProjectSetting, Data
<1>7. QED  BY <1>1, <1>2, <1>3, <1>4, <1>5, <1>6

(* Every operation on hosts keeps a database well formed. *)
LEMMA HostOpsOK ==
  ASSUME NEW d \in Data, WellFormed(d), NEW h \in HostNames
  PROVE  /\ AddHost(d, h) \in Data /\ WellFormed(AddHost(d, h))
         /\ RemoveHostFromHostList(d, h) \in Data
         /\ WellFormed(RemoveHostFromHostList(d, h))
         /\ SetHostToDefault(d, h) \in Data /\ WellFormed(SetHostToDefault(d, h))
         /\ h \in d.hosts =>
              /\ \A s \in Spellings :
                   /\ RemoveProjectFromHost(d, h, s) \in Data
                   /\ WellFormed(RemoveProjectFromHost(d, h, s))
                   /\ RegisterProjectInHost(d, h, s) \in Data
                   /\ WellFormed(RegisterProjectInHost(d, h, s))
         /\ \A a \in HostAttrs :
              SetHostAttr(d, h, a) \in Data /\ WellFormed(SetHostAttr(d, h, a))
         /\ \A a : /\ ClearHostAgentOwnership(d, h, a) \in Data
                   /\ WellFormed(ClearHostAgentOwnership(d, h, a))
<1> USE DEF WellFormed, RowsOnly, AtMostOneDefault
<1>1. AddHost(d, h) \in Data /\ WellFormed(AddHost(d, h))
  BY DEF AddHost, Data
<1>2. RemoveHostFromHostList(d, h) \in Data /\ WellFormed(RemoveHostFromHostList(d, h))
  BY DEF RemoveHostFromHostList, Data
<1>3. SetHostToDefault(d, h) \in Data /\ WellFormed(SetHostToDefault(d, h))
  BY DEF SetHostToDefault, Data
<1>4. ASSUME h \in d.hosts, NEW s \in Spellings
      PROVE  /\ RemoveProjectFromHost(d, h, s) \in Data
             /\ WellFormed(RemoveProjectFromHost(d, h, s))
             /\ RegisterProjectInHost(d, h, s) \in Data
             /\ WellFormed(RegisterProjectInHost(d, h, s))
  <2>1. normalizeProjectName(s) \in ProjectNames
    BY DEF Spellings, normalizeProjectName
  <2>2. QED
    BY <1>4, <2>1 DEF RemoveProjectFromHost, RegisterProjectInHost, Data
<1>5. ASSUME NEW a \in HostAttrs
      PROVE  SetHostAttr(d, h, a) \in Data /\ WellFormed(SetHostAttr(d, h, a))
  BY DEF SetHostAttr, Data
<1>6. ASSUME NEW a
      PROVE  /\ ClearHostAgentOwnership(d, h, a) \in Data
             /\ WellFormed(ClearHostAgentOwnership(d, h, a))
  BY DEF ClearHostAgentOwnership, Data
<1>7. QED  BY <1>1, <1>2, <1>3, <1>4, <1>5, <1>6

(* Unmapping any set of projects keeps a database well formed, and so does *)
(* dropping a host row with its mappings.                                  *)
LEMMA UnmapOK ==
  ASSUME NEW d \in Data, WellFormed(d), NEW U
  PROVE  LET e == [d EXCEPT !.host = [p \in ProjectNames |->
                      IF p \in U THEN None ELSE @[p]]]
         IN  e \in Data /\ WellFormed(e)
  BY DEF Data, WellFormed, RowsOnly, AtMostOneDefault

(* RemoveHostFromConfig unmaps projects and removes rows: shape is kept. *)
LEMMA RemoveHostFromConfigOK ==
  ASSUME NEW d \in Data, WellFormed(d), NEW h \in HostNames
  PROVE  RemoveHostFromConfig(d, h) \in Data /\ WellFormed(RemoveHostFromConfig(d, h))
<1> DEFINE e == [d EXCEPT !.host = [p \in ProjectNames |->
                    IF p \in d.hostProjects[h] THEN None ELSE @[p]]]
<1>1. e \in Data /\ WellFormed(e)
  BY UnmapOK
<1>2. RemoveHostFromConfig(d, h) = RemoveHostFromHostList(e, h)
  BY DEF RemoveHostFromConfig
<1> HIDE DEF e
<1>3. QED  BY <1>1, <1>2, HostOpsOK

(* Selecting a project or none. *)
LEMMA ContextOpsOK ==
  ASSUME NEW d \in Data, WellFormed(d)
  PROVE  /\ \A s \in Spellings : SetProject(d, s) \in Data /\ WellFormed(SetProject(d, s))
         /\ FlushContext(d) \in Data /\ WellFormed(FlushContext(d))
  BY DEF SetProject, FlushContext, Data, WellFormed, RowsOnly, AtMostOneDefault

-----------------------------------------------------------------------------
(* An operation that leaves a well formed copy behind keeps the invariant. *)
LEMMA UpdateOK ==
  ASSUME IInv, NEW x \in Procs, NEW d \in Data, WellFormed(d), Update(x, d)
  PROVE  IInv'
  BY MaxOpsAssumption DEF IInv, TypeOK, Update

(* So does every operation a command can make. *)
LEMMA CommandOK ==
  ASSUME IInv, NEW x \in Procs, Command(x)
  PROVE  IInv'
<1>0. mem[x] \in Data /\ WellFormed(mem[x])
  BY DEF IInv, TypeOK
<1>1. \A s \in Spellings : normalizeProjectName(s) \in ProjectNames
  BY DEF Spellings, normalizeProjectName
<1>2. mem[x].projects \subseteq ProjectNames /\ mem[x].hosts \subseteq HostNames
  BY <1>0 DEF Data
<1>3. CASE DoAddProject(x)
  BY <1>0, <1>1, <1>3, ProjectOpsOK, UpdateOK DEF DoAddProject
<1>4. CASE DoDeleteProject(x)
  BY <1>0, <1>1, <1>4, ProjectOpsOK, UpdateOK DEF DoDeleteProject
<1>5. CASE DoRemoveHostAndContainers(x)
  BY <1>0, <1>2, <1>5, ProjectOpsOK, UpdateOK DEF DoRemoveHostAndContainers
<1>6. CASE DoAddContainerInfo(x)
  BY <1>0, <1>2, <1>6, ProjectOpsOK, UpdateOK DEF DoAddContainerInfo
<1>7. CASE DoUpsertProjectContainer(x)
  BY <1>0, <1>2, <1>7, ProjectOpsOK, UpdateOK DEF DoUpsertProjectContainer
<1>8. CASE DoRemoveProjectContainers(x)
  BY <1>0, <1>2, <1>8, ProjectOpsOK, UpdateOK DEF DoRemoveProjectContainers
<1>9. CASE DoSetProjectHost(x)
  BY <1>0, <1>2, <1>9, ProjectOpsOK, UpdateOK DEF DoSetProjectHost
<1>10. CASE DoSetProjectSetting(x)
  BY <1>0, <1>2, <1>10, ProjectOpsOK, UpdateOK DEF DoSetProjectSetting
<1>11. CASE DoAddHost(x)
  BY <1>0, <1>11, HostOpsOK, UpdateOK DEF DoAddHost
<1>12. CASE DoRemoveHostFromHostList(x)
  BY <1>0, <1>12, HostOpsOK, UpdateOK DEF DoRemoveHostFromHostList
<1>13. CASE DoSetHostToDefault(x)
  BY <1>0, <1>13, HostOpsOK, UpdateOK DEF DoSetHostToDefault
<1>14. CASE DoRemoveProjectFromHost(x)
  BY <1>0, <1>2, <1>14, HostOpsOK, UpdateOK DEF DoRemoveProjectFromHost
<1>15. CASE DoRegisterProjectInHost(x)
  BY <1>0, <1>2, <1>15, HostOpsOK, UpdateOK DEF DoRegisterProjectInHost
<1>16. CASE DoSetHostAttr(x)
  BY <1>0, <1>2, <1>16, HostOpsOK, UpdateOK DEF DoSetHostAttr
<1>17. CASE DoClearHostAgentOwnership(x)
  BY <1>0, <1>2, <1>17, HostOpsOK, UpdateOK DEF DoClearHostAgentOwnership
<1>18. CASE DoRemoveHostFromConfig(x)
  BY <1>0, <1>18, RemoveHostFromConfigOK, UnmapOK, UpdateOK DEF DoRemoveHostFromConfig
<1>19. CASE DoSetProject(x)
  BY <1>0, <1>19, ContextOpsOK, UpdateOK DEF DoSetProject
<1>20. CASE DoFlushContext(x)
  BY <1>0, <1>20, ContextOpsOK, UpdateOK DEF DoFlushContext
<1>21. QED
  BY <1>3, <1>4, <1>5, <1>6, <1>7, <1>8, <1>9, <1>10, <1>11, <1>12, <1>13,
     <1>14, <1>15, <1>16, <1>17, <1>18, <1>19, <1>20 DEF Command

(* The invariant holds initially. *)
LEMMA InitOK == Init => IInv
  BY EmptyDataOK, FileAssumption, MaxOpsAssumption DEF Init, IInv, TypeOK

(* Every step keeps it. *)
LEMMA NextOK == IInv /\ [Next]_vars => IInv'
<1> SUFFICES ASSUME IInv, [Next]_vars PROVE IInv'
  OBVIOUS
<1>1. CASE UNCHANGED vars
  BY <1>1 DEF vars, IInv, TypeOK
<1>2. ASSUME NEW x \in Procs, Load(x) PROVE IInv'
  <2> DEFINE d == IF disk = NoFile THEN EmptyData ELSE normalize(disk)
  <2>1. d \in Data /\ WellFormed(d)
    BY <1>2, EmptyDataOK, NormalizeOK DEF Load, IInv, TypeOK
  <2>2. /\ mem' = [mem EXCEPT ![x] = d]
        /\ pc' = [pc EXCEPT ![x] = "running"]
        /\ ops' = [ops EXCEPT ![x] = 0]
        /\ disk' = disk
    BY <1>2 DEF Load
  <2> HIDE DEF d
  <2>3. QED  BY <2>1, <2>2, MaxOpsAssumption DEF IInv, TypeOK
<1>3. ASSUME NEW x \in Procs, LoadFails(x) PROVE IInv'
  BY <1>3, <1>1 DEF LoadFails
<1>4. ASSUME NEW x \in Procs, Command(x) PROVE IInv'
  BY <1>4, CommandOK
<1>5. ASSUME NEW x \in Procs, SaveBegin(x) PROVE IInv'
  <2> DEFINE d == normalize(mem[x])
  <2>1. d \in Data /\ WellFormed(d) /\ Integrity(d)
    BY NormalizeOK, NormalizeIntegrity DEF IInv, TypeOK
  <2>2. /\ mem' = [mem EXCEPT ![x] = d]
        /\ pc' = [pc EXCEPT ![x] = "saving"]
        /\ ops' = ops
        /\ disk' = Truncated
    BY <1>5 DEF SaveBegin
  <2> HIDE DEF d
  <2>3. QED  BY <2>1, <2>2, FileAssumption DEF IInv, TypeOK
<1>6. ASSUME NEW x \in Procs, Exit(x),
             disk' = disk \/ (pc[x] = "saving" /\ disk' = mem[x])
      PROVE  IInv'
  <2>1. /\ mem' = [mem EXCEPT ![x] = EmptyData]
        /\ pc' = [pc EXCEPT ![x] = "idle"]
        /\ ops' = [ops EXCEPT ![x] = 0]
    BY <1>6 DEF Exit
  <2>2. TypeOK'
    BY <2>1, <1>6, EmptyDataOK, MaxOpsAssumption DEF IInv, TypeOK
  <2>3. \A y \in Procs : /\ WellFormed(mem'[y])
                         /\ pc'[y] = "saving" => Integrity(mem'[y])
    BY <2>1, EmptyDataOK DEF IInv, TypeOK
  <2>4. disk' \in Data => WellFormed(disk') /\ Integrity(disk')
    BY <1>6 DEF IInv
  <2>5. QED  BY <2>2, <2>3, <2>4 DEF IInv
<1>7. ASSUME NEW x \in Procs, SaveEnd(x) \/ ExitOnError(x) \/ Crash(x) PROVE IInv'
  BY <1>6, <1>7 DEF SaveEnd, ExitOnError, Crash
<1>8. QED
  BY <1>1, <1>2, <1>3, <1>4, <1>5, <1>7 DEF Next

(***************************************************************************)
(* The file and every copy of it keep their types.                         *)
(***************************************************************************)
THEOREM TypeCorrect == Spec => []TypeOK
<1>1. IInv => TypeOK  BY DEF IInv
<1>2. QED  BY InitOK, NextOK, <1>1, PTL DEF Spec

(***************************************************************************)
(* db.json is always absent, unreadable or referentially intact, for any   *)
(* number of processes and any operations (saveDBContent normalizes).      *)
(***************************************************************************)
THEOREM DiskIntegrityHolds == Spec => []DiskIntegrity
<1>1. IInv => DiskIntegrity  BY DEF IInv, DiskIntegrity
<1>2. QED  BY InitOK, NextOK, <1>1, PTL DEF Spec

(***************************************************************************)
(* What a command reads is what the previous one stored (unmarshall).      *)
(***************************************************************************)
THEOREM ReloadIsIdentityHolds == Spec => []ReloadIsIdentity
<1>1. IInv => ReloadIsIdentity  BY NormalizeFixpoint DEF IInv, ReloadIsIdentity
<1>2. QED  BY InitOK, NextOK, <1>1, PTL DEF Spec

(***************************************************************************)
(* No command ever sees two default hosts (SetHostToDefault).              *)
(***************************************************************************)
THEOREM OneDefaultHolds == Spec => []OneDefault
<1>1. IInv => OneDefault  BY DEF IInv, OneDefault, WellFormed
<1>2. QED  BY InitOK, NextOK, <1>1, PTL DEF Spec
=============================================================================
