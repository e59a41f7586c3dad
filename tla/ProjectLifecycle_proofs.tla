---------------------- MODULE ProjectLifecycle_proofs ----------------------
(***************************************************************************)
(* Proofs about ProjectLifecycle, for any projects, hosts and containers,  *)
(* any deploy plans and any names given to rename.                         *)
(***************************************************************************)
EXTENDS ProjectLifecycle, TLAPS

-----------------------------------------------------------------------------
(***************************************************************************)
(* What the operations of the db package do to the columns that the        *)
(* project commands read: the projects, their hosts, their rows, and the   *)
(* projects a host lists.                                                  *)
(***************************************************************************)
\* Two databases that differ in nothing the commands look at.
SameRows(d, e) ==
    /\ e.projects = d.projects /\ e.host = d.host /\ e.containers = d.containers

\* The empty database.
LEMMA EmptyOK ==
    /\ EmptyData \in Data
    /\ EmptyData.projects = {}
    /\ \A h \in HostNames : EmptyData.hostProjects[h] = {}
    BY DEF EmptyData, Data, NoContainers

\* The rows of a project are the containers with some information.
LEMMA RowsAre ==
    ASSUME NEW d \in Data, NEW p \in ProjectNames
    PROVE  /\ Rows(d, p) = {c \in ContainerNames : d.containers[p][c] # None}
           /\ \A c \in Rows(d, p) : d.containers[p][c] \in ContainerInfos
    BY NoneAssumption, InfosAssumption DEF Rows, ProjectContainersName, Data

\* normalize rewrites the lists of the hosts and the selection only.
LEMMA NormalizeIs ==
    ASSUME NEW d \in Data
    PROVE  /\ normalize(d) \in Data
           /\ SameRows(d, normalize(d))
           /\ normalize(d).isDefault = d.isDefault
           /\ \A h \in HostNames : normalize(d).hostProjects[h] = normalizeHostProjects(d, h)
<1> DEFINE e == normalizeHosts(d)
           ctx == IF e.context # None /\ normalizeProjectName(e.context) \in e.projects
                  THEN Exact(normalizeProjectName(e.context)) ELSE None
<1>1. \A h \in HostNames : normalizeHostProjects(d, h) \in SUBSET ProjectNames
    BY DEF normalizeHostProjects, mappedTo, Data
<1>2. /\ e \in Data /\ SameRows(d, e) /\ e.isDefault = d.isDefault
      /\ \A h \in HostNames : e.hostProjects[h] = normalizeHostProjects(d, h)
    BY <1>1 DEF normalizeHosts, Data, SameRows
<1> HIDE DEF e
<1>3. ctx \in Spellings \cup {None}
  <2>1. \A p \in e.projects : Exact(p) \in Spellings
      BY <1>2 DEF Data, Exact, Spellings
  <2> QED
      BY <2>1
<1>4. normalize(d) = [e EXCEPT !.context = ctx]
    BY DEF normalize, normalizeContext, e
<1> HIDE DEF ctx
<1> QED
    BY <1>2, <1>3, <1>4 DEF Data, SameRows

\* After normalize a host lists no project that is not mapped to it.
LEMMA NormalizeLists ==
    ASSUME NEW d \in Data,
           \A h \in HostNames : \A p \in d.hostProjects[h] \cap d.projects : d.host[p] = h
    PROVE  \A h \in HostNames : \A p \in normalize(d).hostProjects[h] :
               p \in normalize(d).projects /\ normalize(d).host[p] = h
    BY NormalizeIs DEF SameRows, normalizeHostProjects, mappedTo, Data

\* The selection is no column of a project.
LEMMA ContextIs ==
    ASSUME NEW d \in Data, NEW p \in ProjectNames
    PROVE  /\ SetProject(d, Exact(p)) \in Data /\ FlushContext(d) \in Data
           /\ SameRows(d, SetProject(d, Exact(p))) /\ SameRows(d, FlushContext(d))
           /\ SetProject(d, Exact(p)).hostProjects = d.hostProjects
           /\ FlushContext(d).hostProjects = d.hostProjects
           /\ SetProject(d, Exact(p)).isDefault = d.isDefault
    BY DEF SetProject, FlushContext, Data, Spellings, Exact, SameRows

\* In e, project p has no host and no containers, and nothing else differs
\* from d but the set of projects.
Blank(d, e, p) ==
    /\ \A q \in ProjectNames : e.host[q] = IF q = p THEN None ELSE d.host[q]
    /\ \A q \in ProjectNames : e.containers[q] = IF q = p THEN NoContainers ELSE d.containers[q]
    /\ e.hostProjects = d.hostProjects /\ e.isDefault = d.isDefault

\* The row of a project added, and removed.
LEMMA ProjectRowIs ==
    ASSUME NEW d \in Data, NEW p \in ProjectNames
    PROVE  /\ AddProject(d, Exact(p)) \in Data /\ DeleteProject(d, Exact(p)) \in Data
           /\ AddProject(d, Exact(p)).projects = d.projects \cup {p}
           /\ DeleteProject(d, Exact(p)).projects = d.projects \ {p}
           /\ Blank(d, AddProject(d, Exact(p)), p) /\ Blank(d, DeleteProject(d, Exact(p)), p)
<1>1. Exact(p)[1] = p /\ NoContainers \in [ContainerNames -> ContainerInfos \cup {None}]
    BY DEF Exact, NoContainers
<1>2. /\ AddProject(d, Exact(p)) = [d EXCEPT !.projects = d.projects \cup {p},
             !.host = [d.host EXCEPT ![p] = None],
             !.containers = [d.containers EXCEPT ![p] = NoContainers],
             !.settings = [d.settings EXCEPT ![p] = {}]]
      /\ DeleteProject(d, Exact(p)) = [d EXCEPT !.projects = d.projects \ {p},
             !.host = [d.host EXCEPT ![p] = None],
             !.containers = [d.containers EXCEPT ![p] = NoContainers],
             !.settings = [d.settings EXCEPT ![p] = {}]]
    BY <1>1 DEF AddProject, DeleteProject, RemoveProjectRow, normalizeProjectName, Data
<1>3. /\ d.projects \cup {p} \in SUBSET ProjectNames /\ d.projects \ {p} \in SUBSET ProjectNames
      /\ [d.host EXCEPT ![p] = None] \in [ProjectNames -> HostNames \cup {None}]
      /\ [d.containers EXCEPT ![p] = NoContainers] \in
             [ProjectNames -> [ContainerNames -> ContainerInfos \cup {None}]]
      /\ [d.settings EXCEPT ![p] = {}] \in [ProjectNames -> SUBSET Settings]
    BY <1>1 DEF Data
<1>4. AddProject(d, Exact(p)) \in Data /\ DeleteProject(d, Exact(p)) \in Data
    BY <1>2, <1>3 DEF Data
<1> QED
    BY <1>2, <1>3, <1>4 DEF Data, Blank

\* A project is mapped to a host.
LEMMA PlacedIs ==
    ASSUME NEW d \in Data, NEW p \in ProjectNames, NEW h \in HostNames
    PROVE  LET e == SetProjectHost(AddHost(d, h), p, h) IN
           /\ e \in Data /\ e.projects = d.projects /\ e.containers = d.containers
           /\ e.hostProjects = d.hostProjects
           /\ \A q \in ProjectNames : e.host[q] = IF q = p THEN h ELSE d.host[q]
<1>1. SetProjectHost(AddHost(d, h), p, h) =
          [d EXCEPT !.hosts = d.hosts \cup {h}, !.host = [d.host EXCEPT ![p] = h]]
    BY DEF SetProjectHost, AddHost, Data
<1>2. /\ d.hosts \cup {h} \in SUBSET HostNames
      /\ [d.host EXCEPT ![p] = h] \in [ProjectNames -> HostNames \cup {None}]
      /\ \A q \in ProjectNames : [d.host EXCEPT ![p] = h][q] = IF q = p THEN h ELSE d.host[q]
    BY DEF Data
<1>3. SetProjectHost(AddHost(d, h), p, h) \in Data
    BY <1>1, <1>2 DEF Data
<1> QED
    BY <1>1, <1>2, <1>3 DEF Data

\* A container is recorded.
LEMMA ContainerRowIs ==
    ASSUME NEW d \in Data, NEW p \in ProjectNames, NEW c \in ContainerNames, NEW i \in ContainerInfos
    PROVE  LET e == UpsertProjectContainer(d, p, c, i) IN
           /\ e \in Data /\ e.projects = d.projects /\ e.host = d.host /\ e.hostProjects = d.hostProjects
           /\ \A q \in ProjectNames : \A k \in ContainerNames :
                 e.containers[q][k] = IF q = p /\ k = c THEN i ELSE d.containers[q][k]
<1> DEFINE g == [d.containers[p] EXCEPT ![c] = i]
           e == UpsertProjectContainer(d, p, c, i)
<1>1. e = [d EXCEPT !.containers = [d.containers EXCEPT ![p] = g]]
    BY DEF UpsertProjectContainer, Data
<1>2. d.containers \in [ProjectNames -> [ContainerNames -> ContainerInfos \cup {None}]]
    BY DEF Data
<1>3. /\ g \in [ContainerNames -> ContainerInfos \cup {None}]
      /\ \A k \in ContainerNames : g[k] = IF k = c THEN i ELSE d.containers[p][k]
    BY <1>2
<1> HIDE DEF g, e
<1>4. [d.containers EXCEPT ![p] = g] \in [ProjectNames -> [ContainerNames -> ContainerInfos \cup {None}]]
    BY <1>2, <1>3
<1>5. /\ e \in Data /\ e.projects = d.projects /\ e.host = d.host /\ e.hostProjects = d.hostProjects
      /\ e.containers = [d.containers EXCEPT ![p] = g]
    BY <1>1, <1>4 DEF Data
<1> QED
    BY <1>2, <1>3, <1>5 DEF e

\* Rows are dropped.
LEMMA DroppedRowsAre ==
    ASSUME NEW d \in Data, NEW p \in ProjectNames, NEW C
    PROVE  LET e == RemoveProjectContainers(d, p, C) IN
           /\ e \in Data /\ e.projects = d.projects /\ e.host = d.host /\ e.hostProjects = d.hostProjects
           /\ \A q \in ProjectNames : \A k \in ContainerNames :
                 e.containers[q][k] = IF q = p /\ k \in C THEN None ELSE d.containers[q][k]
<1> DEFINE g == [k \in ContainerNames |-> IF k \in C THEN None ELSE d.containers[p][k]]
           e == RemoveProjectContainers(d, p, C)
<1>1. e = [d EXCEPT !.containers = [d.containers EXCEPT ![p] = g]]
    BY DEF RemoveProjectContainers, Data
<1>2. d.containers \in [ProjectNames -> [ContainerNames -> ContainerInfos \cup {None}]]
    BY DEF Data
<1>3. /\ g \in [ContainerNames -> ContainerInfos \cup {None}]
      /\ \A k \in ContainerNames : g[k] = IF k \in C THEN None ELSE d.containers[p][k]
    BY <1>2
<1> HIDE DEF g, e
<1>4. [d.containers EXCEPT ![p] = g] \in [ProjectNames -> [ContainerNames -> ContainerInfos \cup {None}]]
    BY <1>2, <1>3
<1>5. /\ e \in Data /\ e.projects = d.projects /\ e.host = d.host /\ e.hostProjects = d.hostProjects
      /\ e.containers = [d.containers EXCEPT ![p] = g]
    BY <1>1, <1>4 DEF Data
<1> QED
    BY <1>2, <1>3, <1>5 DEF e

\* What drain leaves of a project.
LEMMA DrainedIs ==
    ASSUME NEW d \in Data, NEW p \in ProjectNames
    PROVE  LET e == RemoveHostAndContainersFromProject(unregisterFromHost(d, p), p) IN
           /\ e \in Data /\ e.projects = d.projects
           /\ \A q \in ProjectNames : e.host[q] = IF q = p THEN None ELSE d.host[q]
           /\ \A q \in ProjectNames : e.containers[q] = IF q = p THEN NoContainers ELSE d.containers[q]
           /\ \A h \in HostNames : e.hostProjects[h] =
                 IF p \in d.projects /\ h = d.host[p] THEN d.hostProjects[h] \ {p} ELSE d.hostProjects[h]
<1> DEFINE u == unregisterFromHost(d, p)
           e == RemoveHostAndContainersFromProject(u, p)
<1>1. /\ u \in Data /\ SameRows(d, u)
      /\ \A h \in HostNames : u.hostProjects[h] =
            IF p \in d.projects /\ h = d.host[p] THEN d.hostProjects[h] \ {p} ELSE d.hostProjects[h]
  <2>1. CASE ProjectHostName(d, p) = None
      BY <2>1, NoneAssumption DEF unregisterFromHost, ProjectHostName, SameRows
  <2>2. CASE ProjectHostName(d, p) # None
    <3> DEFINE h == d.host[p]
               left == d.hostProjects[h] \ {p}
    <3>1. p \in d.projects /\ h \in HostNames /\ ProjectHostName(d, p) = h
        BY <2>2 DEF ProjectHostName, Data
    <3>2. Exact(p)[1] = p
        BY DEF Exact
    <3>3. u = [d EXCEPT !.hostProjects = [d.hostProjects EXCEPT ![h] = left],
                        !.inUse = IF left = {} THEN d.inUse \ {h} ELSE d.inUse \cup {h}]
        BY <2>2, <3>1, <3>2 DEF unregisterFromHost, RemoveProjectFromHost, normalizeProjectName, Data
    <3>4. left \in SUBSET ProjectNames
        BY <3>1 DEF Data
    <3>5. (IF left = {} THEN d.inUse \ {h} ELSE d.inUse \cup {h}) \in SUBSET HostNames
        BY <3>1 DEF Data
    <3> DEFINE lists == [d.hostProjects EXCEPT ![h] = left]
               used == IF left = {} THEN d.inUse \ {h} ELSE d.inUse \cup {h}
    <3>6. lists \in [HostNames -> SUBSET ProjectNames] /\
          \A k \in HostNames : lists[k] = IF k = h THEN d.hostProjects[k] \ {p} ELSE d.hostProjects[k]
        BY <3>1, <3>4 DEF Data
    <3> HIDE DEF lists, used
    <3>7. u = [d EXCEPT !.hostProjects = lists, !.inUse = used]
        BY <3>3 DEF lists, used
    <3>8. used \in SUBSET HostNames
        BY <3>5 DEF used
    <3>9. u \in Data /\ SameRows(d, u) /\ u.hostProjects = lists
        BY <3>6, <3>7, <3>8 DEF Data, SameRows
    <3> QED
        BY <3>1, <3>6, <3>9
  <2> QED
      BY <2>1, <2>2
<1> HIDE DEF u
<1>2. e = [u EXCEPT !.containers = [u.containers EXCEPT ![p] = NoContainers],
                    !.host = [u.host EXCEPT ![p] = None]]
    BY <1>1 DEF RemoveHostAndContainersFromProject, Data
<1>3. NoContainers \in [ContainerNames -> ContainerInfos \cup {None}]
    BY DEF NoContainers
<1> DEFINE rows == [u.containers EXCEPT ![p] = NoContainers]
           at == [u.host EXCEPT ![p] = None]
<1>4. /\ rows \in [ProjectNames -> [ContainerNames -> ContainerInfos \cup {None}]]
      /\ at \in [ProjectNames -> HostNames \cup {None}]
      /\ \A q \in ProjectNames : rows[q] = IF q = p THEN NoContainers ELSE d.containers[q]
      /\ \A q \in ProjectNames : at[q] = IF q = p THEN None ELSE d.host[q]
    BY <1>1, <1>3 DEF Data, SameRows
<1> HIDE DEF rows, at
<1>5. e = [u EXCEPT !.containers = rows, !.host = at]
    BY <1>2 DEF rows, at
<1>6. /\ e \in Data /\ e.projects = u.projects /\ e.hostProjects = u.hostProjects
      /\ e.containers = rows /\ e.host = at
    BY <1>1, <1>4, <1>5 DEF Data
<1> QED
    BY <1>1, <1>4, <1>6 DEF u, SameRows

-----------------------------------------------------------------------------
(***************************************************************************)
(* What the commands read of a database: the agent of a project and its    *)
(* rows, before and after each operation.                                  *)
(***************************************************************************)
\* e shows project q as d does.
SameProject(d, e, q) ==
    /\ projectAgentHost(e, q) = projectAgentHost(d, q) /\ Rows(e, q) = Rows(d, q)
    /\ \A c \in Rows(d, q) : e.containers[q][c] = d.containers[q][c]

LEMMA AgentHostIn ==
    ASSUME NEW d \in Data, NEW p \in ProjectNames
    PROVE  projectAgentHost(d, p) \in HostNames
    BY LocalhostAssumption DEF projectAgentHost, ProjectHostName, Data

\* A project with the same columns is the same project.
LEMMA ProjectView ==
    ASSUME NEW d, NEW e, NEW q, q \in d.projects <=> q \in e.projects,
           e.host[q] = d.host[q], e.containers[q] = d.containers[q]
    PROVE  SameProject(d, e, q)
    BY DEF SameProject, projectAgentHost, ProjectHostName, Rows, ProjectContainersName

\* ... and so are all projects of two databases with the same rows.
LEMMA SameView ==
    ASSUME NEW d, NEW e, SameRows(d, e)
    PROVE  \A q : SameProject(d, e, q)
    BY ProjectView DEF SameRows

LEMMA NormalizeView ==
    ASSUME NEW d \in Data
    PROVE  \A q : SameProject(d, normalize(d), q)
    BY NormalizeIs, SameView

\* The row of a project added or removed.
LEMMA ProjectRowView ==
    ASSUME NEW d \in Data, NEW p \in ProjectNames,
           NEW e \in {AddProject(d, Exact(p)), DeleteProject(d, Exact(p))}
    PROVE  /\ Rows(e, p) = {}
           /\ \A q \in ProjectNames \ {p} : SameProject(d, e, q)
<1>1. Blank(d, e, p) /\ (e.projects = d.projects \cup {p} \/ e.projects = d.projects \ {p})
  <2>1. CASE e = AddProject(d, Exact(p))
      BY <2>1, ProjectRowIs
  <2>2. CASE e = DeleteProject(d, Exact(p))
      BY <2>2, ProjectRowIs
  <2> QED
      BY <2>1, <2>2
<1>2. Rows(e, p) = {}
    BY <1>1, NoneAssumption DEF Blank, Rows, ProjectContainersName, NoContainers
<1>3. \A q \in ProjectNames \ {p} : e.host[q] = d.host[q] /\ e.containers[q] = d.containers[q]
    BY <1>1 DEF Blank
<1>4. \A q \in ProjectNames \ {p} : q \in d.projects <=> q \in e.projects
    BY <1>1
<1> QED
    BY <1>2, <1>3, <1>4, ProjectView

\* A project mapped to a host.
LEMMA PlacedView ==
    ASSUME NEW d \in Data, NEW p \in d.projects, NEW h \in HostNames
    PROVE  LET e == SetProjectHost(AddHost(d, h), p, h) IN
           /\ projectAgentHost(e, p) = h /\ Rows(e, p) = Rows(d, p)
           /\ \A q \in ProjectNames \ {p} : SameProject(d, e, q)
<1> DEFINE e == SetProjectHost(AddHost(d, h), p, h)
<1>0. p \in ProjectNames
    BY DEF Data
<1>1. /\ e.projects = d.projects /\ e.containers = d.containers
      /\ \A q \in ProjectNames : e.host[q] = IF q = p THEN h ELSE d.host[q]
    BY <1>0, PlacedIs
<1> HIDE DEF e
<1>2. projectAgentHost(e, p) = h /\ Rows(e, p) = Rows(d, p)
    BY <1>0, <1>1, NoneAssumption DEF projectAgentHost, ProjectHostName, Rows, ProjectContainersName
<1>3. \A q \in ProjectNames \ {p} : SameProject(d, e, q)
    BY <1>1, ProjectView
<1> QED
    BY <1>2, <1>3 DEF e

\* A container recorded.
LEMMA RecordedView ==
    ASSUME NEW d \in Data, NEW p \in ProjectNames, NEW c \in ContainerNames, NEW i \in ContainerInfos
    PROVE  LET e == UpsertProjectContainer(d, p, c, i) IN
           /\ e \in Data /\ e.projects = d.projects
           /\ \A q \in ProjectNames : projectAgentHost(e, q) = projectAgentHost(d, q)
           /\ Rows(e, p) = Rows(d, p) \cup {c}
           /\ \A q \in ProjectNames \ {p} : SameProject(d, e, q)
<1> DEFINE e == UpsertProjectContainer(d, p, c, i)
<1>1. /\ e \in Data /\ e.projects = d.projects /\ e.host = d.host
      /\ \A q \in ProjectNames : \A k \in ContainerNames :
            e.containers[q][k] = IF q = p /\ k = c THEN i ELSE d.containers[q][k]
    BY ContainerRowIs
<1> HIDE DEF e
<1>2. \A q \in ProjectNames : projectAgentHost(e, q) = projectAgentHost(d, q)
    BY <1>1 DEF projectAgentHost, ProjectHostName
<1>3. Rows(e, p) = Rows(d, p) \cup {c}
    BY <1>1, InfosAssumption DEF Rows, ProjectContainersName
<1>4. \A q \in ProjectNames \ {p} :
          Rows(e, q) = Rows(d, q) /\ \A k \in Rows(d, q) : e.containers[q][k] = d.containers[q][k]
    BY <1>1 DEF Rows, ProjectContainersName
<1> QED
    BY <1>1, <1>2, <1>3, <1>4 DEF e, SameProject

\* Rows dropped.
LEMMA DroppedView ==
    ASSUME NEW d \in Data, NEW p \in ProjectNames, NEW C
    PROVE  LET e == RemoveProjectContainers(d, p, C) IN
           /\ e \in Data /\ e.projects = d.projects /\ e.host = d.host /\ e.hostProjects = d.hostProjects
           /\ \A q \in ProjectNames : projectAgentHost(e, q) = projectAgentHost(d, q)
           /\ Rows(e, p) = Rows(d, p) \ C
           /\ \A c \in Rows(e, p) : e.containers[p][c] = d.containers[p][c]
           /\ \A q \in ProjectNames \ {p} : SameProject(d, e, q)
<1> DEFINE e == RemoveProjectContainers(d, p, C)
<1>1. /\ e \in Data /\ e.projects = d.projects /\ e.host = d.host /\ e.hostProjects = d.hostProjects
      /\ \A q \in ProjectNames : \A k \in ContainerNames :
            e.containers[q][k] = IF q = p /\ k \in C THEN None ELSE d.containers[q][k]
    BY DroppedRowsAre
<1> HIDE DEF e
<1>2. \A q \in ProjectNames : projectAgentHost(e, q) = projectAgentHost(d, q)
    BY <1>1 DEF projectAgentHost, ProjectHostName
<1>3. Rows(e, p) = Rows(d, p) \ C
    BY <1>1, NoneAssumption DEF Rows, ProjectContainersName
<1>4. \A q \in ProjectNames \ {p} :
          Rows(e, q) = Rows(d, q) /\ \A k \in Rows(d, q) : e.containers[q][k] = d.containers[q][k]
    BY <1>1 DEF Rows, ProjectContainersName
<1>5. \A c \in Rows(e, p) : e.containers[p][c] = d.containers[p][c]
    BY <1>1, <1>3 DEF Rows, ProjectContainersName
<1> QED
    BY <1>1, <1>2, <1>3, <1>4, <1>5 DEF e, SameProject

\* A project drained.
LEMMA DrainedView ==
    ASSUME NEW d \in Data, NEW p \in ProjectNames
    PROVE  LET e == RemoveHostAndContainersFromProject(unregisterFromHost(d, p), p) IN
           /\ Rows(e, p) = {}
           /\ \A q \in ProjectNames \ {p} : SameProject(d, e, q)
<1> DEFINE e == RemoveHostAndContainersFromProject(unregisterFromHost(d, p), p)
<1>1. /\ e.projects = d.projects
      /\ \A q \in ProjectNames : e.host[q] = IF q = p THEN None ELSE d.host[q]
      /\ \A q \in ProjectNames : e.containers[q] = IF q = p THEN NoContainers ELSE d.containers[q]
    BY DrainedIs
<1> HIDE DEF e
<1>2. Rows(e, p) = {}
    BY <1>1, NoneAssumption DEF Rows, ProjectContainersName, NoContainers
<1>3. \A q \in ProjectNames \ {p} : SameProject(d, e, q)
    BY <1>1, ProjectView
<1> QED
    BY <1>2, <1>3 DEF e

-----------------------------------------------------------------------------
(***************************************************************************)
(* The kinds of step a command takes.                                      *)
(***************************************************************************)
\* It goes on, with these values for what its loops change.
Moves(pc, todo, listed, names, drop, errs) ==
    /\ cmd' \in Commands
    /\ cmd'.pc = pc /\ cmd'.todo = todo /\ cmd'.listed = listed /\ cmd'.names = names
    /\ cmd'.drop = drop /\ cmd'.errs = errs
    /\ cmd'.op = cmd.op /\ cmd'.p = cmd.p /\ cmd'.force = cmd.force /\ cmd'.report = cmd.report
    /\ cmd'.rest = cmd.rest /\ cmd'.new = cmd.new /\ cmd'.had = cmd.had

\* It starts, or starts over with another project or another phase.
Starts(op, p, pc, names, force, report, rest, new, had) ==
    /\ cmd' \in Commands
    /\ cmd'.op = op /\ cmd'.p = p /\ cmd'.pc = pc /\ cmd'.names = names
    /\ cmd'.force = force /\ cmd'.report = report /\ cmd'.rest = rest
    /\ cmd'.new = new /\ cmd'.had = had
    /\ cmd'.todo = {} /\ cmd'.listed = NoList /\ cmd'.drop = FALSE /\ cmd'.errs = FALSE

\* It succeeds, and d is saved.
Saves(d) ==
    /\ d \in Data /\ disk' = normalize(d)
    /\ mem' = EmptyData /\ cmd' = Idle /\ done' = Outcome(cmd)

\* A command is not the absence of one, and its outcome has its type.
LEMMA CommandsAre ==
    ASSUME NEW c \in Commands
    PROVE  /\ c # Idle /\ c.op \in Ops
           /\ Outcome(c) \in [op : Ops, p : ProjectNames, force : BOOLEAN,
                                had : SUBSET (HostNames \X ContainerNames)]
           /\ Outcome(c) # Idle /\ Outcome(c).op = c.op /\ Outcome(c).p = c.p
           /\ Outcome(c).force = c.force /\ Outcome(c).had = c.had
    BY DEF Commands, Idle, Ops, Outcome

LEMMA IdleIs == Idle.op = "none" /\ "none" \notin Ops
    BY DEF Idle, Ops

LEMMA HadIn ==
    ASSUME NEW d \in Data, NEW p \in ProjectNames
    PROVE  Had(d, p) \in SUBSET (HostNames \X ContainerNames)
    BY AgentHostIn DEF Had, Rows, ProjectContainersName

LEMMA RowsIn ==
    ASSUME NEW d, NEW p
    PROVE  Rows(d, p) \in SUBSET ContainerNames
    BY DEF Rows, ProjectContainersName

LEMMA NoListIn == NoList \in [ContainerNames -> Statuses \cup {None}]
    BY DEF NoList

\* The end of delete for one project.
LEMMA DeleteEndsDoes ==
    ASSUME TypeOK, cmd \in Commands, NEW ok \in BOOLEAN, NEW d \in Data, DeleteEnds(ok, d)
    PROVE  LET removed == ok \/ cmd.force
               after == IF removed THEN DeleteProject(d, Exact(cmd.p)) ELSE d
           IN  \/ /\ cmd.rest = {} /\ ~ cmd.report /\ removed
                  /\ \E e : Saves(e) /\ SameRows(after, e) /\ e.hostProjects = after.hostProjects
                  /\ failed' = (failed \/ ~ ok)
                  /\ UNCHANGED shared
               \/ Fail
               \/ /\ \E q \in cmd.rest :
                        Starts("delete", q, "clear", {}, cmd.force, cmd.report \/ ~ removed,
                               cmd.rest \ {q}, None, cmd.had \cup Had(d, q))
                  /\ mem' = after
                  /\ failed' = (failed \/ ~ ok)
                  /\ UNCHANGED <<disk, done, shared>>
<1> DEFINE removed == ok \/ cmd.force
           after == IF removed THEN DeleteProject(d, Exact(cmd.p)) ELSE d
           report == cmd.report \/ ~ removed
<1>1. /\ cmd.p \in ProjectNames /\ cmd.rest \in SUBSET ProjectNames /\ cmd.force \in BOOLEAN
      /\ cmd.report \in BOOLEAN /\ cmd.had \in SUBSET (HostNames \X ContainerNames)
    BY DEF Commands
<1>2. after \in Data
    BY <1>1, ProjectRowIs
<1>3. \/ /\ cmd.rest = {} /\ ~ report
         /\ \E e \in Reselect(after) :
               disk' = normalize(e) /\ mem' = EmptyData /\ done' = Outcome(cmd) /\ cmd' = Idle
         /\ failed' = (failed \/ ~ ok) /\ UNCHANGED shared
      \/ Fail
      \/ \E q \in cmd.rest :
            /\ cmd' = [Command("delete", q, "clear") EXCEPT
                         !.force = cmd.force, !.report = report,
                         !.rest = cmd.rest \ {q}, !.had = cmd.had \cup Had(d, q)]
            /\ mem' = after /\ failed' = (failed \/ ~ ok) /\ UNCHANGED <<disk, done, shared>>
    BY DEF DeleteEnds
<1> HIDE DEF after
<1>4. \A e \in Reselect(after) : e \in Data /\ SameRows(after, e) /\ e.hostProjects = after.hostProjects
  <2>1. \A q \in after.projects : q \in ProjectNames
      BY <1>2 DEF Data
  <2> QED
      BY <1>1, <1>2, <2>1, ContextIs DEF Reselect
<1>5. ASSUME NEW q \in cmd.rest,
             cmd' = [Command("delete", q, "clear") EXCEPT
                         !.force = cmd.force, !.report = report,
                         !.rest = cmd.rest \ {q}, !.had = cmd.had \cup Had(d, q)]
      PROVE  Starts("delete", q, "clear", {}, cmd.force, report, cmd.rest \ {q}, None,
                    cmd.had \cup Had(d, q))
  <2> DEFINE had == cmd.had \cup Had(d, q)
             rest == cmd.rest \ {q}
  <2>1. q \in ProjectNames /\ report \in BOOLEAN /\ rest \in SUBSET ProjectNames
      BY <1>1
  <2>2. had \in SUBSET (HostNames \X ContainerNames)
      BY <1>1, <2>1, HadIn
  <2>3. cmd' = [op |-> "delete", p |-> q, pc |-> "clear", todo |-> {}, listed |-> NoList,
                names |-> {}, drop |-> FALSE, errs |-> FALSE, report |-> report,
                force |-> cmd.force, rest |-> rest, new |-> None, had |-> had]
      BY <1>5 DEF Command
  <2> HIDE DEF report, had, rest
  <2>4. Starts("delete", q, "clear", {}, cmd.force, report, rest, None, had)
      BY <1>1, <2>1, <2>2, <2>3, NoListIn DEF Starts, Commands, Ops
  <2> QED
      BY <2>4 DEF had, rest
<1> QED
    BY <1>3, <1>4, <1>5 DEF Saves, after

\* What the beginnings of the commands have in common.
Began ==
    /\ cmd = Idle /\ done' = Idle /\ quiet' = TRUE
    /\ UNCHANGED <<disk, agent, ssh, failed, gone, shared, events>>
    /\ commands < MaxCommands /\ commands' = commands + 1

\* The database of `run`: the project is there, without containers, and keeps
\* the host it has; the others are as they were.
Prepared(p, d) ==
    /\ d \in Data /\ p \in d.projects /\ Rows(d, p) = {}
    /\ d.hostProjects = normalize(disk).hostProjects
    /\ \A q \in disk.projects : q \in d.projects
    /\ \A q \in ProjectNames \ {p} : q \in d.projects => q \in disk.projects /\ d.host[q] = disk.host[q]
    /\ \A q \in ProjectNames \ {p} : SameProject(disk, d, q)
    /\ p \in disk.projects => Rows(disk, p) = {} /\ disk.host[p] \in {None, d.host[p]}

LEMMA RunDoes ==
    ASSUME TypeOK, NEW p \in ProjectNames, NEW target \in HostNames \cup {None}, NEW path \in BOOLEAN,
           projectRun(p, target, path)
    PROVE  /\ Began /\ Prepared(p, mem')
           /\ Starts("run", p, "stage", {}, FALSE, FALSE, {}, None, {})
<1> DEFINE loaded == normalize(disk)
           d == buildProjectInfo(loaded, p, path)
           desired == IF target # None THEN target ELSE GetDefaultHostName(d)
           h == IF desired # None THEN desired ELSE IF d.host[p] # None THEN d.host[p] ELSE Localhost
           placed == SetProjectHost(AddHost(d, h), p, h)
           final == ensureContext(placed, p, path)
<1>1. /\ path <=> p \notin loaded.projects
      /\ MayTarget(d, p, desired)
      /\ Rows(placed, p) = {}
      /\ Begin(Command("run", p, "stage"), final)
    BY DEF projectRun, identifyProjectHost, checkCandidateForRun
<1>2. disk \in Data /\ loaded \in Data /\ SameRows(disk, loaded)
    BY NormalizeIs DEF TypeOK
<1>3. /\ d \in Data /\ p \in d.projects /\ d.hostProjects = loaded.hostProjects
      /\ d.projects = disk.projects \cup {p}
      /\ \A q \in ProjectNames : (path => q # p) => d.host[q] = disk.host[q] /\ SameProject(disk, d, q)
      /\ path => d.host[p] = None
  <2>1. CASE path
    <3>1. d = AddProject(loaded, Exact(p))
        BY <2>1 DEF buildProjectInfo
    <3>2. /\ d \in Data /\ Blank(loaded, d, p) /\ d.projects = loaded.projects \cup {p}
          /\ \A q \in ProjectNames \ {p} : SameProject(loaded, d, q)
        BY <1>2, <3>1, ProjectRowIs, ProjectRowView
    <3>3. \A q : SameProject(disk, loaded, q)
        BY <1>2, SameView
    <3> QED
        BY <1>2, <2>1, <3>2, <3>3 DEF Blank, SameRows, SameProject
  <2>2. CASE ~ path
    <3>1. d = loaded /\ p \in loaded.projects
        BY <1>1, <2>2 DEF buildProjectInfo
    <3>2. \A q : SameProject(disk, loaded, q)
        BY <1>2, SameView
    <3> HIDE DEF loaded, d
    <3> QED
        BY <1>2, <2>2, <3>1, <3>2 DEF SameRows
  <2> QED
      BY <2>1, <2>2
<1> HIDE DEF d, loaded
<1>4. desired \in HostNames \cup {None}
    BY <1>3, NoneAssumption DEF GetDefaultHostName, Data
<1> HIDE DEF desired
<1>5. h \in HostNames /\ (d.host[p] # None => h = d.host[p])
    BY <1>1, <1>3, <1>4, LocalhostAssumption DEF MayTarget, Data
<1> HIDE DEF h
<1>6. /\ placed \in Data /\ placed.projects = d.projects /\ placed.hostProjects = d.hostProjects
      /\ \A q \in ProjectNames : placed.host[q] = IF q = p THEN h ELSE d.host[q]
      /\ Rows(placed, p) = Rows(d, p)
      /\ \A q \in ProjectNames \ {p} : SameProject(d, placed, q)
  <2>1. d \in Data /\ p \in d.projects /\ h \in HostNames
      BY <1>3, <1>5
  <2>2. /\ placed \in Data /\ placed.projects = d.projects /\ placed.hostProjects = d.hostProjects
        /\ \A q \in ProjectNames : placed.host[q] = IF q = p THEN h ELSE d.host[q]
      BY <2>1, PlacedIs
  <2>3. /\ Rows(placed, p) = Rows(d, p)
        /\ \A q \in ProjectNames \ {p} : SameProject(d, placed, q)
      BY <2>1, PlacedView
  <2> QED
      BY <2>2, <2>3
<1> HIDE DEF placed
<1>7. /\ final \in Data /\ SameRows(placed, final) /\ final.hostProjects = placed.hostProjects
  <2>1. final = SetProject(placed, Exact(p)) \/ final = placed
      BY DEF ensureContext
  <2> QED
      BY <1>6, <2>1, ContextIs DEF SameRows
<1>8. \A q : SameProject(placed, final, q)
    BY <1>7, SameView
<1> HIDE DEF final
<1>9. Prepared(p, final)
  <2>1. final \in Data /\ p \in final.projects /\ Rows(final, p) = {}
      BY <1>1, <1>3, <1>6, <1>7, <1>8 DEF SameRows, SameProject
  <2>2. final.hostProjects = normalize(disk).hostProjects
      BY <1>3, <1>6, <1>7 DEF loaded
  <2>3. final.projects = disk.projects \cup {p} /\ \A q \in ProjectNames \ {p} : final.host[q] = disk.host[q]
      BY <1>3, <1>6, <1>7 DEF SameRows
  <2>4. \A q \in ProjectNames \ {p} : SameProject(disk, final, q)
      BY <1>3, <1>6, <1>8 DEF SameProject
  <2>5. p \in disk.projects => Rows(disk, p) = {} /\ disk.host[p] \in {None, final.host[p]}
    <3>1. p \in disk.projects => ~ path
        BY <1>1, <1>2 DEF SameRows
    <3>2. final.host[p] = h
        BY <1>6, <1>7 DEF SameRows
    <3> QED
        BY <1>1, <1>3, <1>5, <1>6, <3>1, <3>2 DEF SameProject
  <2>6. \A q \in ProjectNames \ {p} : q \in final.projects => q \in disk.projects
      BY <2>3
  <2>7. \A q \in disk.projects : q \in final.projects
      BY <2>3
  <2> QED
      BY <2>1, <2>2, <2>3, <2>4, <2>5, <2>6, <2>7 DEF Prepared
<1>10. Began /\ mem' = final /\ cmd' = Command("run", p, "stage")
    BY <1>1 DEF Begin, Began
<1>11. Starts("run", p, "stage", {}, FALSE, FALSE, {}, None, {})
    BY <1>10, NoListIn DEF Starts, Command, Commands, Ops
<1> QED
    BY <1>9, <1>10, <1>11

\* init and use: the projects db.json has are as they were, and a new one has
\* no containers.
LocalStep ==
    /\ cmd = Idle /\ cmd' = Idle /\ done' = Idle
    /\ UNCHANGED <<mem, agent, ssh, failed, shared, gone, quiet, commands, events>>
    /\ \E e \in Data :
          /\ disk' = normalize(e) /\ e.hostProjects = normalize(disk).hostProjects
          /\ \A q \in disk.projects : q \in e.projects /\ e.host[q] = disk.host[q] /\ SameProject(disk, e, q)
          /\ \A q \in e.projects \ disk.projects : Rows(e, q) = {}

LEMMA LocalDoes ==
    ASSUME TypeOK, NEW p \in ProjectNames, projectInit(p) \/ projectUse(p)
    PROVE  LocalStep
<1> DEFINE d == normalize(disk)
           added == AddProject(d, Exact(p))
<1>1. disk \in Data /\ d \in Data /\ SameRows(disk, d) /\ \A q : SameProject(disk, d, q)
    BY NormalizeIs, NormalizeView DEF TypeOK
<1>2. \A q \in disk.projects : q \in ProjectNames
    BY <1>1 DEF Data
<1>3. CASE projectInit(p)
  <2>1. p \notin d.projects
      BY <1>3 DEF projectInit, HasProject, normalizeProjectName, Exact
  <2>2. /\ added \in Data /\ Blank(d, added, p) /\ added.projects = d.projects \cup {p}
        /\ Rows(added, p) = {} /\ \A q \in ProjectNames \ {p} : SameProject(d, added, q)
      BY <1>1, ProjectRowIs, ProjectRowView
  <2> DEFINE e == IF added.context = None THEN SetProject(added, Exact(p)) ELSE added
  <2>3. e \in Data /\ SameRows(added, e) /\ e.hostProjects = added.hostProjects
      BY <2>2, ContextIs DEF SameRows
  <2>4. \A q : SameProject(added, e, q)
      BY <2>3, SameView
  <2>5. /\ disk' = normalize(e) /\ cmd = Idle /\ done' = Idle
        /\ UNCHANGED <<mem, cmd, agent, ssh, failed, shared, gone, quiet, commands, events>>
      BY <1>3 DEF projectInit, World
  <2> HIDE DEF e, added
  <2>6. \A q \in disk.projects : q \in e.projects /\ e.host[q] = disk.host[q] /\ SameProject(disk, e, q)
      BY <1>1, <1>2, <2>1, <2>2, <2>3, <2>4 DEF SameRows, Blank, SameProject
  <2>7. e.hostProjects = d.hostProjects
      BY <2>2, <2>3 DEF Blank
  <2>8. \A q \in e.projects \ disk.projects : Rows(e, q) = {}
      BY <1>1, <2>2, <2>3, <2>4 DEF SameRows, SameProject
  <2> QED
      BY <2>3, <2>5, <2>6, <2>7, <2>8 DEF LocalStep
<1>4. CASE projectUse(p)
  <2> DEFINE e == SetProject(d, Exact(p))
  <2>1. e \in Data /\ SameRows(d, e) /\ e.hostProjects = d.hostProjects
      BY <1>1, ContextIs
  <2>2. \A q : SameProject(d, e, q)
      BY <2>1, SameView
  <2>3. /\ disk' = normalize(e) /\ cmd = Idle /\ done' = Idle
        /\ UNCHANGED <<mem, cmd, agent, ssh, failed, shared, gone, quiet, commands, events>>
      BY <1>4 DEF projectUse, World
  <2> HIDE DEF e
  <2>4. \A q \in disk.projects : q \in e.projects /\ e.host[q] = disk.host[q] /\ SameProject(disk, e, q)
      BY <1>1, <2>1, <2>2 DEF SameRows, SameProject
  <2>5. e.projects = disk.projects
      BY <1>1, <2>1 DEF SameRows
  <2> QED
      BY <2>1, <2>3, <2>4, <2>5 DEF LocalStep
<1> QED
    BY <1>3, <1>4

\* run begins.
RunStart ==
    \E p \in ProjectNames :
        Began /\ Prepared(p, mem') /\ Starts("run", p, "stage", {}, FALSE, FALSE, {}, None, {})

\* A command on the containers of a project, or of every project, begins.
LoopStarts(op, p, pc, rest, new) ==
    /\ Began /\ mem' = normalize(disk)
    /\ Starts(op, p, pc, Rows(disk, p), FALSE, FALSE, rest, new, {})
    /\ pc = IF op \in {"start", "stop"} THEN "list" ELSE "synclist"
    /\ p \notin rest
    /\ op # "sync" => rest = {}
    /\ op = "rename" => new # None

LoopStart ==
    \E op \in {"start", "stop", "sync", "rename"}, pc \in {"list", "synclist"}, p \in disk.projects,
       rest \in SUBSET disk.projects, new \in NewNames \cup {None} : LoopStarts(op, p, pc, rest, new)

\* A command that removes containers begins.
ClearStarts(op, p, rest, force) ==
    /\ Began /\ mem' = normalize(disk)
    /\ Starts(op, p, "clear", {}, force, FALSE, rest, None, Had(disk, p))
    /\ p \notin rest
    /\ op # "delete" => rest = {} /\ ~ force

ClearStart ==
    \E op \in Removing, p \in disk.projects, rest \in SUBSET disk.projects, force \in BOOLEAN :
        ClearStarts(op, p, rest, force)

\* The beginnings are of these four kinds.
LEMMA BeginsDo ==
    ASSUME TypeOK, BeginCommand
    PROVE  LocalStep \/ RunStart \/ LoopStart \/ ClearStart
<1> DEFINE d == normalize(disk)
<1>1. disk \in Data /\ d.projects = disk.projects /\ \A q : Rows(d, q) = Rows(disk, q)
    BY NormalizeIs, NormalizeView DEF TypeOK, SameRows, SameProject
<1> HIDE DEF d
<1>2. ASSUME NEW p \in ProjectNames, projectInit(p) \/ projectUse(p) PROVE LocalStep
    BY <1>2, LocalDoes
<1>3. ASSUME NEW p \in ProjectNames, NEW target \in HostNames \cup {None}, NEW path \in BOOLEAN,
             projectRun(p, target, path)
      PROVE  RunStart
    BY <1>3, RunDoes DEF RunStart
<1>4. ASSUME NEW p \in ProjectNames, NEW op \in {"start", "stop", "sync"}, NEW pc \in {"list", "synclist"},
             pc = IF op \in {"start", "stop"} THEN "list" ELSE "synclist", OnContainers(op, p, pc)
      PROVE  LoopStart
  <2>1. /\ p \in disk.projects /\ Began /\ mem' = normalize(disk)
        /\ cmd' = [Command(op, p, pc) EXCEPT !.names = Rows(disk, p)]
      BY <1>1, <1>4 DEF OnContainers, Begin, Began, d
  <2>2. Rows(disk, p) \in SUBSET ContainerNames
      BY RowsIn
  <2>3. Starts(op, p, pc, Rows(disk, p), FALSE, FALSE, {}, None, {})
      BY <2>1, <2>2, NoListIn DEF Starts, Command, Commands, Ops
  <2>4. LoopStarts(op, p, pc, {}, None)
      BY <1>4, <2>1, <2>3 DEF LoopStarts
  <2> QED
      BY <2>1, <2>4 DEF LoopStart
<1>5. ASSUME projectSyncAll PROVE LoopStart
  <2>1. PICK p \in {q \in d.projects : Rows(d, q) # {}} :
            Begin([syncCommand(p, Rows(d, p)) EXCEPT
                     !.rest = {q \in d.projects : Rows(d, q) # {}} \ {p}], d)
      BY <1>5 DEF projectSyncAll, d
  <2> DEFINE rest == {q \in d.projects : Rows(d, q) # {}} \ {p}
  <2>2. /\ p \in disk.projects /\ p \in ProjectNames /\ rest \in SUBSET disk.projects /\ p \notin rest
        /\ rest \in SUBSET ProjectNames
      BY <1>1, <2>1 DEF Data
  <2> HIDE DEF rest
  <2>3. /\ Began /\ mem' = normalize(disk)
        /\ cmd' = [syncCommand(p, Rows(disk, p)) EXCEPT !.rest = rest]
      BY <1>1, <2>1 DEF Begin, Began, d, rest
  <2>4. Rows(disk, p) \in SUBSET ContainerNames
      BY RowsIn
  <2>5. Starts("sync", p, "synclist", Rows(disk, p), FALSE, FALSE, rest, None, {})
      BY <2>2, <2>3, <2>4, NoListIn DEF Starts, syncCommand, Command, Commands, Ops
  <2>6. LoopStarts("sync", p, "synclist", rest, None)
      BY <2>2, <2>3, <2>5 DEF LoopStarts
  <2> QED
      BY <2>2, <2>6 DEF LoopStart
<1>6. ASSUME NEW p \in ProjectNames, NEW op \in Removing \ {"delete"}, Clearing(op, p) PROVE ClearStart
  <2>1. /\ p \in disk.projects /\ Began /\ mem' = normalize(disk)
        /\ cmd' = [Command(op, p, "clear") EXCEPT !.had = Had(disk, p)]
      BY <1>6 DEF Clearing, Begin, Began
  <2>2. Had(disk, p) \in SUBSET (HostNames \X ContainerNames)
      BY <1>1, HadIn
  <2>3. Starts(op, p, "clear", {}, FALSE, FALSE, {}, None, Had(disk, p))
      BY <2>1, <2>2, NoListIn DEF Starts, Command, Commands, Ops, Removing
  <2>4. ClearStarts(op, p, {}, FALSE)
      BY <2>1, <2>3 DEF ClearStarts
  <2> QED
      BY <2>1, <2>4 DEF ClearStart
<1>7. ASSUME NEW p \in ProjectNames, NEW new \in NewNames, projectRename(p, new) PROVE LoopStart
  <2>1. p \in disk.projects /\ Began /\ mem' = normalize(disk)
      BY <1>1, <1>7 DEF projectRename, Begin, Began, d
  <2>2. cmd' = [Command("rename", p, "synclist") EXCEPT !.names = Rows(disk, p), !.new = new]
      BY <1>1, <1>7 DEF projectRename, Begin, d
  <2>3. Rows(disk, p) \in SUBSET ContainerNames /\ new # None
      BY RowsIn, NamesAssumption, AbsenceAssumption
  <2>4. Starts("rename", p, "synclist", Rows(disk, p), FALSE, FALSE, {}, new, {})
      BY <2>2, <2>3, NoListIn DEF Starts, Command, Commands, Ops
  <2>5. LoopStarts("rename", p, "synclist", {}, new)
      BY <2>1, <2>3, <2>4 DEF LoopStarts
  <2> QED
      BY <2>1, <2>5 DEF LoopStart
<1>8. ASSUME NEW p \in disk.projects, NEW force \in BOOLEAN, NEW rest \in SUBSET disk.projects, p \notin rest,
             Begin([Command("delete", p, "clear") EXCEPT
                      !.force = force, !.rest = rest, !.had = Had(disk, p)], normalize(disk))
      PROVE  ClearStart
  <2>1. /\ Began /\ mem' = normalize(disk)
        /\ cmd' = [Command("delete", p, "clear") EXCEPT !.force = force, !.rest = rest, !.had = Had(disk, p)]
      BY <1>8 DEF Begin, Began
  <2>2. p \in ProjectNames /\ rest \in SUBSET ProjectNames
      BY <1>1 DEF Data
  <2>3. Had(disk, p) \in SUBSET (HostNames \X ContainerNames)
      BY <1>1, <2>2, HadIn
  <2>4. Starts("delete", p, "clear", {}, force, FALSE, rest, None, Had(disk, p))
      BY <2>1, <2>2, <2>3, NoListIn DEF Starts, Command, Commands, Ops
  <2>5. ClearStarts("delete", p, rest, force)
      BY <1>8, <2>1, <2>4 DEF ClearStarts
  <2> QED
      BY <2>5 DEF ClearStart, Removing
<1>9. ASSUME NEW p \in ProjectNames, NEW force \in BOOLEAN, projectDelete(p, force) PROVE ClearStart
  <2>1. /\ Began /\ mem' = normalize(disk) /\ p \in disk.projects
        /\ cmd' = [Command("delete", p, "clear") EXCEPT !.force = force, !.had = Had(disk, p)]
      BY <1>9 DEF projectDelete, Begin, Began
  <2>2. Had(disk, p) \in SUBSET (HostNames \X ContainerNames)
      BY <1>1, HadIn
  <2>3. Starts("delete", p, "clear", {}, force, FALSE, {}, None, Had(disk, p))
      BY <2>1, <2>2, NoListIn DEF Starts, Command, Commands, Ops
  <2>4. ClearStarts("delete", p, {}, force)
      BY <2>1, <2>3 DEF ClearStarts
  <2> QED
      BY <2>1, <2>4 DEF ClearStart, Removing
<1>10. ASSUME NEW force \in BOOLEAN, projectDeleteAll(force) PROVE ClearStart
  <2>1. PICK p \in disk.projects :
            Begin([Command("delete", p, "clear") EXCEPT
                     !.force = force, !.rest = disk.projects \ {p}, !.had = Had(disk, p)], normalize(disk))
      BY <1>10 DEF projectDeleteAll
  <2> DEFINE rest == disk.projects \ {p}
  <2>2. rest \in SUBSET disk.projects /\ p \notin rest
      OBVIOUS
  <2>3. Begin([Command("delete", p, "clear") EXCEPT
                 !.force = force, !.rest = rest, !.had = Had(disk, p)], normalize(disk))
      BY <2>1
  <2> HIDE DEF rest
  <2> QED
      BY <1>8, <2>2, <2>3
<1> QED
    BY <1>2, <1>3, <1>4, <1>5, <1>6, <1>7, <1>9, <1>10
    DEF BeginCommand, projectStart, projectStop, projectSync, projectClear, projectDrain, projectRebuild, Removing

(***************************************************************************)
(* What each step of a running command does.                               *)
(***************************************************************************)
\* The command goes on: nothing is saved yet.
Goes == UNCHANGED <<disk, done, failed, shared>>

\* Nothing happens on the agents or in the ssh config.
Apart == UNCHANGED <<agent, ssh, World>>

\* The copy of the command, but for rows of its project that are dropped.
Cut(d) ==
    /\ d \in Data /\ d.projects = mem.projects /\ d.host = mem.host /\ d.hostProjects = mem.hostProjects
    /\ \A q \in ProjectNames : projectAgentHost(d, q) = projectAgentHost(mem, q)
    /\ Rows(d, cmd.p) \subseteq Rows(mem, cmd.p)
    /\ \A c \in Rows(d, cmd.p) : d.containers[cmd.p][c] = mem.containers[cmd.p][c]
    /\ \A q \in ProjectNames \ {cmd.p} : SameProject(mem, d, q)

\* The copy on which a synchronization ends, without what it misses.
Absent == IF cmd.drop THEN {c \in cmd.names : cmd.listed[c] = None} ELSE {}
Synced == RemoveProjectContainers(mem, cmd.p, Absent)

\* An error ends the command, or delete's work on one project.
ErrorEnds(d) == IF cmd.op = "delete" THEN DeleteEnds(FALSE, d) ELSE Fail

LEMMA Running ==
    ASSUME TypeOK, cmd # Idle
    PROVE  cmd \in Commands
    BY DEF TypeOK

\* The fields of a command have their types.
LEMMA FieldsIn ==
    ASSUME cmd \in Commands
    PROVE  /\ cmd.op \in Ops /\ cmd.p \in ProjectNames /\ cmd.rest \in SUBSET ProjectNames
           /\ cmd.todo \in SUBSET ContainerNames /\ cmd.names \in SUBSET ContainerNames
           /\ cmd.listed \in [ContainerNames -> Statuses \cup {None}]
           /\ cmd.drop \in BOOLEAN /\ cmd.errs \in BOOLEAN
           /\ cmd.force \in BOOLEAN /\ cmd.report \in BOOLEAN
           /\ cmd.new \in NewNames \cup {None}
           /\ cmd.had \in SUBSET (HostNames \X ContainerNames)
    BY DEF Commands

LEMMA CutIs ==
    ASSUME TypeOK, cmd \in Commands
    PROVE  Cut(mem) /\ Cut(Synced) /\ Rows(Synced, cmd.p) = Rows(mem, cmd.p) \ Absent
    BY FieldsIn, DroppedView DEF TypeOK, Cut, Synced, SameProject

LEMMA ClearMainDoes ==
    ASSUME TypeOK, projectClearMain
    PROVE  /\ cmd \in Commands /\ cmd.pc = "clear" /\ Apart
           /\ LET names == Rows(mem, cmd.p) \cup (IF cmd.op = "rebuild" THEN {DeployName[cmd.p]} ELSE {}) IN
              \/ names = {} /\ ClearEnds(mem)
              \/ Goes /\ mem' = mem /\ Moves("list", cmd.todo, cmd.listed, names, cmd.drop, cmd.errs)
<1> DEFINE names == Rows(mem, cmd.p) \cup (IF cmd.op = "rebuild" THEN {DeployName[cmd.p]} ELSE {})
<1>1. /\ cmd \in Commands /\ cmd.pc = "clear" /\ Apart
      /\ IF names = {} THEN ClearEnds(mem) ELSE Goto([cmd EXCEPT !.pc = "list", !.names = names], mem)
    BY Running DEF projectClearMain, Apart
<1>2. names \in SUBSET ContainerNames
    BY <1>1, FieldsIn, RowsIn, NamesAssumption
<1> HIDE DEF names
<1>3. ASSUME Goto([cmd EXCEPT !.pc = "list", !.names = names], mem)
      PROVE  Goes /\ mem' = mem /\ Moves("list", cmd.todo, cmd.listed, names, cmd.drop, cmd.errs)
    BY <1>1, <1>2, <1>3 DEF Goto, Goes, Moves, Commands
<1>4. \/ names = {} /\ ClearEnds(mem)
      \/ Goto([cmd EXCEPT !.pc = "list", !.names = names], mem)
    BY <1>1
<1> QED
    BY <1>1, <1>3, <1>4 DEF names

\* What the agent reports.
Listing == [c \in ContainerNames |-> IF OnAgent[c] = None THEN None ELSE OnAgent[c].status]

LEMMA OnAgentIn ==
    ASSUME TypeOK, cmd \in Commands
    PROVE  /\ Target \in HostNames /\ OnAgent = agent[Target]
           /\ OnAgent \in [ContainerNames -> Containers \cup {None}]
           /\ Listing \in [ContainerNames -> Statuses \cup {None}]
<1>1. Target \in HostNames /\ OnAgent = agent[Target]
    BY FieldsIn, AgentHostIn DEF TypeOK, Target, OnAgent
<1>2. OnAgent \in [ContainerNames -> Containers \cup {None}]
    BY <1>1 DEF TypeOK
<1> QED
    BY <1>1, <1>2 DEF Listing, Containers

LEMMA ListDoes ==
    ASSUME TypeOK, ListContainers
    PROVE  /\ cmd \in Commands /\ cmd.pc \in {"list", "synclist"} /\ Apart /\ Goes /\ mem' = mem
           /\ Moves(IF cmd.pc = "synclist" THEN "sync"
                    ELSE IF cmd.op \in {"start", "stop"} THEN "change" ELSE "delete",
                    cmd.names, Listing, cmd.names, cmd.drop, cmd.errs)
<1> DEFINE pc == IF cmd.pc = "synclist" THEN "sync"
                 ELSE IF cmd.op \in {"start", "stop"} THEN "change" ELSE "delete"
<1>1. /\ cmd \in Commands /\ cmd.pc \in {"list", "synclist"} /\ Apart
      /\ Goto([cmd EXCEPT !.listed = Listing, !.todo = cmd.names, !.pc = pc], mem)
    BY Running DEF ListContainers, Listing, Apart
<1>2. Listing \in [ContainerNames -> Statuses \cup {None}] /\ cmd.names \in SUBSET ContainerNames
    BY <1>1, OnAgentIn, FieldsIn
<1>3. pc \in {"sync", "change", "delete"}
    OBVIOUS
<1> HIDE DEF pc
<1>4. Goes /\ mem' = mem /\ Moves(pc, cmd.names, Listing, cmd.names, cmd.drop, cmd.errs)
    BY <1>1, <1>2, <1>3 DEF Goto, Goes, Moves, Commands
<1> QED
    BY <1>1, <1>4 DEF pc

LEMMA CallFailsDoes ==
    ASSUME TypeOK, CallFails
    PROVE  /\ cmd \in Commands /\ cmd.pc \in {"list", "synclist", "sync", "stage"} /\ Apart
           /\ ErrorEnds(mem)
    BY Running DEF CallFails, CommandError, ErrorEnds, Apart

LEMMA SkipDeleteDoes ==
    ASSUME TypeOK, SkipDelete
    PROVE  /\ cmd \in Commands /\ cmd.pc = "delete" /\ Apart /\ Goes /\ mem' = mem
           /\ \E c \in cmd.todo : cmd.listed[c] = None /\
                 Moves("delete", cmd.todo \ {c}, cmd.listed, cmd.names \ {c}, cmd.drop, cmd.errs)
<1>1. PICK c \in cmd.todo : cmd.listed[c] = None /\
          Goto([cmd EXCEPT !.todo = @ \ {c}, !.names = @ \ {c}], mem)
    BY DEF SkipDelete
<1>2. cmd \in Commands /\ cmd.pc = "delete" /\ Apart
    BY Running DEF SkipDelete, Apart
<1>3. Goes /\ mem' = mem /\ Moves("delete", cmd.todo \ {c}, cmd.listed, cmd.names \ {c}, cmd.drop, cmd.errs)
    BY <1>1, <1>2 DEF Goto, Goes, Moves, Commands
<1> QED
    BY <1>1, <1>2, <1>3

\* One container of the agent the command talks to has become k.
Sets(c, k) ==
    /\ agent' \in [HostNames -> [ContainerNames -> Containers \cup {None}]]
    /\ \A h \in HostNames : \A b \in ContainerNames :
          agent'[h][b] = IF h = Target /\ b = c THEN k ELSE agent[h][b]

LEMMA SetOnAgentDoes ==
    ASSUME TypeOK, cmd \in Commands, NEW c \in ContainerNames, NEW k \in Containers \cup {None},
           SetOnAgent(c, k)
    PROVE  Sets(c, k)
<1>1. Target \in HostNames /\ agent' = [agent EXCEPT ![Target] = [agent[Target] EXCEPT ![c] = k]]
    BY OnAgentIn DEF SetOnAgent, Target
<1> QED
    BY <1>1 DEF TypeOK, Sets

LEMMA DeleteContainerDoes ==
    ASSUME TypeOK, DeleteContainer
    PROVE  /\ cmd \in Commands /\ cmd.pc = "delete" /\ UNCHANGED <<ssh, World>> /\ Goes /\ mem' = mem
           /\ \E c \in cmd.todo, ok \in BOOLEAN :
                 /\ cmd.listed[c] # None
                 /\ (UNCHANGED agent /\ ~ ok) \/ Sets(c, None)
                 /\ Moves("delete", cmd.todo \ {c}, cmd.listed, cmd.names, cmd.drop, cmd.errs \/ ~ ok)
<1>1. PICK c \in cmd.todo, ok \in BOOLEAN, effect \in BOOLEAN :
          /\ cmd.listed[c] # None
          /\ ok => effect
          /\ IF effect THEN SetOnAgent(c, None) ELSE UNCHANGED agent
          /\ Goto([cmd EXCEPT !.todo = @ \ {c}, !.errs = @ \/ ~ ok], mem)
    BY DEF DeleteContainer
<1>2. cmd \in Commands /\ cmd.pc = "delete" /\ UNCHANGED <<ssh, World>>
    BY Running DEF DeleteContainer
<1>3. (UNCHANGED agent /\ ~ ok) \/ Sets(c, None)
    BY <1>1, <1>2, FieldsIn, SetOnAgentDoes
<1>4. Goes /\ mem' = mem /\ Moves("delete", cmd.todo \ {c}, cmd.listed, cmd.names, cmd.drop, cmd.errs \/ ~ ok)
  <2> DEFINE errs == cmd.errs \/ ~ ok
             left == cmd.todo \ {c}
  <2>1. errs \in BOOLEAN /\ left \in SUBSET ContainerNames
      BY <1>2, FieldsIn
  <2>2. Goto([cmd EXCEPT !.todo = left, !.errs = errs], mem)
      BY <1>1
  <2> HIDE DEF errs, left
  <2>3. Goes /\ mem' = mem /\ Moves("delete", left, cmd.listed, cmd.names, cmd.drop, errs)
      BY <1>2, <2>1, <2>2 DEF Goto, Goes, Moves, Commands
  <2> QED
      BY <2>3 DEF errs, left
<1> QED
    BY <1>1, <1>2, <1>3, <1>4

LEMMA DeletesDoneDoes ==
    ASSUME TypeOK, DeletesDone
    PROVE  /\ cmd \in Commands /\ cmd.pc = "delete" /\ cmd.todo = {} /\ Apart
           /\ \/ cmd.names = {} /\ ClearEnds(mem)
              \/ Goes /\ mem' = mem /\ Moves("synclist", cmd.todo, NoList, cmd.names, TRUE, cmd.errs)
<1>1. /\ cmd \in Commands /\ cmd.pc = "delete" /\ cmd.todo = {} /\ Apart
      /\ \/ cmd.names = {} /\ ClearEnds(mem)
         \/ Goto([cmd EXCEPT !.pc = "synclist", !.drop = TRUE, !.listed = NoList], mem)
    BY Running DEF DeletesDone, Apart
<1>2. ASSUME Goto([cmd EXCEPT !.pc = "synclist", !.drop = TRUE, !.listed = NoList], mem)
      PROVE  Goes /\ mem' = mem /\ Moves("synclist", cmd.todo, NoList, cmd.names, TRUE, cmd.errs)
    BY <1>1, <1>2, NoListIn DEF Goto, Goes, Moves, Commands
<1> QED
    BY <1>1, <1>2

LEMMA ChangeDoes ==
    ASSUME TypeOK, ChangeContainer
    PROVE  /\ cmd \in Commands /\ cmd.pc = "change" /\ UNCHANGED <<ssh, World>>
           /\ \E c \in cmd.todo :
                 /\ \/ cmd.listed[c] = Wanted /\ UNCHANGED agent
                    \/ cmd.listed[c] # Wanted /\ UNCHANGED agent /\ ErrorEnds(mem)
                    \/ OnAgent[c] # None /\ Sets(c, [OnAgent[c] EXCEPT !.status = Wanted])
                 /\ \/ ErrorEnds(mem)
                    \/ Goes /\ mem' = mem /\
                       Moves(IF cmd.todo = {c} THEN "synclist" ELSE "change", cmd.todo \ {c},
                             IF cmd.todo = {c} THEN NoList ELSE cmd.listed, cmd.names, cmd.drop, cmd.errs)
<1>1. PICK c \in cmd.todo :
          \/ cmd.listed[c] = Wanted /\ Changed(c) /\ UNCHANGED agent
          \/ /\ cmd.listed[c] \notin {Wanted, None}
             /\ OnAgent[c] # None
             /\ SetOnAgent(c, [OnAgent[c] EXCEPT !.status = Wanted])
             /\ Changed(c) \/ CommandError
          \/ cmd.listed[c] # Wanted /\ CommandError /\ UNCHANGED agent
    BY DEF ChangeContainer
<1>2. cmd \in Commands /\ cmd.pc = "change" /\ UNCHANGED <<ssh, World>>
    BY Running DEF ChangeContainer
<1>3. c \in ContainerNames
    BY <1>2, FieldsIn
<1>4. ASSUME OnAgent[c] # None, SetOnAgent(c, [OnAgent[c] EXCEPT !.status = Wanted])
      PROVE  Sets(c, [OnAgent[c] EXCEPT !.status = Wanted])
  <2>1. OnAgent[c] \in Containers
      BY <1>2, <1>3, <1>4, OnAgentIn
  <2>2. [OnAgent[c] EXCEPT !.status = Wanted] \in Containers
      BY <2>1 DEF Containers, Statuses, Wanted
  <2> QED
      BY <1>2, <1>3, <1>4, <2>2, SetOnAgentDoes
<1>5. ASSUME Changed(c)
      PROVE  Goes /\ mem' = mem /\
             Moves(IF cmd.todo = {c} THEN "synclist" ELSE "change", cmd.todo \ {c},
                   IF cmd.todo = {c} THEN NoList ELSE cmd.listed, cmd.names, cmd.drop, cmd.errs)
  <2> DEFINE pc == IF cmd.todo = {c} THEN "synclist" ELSE "change"
             listed == IF cmd.todo = {c} THEN NoList ELSE cmd.listed
             left == cmd.todo \ {c}
  <2>1. /\ pc \in {"synclist", "change"} /\ left \in SUBSET ContainerNames
        /\ listed \in [ContainerNames -> Statuses \cup {None}]
      BY <1>2, FieldsIn, NoListIn
  <2>2. Goto([cmd EXCEPT !.todo = left, !.pc = pc, !.listed = listed], mem)
      BY <1>2, <1>5 DEF Changed
  <2> HIDE DEF pc, listed, left
  <2>3. Goes /\ mem' = mem /\ Moves(pc, left, listed, cmd.names, cmd.drop, cmd.errs)
      BY <1>2, <2>1, <2>2 DEF Goto, Goes, Moves, Commands
  <2> QED
      BY <2>3 DEF pc, listed, left
<1>6. CommandError => ErrorEnds(mem)
    BY DEF CommandError, ErrorEnds
<1> QED
    BY <1>1, <1>2, <1>4, <1>5, <1>6

LEMMA SyncDoes ==
    ASSUME TypeOK, SyncContainer
    PROVE  /\ cmd \in Commands /\ cmd.pc = "sync" /\ UNCHANGED <<agent, World>> /\ Goes
           /\ \E c \in cmd.todo, port \in BOOLEAN :
                 /\ cmd.listed[c] \in Statuses
                 /\ [status |-> cmd.listed[c], port |-> port] \in ContainerInfos
                 /\ mem' = UpsertProjectContainer(mem, cmd.p, c, [status |-> cmd.listed[c], port |-> port])
                 /\ upsertProjectContainerSSHConfig(c, port)
                 /\ Moves("sync", cmd.todo \ {c}, cmd.listed, cmd.names, cmd.drop, cmd.errs)
<1>1. PICK c \in cmd.todo, got \in BOOLEAN :
          /\ cmd.listed[c] # None
          /\ got => OnAgent[c] # None
          /\ LET port == got /\ OnAgent[c].port IN
             /\ Goto([cmd EXCEPT !.todo = @ \ {c}],
                     UpsertProjectContainer(mem, cmd.p, c, [status |-> cmd.listed[c], port |-> port]))
             /\ upsertProjectContainerSSHConfig(c, port)
    BY DEF SyncContainer
<1> DEFINE port == got /\ OnAgent[c].port
<1>2. cmd \in Commands /\ cmd.pc = "sync" /\ UNCHANGED <<agent, World>>
    BY Running DEF SyncContainer
<1>3. c \in ContainerNames /\ cmd.listed[c] \in Statuses
    BY <1>1, <1>2, FieldsIn
<1>4. port \in BOOLEAN
    OBVIOUS
<1>5. /\ Goto([cmd EXCEPT !.todo = @ \ {c}],
              UpsertProjectContainer(mem, cmd.p, c, [status |-> cmd.listed[c], port |-> port]))
      /\ upsertProjectContainerSSHConfig(c, port)
    BY <1>1
<1> HIDE DEF port
<1>6. /\ Goes /\ Moves("sync", cmd.todo \ {c}, cmd.listed, cmd.names, cmd.drop, cmd.errs)
      /\ mem' = UpsertProjectContainer(mem, cmd.p, c, [status |-> cmd.listed[c], port |-> port])
    BY <1>2, <1>5 DEF Goto, Goes, Moves, Commands
<1>7. [status |-> cmd.listed[c], port |-> port] \in ContainerInfos
    BY <1>3, <1>4, InfosAssumption
<1> QED
    BY <1>2, <1>3, <1>4, <1>5, <1>6, <1>7

\* A command succeeds with d.
LEMMA SucceedDoes ==
    ASSUME cmd \in Commands, NEW d \in Data, Succeed(d)
    PROVE  Saves(d) /\ shared' = (shared \/ NameShared(d)) /\ UNCHANGED failed
    BY DEF Succeed, Saves

LEMMA SyncEndsDoes ==
    ASSUME TypeOK, SyncEnds
    PROVE  /\ cmd \in Commands /\ cmd.pc = "sync" /\ UNCHANGED <<agent, World>>
           /\ \A c \in cmd.todo : cmd.listed[c] = None
           /\ ssh' = ssh \ Absent
           /\ \/ cmd.op \in {"start", "stop", "sync"} /\ Succeed(Synced)
              \/ /\ cmd.op = "sync" /\ Goes /\ mem' = Synced
                 /\ \E q \in cmd.rest :
                       Starts("sync", q, "synclist", Rows(Synced, q), FALSE, FALSE, cmd.rest \ {q}, None, {})
              \/ /\ cmd.op = "rename" /\ Goes /\ mem' = Synced
                 /\ Starts("rename", cmd.p, "rename", {}, FALSE, FALSE, {}, cmd.new, {})
              \/ cmd.drop /\ ~ cmd.errs /\ ClearEnds(Synced)
              \/ cmd.drop /\ cmd.errs /\ ErrorEnds(Synced)
<1>1. /\ cmd \in Commands /\ cmd.pc = "sync" /\ UNCHANGED <<agent, World>>
      /\ \A c \in cmd.todo : cmd.listed[c] = None
      /\ ssh' = ssh \ Absent
    BY Running DEF SyncEnds, Absent, removeManagedSSHHostEntry
<1>2. \/ cmd.op \in {"start", "stop"} /\ Succeed(Synced)
      \/ cmd.op = "sync" /\ Succeed(Synced)
      \/ /\ cmd.op = "sync"
         /\ \E q \in cmd.rest :
               Goto([syncCommand(q, Rows(Synced, q)) EXCEPT !.rest = cmd.rest \ {q}], Synced)
      \/ /\ cmd.op = "rename"
         /\ Goto([Command("rename", cmd.p, "rename") EXCEPT !.new = cmd.new], Synced)
      \/ cmd.drop /\ ~ cmd.errs /\ ClearEnds(Synced)
      \/ cmd.drop /\ cmd.errs /\ ErrorEnds(Synced)
    BY DEF SyncEnds, Absent, Synced, ErrorEnds
<1>3. ASSUME NEW q \in cmd.rest,
             Goto([syncCommand(q, Rows(Synced, q)) EXCEPT !.rest = cmd.rest \ {q}], Synced)
      PROVE  /\ Goes /\ mem' = Synced
             /\ Starts("sync", q, "synclist", Rows(Synced, q), FALSE, FALSE, cmd.rest \ {q}, None, {})
  <2>1. /\ q \in ProjectNames /\ cmd.rest \ {q} \in SUBSET ProjectNames
        /\ Rows(Synced, q) \in SUBSET ContainerNames
      BY <1>1, FieldsIn, RowsIn
  <2> QED
      BY <1>3, <2>1, NoListIn DEF Goto, Goes, Starts, syncCommand, Command, Commands, Ops
<1>4. ASSUME Goto([Command("rename", cmd.p, "rename") EXCEPT !.new = cmd.new], Synced)
      PROVE  /\ Goes /\ mem' = Synced
             /\ Starts("rename", cmd.p, "rename", {}, FALSE, FALSE, {}, cmd.new, {})
    BY <1>1, <1>4, FieldsIn, NoListIn DEF Goto, Goes, Starts, Command, Commands, Ops
<1> QED
    BY <1>1, <1>2, <1>3, <1>4

LEMMA ClearEndsDoes ==
    ASSUME TypeOK, cmd \in Commands, NEW d \in Data, ClearEnds(d)
    PROVE  \/ cmd.op = "clear" /\ Saves(d) /\ shared' = (shared \/ NameShared(d)) /\ UNCHANGED failed
           \/ /\ cmd.op = "drain" /\ UNCHANGED failed
              /\ LET e == RemoveHostAndContainersFromProject(unregisterFromHost(d, cmd.p), cmd.p)
                 IN  Saves(e) /\ shared' = (shared \/ NameShared(e))
           \/ /\ cmd.op = "rebuild" /\ Goes /\ mem' = d
              /\ Starts("rebuild", cmd.p, "stage", {}, FALSE, FALSE, {}, None, {})
           \/ cmd.op = "delete" /\ DeleteEnds(TRUE, d)
<1> DEFINE e == RemoveHostAndContainersFromProject(unregisterFromHost(d, cmd.p), cmd.p)
<1>1. e \in Data
    BY FieldsIn, DrainedIs
<1> HIDE DEF e
<1>2. \/ cmd.op = "clear" /\ Succeed(d)
      \/ cmd.op = "drain" /\ Succeed(e)
      \/ cmd.op = "rebuild" /\ Goto(Command("rebuild", cmd.p, "stage"), d)
      \/ cmd.op = "delete" /\ DeleteEnds(TRUE, d)
    BY DEF ClearEnds, e
<1>3. ASSUME Goto(Command("rebuild", cmd.p, "stage"), d)
      PROVE  Goes /\ mem' = d /\ Starts("rebuild", cmd.p, "stage", {}, FALSE, FALSE, {}, None, {})
    BY <1>3, FieldsIn, NoListIn DEF Goto, Goes, Starts, Command, Commands, Ops
<1> QED
    BY <1>1, <1>2, <1>3, SucceedDoes DEF e

LEMMA StageDoes ==
    ASSUME TypeOK, stageProjectArtifacts
    PROVE  /\ cmd \in Commands /\ cmd.pc = "stage" /\ Apart /\ Goes /\ mem' = mem
           /\ Moves("deploy", cmd.todo, cmd.listed, cmd.names, cmd.drop, cmd.errs)
    BY Running DEF stageProjectArtifacts, Goto, Goes, Apart, Moves, Commands

LEMMA DeployDoes ==
    ASSUME TypeOK, DeployContainer
    PROVE  /\ cmd \in Commands /\ cmd.pc = "deploy" /\ UNCHANGED <<ssh, World>>
           /\ OnAgent[DeployName[cmd.p]] = None /\ DeployName[cmd.p] \in ContainerNames
           /\ \E port \in BOOLEAN :
                 Sets(DeployName[cmd.p], [project |-> cmd.p, status |-> "running", port |-> port])
           /\ \/ Goes /\ mem' = mem /\ Moves("inspect", cmd.todo, cmd.listed, cmd.names, cmd.drop, cmd.errs)
              \/ Fail
<1>1. /\ cmd \in Commands /\ cmd.pc = "deploy" /\ UNCHANGED <<ssh, World>>
      /\ OnAgent[DeployName[cmd.p]] = None
      /\ Goto([cmd EXCEPT !.pc = "inspect"], mem) \/ Fail
    BY Running DEF DeployContainer
<1>2. cmd.p \in ProjectNames /\ DeployName[cmd.p] \in ContainerNames
    BY <1>1, FieldsIn, NamesAssumption
<1>3. PICK port \in BOOLEAN :
          SetOnAgent(DeployName[cmd.p], [project |-> cmd.p, status |-> "running", port |-> port])
    BY DEF DeployContainer
<1>4. [project |-> cmd.p, status |-> "running", port |-> port] \in Containers
    BY <1>2 DEF Containers, Statuses
<1>5. Sets(DeployName[cmd.p], [project |-> cmd.p, status |-> "running", port |-> port])
    BY <1>1, <1>2, <1>3, <1>4, SetOnAgentDoes
<1>6. ASSUME Goto([cmd EXCEPT !.pc = "inspect"], mem)
      PROVE  Goes /\ mem' = mem /\ Moves("inspect", cmd.todo, cmd.listed, cmd.names, cmd.drop, cmd.errs)
    BY <1>1, <1>6 DEF Goto, Goes, Moves, Commands
<1> QED
    BY <1>1, <1>2, <1>5, <1>6

LEMMA RenameDoes ==
    ASSUME TypeOK, RenameContainer
    PROVE  /\ cmd \in Commands /\ cmd.pc = "rename" /\ UNCHANGED <<ssh, quiet, commands, events>>
           /\ \/ Succeed(mem) /\ UNCHANGED <<agent, gone>>
              \/ Fail /\ UNCHANGED <<agent, gone>>
              \/ /\ gone' = TRUE
                 /\ \E old \in Rows(mem, cmd.p) :
                       /\ old # cmd.new /\ OnAgent[old] # None /\ OnAgent[cmd.new] = None
                       /\ agent' = [agent EXCEPT ![Target] =
                                      [@ EXCEPT ![old] = None, ![cmd.new] = OnAgent[old]]]
                 /\ \/ Fail
                    \/ Goes /\ mem' = mem /\ Moves("renamed", cmd.todo, cmd.listed, cmd.names, cmd.drop, cmd.errs)
<1>1. cmd \in Commands /\ cmd.pc = "rename" /\ UNCHANGED <<ssh, quiet, commands, events>>
    BY Running DEF RenameContainer
<1>2. Goto([cmd EXCEPT !.pc = "renamed"], mem) =>
          Goes /\ mem' = mem /\ Moves("renamed", cmd.todo, cmd.listed, cmd.names, cmd.drop, cmd.errs)
    BY <1>1 DEF Goto, Goes, Moves, Commands
<1>3. PICK old \in Rows(mem, cmd.p) :
          \/ old = cmd.new /\ Succeed(mem) /\ UNCHANGED <<agent, gone>>
          \/ /\ old # cmd.new
             /\ OnAgent[old] # None
             /\ OnAgent[cmd.new] = None
             /\ agent' = [agent EXCEPT ![projectAgentHost(mem, cmd.p)] =
                            [@ EXCEPT ![old] = None, ![cmd.new] = OnAgent[old]]]
             /\ gone' = TRUE
             /\ Goto([cmd EXCEPT !.pc = "renamed"], mem) \/ Fail
          \/ Fail /\ UNCHANGED <<agent, gone>>
    BY DEF RenameContainer
<1> QED
    BY <1>1, <1>2, <1>3 DEF Target

\* The container of run, rebuild or rename is recorded.
LEMMA InspectDoes ==
    ASSUME TypeOK, setProjectContainerFromAgent \/ setProjectContainerFromAgentCurrentStatus
    PROVE  LET c == IF cmd.pc = "inspect" THEN DeployName[cmd.p] ELSE cmd.new IN
           /\ cmd \in Commands /\ cmd.pc \in {"inspect", "renamed"} /\ UNCHANGED <<agent, World>>
           /\ OnAgent[c] # None
           /\ upsertProjectContainerSSHConfig(c, OnAgent[c].port)
           /\ \/ Succeed(UpsertProjectContainer(mem, cmd.p, c,
                     [status |-> OnAgent[c].status, port |-> OnAgent[c].port]))
              \/ Fail
<1>1. CASE setProjectContainerFromAgent
  <2> DEFINE c == DeployName[cmd.p]
  <2>1. /\ cmd \in Commands /\ cmd.pc = "inspect" /\ UNCHANGED <<agent, World>>
        /\ OnAgent[c] # None /\ upsertProjectContainerSSHConfig(c, OnAgent[c].port)
        /\ \/ OnAgent[c].port /\ Succeed(UpsertProjectContainer(mem, cmd.p, c,
                                             [status |-> OnAgent[c].status, port |-> TRUE]))
           \/ Fail
      BY <1>1, Running DEF setProjectContainerFromAgent
  <2>2. OnAgent[c].port \in BOOLEAN
      BY <2>1, FieldsIn, NamesAssumption, OnAgentIn DEF Containers
  <2>3. OnAgent[c].port => OnAgent[c].port = TRUE
      BY <2>2
  <2> QED
      BY <2>1, <2>3
<1>2. CASE setProjectContainerFromAgentCurrentStatus
    BY <1>2, Running DEF setProjectContainerFromAgentCurrentStatus
<1> QED
    BY <1>1, <1>2

-----------------------------------------------------------------------------
(***************************************************************************)
(* The flow of control.                                                    *)
(***************************************************************************)
LEMMA Ended ==
    ASSUME cmd' = Idle
    PROVE  FlowInv'
    BY DEF FlowInv

LEMMA FlowDeleteEnds ==
    ASSUME TypeOK, FlowInv, cmd \in Commands, NEW ok \in BOOLEAN, NEW d \in Data, DeleteEnds(ok, d)
    PROVE  FlowInv'
<1>1. CASE cmd' = Idle
    BY <1>1, Ended
<1>2. CASE cmd' # Idle
  <2>1. PICK q \in cmd.rest :
            Starts("delete", q, "clear", {}, cmd.force, cmd.report \/ ~ (ok \/ cmd.force),
                   cmd.rest \ {q}, None, cmd.had \cup Had(d, q))
      BY <1>2, DeleteEndsDoes DEF Fail, Saves
  <2>2. done' = done
      BY <1>2, DeleteEndsDoes DEF Fail, Saves
  <2>3. done = Idle
      BY CommandsAre DEF FlowInv
  <2>4. /\ cmd'.op = "delete" /\ cmd'.pc = "clear" /\ cmd'.drop = FALSE
        /\ cmd'.todo = {} /\ cmd'.names = {}
      BY <2>1 DEF Starts
  <2> QED
      BY <2>2, <2>3, <2>4 DEF FlowInv, Removing
<1> QED
    BY <1>1, <1>2

LEMMA FlowErrorEnds ==
    ASSUME TypeOK, FlowInv, cmd \in Commands, NEW d \in Data, ErrorEnds(d)
    PROVE  FlowInv'
    BY FlowDeleteEnds, Ended DEF ErrorEnds, Fail

LEMMA FlowClearEnds ==
    ASSUME TypeOK, FlowInv, cmd \in Commands, NEW d \in Data, ClearEnds(d)
    PROVE  FlowInv'
<1>1. CASE cmd.op \in {"clear", "drain"}
    BY <1>1, ClearEndsDoes, Ended DEF Saves
<1>2. CASE cmd.op = "rebuild"
  <2>1. Goes /\ Starts("rebuild", cmd.p, "stage", {}, FALSE, FALSE, {}, None, {})
      BY <1>2, ClearEndsDoes
  <2>2. done = Idle
      BY CommandsAre DEF FlowInv
  <2> QED
      BY <2>1, <2>2 DEF FlowInv, Removing, Starts, Goes
<1>3. CASE cmd.op = "delete"
    BY <1>3, ClearEndsDoes, FlowDeleteEnds
<1> QED
    BY <1>1, <1>2, <1>3, ClearEndsDoes

LEMMA FlowNext ==
    ASSUME TypeOK, FlowInv, Next
    PROVE  FlowInv'
<1>0. cmd \in Commands => cmd # Idle
    BY CommandsAre
<1>1. CASE BeginCommand
  <2>1. CASE LocalStep
      BY <2>1, Ended DEF LocalStep
  <2>2. CASE RunStart
      BY <2>2 DEF RunStart, Began, Starts, FlowInv, Removing
  <2>3. CASE LoopStart
    <3>1. PICK op \in {"start", "stop", "sync", "rename"}, pc \in {"list", "synclist"}, p \in disk.projects,
             rest \in SUBSET disk.projects, new \in NewNames \cup {None} : LoopStarts(op, p, pc, rest, new)
        BY <2>3 DEF LoopStart
    <3> QED
        BY <3>1 DEF LoopStarts, Began, Starts, FlowInv, Removing
  <2>4. CASE ClearStart
    <3>1. PICK op \in Removing, p \in disk.projects, rest \in SUBSET disk.projects, force \in BOOLEAN :
              ClearStarts(op, p, rest, force)
        BY <2>4 DEF ClearStart
    <3> QED
        BY <3>1 DEF ClearStarts, Began, Starts, FlowInv, Removing
  <2> QED
      BY <1>1, <2>1, <2>2, <2>3, <2>4, BeginsDo
<1>2. CASE projectClearMain
  <2>1. CASE ClearEnds(mem)
      BY <1>2, <2>1, ClearMainDoes, FlowClearEnds DEF TypeOK
  <2>2. CASE ~ ClearEnds(mem)
      BY <1>0, <1>2, <2>2, ClearMainDoes, FieldsIn DEF Moves, Goes, FlowInv, Removing, Ops
  <2> QED
      BY <2>1, <2>2
<1>3. CASE ListContainers
    BY <1>0, <1>3, ListDoes, FieldsIn DEF Moves, Goes, FlowInv, Removing, Ops
<1>4. CASE CallFails
    BY <1>4, CallFailsDoes, FlowErrorEnds DEF TypeOK
<1>5. CASE SkipDelete
    BY <1>0, <1>5, SkipDeleteDoes DEF Moves, Goes, FlowInv
<1>6. CASE DeleteContainer
    BY <1>0, <1>6, DeleteContainerDoes DEF Moves, Goes, FlowInv
<1>7. CASE DeletesDone
  <2>1. CASE ClearEnds(mem)
      BY <1>7, <2>1, DeletesDoneDoes, FlowClearEnds DEF TypeOK
  <2>2. CASE ~ ClearEnds(mem)
      BY <1>0, <1>7, <2>2, DeletesDoneDoes, FieldsIn DEF Moves, Goes, FlowInv, Removing, Ops
  <2> QED
      BY <2>1, <2>2
<1>8. CASE ChangeContainer
  <2>1. CASE ErrorEnds(mem)
      BY <1>8, <2>1, ChangeDoes, FlowErrorEnds DEF TypeOK
  <2>2. CASE ~ ErrorEnds(mem)
      BY <1>0, <1>8, <2>2, ChangeDoes, FieldsIn DEF Moves, Goes, FlowInv, Removing, Ops
  <2> QED
      BY <2>1, <2>2
<1>9. CASE SyncContainer
    BY <1>0, <1>9, SyncDoes DEF Moves, Goes, FlowInv
<1>10. CASE SyncEnds
  <2>1. cmd \in Commands /\ Synced \in Data
      BY <1>10, SyncEndsDoes, CutIs DEF Cut
  <2>2. CASE Succeed(Synced)
      BY <2>2, Ended DEF Succeed
  <2>3. CASE ClearEnds(Synced)
      BY <2>1, <2>3, FlowClearEnds
  <2>4. CASE ErrorEnds(Synced)
      BY <2>1, <2>4, FlowErrorEnds
  <2>5. CASE ~ Succeed(Synced) /\ ~ ClearEnds(Synced) /\ ~ ErrorEnds(Synced)
      BY <1>0, <1>10, <2>1, <2>5, SyncEndsDoes DEF Starts, Goes, FlowInv, Removing
  <2> QED
      BY <2>2, <2>3, <2>4, <2>5
<1>11. CASE stageProjectArtifacts
    BY <1>0, <1>11, StageDoes, FieldsIn DEF Moves, Goes, FlowInv, Removing, Ops
<1>12. CASE DeployContainer
  <2>1. CASE cmd' = Idle
      BY <2>1, Ended
  <2>2. CASE cmd' # Idle
      BY <1>0, <1>12, <2>2, DeployDoes, FieldsIn DEF Fail, Moves, Goes, FlowInv, Removing, Ops
  <2> QED
      BY <2>1, <2>2
<1>13. CASE DeployFails
    BY <1>13, Ended DEF DeployFails, Fail
<1>14. CASE setProjectContainerFromAgent \/ setProjectContainerFromAgentCurrentStatus
    BY <1>14, InspectDoes, Ended DEF Succeed, Fail
<1>15. CASE InspectFails
    BY <1>15, Ended DEF InspectFails, Fail
<1>16. CASE RenameContainer
  <2>1. CASE cmd' = Idle
      BY <2>1, Ended
  <2>2. CASE cmd' # Idle
      BY <1>0, <1>16, <2>2, RenameDoes, FieldsIn DEF Fail, Succeed, Moves, Goes, FlowInv, Removing, Ops
  <2> QED
      BY <2>1, <2>2
<1>17. CASE Kill
    BY <1>17, Ended DEF Kill, Fail
<1>18. CASE ContainerRemoved \/ ContainerChanged
    BY <1>18 DEF ContainerRemoved, ContainerChanged, FlowInv
<1> QED
    BY <1>1, <1>2, <1>3, <1>4, <1>5, <1>6, <1>7, <1>8, <1>9, <1>10, <1>11, <1>12, <1>13, <1>14, <1>15,
       <1>16, <1>17, <1>18 DEF Next, CommandStep

-----------------------------------------------------------------------------
(***************************************************************************)
(* Type correctness, in two parts: what a command changes of its own and   *)
(* the database, and the world around it.                                  *)
(***************************************************************************)
CoreType ==
    /\ disk \in Data /\ mem \in Data
    /\ cmd \in Commands \cup {Idle}
    /\ done \in [op : Ops, p : ProjectNames, force : BOOLEAN,
                 had : SUBSET (HostNames \X ContainerNames)] \cup {Idle}
    /\ failed \in BOOLEAN /\ shared \in BOOLEAN

OuterType ==
    /\ agent \in [HostNames -> [ContainerNames -> Containers \cup {None}]]
    /\ ssh \subseteq ContainerNames
    /\ gone \in BOOLEAN /\ quiet \in BOOLEAN
    /\ commands \in 0 .. MaxCommands /\ events \in 0 .. MaxEvents

LEMMA TypeParts == TypeOK <=> CoreType /\ OuterType
    BY DEF TypeOK, CoreType, OuterType

LEMMA CoreFail ==
    ASSUME TypeOK, Fail
    PROVE  CoreType'
    BY EmptyOK DEF TypeOK, CoreType, Fail

LEMMA CoreGoes ==
    ASSUME TypeOK, Goes, mem' \in Data, cmd' \in Commands
    PROVE  CoreType'
    BY DEF TypeOK, CoreType, Goes

LEMMA CoreSaves ==
    ASSUME TypeOK, cmd \in Commands, NEW d, Saves(d), failed' \in BOOLEAN, shared' \in BOOLEAN
    PROVE  CoreType'
    BY EmptyOK, NormalizeIs, CommandsAre DEF CoreType, Saves

LEMMA CoreSucceed ==
    ASSUME TypeOK, cmd \in Commands, NEW d \in Data, Succeed(d)
    PROVE  CoreType'
<1>1. failed' \in BOOLEAN /\ shared' \in BOOLEAN
    BY DEF TypeOK, Succeed
<1> QED
    BY <1>1, SucceedDoes, CoreSaves

LEMMA CoreDeleteEnds ==
    ASSUME TypeOK, cmd \in Commands, NEW ok \in BOOLEAN, NEW d \in Data, DeleteEnds(ok, d)
    PROVE  CoreType'
<1> DEFINE removed == ok \/ cmd.force
           after == IF removed THEN DeleteProject(d, Exact(cmd.p)) ELSE d
<1>1. \/ /\ \E e : Saves(e) /\ SameRows(after, e) /\ e.hostProjects = after.hostProjects
         /\ failed' = (failed \/ ~ ok)
         /\ UNCHANGED shared
      \/ Fail
      \/ /\ \E q \in cmd.rest :
               Starts("delete", q, "clear", {}, cmd.force, cmd.report \/ ~ removed,
                      cmd.rest \ {q}, None, cmd.had \cup Had(d, q))
         /\ mem' = after
         /\ failed' = (failed \/ ~ ok)
         /\ UNCHANGED <<disk, done, shared>>
    BY DeleteEndsDoes
<1>2. after \in Data
    BY FieldsIn, ProjectRowIs
<1> HIDE DEF after, removed
<1>3. (failed \/ ~ ok) \in BOOLEAN /\ shared \in BOOLEAN
    BY DEF TypeOK
<1> QED
    BY <1>1, <1>2, <1>3, CoreFail, CoreSaves DEF Starts, CoreType, TypeOK

LEMMA CoreErrorEnds ==
    ASSUME TypeOK, cmd \in Commands, NEW d \in Data, ErrorEnds(d)
    PROVE  CoreType'
    BY CoreDeleteEnds, CoreFail DEF ErrorEnds

LEMMA CoreClearEnds ==
    ASSUME TypeOK, cmd \in Commands, NEW d \in Data, ClearEnds(d)
    PROVE  CoreType'
<1>1. CASE cmd.op = "clear"
    BY <1>1, CoreSucceed DEF ClearEnds
<1>2. CASE cmd.op = "drain"
  <2> DEFINE e == RemoveHostAndContainersFromProject(unregisterFromHost(d, cmd.p), cmd.p)
  <2>1. e \in Data
      BY FieldsIn, DrainedIs
  <2>2. Succeed(e)
      BY <1>2 DEF ClearEnds
  <2> HIDE DEF e
  <2> QED
      BY <2>1, <2>2, CoreSucceed
<1>3. CASE cmd.op = "rebuild"
    BY <1>3, ClearEndsDoes, CoreGoes DEF Starts
<1>4. CASE cmd.op = "delete"
    BY <1>4, CoreDeleteEnds DEF ClearEnds
<1> QED
    BY <1>1, <1>2, <1>3, <1>4 DEF ClearEnds

\* The container that is recorded when its inspection succeeds.
LEMMA InspectedIs ==
    ASSUME TypeOK, FlowInv, setProjectContainerFromAgent \/ setProjectContainerFromAgentCurrentStatus
    PROVE  LET c == IF cmd.pc = "inspect" THEN DeployName[cmd.p] ELSE cmd.new
               i == [status |-> OnAgent[c].status, port |-> OnAgent[c].port]
           IN  /\ c \in ContainerNames /\ i \in ContainerInfos
               /\ UpsertProjectContainer(mem, cmd.p, c, i) \in Data
               /\ cmd.pc = "renamed" => cmd.op = "rename"
<1> DEFINE c == IF cmd.pc = "inspect" THEN DeployName[cmd.p] ELSE cmd.new
           i == [status |-> OnAgent[c].status, port |-> OnAgent[c].port]
<1>1. cmd \in Commands /\ cmd.pc \in {"inspect", "renamed"} /\ OnAgent[c] # None
    BY InspectDoes
<1>2. cmd.pc = "renamed" => cmd.op = "rename" /\ cmd.new # None
    BY <1>1, CommandsAre, FieldsIn DEF FlowInv, Ops, Removing
<1>3. c \in ContainerNames
    BY <1>1, <1>2, FieldsIn, NamesAssumption
<1> HIDE DEF c
<1>4. OnAgent[c] \in Containers
    BY <1>1, <1>3, OnAgentIn
<1>5. i \in ContainerInfos
    BY <1>4, InfosAssumption DEF Containers
<1> HIDE DEF i
<1>6. UpsertProjectContainer(mem, cmd.p, c, i) \in Data
    BY <1>1, <1>3, <1>5, FieldsIn, ContainerRowIs DEF TypeOK
<1> QED
    BY <1>2, <1>3, <1>5, <1>6 DEF c, i

LEMMA CoreNext ==
    ASSUME TypeOK, FlowInv, Next
    PROVE  CoreType'
<1>0. disk \in Data /\ mem \in Data /\ normalize(disk) \in Data
    BY NormalizeIs DEF TypeOK
<1>1. CASE BeginCommand
  <2>1. CASE LocalStep
    <3>1. disk' \in Data
        BY <2>1, NormalizeIs DEF LocalStep
    <3> QED
        BY <2>1, <3>1 DEF LocalStep, TypeOK, CoreType
  <2>2. CASE RunStart
      BY <2>2 DEF RunStart, Began, Prepared, Starts, TypeOK, CoreType
  <2>3. CASE LoopStart
      BY <1>0, <2>3 DEF LoopStart, LoopStarts, Began, Starts, TypeOK, CoreType
  <2>4. CASE ClearStart
      BY <1>0, <2>4 DEF ClearStart, ClearStarts, Began, Starts, TypeOK, CoreType
  <2> QED
      BY <1>1, <2>1, <2>2, <2>3, <2>4, BeginsDo
<1>2. CASE projectClearMain
    BY <1>0, <1>2, ClearMainDoes, CoreClearEnds, CoreGoes DEF Moves
<1>3. CASE ListContainers
    BY <1>0, <1>3, ListDoes, CoreGoes DEF Moves
<1>4. CASE CallFails
    BY <1>0, <1>4, CallFailsDoes, CoreErrorEnds
<1>5. CASE SkipDelete
    BY <1>0, <1>5, SkipDeleteDoes, CoreGoes DEF Moves
<1>6. CASE DeleteContainer
    BY <1>0, <1>6, DeleteContainerDoes, CoreGoes DEF Moves
<1>7. CASE DeletesDone
    BY <1>0, <1>7, DeletesDoneDoes, CoreClearEnds, CoreGoes DEF Moves
<1>8. CASE ChangeContainer
    BY <1>0, <1>8, ChangeDoes, CoreErrorEnds, CoreGoes DEF Moves
<1>9. CASE SyncContainer
  <2>1. PICK c \in cmd.todo, port \in BOOLEAN :
            /\ [status |-> cmd.listed[c], port |-> port] \in ContainerInfos
            /\ mem' = UpsertProjectContainer(mem, cmd.p, c, [status |-> cmd.listed[c], port |-> port])
      BY <1>9, SyncDoes
  <2>2. cmd \in Commands /\ Goes /\ cmd' \in Commands
      BY <1>9, SyncDoes DEF Moves
  <2>3. c \in ContainerNames /\ cmd.p \in ProjectNames
      BY <2>2, FieldsIn
  <2>4. mem' \in Data
      BY <1>0, <2>1, <2>3, ContainerRowIs
  <2> QED
      BY <2>2, <2>4, CoreGoes
<1>10. CASE SyncEnds
  <2>1. cmd \in Commands /\ Synced \in Data
      BY <1>10, SyncEndsDoes, CutIs DEF Cut
  <2> QED
      BY <1>10, <2>1, SyncEndsDoes, CoreSucceed, CoreClearEnds, CoreErrorEnds, CoreGoes DEF Starts
<1>11. CASE stageProjectArtifacts
    BY <1>0, <1>11, StageDoes, CoreGoes DEF Moves
<1>12. CASE DeployContainer
    BY <1>0, <1>12, DeployDoes, CoreGoes, CoreFail DEF Moves
<1>13. CASE DeployFails \/ InspectFails \/ Kill
    BY <1>13, CoreFail DEF DeployFails, InspectFails, Kill
<1>14. CASE setProjectContainerFromAgent \/ setProjectContainerFromAgentCurrentStatus
  <2> DEFINE c == IF cmd.pc = "inspect" THEN DeployName[cmd.p] ELSE cmd.new
             d == UpsertProjectContainer(mem, cmd.p, c,
                      [status |-> OnAgent[c].status, port |-> OnAgent[c].port])
  <2>1. cmd \in Commands /\ (Succeed(d) \/ Fail)
      BY <1>14, InspectDoes
  <2>2. d \in Data
      BY <1>14, InspectedIs
  <2> HIDE DEF d
  <2> QED
      BY <2>1, <2>2, CoreSucceed, CoreFail
<1>16. CASE RenameContainer
    BY <1>0, <1>16, RenameDoes, CoreSucceed, CoreFail, CoreGoes DEF Moves
<1>17. CASE ContainerRemoved \/ ContainerChanged
    BY <1>17 DEF ContainerRemoved, ContainerChanged, TypeOK, CoreType
<1> QED
    BY <1>1, <1>2, <1>3, <1>4, <1>5, <1>6, <1>7, <1>8, <1>9, <1>10, <1>11, <1>12, <1>13, <1>14,
       <1>16, <1>17 DEF Next, CommandStep

LEMMA OuterNext ==
    ASSUME TypeOK, FlowInv, Next
    PROVE  OuterType'
<1>0. OuterType
    BY TypeParts
<1>1. CASE BeginCommand
  <2>1. \/ UNCHANGED <<agent, ssh, gone, quiet, commands, events>>
        \/ Began
      BY <1>1, BeginsDo DEF LocalStep, RunStart, LoopStart, LoopStarts, ClearStart, ClearStarts
  <2>2. CASE Began
    <3>1. commands' \in 0 .. MaxCommands
        BY <1>0, <2>2, BoundsAssumption DEF Began, OuterType
    <3> QED
        BY <1>0, <2>2, <3>1 DEF Began, OuterType
  <2> QED
      BY <1>0, <2>1, <2>2 DEF OuterType
<1>2. CASE \/ projectClearMain \/ ListContainers \/ CallFails \/ SkipDelete \/ DeletesDone
           \/ stageProjectArtifacts \/ DeployFails \/ InspectFails \/ Kill
  <2>1. UNCHANGED <<agent, ssh, World>>
      BY <1>2 DEF projectClearMain, ListContainers, CallFails, SkipDelete, DeletesDone, stageProjectArtifacts,
                  DeployFails, InspectFails, Kill
  <2> QED
      BY <1>0, <2>1 DEF OuterType, World
<1>3. CASE DeleteContainer \/ ChangeContainer \/ DeployContainer
  <2>1. /\ UNCHANGED <<ssh, World>>
        /\ UNCHANGED agent \/ agent' \in [HostNames -> [ContainerNames -> Containers \cup {None}]]
      BY <1>3, DeleteContainerDoes, ChangeDoes, DeployDoes DEF Sets
  <2> QED
      BY <1>0, <2>1 DEF OuterType, World
<1>4. CASE SyncContainer
    BY <1>0, <1>4, SyncDoes, FieldsIn
    DEF OuterType, World, upsertProjectContainerSSHConfig, upsertManagedSSHHostEntry, removeManagedSSHHostEntry
<1>5. CASE SyncEnds
    BY <1>0, <1>5, SyncEndsDoes DEF OuterType, World
<1>6. CASE setProjectContainerFromAgent \/ setProjectContainerFromAgentCurrentStatus
  <2> DEFINE c == IF cmd.pc = "inspect" THEN DeployName[cmd.p] ELSE cmd.new
  <2>1. c \in ContainerNames
      BY <1>6, InspectedIs
  <2>2. upsertProjectContainerSSHConfig(c, OnAgent[c].port) /\ UNCHANGED <<agent, World>>
      BY <1>6, InspectDoes
  <2> HIDE DEF c
  <2> QED
      BY <1>0, <2>1, <2>2
      DEF OuterType, World, upsertProjectContainerSSHConfig, upsertManagedSSHHostEntry, removeManagedSSHHostEntry
<1>7. CASE RenameContainer
  <2>1. cmd \in Commands
      BY <1>7, RenameDoes
  <2>2. gone' \in BOOLEAN /\ UNCHANGED <<ssh, quiet, commands, events>>
      BY <1>0, <1>7, RenameDoes DEF OuterType
  <2>3. agent' \in [HostNames -> [ContainerNames -> Containers \cup {None}]]
    <3>1. CASE agent' = agent
        BY <1>0, <3>1 DEF OuterType
    <3>2. CASE agent' # agent
      <4>1. PICK old \in Rows(mem, cmd.p) :
                agent' = [agent EXCEPT ![Target] = [@ EXCEPT ![old] = None, ![cmd.new] = OnAgent[old]]]
          BY <1>7, <3>2, RenameDoes
      <4>2. OnAgent[old] \in Containers \cup {None} /\ Target \in HostNames
          BY <2>1, OnAgentIn, RowsIn
      <4> DEFINE a == [agent[Target] EXCEPT ![old] = None, ![cmd.new] = OnAgent[old]]
      <4>3. a \in [ContainerNames -> Containers \cup {None}]
          BY <1>0, <4>2 DEF OuterType
      <4>4. agent' = [agent EXCEPT ![Target] = a]
          BY <1>0, <4>1, <4>2 DEF OuterType
      <4> HIDE DEF a
      <4> QED
          BY <1>0, <4>2, <4>3, <4>4 DEF OuterType
    <3> QED
        BY <3>1, <3>2
  <2> QED
      BY <1>0, <2>2, <2>3 DEF OuterType
<1>8. CASE ContainerRemoved
  <2>1. PICK h \in HostNames, c \in ContainerNames :
            agent' = [agent EXCEPT ![h] = [@ EXCEPT ![c] = None]]
      BY <1>8 DEF ContainerRemoved
  <2>2. agent' \in [HostNames -> [ContainerNames -> Containers \cup {None}]]
      BY <1>0, <2>1 DEF OuterType
  <2>3. events' \in 0 .. MaxEvents
      BY <1>0, <1>8, BoundsAssumption DEF ContainerRemoved, Event, OuterType
  <2> QED
      BY <1>0, <1>8, <2>2, <2>3 DEF ContainerRemoved, Event, OuterType
<1>9. CASE ContainerChanged
  <2>1. PICK h \in HostNames, c \in ContainerNames, status \in Statuses :
            /\ agent[h][c] # None
            /\ agent' = [agent EXCEPT ![h] = [agent[h] EXCEPT ![c] = [agent[h][c] EXCEPT !.status = status]]]
      BY <1>9 DEF ContainerChanged
  <2>2. agent[h][c] \in Containers
      BY <1>0, <2>1 DEF OuterType
  <2> DEFINE k == [agent[h][c] EXCEPT !.status = status]
  <2>3. k \in Containers
      BY <2>2 DEF Containers
  <2> HIDE DEF k
  <2>4. [agent[h] EXCEPT ![c] = k] \in [ContainerNames -> Containers \cup {None}]
      BY <1>0, <2>3 DEF OuterType
  <2>5. agent' \in [HostNames -> [ContainerNames -> Containers \cup {None}]]
      BY <1>0, <2>1, <2>4 DEF OuterType, k
  <2>6. events' \in 0 .. MaxEvents
      BY <1>0, <1>9, BoundsAssumption DEF ContainerChanged, Event, OuterType
  <2> QED
      BY <1>0, <1>9, <2>5, <2>6 DEF ContainerChanged, Event, OuterType
<1> QED
    BY <1>1, <1>2, <1>3, <1>4, <1>5, <1>6, <1>7, <1>8, <1>9 DEF Next, CommandStep

\* Types and flow together.
Typed == TypeOK /\ FlowInv

LEMMA TypedInit == Init => Typed
<1> SUFFICES ASSUME Init PROVE Typed
    OBVIOUS
<1>1. agent \in [HostNames -> [ContainerNames -> Containers \cup {None}]]
    BY DEF Init, NoList
<1>2. commands \in 0 .. MaxCommands /\ events \in 0 .. MaxEvents
    BY BoundsAssumption DEF Init
<1> QED
    BY <1>1, <1>2, EmptyOK DEF Init, Typed, TypeOK, FlowInv

LEMMA TypedNext == Typed /\ [Next]_vars => Typed'
<1>1. Typed /\ Next => Typed'
    BY FlowNext, CoreNext, OuterNext, TypeParts DEF Typed, TypeOK, CoreType, OuterType
<1>2. Typed /\ UNCHANGED vars => Typed'
    BY DEF Typed, TypeOK, FlowInv, vars
<1> QED
    BY <1>1, <1>2

LEMMA TypedHolds == Spec => []Typed
    BY TypedInit, TypedNext, PTL DEF Spec

(***************************************************************************)
(* Type correctness of the model of the project commands.                  *)
(***************************************************************************)
THEOREM TypeCorrect == Spec => []TypeOK
<1>1. Typed => TypeOK
    BY DEF Typed
<1> QED
    BY <1>1, TypedHolds, PTL

-----------------------------------------------------------------------------
(***************************************************************************)
(* The copy of the database: what a command has yet to deal with is there  *)
(* as it is in db.json.                                                    *)
(***************************************************************************)
\* The copy with which delete goes on.
After(removed, d) == IF removed THEN DeleteProject(d, Exact(cmd.p)) ELSE d

LEMMA AfterIs ==
    ASSUME TypeOK, cmd \in Commands, NEW d, Cut(d), NEW removed \in BOOLEAN
    PROVE  /\ After(removed, d) \in Data /\ After(removed, d).hostProjects = mem.hostProjects
           /\ \A q \in ProjectNames : q \in After(removed, d).projects <=>
                 q \in mem.projects /\ (q = cmd.p => ~ removed)
           /\ \A q \in ProjectNames \ {cmd.p} :
                 SameProject(mem, After(removed, d), q) /\ After(removed, d).host[q] = mem.host[q]
           /\ removed => Rows(After(removed, d), cmd.p) = {}
<1> DEFINE e == DeleteProject(d, Exact(cmd.p))
<1>1. d \in Data /\ cmd.p \in ProjectNames
    BY FieldsIn DEF Cut
<1>2. e \in Data /\ e.projects = d.projects \ {cmd.p} /\ Blank(d, e, cmd.p)
    BY <1>1, ProjectRowIs
<1>3. Rows(e, cmd.p) = {} /\ \A q \in ProjectNames \ {cmd.p} : SameProject(d, e, q)
    BY <1>1, ProjectRowView
<1> HIDE DEF e
<1>4. CASE removed
  <2>1. After(removed, d) = e
      BY <1>4 DEF After, e
  <2>2. \A q \in ProjectNames \ {cmd.p} : SameProject(mem, d, q) /\ SameProject(d, e, q)
      BY <1>3 DEF Cut
  <2>3. \A q \in ProjectNames \ {cmd.p} : SameProject(mem, e, q)
      BY <2>2 DEF SameProject
  <2>4. /\ e.projects = mem.projects \ {cmd.p} /\ e.hostProjects = mem.hostProjects
        /\ \A q \in ProjectNames \ {cmd.p} : e.host[q] = mem.host[q]
      BY <1>2 DEF Cut, Blank
  <2> QED
      BY <1>2, <1>3, <1>4, <2>1, <2>3, <2>4
<1>5. CASE ~ removed
    BY <1>1, <1>5 DEF After, Cut
<1> QED
    BY <1>4, <1>5

\* Nothing is running, so there is nothing to show.
LEMMA CopyEnded ==
    ASSUME cmd' = Idle
    PROVE  CopyInv'
    BY DEF CopyInv

\* The command goes on with the same copy.
LEMMA CopyMoves ==
    ASSUME CopyInv, cmd \in Commands, Goes, mem' = mem,
           NEW pc, NEW todo, NEW listed, NEW names, NEW drop, NEW errs,
           Moves(pc, todo, listed, names, drop, errs), names \subseteq Known(cmd.p)
    PROVE  CopyInv'
<1>1. cmd # Idle
    BY CommandsAre
<1>2. \A q : Known(q)' = Known(q)
    BY DEF Known, Goes, Moves
<1> QED
    BY <1>1, <1>2 DEF CopyInv, Goes, Moves

LEMMA CopyDeleteEnds ==
    ASSUME TypeOK, CopyInv, cmd \in Commands, cmd.op = "delete", NEW ok \in BOOLEAN,
           NEW d, Cut(d), DeleteEnds(ok, d)
    PROVE  CopyInv'
<1>1. CASE cmd' = Idle
    BY <1>1, CopyEnded
<1>2. CASE cmd' # Idle
  <2> DEFINE removed == ok \/ cmd.force
  <2>0. d \in Data /\ cmd # Idle /\ removed \in BOOLEAN
      BY CommandsAre, FieldsIn DEF Cut
  <2>1. mem' = After(removed, d) /\ disk' = disk
      BY <1>2, <2>0, DeleteEndsDoes DEF Fail, Saves, After
  <2>2. PICK q \in cmd.rest :
            Starts("delete", q, "clear", {}, cmd.force, cmd.report \/ ~ removed,
                   cmd.rest \ {q}, None, cmd.had \cup Had(d, q))
      BY <1>2, <2>0, DeleteEndsDoes DEF Fail, Saves
  <2> HIDE DEF removed
  <2>3. cmd'.op = "delete" /\ cmd'.p = q /\ cmd'.rest = cmd.rest \ {q} /\ cmd'.names = {}
      BY <2>2 DEF Starts
  <2>4. /\ cmd.rest \in SUBSET ProjectNames /\ cmd.p \notin cmd.rest
        /\ \A r \in cmd.rest : /\ r \in mem.projects
                               /\ projectAgentHost(mem, r) = projectAgentHost(disk, r)
                               /\ Rows(mem, r) \subseteq Rows(disk, r)
      BY <2>0, FieldsIn DEF CopyInv, Known
  <2>5. \A r \in cmd.rest : r \in mem'.projects /\ SameProject(mem, mem', r)
      BY <2>0, <2>1, <2>4, AfterIs
  <2>6. \A r \in cmd.rest : /\ projectAgentHost(mem', r) = projectAgentHost(disk, r)
                           /\ Rows(mem', r) \subseteq Rows(disk, r)
      BY <2>4, <2>5 DEF SameProject
  <2>7. \A r : Known(r)' = Rows(disk, r)
      BY <2>1, <2>3 DEF Known
  <2> QED
      BY <2>1, <2>2, <2>3, <2>4, <2>5, <2>6, <2>7 DEF CopyInv
<1> QED
    BY <1>1, <1>2

LEMMA CopyErrorEnds ==
    ASSUME TypeOK, CopyInv, cmd \in Commands, NEW d, Cut(d), ErrorEnds(d)
    PROVE  CopyInv'
    BY CopyDeleteEnds, CopyEnded DEF ErrorEnds, Fail

\* The command starts over with the copy d.
LEMMA CopyRestarts ==
    ASSUME TypeOK, CopyInv, cmd \in Commands, NEW d, Cut(d), Goes, mem' = d, cmd' \in Commands,
           cmd'.op = cmd.op, cmd.op # "run",
           cmd'.rest \subseteq cmd.rest, cmd'.p \in cmd.rest \cup {cmd.p}, cmd'.p \notin cmd'.rest,
           cmd'.names \subseteq Rows(d, cmd'.p)
    PROVE  CopyInv'
<1>1. cmd # Idle
    BY CommandsAre
<1>2. \A r : Known(r)' = Known(r)
    BY DEF Known, Goes
<1>3. \A r \in cmd.rest \cup {cmd.p} :
          /\ r \in mem'.projects
          /\ projectAgentHost(mem', r) = projectAgentHost(disk, r)
          /\ Rows(mem', r) \subseteq Known(r)
    BY <1>1, FieldsIn DEF Cut, CopyInv, SameProject
<1>4. disk' = disk
    BY DEF Goes
<1> QED
    BY <1>2, <1>3, <1>4 DEF CopyInv

LEMMA CopyClearEnds ==
    ASSUME TypeOK, CopyInv, cmd \in Commands, NEW d, Cut(d), ClearEnds(d)
    PROVE  CopyInv'
<1>1. CASE cmd.op \in {"clear", "drain"}
    BY <1>1, CopyEnded DEF ClearEnds, Succeed
<1>2. CASE cmd.op = "rebuild"
  <2>1. /\ Goes /\ mem' = d
        /\ Starts("rebuild", cmd.p, "stage", {}, FALSE, FALSE, {}, None, {})
      BY <1>2, ClearEndsDoes DEF Cut
  <2>2. /\ cmd' \in Commands /\ cmd'.op = cmd.op /\ cmd'.rest = {} /\ cmd'.p = cmd.p /\ cmd'.names = {}
      BY <1>2, <2>1 DEF Starts
  <2> QED
      BY <1>2, <2>1, <2>2, CopyRestarts
<1>3. CASE cmd.op = "delete"
    BY <1>3, CopyDeleteEnds DEF ClearEnds
<1> QED
    BY <1>1, <1>2, <1>3 DEF ClearEnds

LEMMA CopyNext ==
    ASSUME Typed, CopyInv, Next
    PROVE  CopyInv'
<1>0. TypeOK /\ FlowInv /\ disk \in Data /\ mem \in Data
    BY DEF Typed, TypeOK
<1>1. CASE BeginCommand
  <2>1. \A q : SameProject(disk, normalize(disk), q)
      BY <1>0, NormalizeView
  <2>2. normalize(disk).projects = disk.projects
      BY <1>0, NormalizeIs DEF SameRows
  <2>3. CASE LocalStep
      BY <2>3, CopyEnded DEF LocalStep
  <2>4. CASE RunStart
      BY <2>4 DEF RunStart, Began, Prepared, Starts, CopyInv, Known
  <2>5. CASE LoopStart
    <3>1. PICK op \in {"start", "stop", "sync", "rename"}, pc \in {"list", "synclist"}, p \in disk.projects,
             rest \in SUBSET disk.projects, new \in NewNames \cup {None} : LoopStarts(op, p, pc, rest, new)
        BY <2>5 DEF LoopStart
    <3> QED
        BY <2>1, <2>2, <3>1 DEF LoopStarts, Began, Starts, CopyInv, Known, SameProject
  <2>6. CASE ClearStart
    <3>1. PICK op \in Removing, p \in disk.projects, rest \in SUBSET disk.projects, force \in BOOLEAN :
              ClearStarts(op, p, rest, force)
        BY <2>6 DEF ClearStart
    <3> QED
        BY <2>1, <2>2, <3>1 DEF ClearStarts, Began, Starts, CopyInv, Known, SameProject
  <2> QED
      BY <1>0, <1>1, <2>3, <2>4, <2>5, <2>6, BeginsDo
<1>2. ASSUME cmd \in Commands
      PROVE  /\ cmd.names \subseteq Known(cmd.p)
             /\ cmd.op # "run" => Rows(mem, cmd.p) \subseteq Known(cmd.p)
    BY <1>2, CommandsAre DEF CopyInv
<1>3. CASE projectClearMain
  <2> DEFINE names == Rows(mem, cmd.p) \cup (IF cmd.op = "rebuild" THEN {DeployName[cmd.p]} ELSE {})
  <2>1. /\ cmd \in Commands /\ cmd.pc = "clear"
        /\ \/ ClearEnds(mem)
           \/ Goes /\ mem' = mem /\ Moves("list", cmd.todo, cmd.listed, names, cmd.drop, cmd.errs)
      BY <1>0, <1>3, ClearMainDoes
  <2>2. cmd.op # "run"
      BY <1>0, <2>1, CommandsAre DEF FlowInv
  <2>3. names \subseteq Known(cmd.p)
      BY <1>2, <2>1, <2>2 DEF Known
  <2> HIDE DEF names
  <2> QED
      BY <1>0, <2>1, <2>3, CutIs, CopyClearEnds, CopyMoves
<1>4. CASE ListContainers
    BY <1>0, <1>2, <1>4, ListDoes, CopyMoves
<1>5. CASE CallFails
    BY <1>0, <1>5, CallFailsDoes, CutIs, CopyErrorEnds
<1>6. CASE SkipDelete
  <2>1. PICK c \in cmd.todo :
            Moves("delete", cmd.todo \ {c}, cmd.listed, cmd.names \ {c}, cmd.drop, cmd.errs)
      BY <1>0, <1>6, SkipDeleteDoes
  <2>2. cmd \in Commands /\ Goes /\ mem' = mem
      BY <1>0, <1>6, SkipDeleteDoes
  <2>3. cmd.names \ {c} \subseteq Known(cmd.p)
      BY <1>2, <2>2
  <2> QED
      BY <2>1, <2>2, <2>3, CopyMoves
<1>7. CASE DeleteContainer
    BY <1>0, <1>2, <1>7, DeleteContainerDoes, CopyMoves
<1>8. CASE DeletesDone
    BY <1>0, <1>2, <1>8, DeletesDoneDoes, CutIs, CopyClearEnds, CopyMoves
<1>9. CASE ChangeContainer
    BY <1>0, <1>2, <1>9, ChangeDoes, CutIs, CopyErrorEnds, CopyMoves
<1>10. CASE SyncContainer
  <2>1. PICK c \in cmd.todo, port \in BOOLEAN :
            /\ [status |-> cmd.listed[c], port |-> port] \in ContainerInfos
            /\ mem' = UpsertProjectContainer(mem, cmd.p, c, [status |-> cmd.listed[c], port |-> port])
            /\ Moves("sync", cmd.todo \ {c}, cmd.listed, cmd.names, cmd.drop, cmd.errs)
      BY <1>0, <1>10, SyncDoes
  <2>2. cmd \in Commands /\ cmd.pc = "sync" /\ Goes
      BY <1>0, <1>10, SyncDoes
  <2>3. /\ cmd.p \in ProjectNames /\ c \in ContainerNames /\ c \in cmd.names /\ cmd.op # "run"
        /\ cmd.rest \in SUBSET ProjectNames
      BY <1>0, <2>1, <2>2, CommandsAre, FieldsIn DEF FlowInv
  <2> DEFINE i == [status |-> cmd.listed[c], port |-> port]
  <2>4. mem' = UpsertProjectContainer(mem, cmd.p, c, i) /\ i \in ContainerInfos
      BY <2>1
  <2> HIDE DEF i
  <2>5. /\ mem'.projects = mem.projects
        /\ \A q \in ProjectNames : projectAgentHost(mem', q) = projectAgentHost(mem, q)
        /\ Rows(mem', cmd.p) = Rows(mem, cmd.p) \cup {c}
        /\ \A q \in ProjectNames \ {cmd.p} : SameProject(mem, mem', q)
      BY <1>0, <2>3, <2>4, RecordedView
  <2>6. cmd # Idle
      BY <2>2, CommandsAre
  <2>7. \A q \in cmd.rest \cup {cmd.p} : /\ q \in mem'.projects
                                        /\ projectAgentHost(mem', q) = projectAgentHost(disk, q)
                                        /\ Rows(mem', q) \subseteq Known(q)
      BY <1>2, <2>2, <2>3, <2>5, <2>6 DEF CopyInv, SameProject
  <2>8. /\ \A q : Known(q)' = Known(q)
        /\ cmd'.p = cmd.p /\ cmd'.rest = cmd.rest /\ cmd'.names = cmd.names /\ cmd'.op = cmd.op /\ disk' = disk
      BY <2>1, <2>2 DEF Known, Goes, Moves
  <2> QED
      BY <2>6, <2>7, <2>8 DEF CopyInv
<1>11. CASE SyncEnds
  <2>1. /\ cmd \in Commands /\ cmd.pc = "sync" /\ Cut(mem) /\ Cut(Synced)
        /\ \/ Succeed(Synced)
           \/ /\ Goes /\ mem' = Synced /\ cmd.op = "sync"
              /\ \E q \in cmd.rest :
                    Starts("sync", q, "synclist", Rows(Synced, q), FALSE, FALSE, cmd.rest \ {q}, None, {})
           \/ /\ Goes /\ mem' = Synced /\ cmd.op = "rename"
              /\ Starts("rename", cmd.p, "rename", {}, FALSE, FALSE, {}, cmd.new, {})
           \/ ClearEnds(Synced)
           \/ ErrorEnds(Synced)
      BY <1>0, <1>11, SyncEndsDoes, CutIs
  <2>2. CASE Succeed(Synced)
      BY <2>2, CopyEnded DEF Succeed
  <2>3. CASE /\ Goes /\ mem' = Synced /\ cmd.op = "sync"
             /\ \E q \in cmd.rest :
                   Starts("sync", q, "synclist", Rows(Synced, q), FALSE, FALSE, cmd.rest \ {q}, None, {})
    <3>1. PICK q \in cmd.rest :
              Starts("sync", q, "synclist", Rows(Synced, q), FALSE, FALSE, cmd.rest \ {q}, None, {})
        BY <2>3
    <3>2. /\ cmd' \in Commands /\ cmd'.op = cmd.op /\ cmd.op # "run" /\ cmd'.rest = cmd.rest \ {q}
          /\ cmd'.p = q /\ cmd'.names = Rows(Synced, q)
        BY <2>3, <3>1 DEF Starts
    <3> QED
        BY <1>0, <2>1, <2>3, <3>2, CopyRestarts
  <2>4. CASE /\ Goes /\ mem' = Synced /\ cmd.op = "rename"
             /\ Starts("rename", cmd.p, "rename", {}, FALSE, FALSE, {}, cmd.new, {})
    <3>1. /\ cmd' \in Commands /\ cmd'.op = cmd.op /\ cmd.op # "run" /\ cmd'.rest = {}
          /\ cmd'.p = cmd.p /\ cmd'.names = {}
        BY <2>4 DEF Starts
    <3> QED
        BY <1>0, <2>1, <2>4, <3>1, CopyRestarts
  <2> QED
      BY <1>0, <2>1, <2>2, <2>3, <2>4, CopyClearEnds, CopyErrorEnds
<1>12. CASE stageProjectArtifacts
    BY <1>0, <1>2, <1>12, StageDoes, CopyMoves
<1>13. CASE DeployContainer
    BY <1>0, <1>2, <1>13, DeployDoes, CopyMoves, CopyEnded DEF Fail
<1>14. CASE DeployFails \/ InspectFails \/ Kill
    BY <1>14, CopyEnded DEF DeployFails, InspectFails, Kill, Fail
<1>15. CASE setProjectContainerFromAgent \/ setProjectContainerFromAgentCurrentStatus
    BY <1>0, <1>15, InspectDoes, CopyEnded DEF Succeed, Fail
<1>16. CASE RenameContainer
    BY <1>0, <1>2, <1>16, RenameDoes, CopyMoves, CopyEnded DEF Succeed, Fail
<1>17. CASE ContainerRemoved \/ ContainerChanged
    BY <1>17 DEF ContainerRemoved, ContainerChanged, CopyInv, Known
<1> QED
    BY <1>1, <1>3, <1>4, <1>5, <1>6, <1>7, <1>8, <1>9, <1>10, <1>11, <1>12, <1>13, <1>14,
       <1>15, <1>16, <1>17 DEF Next, CommandStep

LEMMA CopyHolds == Spec => []CopyInv
<1>1. Init => CopyInv
    BY DEF Init, CopyInv
<1>2. Typed /\ CopyInv /\ [Next]_vars => CopyInv'
  <2>1. CopyInv /\ UNCHANGED vars => CopyInv'
      BY DEF CopyInv, Known, vars
  <2> QED
      BY <2>1, CopyNext
<1> QED
    BY <1>1, <1>2, TypedHolds, PTL DEF Spec

-----------------------------------------------------------------------------
\* A step that changes a container that exists is one of these.
LEMMA ChangesOwn ==
    ASSUME Typed, CopyInv, Next, cmd # Idle, cmd' # cmd, NEW h \in HostNames, NEW c \in ContainerNames,
           agent[h][c] # None, agent'[h][c] # agent[h][c]
    PROVE  /\ h = Target /\ cmd.op # "run"
           /\ c \in cmd.names \cup Rows(mem, cmd.p)
<1>0. TypeOK /\ FlowInv /\ cmd \in Commands /\ Target \in HostNames
    BY Running, OnAgentIn DEF Typed
<1>1. CASE DeleteContainer \/ ChangeContainer
  <2>1. /\ cmd.pc \in {"delete", "change"}
        /\ \E b \in cmd.todo : \E k : Sets(b, k)
      BY <1>0, <1>1, DeleteContainerDoes, ChangeDoes
  <2>2. cmd.op # "run" /\ cmd.todo \subseteq cmd.names
      BY <1>0, <2>1 DEF FlowInv
  <2> QED
      BY <2>1, <2>2 DEF Sets
<1>2. CASE DeployContainer
  <2>1. /\ OnAgent[DeployName[cmd.p]] = None /\ OnAgent = agent[Target]
        /\ \E k : Sets(DeployName[cmd.p], k)
      BY <1>0, <1>2, DeployDoes, OnAgentIn
  <2> QED
      BY <2>1 DEF Sets
<1>3. CASE RenameContainer
  <2>1. /\ cmd.pc = "rename" /\ OnAgent = agent[Target]
      BY <1>0, <1>3, RenameDoes, OnAgentIn
  <2>2. PICK old \in Rows(mem, cmd.p) :
            /\ OnAgent[cmd.new] = None
            /\ agent' = [agent EXCEPT ![Target] = [@ EXCEPT ![old] = None, ![cmd.new] = OnAgent[old]]]
      BY <1>0, <1>3, RenameDoes
  <2>3. h = Target /\ c \in {old, cmd.new}
      BY <1>0, <2>2 DEF TypeOK
  <2> QED
      BY <1>0, <2>1, <2>2, <2>3 DEF FlowInv
<1>4. CASE BeginCommand \/ ContainerRemoved \/ ContainerChanged
    BY <1>0, <1>4, BeginsDo DEF LocalStep, RunStart, LoopStart, LoopStarts, ClearStart, ClearStarts, Began,
       ContainerRemoved, ContainerChanged
<1>5. CASE \/ projectClearMain \/ ListContainers \/ CallFails \/ SkipDelete \/ DeletesDone \/ SyncContainer
           \/ SyncEnds \/ stageProjectArtifacts \/ DeployFails \/ setProjectContainerFromAgent \/ InspectFails
           \/ setProjectContainerFromAgentCurrentStatus \/ Kill
    BY <1>5 DEF projectClearMain, ListContainers, CallFails, SkipDelete, DeletesDone, SyncContainer, SyncEnds,
       stageProjectArtifacts, DeployFails, setProjectContainerFromAgent, InspectFails,
       setProjectContainerFromAgentCurrentStatus, Kill
<1> QED
    BY <1>1, <1>2, <1>3, <1>4, <1>5 DEF Next, CommandStep

(***************************************************************************)
(* A command changes or removes a container only if db.json, as the        *)
(* command read it, has the name for the command's project, on the host    *)
(* the project is mapped to; rebuild also removes what has the name it is  *)
(* about to deploy.                                                        *)
(***************************************************************************)
THEOREM OwnNames == Spec => OwnNamesOnly
<1>1. ASSUME Typed, CopyInv, [Next]_vars, cmd # Idle, cmd' # cmd,
             NEW h \in HostNames, NEW c \in ContainerNames, agent[h][c] # None, agent'[h][c] # agent[h][c]
      PROVE  /\ h = projectAgentHost(disk, cmd.p)
             /\ c \in Rows(disk, cmd.p) \/ (cmd.op = "rebuild" /\ c = DeployName[cmd.p])
  <2>1. Next
      BY <1>1 DEF vars
  <2>2. h = Target /\ cmd.op # "run" /\ c \in cmd.names \cup Rows(mem, cmd.p)
      BY <1>1, <2>1, ChangesOwn
  <2>3. /\ Target = projectAgentHost(disk, cmd.p)
        /\ cmd.names \cup Rows(mem, cmd.p) \subseteq Known(cmd.p)
      BY <1>1, <2>2 DEF CopyInv, Target
  <2> QED
      BY <2>2, <2>3 DEF Known
<1>2. Typed /\ CopyInv /\ [Next]_vars =>
          [cmd # Idle /\ cmd' # cmd =>
              \A h \in HostNames, c \in ContainerNames :
                  agent[h][c] # None /\ agent'[h][c] # agent[h][c] =>
                      /\ h = projectAgentHost(disk, cmd.p)
                      /\ c \in Rows(disk, cmd.p) \/ (cmd.op = "rebuild" /\ c = DeployName[cmd.p])]_vars
    BY <1>1
<1> QED
    BY <1>2, TypedHolds, CopyHolds, PTL DEF Spec, OwnNamesOnly

-----------------------------------------------------------------------------
(***************************************************************************)
(* Hosts list the projects that are mapped to them, so that unregistering  *)
(* a project from its host leaves it listed nowhere.                       *)
(***************************************************************************)
\* In memory a host may list projects that no longer exist.
Lists(d) == \A h \in HostNames : \A p \in d.hostProjects[h] \cap d.projects : d.host[p] = h

Tight(d) == \A h \in HostNames : \A p \in d.hostProjects[h] : p \in d.projects /\ d.host[p] = h

LEMMA HostParts == HostInv <=> Tight(disk) /\ Lists(mem) /\ DrainedIsFree
    BY DEF HostInv, Tight, Lists

LEMMA HostSaves ==
    ASSUME cmd \in Commands, cmd.op # "drain", NEW d, Saves(d), Lists(d)
    PROVE  HostInv'
<1>1. Tight(disk)'
    BY NormalizeLists DEF Saves, Lists, Tight
<1>2. Lists(mem)'
    BY EmptyOK DEF Saves, Lists
<1>3. DrainedIsFree'
    BY CommandsAre DEF Saves, DrainedIsFree
<1> QED
    BY <1>1, <1>2, <1>3 DEF HostInv, Tight, Lists

LEMMA HostFail ==
    ASSUME HostInv, Fail
    PROVE  HostInv'
    BY EmptyOK, IdleIs DEF HostInv, DrainedIsFree, Fail, Ops, Idle

LEMMA HostGoes ==
    ASSUME HostInv, Goes, Lists(mem')
    PROVE  HostInv'
    BY DEF HostInv, DrainedIsFree, Goes, Lists, checkCandidateForRun

LEMMA CutLists ==
    ASSUME HostInv, NEW d, Cut(d)
    PROVE  Lists(d)
    BY DEF HostInv, Lists, Cut

LEMMA HostDeleteEnds ==
    ASSUME TypeOK, HostInv, cmd \in Commands, cmd.op = "delete", NEW ok \in BOOLEAN,
           NEW d, Cut(d), DeleteEnds(ok, d)
    PROVE  HostInv'
<1> DEFINE removed == ok \/ cmd.force
<1>1. d \in Data /\ removed \in BOOLEAN
    BY FieldsIn DEF Cut
<1>2. \/ \E e : Saves(e) /\ SameRows(After(removed, d), e) /\ e.hostProjects = After(removed, d).hostProjects
      \/ Fail
      \/ mem' = After(removed, d) /\ UNCHANGED <<disk, done>>
    BY <1>1, DeleteEndsDoes DEF After
<1> HIDE DEF removed
<1>3. Lists(After(removed, d))
  <2> DEFINE e == After(removed, d)
  <2>1. SUFFICES ASSUME NEW h \in HostNames, NEW p \in e.hostProjects[h] \cap e.projects
                 PROVE  e.host[p] = h
      BY DEF Lists
  <2>2. CASE removed
    <3>1. p \in ProjectNames /\ e.hostProjects = mem.hostProjects
        BY <1>1, <2>1, AfterIs DEF Data
    <3>2. p # cmd.p /\ p \in mem.projects
        BY <1>1, <2>1, <2>2, <3>1, AfterIs
    <3>3. e.host[p] = mem.host[p]
        BY <1>1, <3>1, <3>2, AfterIs
    <3> HIDE DEF e
    <3> QED
        BY <2>1, <3>1, <3>2, <3>3 DEF HostInv
  <2>3. CASE ~ removed
      BY <2>1, <2>3, CutLists DEF After, Lists
  <2> QED
      BY <2>2, <2>3
<1>4. ASSUME NEW e, Saves(e), SameRows(After(removed, d), e), e.hostProjects = After(removed, d).hostProjects
      PROVE  HostInv'
  <2>1. Lists(e)
      BY <1>3, <1>4 DEF Lists, SameRows
  <2> QED
      BY <1>4, <2>1, HostSaves
<1>5. ASSUME mem' = After(removed, d), UNCHANGED <<disk, done>>
      PROVE  HostInv'
    BY <1>3, <1>5 DEF HostInv, DrainedIsFree, Lists, checkCandidateForRun
<1> QED
    BY <1>2, <1>4, <1>5, HostFail

LEMMA HostErrorEnds ==
    ASSUME TypeOK, HostInv, cmd \in Commands, NEW d, Cut(d), ErrorEnds(d)
    PROVE  HostInv'
    BY HostDeleteEnds, HostFail DEF ErrorEnds

LEMMA HostClearEnds ==
    ASSUME TypeOK, CopyInv, HostInv, cmd \in Commands, NEW d, Cut(d), ClearEnds(d)
    PROVE  HostInv'
<1>0. d \in Data /\ Lists(d) /\ cmd.p \in ProjectNames /\ cmd.p \in d.projects
  <2>1. cmd.p \in mem.projects
      BY CommandsAre DEF CopyInv
  <2> QED
      BY <2>1, CutLists, FieldsIn DEF Cut
<1>1. CASE cmd.op = "clear"
    BY <1>0, <1>1, ClearEndsDoes, HostSaves
<1>2. CASE cmd.op = "drain"
  <2> DEFINE e == RemoveHostAndContainersFromProject(unregisterFromHost(d, cmd.p), cmd.p)
  <2>1. Saves(e)
      BY <1>0, <1>2, ClearEndsDoes
  <2>2. /\ e \in Data /\ e.projects = d.projects
        /\ \A q \in ProjectNames : e.host[q] = IF q = cmd.p THEN None ELSE d.host[q]
        /\ \A h \in HostNames : e.hostProjects[h] =
              IF cmd.p \in d.projects /\ h = d.host[cmd.p] THEN d.hostProjects[h] \ {cmd.p} ELSE d.hostProjects[h]
        /\ Rows(e, cmd.p) = {}
      BY <1>0, DrainedIs, DrainedView
  <2> HIDE DEF e
  <2>3. \A h \in HostNames : cmd.p \notin e.hostProjects[h]
      BY <1>0, <2>2 DEF Lists
  <2>4. Lists(e)
    <3>1. SUFFICES ASSUME NEW h \in HostNames, NEW p \in e.hostProjects[h] \cap e.projects
                   PROVE  e.host[p] = h
        BY DEF Lists
    <3>2. p # cmd.p /\ p \in d.hostProjects[h] \cap d.projects
        BY <2>2, <2>3, <3>1
    <3>3. p \in ProjectNames
        BY <1>0, <3>2 DEF Data
    <3> QED
        BY <1>0, <2>2, <3>2, <3>3 DEF Lists
  <2>5. Tight(disk)' /\ Lists(mem)'
      BY <2>1, <2>2, <2>4, NormalizeLists, EmptyOK DEF Saves, Lists, Tight
  <2>6. DrainedIsFree'
    <3>1. done'.p = cmd.p /\ disk' = normalize(e)
        BY <2>1, CommandsAre DEF Saves
    <3>2. normalize(e).host = e.host /\ normalize(e).projects = e.projects
        BY <2>2, NormalizeIs DEF SameRows
    <3>3. normalize(e).host[cmd.p] = None
        BY <1>0, <2>2, <3>2
    <3>4. Rows(normalize(e), cmd.p) = {}
        BY <2>2, NormalizeView DEF SameProject
    <3>5. \A h \in HostNames : cmd.p \notin normalize(e).hostProjects[h]
        BY <2>5, <3>1, <3>3, NoneAssumption DEF Tight
    <3> QED
        BY <3>1, <3>3, <3>4, <3>5 DEF DrainedIsFree, checkCandidateForRun
  <2> QED
      BY <2>5, <2>6 DEF HostInv, Tight, Lists
<1>3. CASE cmd.op = "rebuild"
    BY <1>0, <1>3, ClearEndsDoes, HostGoes
<1>4. CASE cmd.op = "delete"
    BY <1>4, HostDeleteEnds DEF ClearEnds
<1> QED
    BY <1>1, <1>2, <1>3, <1>4 DEF ClearEnds

LEMMA HostSucceed ==
    ASSUME cmd \in Commands, cmd.op # "drain", NEW d \in Data, Succeed(d), Lists(d)
    PROVE  HostInv'
    BY SucceedDoes, HostSaves

LEMMA HostNext ==
    ASSUME Typed, CopyInv, HostInv, Next
    PROVE  HostInv'
<1>0. TypeOK /\ FlowInv /\ disk \in Data /\ mem \in Data /\ Tight(disk) /\ Lists(mem)
    BY HostParts DEF Typed, TypeOK
<1>1. CASE BeginCommand
  <2>1. /\ normalize(disk) \in Data /\ SameRows(disk, normalize(disk))
        /\ Tight(normalize(disk)) /\ Lists(normalize(disk))
      BY <1>0, NormalizeIs, NormalizeLists DEF Tight, Lists
  <2>2. CASE LocalStep
    <3>1. PICK e \in Data :
              /\ disk' = normalize(e) /\ e.hostProjects = normalize(disk).hostProjects
              /\ \A q \in disk.projects : q \in e.projects /\ e.host[q] = disk.host[q]
        BY <2>2 DEF LocalStep
    <3>2. Lists(e)
        BY <2>1, <3>1 DEF Lists, Tight, SameRows
    <3>3. Tight(disk)'
        BY <3>1, <3>2, NormalizeLists DEF Lists, Tight
    <3>4. DrainedIsFree' /\ mem' = mem
        BY <2>2, IdleIs DEF LocalStep, DrainedIsFree, Idle
    <3> QED
        BY <1>0, <3>3, <3>4 DEF HostInv, Tight, Lists
  <2>3. ASSUME Began, Lists(mem') PROVE HostInv'
      BY <1>0, <2>3 DEF Began, Idle, HostInv, Lists, Tight, DrainedIsFree
  <2>4. CASE RunStart
    <3>1. PICK p \in ProjectNames : Began /\ Prepared(p, mem')
        BY <2>4 DEF RunStart
    <3>2. Lists(mem')
      <4>1. SUFFICES ASSUME NEW h \in HostNames, NEW q \in mem'.hostProjects[h] \cap mem'.projects
                     PROVE  mem'.host[q] = h
          BY DEF Lists
      <4>2. q \in disk.projects /\ disk.host[q] = h
          BY <2>1, <3>1, <4>1 DEF Prepared, Tight, SameRows
      <4>3. q \in ProjectNames
          BY <1>0, <4>2 DEF Data
      <4>4. CASE q = p
          BY <3>1, <4>2, <4>4, NoneAssumption DEF Prepared
      <4>5. CASE q # p
          BY <3>1, <4>1, <4>2, <4>3, <4>5 DEF Prepared
      <4> QED
          BY <4>4, <4>5
    <3> QED
        BY <2>3, <3>1, <3>2
  <2>5. CASE LoopStart \/ ClearStart
    <3>1. Began /\ mem' = normalize(disk)
        BY <2>5 DEF LoopStart, LoopStarts, ClearStart, ClearStarts
    <3> QED
        BY <2>1, <2>3, <3>1
  <2> QED
      BY <1>0, <1>1, <2>2, <2>4, <2>5, BeginsDo
<1>2. CASE projectClearMain
    BY <1>0, <1>2, ClearMainDoes, CutIs, HostClearEnds, HostGoes
<1>3. CASE CallFails
    BY <1>0, <1>3, CallFailsDoes, CutIs, HostErrorEnds
<1>4. CASE ListContainers \/ SkipDelete \/ DeleteContainer \/ stageProjectArtifacts
    BY <1>0, <1>4, ListDoes, SkipDeleteDoes, DeleteContainerDoes, StageDoes, HostGoes
<1>5. CASE DeletesDone
    BY <1>0, <1>5, DeletesDoneDoes, CutIs, HostClearEnds, HostGoes
<1>6. CASE ChangeContainer
    BY <1>0, <1>6, ChangeDoes, CutIs, HostErrorEnds, HostGoes
<1>7. CASE SyncContainer
  <2>1. PICK c \in cmd.todo, port \in BOOLEAN :
            /\ [status |-> cmd.listed[c], port |-> port] \in ContainerInfos
            /\ mem' = UpsertProjectContainer(mem, cmd.p, c, [status |-> cmd.listed[c], port |-> port])
      BY <1>0, <1>7, SyncDoes
  <2>2. Goes /\ cmd.p \in ProjectNames /\ c \in ContainerNames
      BY <1>0, <1>7, <2>1, SyncDoes, FieldsIn
  <2>3. mem'.projects = mem.projects /\ mem'.host = mem.host /\ mem'.hostProjects = mem.hostProjects
      BY <1>0, <2>1, <2>2, ContainerRowIs
  <2>4. Lists(mem')
      BY <1>0, <2>3 DEF Lists
  <2> QED
      BY <2>2, <2>4, HostGoes
<1>8. CASE SyncEnds
  <2>1. /\ cmd \in Commands /\ Cut(Synced) /\ Lists(Synced) /\ Synced \in Data
      BY <1>0, <1>8, SyncEndsDoes, CutIs, CutLists DEF Cut
  <2> QED
      BY <1>0, <1>8, <2>1, SyncEndsDoes, HostSucceed, HostClearEnds, HostErrorEnds, HostGoes
<1>9. CASE DeployContainer
    BY <1>0, <1>9, DeployDoes, HostFail, HostGoes
<1>10. CASE DeployFails \/ InspectFails \/ Kill
    BY <1>10, HostFail DEF DeployFails, InspectFails, Kill
<1>11. CASE setProjectContainerFromAgent \/ setProjectContainerFromAgentCurrentStatus
  <2> DEFINE c == IF cmd.pc = "inspect" THEN DeployName[cmd.p] ELSE cmd.new
             i == [status |-> OnAgent[c].status, port |-> OnAgent[c].port]
             d == UpsertProjectContainer(mem, cmd.p, c, i)
  <2>1. /\ cmd \in Commands /\ (Succeed(d) \/ Fail) /\ c \in ContainerNames /\ i \in ContainerInfos
        /\ cmd.pc \in {"inspect", "renamed"}
      BY <1>0, <1>11, InspectDoes, InspectedIs
  <2>2. cmd.op # "drain"
      BY <1>0, <2>1, CommandsAre DEF FlowInv, Removing
  <2> HIDE DEF i, c
  <2>3. d \in Data /\ d.projects = mem.projects /\ d.host = mem.host /\ d.hostProjects = mem.hostProjects
      BY <1>0, <2>1, FieldsIn, ContainerRowIs
  <2> HIDE DEF d
  <2>4. Lists(d)
      BY <1>0, <2>3 DEF Lists
  <2> QED
      BY <2>1, <2>2, <2>3, <2>4, HostSucceed, HostFail
<1>12. CASE RenameContainer
  <2>1. cmd \in Commands /\ cmd.op # "drain"
      BY <1>0, <1>12, RenameDoes, CommandsAre DEF FlowInv, Removing
  <2> QED
      BY <1>0, <1>12, <2>1, RenameDoes, HostSucceed, HostFail, HostGoes
<1>13. CASE ContainerRemoved \/ ContainerChanged
    BY <1>13 DEF ContainerRemoved, ContainerChanged, HostInv, DrainedIsFree, checkCandidateForRun
<1> QED
    BY <1>1, <1>2, <1>3, <1>4, <1>5, <1>6, <1>7, <1>8, <1>9, <1>10, <1>11, <1>12, <1>13 DEF Next, CommandStep

LEMMA HostHolds == Spec => []HostInv
<1>1. Init => HostInv
    BY EmptyOK, IdleIs DEF Init, HostInv, DrainedIsFree, Idle
<1>2. Typed /\ CopyInv /\ HostInv /\ [Next]_vars => HostInv'
  <2>1. HostInv /\ UNCHANGED vars => HostInv'
      BY DEF HostInv, DrainedIsFree, checkCandidateForRun, vars
  <2> QED
      BY <2>1, HostNext
<1> QED
    BY <1>1, <1>2, TypedHolds, CopyHolds, PTL DEF Spec

(***************************************************************************)
(* A project that was drained has no host and no containers, and no host   *)
(* counts it as one of its projects.                                       *)
(***************************************************************************)
THEOREM DrainFrees == Spec => []DrainedIsFree
<1>1. HostInv => DrainedIsFree
    BY DEF HostInv
<1> QED
    BY <1>1, HostHolds, PTL

-----------------------------------------------------------------------------
(***************************************************************************)
(* What was to be removed is gone: the parts of GoneInv.                   *)
(***************************************************************************)
ListedGone ==
    cmd.pc \in {"delete", "sync"} =>
        \A c \in ContainerNames : cmd.listed[c] = None => agent[Target][c] = None

RowsGone ==
    cmd.op \in Removing /\ cmd.pc \in {"clear", "list", "delete", "synclist", "sync"} =>
        \A c \in Rows(mem, cmd.p) : agent[Target][c] = None \/ Pending(Target, c)

NamesGone ==
    cmd.op \in Removing /\ cmd.pc \in {"delete", "synclist", "sync"} =>
        \A c \in cmd.names : agent[Target][c] = None \/ Pending(Target, c)

HadGone ==
    cmd.op # "rebuild" /\ ~ cmd.force /\ ~ cmd.report =>
        \A x \in cmd.had : agent[x[1]][x[2]] = None \/ Pending(x[1], x[2])

StagedGone ==
    cmd.pc \in {"stage", "deploy", "inspect"} => \A c \in Rows(mem, cmd.p) :
        agent[Target][c] = None \/ (cmd.pc = "inspect" /\ c = DeployName[cmd.p])

GoneNow == ListedGone /\ RowsGone /\ NamesGone /\ HadGone /\ StagedGone

LEMMA GoneParts == GoneInv <=> (cmd # Idle => GoneNow) /\ ClearedMeansGone
    BY DEF GoneInv, GoneNow, ListedGone, RowsGone, NamesGone, HadGone, StagedGone

\* While a command runs there is no outcome to judge.
LEMMA GoneRuns ==
    ASSUME FlowInv', cmd' \in Commands, GoneNow'
    PROVE  GoneInv'
<1>1. cmd' # Idle
    BY CommandsAre
<1>2. ClearedMeansGone'
    BY <1>1, IdleIs DEF FlowInv, ClearedMeansGone, Idle
<1> QED
    BY <1>1, <1>2 DEF GoneInv, GoneNow, ListedGone, RowsGone, NamesGone, HadGone, StagedGone

LEMMA GoneIdle ==
    ASSUME cmd' = Idle, done' = Idle
    PROVE  GoneInv'
    BY IdleIs DEF GoneInv, ClearedMeansGone, Idle

LEMMA GoneFail ==
    ASSUME Fail
    PROVE  GoneInv'
    BY GoneIdle DEF Fail

\* Every container of the projects to be removed is gone.
AllGone == ~ cmd.force /\ ~ cmd.report => \A x \in cmd.had : agent[x[1]][x[2]] = None

LEMMA GoneSaves ==
    ASSUME TypeOK, FlowInv, cmd \in Commands, NEW d, Saves(d), agent' = agent,
           cmd.op \in {"clear", "drain"} \/ (cmd.op = "delete" /\ ~ cmd.force /\ ~ cmd.report) => AllGone,
           ~ cmd.report \/ cmd.force
    PROVE  GoneInv'
<1>1. /\ cmd' = Idle /\ done'.op = cmd.op /\ done'.force = cmd.force /\ done'.had = cmd.had
    BY CommandsAre DEF Saves
<1>2. cmd.op # "delete" => ~ cmd.force /\ ~ cmd.report
    BY CommandsAre DEF FlowInv
<1>3. ClearedMeansGone'
    BY <1>1, <1>2 DEF ClearedMeansGone, AllGone
<1> QED
    BY <1>1, <1>3 DEF GoneInv

LEMMA GoneDeleteEnds ==
    ASSUME TypeOK, FlowInv, FlowInv', CopyInv, cmd \in Commands, cmd.op = "delete", agent' = agent,
           NEW ok \in BOOLEAN, NEW d, Cut(d), DeleteEnds(ok, d), ok => AllGone
    PROVE  GoneInv'
<1> DEFINE removed == ok \/ cmd.force
           report == cmd.report \/ ~ removed
<1>1. d \in Data /\ removed \in BOOLEAN /\ cmd.p \in ProjectNames /\ cmd.rest \in SUBSET ProjectNames
    BY FieldsIn DEF Cut
<1>2. CASE \E e : Saves(e) /\ ~ cmd.report /\ removed
    BY <1>2, GoneSaves
<1>3. CASE Fail
    BY <1>3, GoneFail
<1>4. ASSUME NEW q \in cmd.rest, mem' = After(removed, d),
             Starts("delete", q, "clear", {}, cmd.force, report, cmd.rest \ {q}, None,
                    cmd.had \cup Had(d, q))
      PROVE  GoneInv'
  <2>1. /\ cmd' \in Commands /\ cmd'.op = "delete" /\ cmd'.p = q /\ cmd'.pc = "clear"
        /\ cmd'.force = cmd.force /\ cmd'.report = report /\ cmd'.had = cmd.had \cup Had(d, q)
      BY <1>4 DEF Starts
  <2>2. q \in ProjectNames \ {cmd.p}
      BY <1>1, CommandsAre DEF CopyInv
  <2>3. Target' = projectAgentHost(d, q) /\ Rows(mem', q) = Rows(d, q)
    <3> HIDE DEF removed, report
    <3>1. SameProject(mem, After(removed, d), q)
        BY <1>1, <2>2, AfterIs
    <3>2. SameProject(mem, d, q)
        BY <2>2 DEF Cut
    <3>3. Target' = projectAgentHost(mem', q) /\ mem' = After(removed, d)
        BY <1>4, <2>1 DEF Target
    <3> QED
        BY <3>1, <3>2, <3>3 DEF SameProject
  <2>4. \A h, c : h = Target' /\ c \in Rows(mem', q) => Pending(h, c)'
      BY <2>1 DEF Pending
  <2>5. ~ cmd'.force /\ ~ cmd'.report => \A x \in cmd.had : agent'[x[1]][x[2]] = None
      BY <2>1 DEF AllGone
  <2>6. \A x \in Had(d, q) : Pending(x[1], x[2])'
      BY <2>3, <2>4 DEF Had
  <2>7. HadGone'
    <3>1. ASSUME ~ cmd'.force, ~ cmd'.report, NEW x \in cmd'.had
          PROVE  agent'[x[1]][x[2]] = None \/ Pending(x[1], x[2])'
        BY <2>1, <2>5, <2>6, <3>1
    <3> QED
        BY <3>1 DEF HadGone
  <2>8. GoneNow'
      BY <2>1, <2>4, <2>7 DEF GoneNow, ListedGone, RowsGone, NamesGone, StagedGone
  <2> QED
      BY <2>1, <2>8, GoneRuns
<1> QED
    BY <1>1, <1>2, <1>3, <1>4, DeleteEndsDoes DEF After

LEMMA GoneErrorEnds ==
    ASSUME TypeOK, FlowInv, FlowInv', CopyInv, cmd \in Commands, agent' = agent,
           NEW d, Cut(d), ErrorEnds(d)
    PROVE  GoneInv'
    BY GoneDeleteEnds, GoneFail DEF ErrorEnds

LEMMA GoneClearEnds ==
    ASSUME TypeOK, FlowInv, FlowInv', CopyInv, cmd \in Commands, agent' = agent,
           NEW d, Cut(d), ClearEnds(d), cmd.op # "rebuild" => AllGone,
           \A c \in Rows(d, cmd.p) : agent[Target][c] = None
    PROVE  GoneInv'
<1>0. d \in Data /\ (cmd.op # "delete" => ~ cmd.force /\ ~ cmd.report)
    BY CommandsAre DEF FlowInv, Cut
<1>1. CASE cmd.op \in {"clear", "drain"}
    BY <1>0, <1>1, ClearEndsDoes, GoneSaves
<1>2. CASE cmd.op = "rebuild"
  <2>1. mem' = d /\ Starts("rebuild", cmd.p, "stage", {}, FALSE, FALSE, {}, None, {})
      BY <1>0, <1>2, ClearEndsDoes
  <2>2. /\ cmd' \in Commands /\ cmd'.op = "rebuild" /\ cmd'.p = cmd.p /\ cmd'.pc = "stage"
      BY <2>1 DEF Starts
  <2>3. Target' = Target
      BY <2>1, <2>2, FieldsIn DEF Target, Cut
  <2>4. GoneNow'
      BY <2>1, <2>2, <2>3 DEF GoneNow, ListedGone, RowsGone, NamesGone, HadGone, StagedGone
  <2> QED
      BY <2>2, <2>4, GoneRuns
<1>3. CASE cmd.op = "delete"
    BY <1>3, GoneDeleteEnds DEF ClearEnds
<1> QED
    BY <1>1, <1>2, <1>3 DEF ClearEnds

\* If nothing is pending, everything is gone.
LEMMA NothingPending ==
    ASSUME GoneNow, cmd.op # "rebuild", \A h, c : ~ Pending(h, c)
    PROVE  AllGone
    BY DEF GoneNow, HadGone, AllGone

\* A command that is not of the removing kind has nothing to show.
LEMMA GoneOther ==
    ASSUME FlowInv', cmd' \in Commands, cmd'.op \notin Removing, ListedGone', StagedGone'
    PROVE  GoneInv'
<1>1. cmd'.had = {}
    BY CommandsAre DEF FlowInv
<1> QED
    BY <1>1, GoneRuns DEF GoneNow, RowsGone, NamesGone, HadGone

\* The agents lose containers, and what was pending or lost remains so.
LEMMA GoneOn ==
    ASSUME TypeOK, cmd \in Commands, cmd' \in Commands, GoneNow, FlowInv',
           cmd'.op = cmd.op, cmd'.force = cmd.force, cmd'.report = cmd.report, cmd'.had = cmd.had,
           \A h \in HostNames, c \in ContainerNames : agent[h][c] = None => agent'[h][c] = None,
           \A h \in HostNames, c \in ContainerNames : Pending(h, c) => agent'[h][c] = None \/ Pending(h, c)',
           ListedGone', RowsGone', NamesGone', StagedGone'
    PROVE  GoneInv'
<1>1. \A x \in cmd.had : x[1] \in HostNames /\ x[2] \in ContainerNames
    BY FieldsIn
<1>2. HadGone'
    BY <1>1 DEF GoneNow, HadGone
<1> QED
    BY <1>2, GoneRuns DEF GoneNow

LEMMA GoneNext ==
    ASSUME Typed, CopyInv, GoneInv, Next
    PROVE  GoneInv'
<1>0. TypeOK /\ FlowInv /\ FlowInv' /\ disk \in Data /\ mem \in Data
    BY FlowNext DEF Typed, TypeOK
<1>g. ASSUME cmd \in Commands PROVE GoneNow /\ cmd # Idle /\ Cut(mem)
    BY <1>0, <1>g, CommandsAre, GoneParts, CutIs
<1>1. CASE BeginCommand
  <2>1. CASE LocalStep
      BY <2>1, GoneIdle DEF LocalStep
  <2>2. CASE RunStart
    <3>1. cmd' \in Commands /\ cmd'.op = "run" /\ cmd'.pc = "stage" /\ Rows(mem', cmd'.p) = {}
        BY <2>2 DEF RunStart, Prepared, Starts
    <3>2. ListedGone' /\ StagedGone'
        BY <3>1 DEF ListedGone, StagedGone
    <3> QED
        BY <1>0, <3>1, <3>2, GoneOther DEF Removing
  <2>3. CASE LoopStart
    <3>1. /\ cmd' \in Commands /\ cmd'.op \in {"start", "stop", "sync", "rename"}
          /\ cmd'.pc \in {"list", "synclist"}
        BY <2>3 DEF LoopStart, LoopStarts, Starts
    <3>2. ListedGone' /\ StagedGone'
        BY <3>1 DEF ListedGone, StagedGone
    <3> QED
        BY <1>0, <3>1, <3>2, GoneOther DEF Removing
  <2>4. CASE ClearStart
    <3>1. PICK op \in Removing, p \in disk.projects, rest \in SUBSET disk.projects, force \in BOOLEAN :
              ClearStarts(op, p, rest, force)
        BY <2>4 DEF ClearStart
    <3>2. /\ cmd' \in Commands /\ cmd'.p = p /\ cmd'.pc = "clear" /\ cmd'.had = Had(disk, p)
          /\ mem' = normalize(disk)
        BY <3>1 DEF ClearStarts, Starts
    <3>3. Target' = projectAgentHost(disk, p) /\ Rows(mem', p) = Rows(disk, p)
        BY <1>0, <3>2, NormalizeView DEF Target, SameProject
    <3>4. \A h, c : h = Target' /\ c \in Rows(mem', p) => Pending(h, c)'
        BY <3>2 DEF Pending
    <3>5. \A x \in cmd'.had : Pending(x[1], x[2])'
        BY <3>2, <3>3, <3>4 DEF Had
    <3>6. GoneNow'
        BY <3>2, <3>4, <3>5 DEF GoneNow, ListedGone, RowsGone, NamesGone, HadGone, StagedGone
    <3> QED
        BY <1>0, <3>2, <3>6, GoneRuns
  <2> QED
      BY <1>0, <1>1, <2>1, <2>2, <2>3, <2>4, BeginsDo
<1>2. CASE projectClearMain
  <2> DEFINE names == Rows(mem, cmd.p) \cup (IF cmd.op = "rebuild" THEN {DeployName[cmd.p]} ELSE {})
  <2>1. /\ cmd \in Commands /\ cmd.pc = "clear" /\ agent' = agent
        /\ \/ names = {} /\ ClearEnds(mem)
           \/ mem' = mem /\ Moves("list", cmd.todo, cmd.listed, names, cmd.drop, cmd.errs)
      BY <1>0, <1>2, ClearMainDoes DEF Apart
  <2>2. GoneNow /\ Cut(mem)
      BY <1>g, <2>1
  <2>3. Rows(mem, cmd.p) \subseteq names
      OBVIOUS
  <2> HIDE DEF names
  <2>4. CASE names = {} /\ ClearEnds(mem)
    <3>1. \A h, c : ~ Pending(h, c)
        BY <2>1, <2>3, <2>4 DEF Pending
    <3> QED
        BY <1>0, <2>1, <2>2, <2>3, <2>4, <3>1, NothingPending, GoneClearEnds
  <2>5. CASE mem' = mem /\ Moves("list", cmd.todo, cmd.listed, names, cmd.drop, cmd.errs)
    <3>1. Target' = Target /\ cmd' \in Commands
        BY <2>5 DEF Moves, Target
    <3>2. \A h, c : h = Target /\ c \in Rows(mem, cmd.p) => Pending(h, c)'
        BY <2>3, <2>5, <3>1 DEF Moves, Pending
    <3>3. \A h, c : Pending(h, c) => Pending(h, c)'
        BY <2>1, <3>2 DEF Pending
    <3>4. ListedGone' /\ RowsGone' /\ NamesGone' /\ StagedGone'
        BY <2>5, <3>1, <3>2 DEF Moves, ListedGone, RowsGone, NamesGone, StagedGone
    <3> QED
        BY <1>0, <2>1, <2>2, <2>5, <3>3, <3>4, GoneOn DEF Moves
  <2> QED
      BY <2>1, <2>4, <2>5
<1>3. CASE ListContainers
  <2> DEFINE pc == IF cmd.pc = "synclist" THEN "sync"
                   ELSE IF cmd.op \in {"start", "stop"} THEN "change" ELSE "delete"
  <2>1. /\ cmd \in Commands /\ cmd.pc \in {"list", "synclist"} /\ agent' = agent /\ mem' = mem
        /\ Moves(pc, cmd.names, Listing, cmd.names, cmd.drop, cmd.errs)
      BY <1>0, <1>3, ListDoes DEF Apart
  <2>2. GoneNow /\ OnAgent = agent[Target] /\ OnAgent \in [ContainerNames -> Containers \cup {None}]
      BY <1>0, <1>g, <2>1, OnAgentIn
  <2>3. /\ cmd' \in Commands /\ cmd'.pc = pc /\ cmd'.p = cmd.p /\ cmd'.op = cmd.op /\ cmd'.errs = cmd.errs
        /\ cmd'.names = cmd.names /\ cmd'.todo = cmd.names /\ cmd'.listed = Listing
      BY <2>1 DEF Moves
  <2>4. Target' = Target
      BY <2>1, <2>3 DEF Target
  <2>5. \A c \in ContainerNames : Listing[c] = None => agent[Target][c] = None
    <3>1. SUFFICES ASSUME NEW c \in ContainerNames, OnAgent[c] # None PROVE Listing[c] # None
        BY <2>2
    <3>2. OnAgent[c].status \in Statuses
        BY <2>2, <3>1 DEF Containers
    <3> QED
        BY <3>1, <3>2, AbsenceAssumption DEF Listing
  <2>6. ListedGone' /\ StagedGone'
      BY <2>1, <2>3, <2>4, <2>5 DEF ListedGone, StagedGone
  <2>7. CASE cmd.op \in Removing
    <3>1. pc = IF cmd.pc = "synclist" THEN "sync" ELSE "delete"
        BY <2>7 DEF Removing
    <3> HIDE DEF pc
    <3>2. \A h, c : Pending(h, c) => Pending(h, c)'
        BY <2>1, <2>3, <2>4, <3>1 DEF Pending
    <3>3. \A c \in cmd.names : agent'[Target'][c] = None \/ Pending(Target, c)'
      <4>1. CASE cmd.pc = "list"
          BY <2>1, <2>3, <3>1, <4>1 DEF Pending
      <4>2. CASE cmd.pc = "synclist"
          BY <2>1, <2>2, <2>4, <2>7, <3>2, <4>2 DEF GoneNow, NamesGone
      <4> QED
          BY <2>1, <4>1, <4>2
    <3>4. RowsGone' /\ NamesGone'
        BY <2>1, <2>2, <2>3, <2>4, <3>2, <3>3 DEF GoneNow, RowsGone, NamesGone
    <3> QED
        BY <1>0, <2>1, <2>2, <2>6, <3>2, <3>4, GoneOn DEF Moves
  <2>8. CASE cmd.op \notin Removing
      BY <1>0, <2>3, <2>6, <2>8, GoneOther
  <2> QED
      BY <2>7, <2>8
<1>4. CASE CallFails
    BY <1>0, <1>4, <1>g, CallFailsDoes, GoneErrorEnds DEF Apart
<1>5. CASE SkipDelete
  <2>1. PICK c \in cmd.todo : cmd.listed[c] = None /\
            Moves("delete", cmd.todo \ {c}, cmd.listed, cmd.names \ {c}, cmd.drop, cmd.errs)
      BY <1>0, <1>5, SkipDeleteDoes
  <2>2. /\ cmd \in Commands /\ cmd.pc = "delete" /\ agent' = agent /\ mem' = mem /\ GoneNow
      BY <1>0, <1>5, <1>g, SkipDeleteDoes DEF Apart
  <2>3. Target' = Target
      BY <2>1, <2>2 DEF Target, Moves
  <2>4. c \in ContainerNames /\ agent[Target][c] = None
      BY <2>1, <2>2, FieldsIn DEF GoneNow, ListedGone
  <2>5. \A h, b : Pending(h, b) => agent'[h][b] = None \/ Pending(h, b)'
      BY <2>1, <2>2, <2>3, <2>4 DEF Pending, Moves
  <2>6. ListedGone' /\ StagedGone' /\ RowsGone' /\ NamesGone'
      BY <2>1, <2>2, <2>3, <2>5 DEF Moves, GoneNow, ListedGone, StagedGone, RowsGone, NamesGone
  <2> QED
      BY <1>0, <2>1, <2>2, <2>5, <2>6, GoneOn DEF Moves
<1>6. CASE DeleteContainer
  <2>1. PICK c \in cmd.todo, ok \in BOOLEAN :
            /\ (UNCHANGED agent /\ ~ ok) \/ Sets(c, None)
            /\ Moves("delete", cmd.todo \ {c}, cmd.listed, cmd.names, cmd.drop, cmd.errs \/ ~ ok)
      BY <1>0, <1>6, DeleteContainerDoes
  <2>2. cmd \in Commands /\ cmd.pc = "delete" /\ mem' = mem /\ GoneNow
      BY <1>0, <1>6, <1>g, DeleteContainerDoes
  <2>3. Target' = Target /\ Target \in HostNames /\ c \in ContainerNames /\ cmd.names \subseteq ContainerNames
      BY <1>0, <2>1, <2>2, FieldsIn, OnAgentIn DEF Target, Moves
  <2>4. \A h \in HostNames, b \in ContainerNames : agent[h][b] = None => agent'[h][b] = None
      BY <2>1 DEF Sets
  <2>5. ASSUME NEW h \in HostNames, NEW b \in ContainerNames, Pending(h, b)
        PROVE  agent'[h][b] = None \/ Pending(h, b)'
    <3>1. CASE b = c /\ Sets(c, None)
        BY <2>2, <2>5, <3>1 DEF Pending, Sets
    <3>2. CASE b # c
        BY <2>1, <2>2, <2>3, <2>5, <3>2 DEF Pending, Moves
    <3>3. CASE b = c /\ ~ Sets(c, None)
      <4>1. ~ ok
          BY <2>1, <3>3
      <4> QED
          BY <2>1, <2>2, <2>3, <2>5, <4>1 DEF Pending, Moves
    <3> QED
        BY <3>1, <3>2, <3>3
  <2>6. Rows(mem, cmd.p) \subseteq ContainerNames
      BY RowsIn
  <2>7. ListedGone' /\ StagedGone' /\ RowsGone' /\ NamesGone'
      BY <2>1, <2>2, <2>3, <2>4, <2>5, <2>6 DEF Moves, GoneNow, ListedGone, StagedGone, RowsGone, NamesGone
  <2> QED
      BY <1>0, <2>1, <2>2, <2>4, <2>5, <2>7, GoneOn DEF Moves
<1>7. CASE DeletesDone
  <2>1. /\ cmd \in Commands /\ cmd.pc = "delete" /\ cmd.todo = {} /\ agent' = agent
        /\ \/ cmd.names = {} /\ ClearEnds(mem)
           \/ mem' = mem /\ Moves("synclist", cmd.todo, NoList, cmd.names, TRUE, cmd.errs)
      BY <1>0, <1>7, DeletesDoneDoes DEF Apart
  <2>2. GoneNow /\ Cut(mem) /\ cmd.op \in Removing
      BY <1>0, <1>g, <2>1, FieldsIn DEF FlowInv, Ops, Removing
  <2>3. CASE cmd.names = {} /\ ClearEnds(mem)
    <3>1. \A h, c : ~ Pending(h, c)
        BY <2>1, <2>3 DEF Pending
    <3>2. \A c \in Rows(mem, cmd.p) : agent[Target][c] = None
        BY <2>1, <2>2, <3>1 DEF GoneNow, RowsGone
    <3> QED
        BY <1>0, <2>1, <2>2, <2>3, <3>1, <3>2, NothingPending, GoneClearEnds
  <2>4. CASE mem' = mem /\ Moves("synclist", cmd.todo, NoList, cmd.names, TRUE, cmd.errs)
    <3>1. Target' = Target
        BY <2>4 DEF Target, Moves
    <3>2. \A h, c : Pending(h, c) => Pending(h, c)'
        BY <2>1, <2>4, <3>1 DEF Pending, Moves
    <3>3. ListedGone' /\ StagedGone' /\ RowsGone' /\ NamesGone'
        BY <2>1, <2>2, <2>4, <3>1, <3>2 DEF Moves, GoneNow, ListedGone, StagedGone, RowsGone, NamesGone
    <3> QED
        BY <1>0, <2>1, <2>2, <2>4, <3>2, <3>3, GoneOn DEF Moves
  <2> QED
      BY <2>1, <2>3, <2>4
<1>8. CASE ChangeContainer
  <2>1. /\ cmd \in Commands /\ cmd.pc = "change" /\ cmd.op \in {"start", "stop"}
        /\ \/ ErrorEnds(mem)
           \/ /\ cmd' \in Commands /\ cmd'.op = cmd.op /\ cmd'.pc \in {"synclist", "change"}
    <3>1. cmd \in Commands /\ cmd.pc = "change"
        BY <1>0, <1>8, ChangeDoes
    <3>2. cmd.op \in {"start", "stop"}
        BY <1>0, <1>g, <3>1, FieldsIn DEF FlowInv, Ops, Removing
    <3>3. ErrorEnds(mem) \/ (cmd' \in Commands /\ cmd'.op = cmd.op /\ cmd'.pc \in {"synclist", "change"})
        BY <1>0, <1>8, ChangeDoes DEF Moves
    <3> QED
        BY <3>1, <3>2, <3>3
  <2>2. CASE ErrorEnds(mem)
      BY <2>1, <2>2, GoneFail DEF ErrorEnds
  <2>3. CASE cmd' \in Commands /\ cmd'.op = cmd.op /\ cmd'.pc \in {"synclist", "change"}
      BY <1>0, <2>1, <2>3, GoneOther DEF Removing, ListedGone, StagedGone
  <2> QED
      BY <2>1, <2>2, <2>3
<1>9. CASE SyncContainer
  <2>1. PICK c \in cmd.todo, port \in BOOLEAN :
            /\ [status |-> cmd.listed[c], port |-> port] \in ContainerInfos
            /\ mem' = UpsertProjectContainer(mem, cmd.p, c, [status |-> cmd.listed[c], port |-> port])
            /\ Moves("sync", cmd.todo \ {c}, cmd.listed, cmd.names, cmd.drop, cmd.errs)
      BY <1>0, <1>9, SyncDoes
  <2>2. cmd \in Commands /\ cmd.pc = "sync" /\ agent' = agent /\ GoneNow
      BY <1>0, <1>9, <1>g, SyncDoes
  <2>3. cmd.p \in ProjectNames /\ c \in ContainerNames /\ c \in cmd.names
      BY <1>0, <1>g, <2>1, <2>2, FieldsIn DEF FlowInv
  <2> DEFINE i == [status |-> cmd.listed[c], port |-> port]
  <2>4. mem' = UpsertProjectContainer(mem, cmd.p, c, i) /\ i \in ContainerInfos
      BY <2>1
  <2> HIDE DEF i
  <2>5. projectAgentHost(mem', cmd.p) = Target /\ Rows(mem', cmd.p) = Rows(mem, cmd.p) \cup {c}
      BY <1>0, <2>3, <2>4, RecordedView DEF Target
  <2>6. Target' = Target
      BY <2>1, <2>5 DEF Target, Moves
  <2>7. \A h, b : Pending(h, b) => Pending(h, b)'
      BY <2>1, <2>2, <2>6 DEF Pending, Moves
  <2>8. cmd.op \in Removing => \A b \in cmd.names \cup Rows(mem, cmd.p) : agent'[Target'][b] = None \/ Pending(Target, b)'
      BY <2>2, <2>6, <2>7 DEF GoneNow, RowsGone, NamesGone
  <2>9. ListedGone' /\ StagedGone' /\ RowsGone' /\ NamesGone'
      BY <2>1, <2>2, <2>3, <2>5, <2>6, <2>8 DEF Moves, GoneNow, ListedGone, StagedGone, RowsGone, NamesGone
  <2> QED
      BY <1>0, <2>1, <2>2, <2>7, <2>9, GoneOn DEF Moves
<1>10. CASE SyncEnds
  <2>1. /\ cmd \in Commands /\ cmd.pc = "sync" /\ agent' = agent /\ GoneNow /\ Cut(Synced)
        /\ Rows(Synced, cmd.p) \subseteq Rows(mem, cmd.p)
      BY <1>0, <1>10, <1>g, SyncEndsDoes, CutIs DEF Cut
  <2>2. CASE cmd.op \in {"start", "stop", "sync"} /\ Succeed(Synced)
    <3>1. Saves(Synced) /\ ~ cmd.report
        BY <1>0, <1>g, <2>1, <2>2, SucceedDoes DEF FlowInv, Cut
    <3> QED
        BY <1>0, <2>1, <2>2, <3>1, GoneSaves
  <2>3. CASE cmd' \in Commands /\ cmd'.op \in {"sync", "rename"} /\ cmd'.pc \in {"synclist", "rename"}
      BY <1>0, <2>3, GoneOther DEF Removing, ListedGone, StagedGone
  <2>4. CASE cmd.drop /\ ~ cmd.errs /\ ClearEnds(Synced)
    <3>1. \A h, c : ~ Pending(h, c)
        BY <2>1, <2>4 DEF Pending
    <3>2. cmd.op \in Removing
        BY <1>0, <1>g, <2>1, <2>4 DEF FlowInv
    <3>3. \A c \in Rows(Synced, cmd.p) : agent[Target][c] = None
        BY <2>1, <3>1, <3>2 DEF GoneNow, RowsGone
    <3> QED
        BY <1>0, <2>1, <2>4, <3>1, <3>3, NothingPending, GoneClearEnds
  <2>5. CASE ErrorEnds(Synced)
      BY <1>0, <2>1, <2>5, GoneErrorEnds
  <2> QED
      BY <1>0, <1>10, <2>2, <2>3, <2>4, <2>5, SyncEndsDoes DEF Starts
<1>11. CASE stageProjectArtifacts
  <2>1. /\ cmd \in Commands /\ cmd.pc = "stage" /\ agent' = agent /\ mem' = mem /\ GoneNow
        /\ Moves("deploy", cmd.todo, cmd.listed, cmd.names, cmd.drop, cmd.errs)
      BY <1>0, <1>11, <1>g, StageDoes DEF Apart
  <2>2. Target' = Target /\ \A h, c : ~ Pending(h, c)
      BY <2>1 DEF Target, Moves, Pending
  <2>3. ListedGone' /\ StagedGone' /\ RowsGone' /\ NamesGone'
      BY <2>1, <2>2 DEF Moves, GoneNow, ListedGone, StagedGone, RowsGone, NamesGone
  <2> QED
      BY <1>0, <2>1, <2>2, <2>3, GoneOn DEF Moves
<1>12. CASE DeployContainer
  <2>1. CASE Fail
      BY <2>1, GoneFail
  <2>2. CASE ~ Fail
    <3>1. /\ cmd \in Commands /\ cmd.pc = "deploy" /\ mem' = mem /\ GoneNow /\ cmd.op \in {"run", "rebuild"}
          /\ Moves("inspect", cmd.todo, cmd.listed, cmd.names, cmd.drop, cmd.errs)
      <4>1. /\ cmd \in Commands /\ cmd.pc = "deploy" /\ mem' = mem
            /\ Moves("inspect", cmd.todo, cmd.listed, cmd.names, cmd.drop, cmd.errs)
          BY <1>0, <1>12, <2>2, DeployDoes
      <4>2. cmd.op \in {"run", "rebuild"}
          BY <1>0, <1>g, <4>1, FieldsIn DEF FlowInv, Removing, Ops
      <4> QED
          BY <1>g, <4>1, <4>2
    <3>2. PICK k : Sets(DeployName[cmd.p], k)
        BY <1>0, <1>12, DeployDoes
    <3>3. Target' = Target /\ Target \in HostNames /\ Rows(mem, cmd.p) \subseteq ContainerNames
        BY <1>0, <3>1, OnAgentIn, RowsIn DEF Target, Moves
    <3>4. StagedGone'
        BY <3>1, <3>2, <3>3 DEF Moves, Sets, StagedGone, GoneNow
    <3>5. HadGone'
      <4>1. cmd'.op = "run" => cmd'.had = {}
          BY <1>0, <3>1, CommandsAre DEF Moves, FlowInv, Removing
      <4>2. cmd'.op \in {"run", "rebuild"}
          BY <3>1 DEF Moves
      <4> QED
          BY <4>1, <4>2 DEF HadGone
    <3>6. GoneNow'
        BY <3>1, <3>4, <3>5 DEF Moves, GoneNow, ListedGone, RowsGone, NamesGone
    <3> QED
        BY <1>0, <3>1, <3>6, GoneRuns DEF Moves
  <2> QED
      BY <2>1, <2>2
<1>13. CASE DeployFails \/ InspectFails \/ Kill
    BY <1>13, GoneFail DEF DeployFails, InspectFails, Kill
<1>14. CASE setProjectContainerFromAgent \/ setProjectContainerFromAgentCurrentStatus
  <2> DEFINE c == IF cmd.pc = "inspect" THEN DeployName[cmd.p] ELSE cmd.new
             d == UpsertProjectContainer(mem, cmd.p, c,
                      [status |-> OnAgent[c].status, port |-> OnAgent[c].port])
  <2>1. cmd \in Commands /\ (Succeed(d) \/ Fail) /\ d \in Data /\ cmd.pc \in {"inspect", "renamed"} /\ agent' = agent
      BY <1>0, <1>14, InspectDoes, InspectedIs
  <2> HIDE DEF d
  <2>2. cmd.op \in {"run", "rebuild", "rename"} /\ ~ cmd.report
      BY <1>0, <1>g, <2>1, FieldsIn DEF FlowInv, Removing, Ops
  <2> QED
      BY <1>0, <2>1, <2>2, SucceedDoes, GoneSaves, GoneFail
<1>15. CASE RenameContainer
  <2>1. cmd \in Commands /\ cmd.pc = "rename"
      BY <1>0, <1>15, RenameDoes
  <2>2. cmd.op = "rename" /\ ~ cmd.report
      BY <1>0, <1>g, <2>1, FieldsIn DEF FlowInv, Removing, Ops
  <2>3. CASE Succeed(mem) /\ agent' = agent
      BY <1>0, <2>1, <2>2, <2>3, SucceedDoes, GoneSaves
  <2>4. CASE Moves("renamed", cmd.todo, cmd.listed, cmd.names, cmd.drop, cmd.errs)
      BY <1>0, <2>2, <2>4, GoneOther DEF Moves, Removing, ListedGone, StagedGone
  <2> QED
      BY <1>0, <1>15, <2>3, <2>4, RenameDoes, GoneFail
<1>16. CASE ContainerRemoved \/ ContainerChanged
  <2>1. /\ UNCHANGED <<mem, cmd, done>>
        /\ \A h \in HostNames, c \in ContainerNames : agent[h][c] = None => agent'[h][c] = None
      BY <1>0, <1>16 DEF ContainerRemoved, ContainerChanged, TypeOK
  <2>2. ClearedMeansGone'
    <3>1. CASE done = Idle
        BY <2>1, <3>1, IdleIs DEF ClearedMeansGone, Idle
    <3>2. CASE done # Idle
      <4>1. \A x \in done.had : x[1] \in HostNames /\ x[2] \in ContainerNames
          BY <1>0, <3>2 DEF TypeOK
      <4> QED
          BY <2>1, <4>1 DEF ClearedMeansGone, GoneInv
    <3> QED
        BY <3>1, <3>2
  <2>3. CASE cmd = Idle
      BY <2>1, <2>2, <2>3 DEF GoneInv
  <2>4. CASE cmd \in Commands
    <3>1. /\ GoneNow /\ Target \in HostNames /\ cmd.names \subseteq ContainerNames
          /\ Rows(mem, cmd.p) \subseteq ContainerNames
        BY <1>0, <1>g, <2>4, FieldsIn, OnAgentIn, RowsIn
    <3>2. Target' = Target /\ \A h, c : Pending(h, c) => Pending(h, c)'
        BY <2>1 DEF Target, Pending
    <3>3. ListedGone' /\ StagedGone' /\ RowsGone' /\ NamesGone'
        BY <2>1, <3>1, <3>2 DEF GoneNow, ListedGone, StagedGone, RowsGone, NamesGone
    <3> QED
        BY <1>0, <2>1, <2>4, <3>1, <3>2, <3>3, GoneOn
  <2> QED
      BY <1>0, <2>3, <2>4 DEF TypeOK
<1> QED
    BY <1>1, <1>2, <1>3, <1>4, <1>5, <1>6, <1>7, <1>8, <1>9, <1>10, <1>11, <1>12, <1>13, <1>14,
       <1>15, <1>16 DEF Next, CommandStep

LEMMA GoneHolds == Spec => []GoneInv
<1>1. Init => GoneInv
    BY IdleIs DEF Init, GoneInv, ClearedMeansGone, Idle
<1>2. Typed /\ CopyInv /\ GoneInv /\ [Next]_vars => GoneInv'
  <2>1. GoneInv /\ UNCHANGED vars => GoneInv'
      BY DEF GoneInv, ClearedMeansGone, Pending, Target, vars
  <2> QED
      BY <2>1, GoneNext
<1> QED
    BY <1>1, <1>2, TypedHolds, CopyHolds, PTL DEF Spec

(***************************************************************************)
(* When clear, drain or a delete that was not forced reports success, no   *)
(* container that the database listed for its projects is left on its      *)
(* agent, whatever failed or disappeared on the way.                       *)
(***************************************************************************)
THEOREM ClearedAreGone == Spec => []ClearedMeansGone
<1>1. GoneInv => ClearedMeansGone
    BY DEF GoneInv
<1> QED
    BY <1>1, GoneHolds, PTL

-----------------------------------------------------------------------------
(***************************************************************************)
(* NoContainerForgotten.  What is on an agent is recorded in the copy of   *)
(* the running command, or in db.json, as long as no command failed.       *)
(***************************************************************************)
Covered(a, d) ==
    \A h \in HostNames, c \in ContainerNames : a[h][c] # None => RecordedIn(d, h, c)

\* A database that shows the projects of another one covers what that does.
LEMMA CoveredSame ==
    ASSUME NEW a, NEW d, NEW e, Covered(a, d),
           \A q \in d.projects : q \in e.projects /\ SameProject(d, e, q)
    PROVE  Covered(a, e)
    BY DEF Covered, RecordedIn, SameProject

\* One project may be missing, if its containers are.
LEMMA CoveredBut ==
    ASSUME TypeOK, NEW d \in Data, NEW e, NEW p \in ProjectNames, Covered(agent, d),
           \A q \in ProjectNames \ {p} : q \in d.projects => q \in e.projects /\ SameProject(d, e, q),
           \A c \in Rows(d, p) : agent[projectAgentHost(d, p)][c] = None
    PROVE  Covered(agent, e)
<1>1. d.projects \subseteq ProjectNames
    BY DEF Data
<1>2. SUFFICES ASSUME NEW h \in HostNames, NEW c \in ContainerNames, agent[h][c] # None
               PROVE  RecordedIn(e, h, c)
    BY DEF Covered
<1>3. PICK q \in d.projects : projectAgentHost(d, q) = h /\ c \in Rows(d, q)
    BY <1>2 DEF Covered, RecordedIn
<1>4. q # p
    BY <1>2, <1>3
<1> QED
    BY <1>1, <1>3, <1>4 DEF RecordedIn, SameProject

\* The same if only some of its rows are missing.
LEMMA CoveredCut ==
    ASSUME TypeOK, cmd \in Commands, NEW d, Cut(d), Covered(agent, mem),
           \A c \in Rows(mem, cmd.p) \ Rows(d, cmd.p) : agent[Target][c] = None
    PROVE  Covered(agent, d)
<1>1. mem.projects \subseteq ProjectNames
    BY DEF TypeOK, Data
<1>2. SUFFICES ASSUME NEW h \in HostNames, NEW c \in ContainerNames, agent[h][c] # None
               PROVE  RecordedIn(d, h, c)
    BY DEF Covered
<1>3. PICK q \in mem.projects : projectAgentHost(mem, q) = h /\ c \in Rows(mem, q)
    BY <1>2 DEF Covered, RecordedIn
<1>4. q \in d.projects /\ projectAgentHost(d, q) = h
    BY <1>1, <1>3 DEF Cut
<1>5. c \in Rows(d, q)
  <2>1. CASE q = cmd.p
      BY <1>2, <1>3, <2>1 DEF Target
  <2>2. CASE q # cmd.p
      BY <1>1, <1>3, <2>2 DEF Cut, SameProject
  <2> QED
      BY <2>1, <2>2
<1> QED
    BY <1>4, <1>5 DEF RecordedIn

\* A row more covers its container too.
LEMMA CoveredNew ==
    ASSUME TypeOK, NEW d \in Data, NEW p \in d.projects, NEW c \in ContainerNames, NEW i \in ContainerInfos,
           p \in ProjectNames,
           \A h \in HostNames, b \in ContainerNames : agent[h][b] # None =>
               RecordedIn(d, h, b) \/ (h = projectAgentHost(d, p) /\ b = c)
    PROVE  Covered(agent, UpsertProjectContainer(d, p, c, i))
<1> DEFINE e == UpsertProjectContainer(d, p, c, i)
<1>1. /\ e.projects = d.projects /\ Rows(e, p) = Rows(d, p) \cup {c}
      /\ \A q \in ProjectNames : projectAgentHost(e, q) = projectAgentHost(d, q)
      /\ \A q \in ProjectNames \ {p} : SameProject(d, e, q)
    BY RecordedView
<1>2. d.projects \subseteq ProjectNames
    BY DEF Data
<1> HIDE DEF e
<1>3. \A q \in d.projects : projectAgentHost(e, q) = projectAgentHost(d, q) /\ Rows(d, q) \subseteq Rows(e, q)
    BY <1>1, <1>2 DEF SameProject
<1>4. Covered(agent, e)
    BY <1>1, <1>3 DEF Covered, RecordedIn
<1> QED
    BY <1>4 DEF e

LEMMA CoveredMore ==
    ASSUME TypeOK, NEW d \in Data, NEW p \in ProjectNames, NEW c \in ContainerNames, NEW i \in ContainerInfos,
           Covered(agent, d)
    PROVE  Covered(agent, UpsertProjectContainer(d, p, c, i))
<1> DEFINE e == UpsertProjectContainer(d, p, c, i)
<1>1. /\ e.projects = d.projects /\ Rows(e, p) = Rows(d, p) \cup {c}
      /\ \A q \in ProjectNames : projectAgentHost(e, q) = projectAgentHost(d, q)
      /\ \A q \in ProjectNames \ {p} : SameProject(d, e, q)
    BY RecordedView
<1>2. d.projects \subseteq ProjectNames
    BY DEF Data
<1> HIDE DEF e
<1>3. \A q \in d.projects : projectAgentHost(e, q) = projectAgentHost(d, q) /\ Rows(d, q) \subseteq Rows(e, q)
    BY <1>1, <1>2 DEF SameProject
<1>4. Covered(agent, e)
    BY <1>1, <1>3 DEF Covered, RecordedIn
<1> QED
    BY <1>4 DEF e

\* A command has failed.
LEMMA RecordFailed ==
    ASSUME failed' = TRUE
    PROVE  RecordInv'
    BY DEF RecordInv

LEMMA RecordErrorEnds ==
    ASSUME TypeOK, cmd \in Commands, NEW d \in Data, ErrorEnds(d)
    PROVE  RecordInv'
<1>1. cmd.op = "delete" => failed' = TRUE
    BY DeleteEndsDoes DEF ErrorEnds, Fail
<1> QED
    BY <1>1, RecordFailed DEF ErrorEnds, Fail

\* It ends, and what it saves covers what is there.
LEMMA RecordSaves ==
    ASSUME NEW d, Saves(d), ~ failed' => Covered(agent', d)
    PROVE  RecordInv'
<1>1. \A q \in d.projects : q \in disk'.projects /\ SameProject(d, disk', q)
    BY NormalizeView, NormalizeIs DEF Saves, SameRows
<1>2. ~ failed' => Covered(agent', disk')
    BY <1>1, CoveredSame
<1> QED
    BY <1>2 DEF Saves, RecordInv, Covered

\* It goes on, and its copy covers what is there.
LEMMA RecordGoes ==
    ASSUME cmd' \in Commands, ~ failed' => Covered(agent', mem')
    PROVE  RecordInv'
<1>1. cmd' # Idle
    BY CommandsAre
<1> QED
    BY <1>1 DEF RecordInv, Covered

LEMMA RecordKnown ==
    ASSUME RecordInv, cmd \in Commands, cmd.pc \notin {"inspect", "renamed"}
    PROVE  ~ failed => Covered(agent, mem)
<1>1. cmd # Idle
    BY CommandsAre
<1> QED
    BY <1>1 DEF RecordInv, Covered

\* The end of delete for one project, whose containers are gone if it worked.
LEMMA RecordDeleteEnds ==
    ASSUME TypeOK, RecordInv, cmd \in Commands, agent' = agent, NEW ok \in BOOLEAN, NEW d, Cut(d),
           DeleteEnds(ok, d), ~ failed => Covered(agent, d),
           ok => \A c \in Rows(d, cmd.p) : agent[Target][c] = None
    PROVE  RecordInv'
<1> DEFINE removed == ok \/ cmd.force
<1>1. d \in Data /\ removed \in BOOLEAN /\ cmd.p \in ProjectNames /\ projectAgentHost(d, cmd.p) = Target
    BY FieldsIn DEF Cut, Target
<1>2. ~ failed' => ~ failed /\ ok
    BY <1>1, DeleteEndsDoes DEF Fail
<1>3. ~ failed' => Covered(agent, After(removed, d))
  <2>1. removed \in BOOLEAN /\ (ok => removed)
      OBVIOUS
  <2> HIDE DEF removed
  <2>2. \A q \in ProjectNames \ {cmd.p} :
            q \in d.projects => q \in After(removed, d).projects /\ SameProject(d, After(removed, d), q)
      BY <2>1, AfterIs DEF Cut, SameProject
  <2> QED
      BY <1>1, <1>2, <2>2, CoveredBut
<1>4. CASE Fail
    BY <1>4, RecordFailed DEF Fail
<1>5. CASE \E e : Saves(e) /\ SameRows(After(removed, d), e)
  <2>1. PICK e : Saves(e) /\ SameRows(After(removed, d), e)
      BY <1>5
  <2> HIDE DEF removed
  <2>2. ~ failed' => Covered(agent', e)
      BY <1>3, <2>1, SameView, CoveredSame DEF SameRows
  <2> QED
      BY <2>1, <2>2, RecordSaves
<1>6. CASE cmd' \in Commands /\ mem' = After(removed, d)
    BY <1>3, <1>6, RecordGoes
<1> QED
    BY <1>1, <1>4, <1>5, <1>6, DeleteEndsDoes DEF Starts, After

\* The end of the clearing, with all the containers of the project gone.
LEMMA RecordClearEnds ==
    ASSUME TypeOK, RecordInv, cmd \in Commands, agent' = agent, NEW d, Cut(d),
           ClearEnds(d), ~ failed => Covered(agent, d),
           \A c \in Rows(d, cmd.p) : agent[Target][c] = None
    PROVE  RecordInv'
<1>1. d \in Data /\ cmd.p \in ProjectNames /\ projectAgentHost(d, cmd.p) = Target /\ d.projects \subseteq ProjectNames
    BY FieldsIn DEF Cut, Target, Data
<1>2. CASE Saves(d) /\ UNCHANGED failed
    BY <1>2, RecordSaves
<1>3. CASE cmd.op = "drain" /\ UNCHANGED failed
  <2> DEFINE e == RemoveHostAndContainersFromProject(unregisterFromHost(d, cmd.p), cmd.p)
  <2>1. Saves(e)
      BY <1>1, <1>3, ClearEndsDoes
  <2>2. e.projects = d.projects /\ \A q \in ProjectNames \ {cmd.p} : SameProject(d, e, q)
      BY <1>1, DrainedIs, DrainedView
  <2> HIDE DEF e
  <2>3. ~ failed' => Covered(agent', e)
      BY <1>1, <1>3, <2>2, CoveredBut
  <2> QED
      BY <2>1, <2>3, RecordSaves
<1>4. CASE Goes /\ mem' = d /\ cmd' \in Commands
    BY <1>4, RecordGoes DEF Goes
<1>5. CASE DeleteEnds(TRUE, d)
    BY <1>5, RecordDeleteEnds
<1> QED
    BY <1>1, <1>2, <1>3, <1>4, <1>5, ClearEndsDoes DEF Starts

\* It goes on as it was, and no agent has a container it had not.
LEMMA RecordMoves ==
    ASSUME RecordInv, cmd \in Commands, cmd.pc \notin {"inspect", "renamed"}, Goes, mem' = mem,
           cmd' \in Commands,
           \A h \in HostNames, c \in ContainerNames : agent'[h][c] # None => agent[h][c] # None
    PROVE  RecordInv'
<1>1. ~ failed' => Covered(agent', mem')
    BY RecordKnown DEF Goes, Covered
<1> QED
    BY <1>1, RecordGoes

LEMMA RecordNext ==
    ASSUME Typed, CopyInv, GoneInv, RecordInv, Next
    PROVE  RecordInv'
<1>0. TypeOK /\ FlowInv /\ disk \in Data /\ mem \in Data
    BY DEF Typed, TypeOK
<1>g. ASSUME cmd \in Commands
      PROVE  /\ GoneNow /\ cmd # Idle /\ Cut(mem) /\ Target \in HostNames /\ cmd.p \in mem.projects
             /\ cmd.p \in ProjectNames /\ OnAgent = agent[Target]
    BY <1>0, <1>g, CommandsAre, GoneParts, CutIs, OnAgentIn, FieldsIn DEF CopyInv
<1>1. CASE BeginCommand
  <2>1. \A q : SameProject(disk, normalize(disk), q)
      BY <1>0, NormalizeView
  <2>2. normalize(disk).projects = disk.projects
      BY <1>0, NormalizeIs DEF SameRows
  <2>3. cmd = Idle => (~ failed => Covered(agent, disk))
      BY DEF RecordInv, Covered
  <2>4. CASE LocalStep
    <3>1. PICK e \in Data : /\ disk' = normalize(e)
                            /\ \A q \in disk.projects : q \in e.projects /\ SameProject(disk, e, q)
        BY <2>4 DEF LocalStep
    <3>2. \A q \in disk.projects : q \in disk'.projects /\ SameProject(disk, disk', q)
        BY <3>1, NormalizeIs, NormalizeView DEF SameRows, SameProject
    <3>3. ~ failed' => Covered(agent', disk')
        BY <2>3, <2>4, <3>2, CoveredSame DEF LocalStep
    <3> QED
        BY <2>4, <3>3 DEF LocalStep, RecordInv, Covered
  <2>5. CASE Began /\ mem' = normalize(disk) /\ cmd' \in Commands
    <3>1. ~ failed' => Covered(agent', mem')
        BY <2>1, <2>2, <2>3, <2>5, CoveredSame DEF Began
    <3> QED
        BY <2>5, <3>1, RecordGoes
  <2>6. CASE RunStart
    <3>1. PICK p \in ProjectNames : Began /\ Prepared(p, mem') /\ cmd' \in Commands
        BY <2>6 DEF RunStart, Starts
    <3>2. \A c \in Rows(disk, p) : p \in disk.projects => FALSE
        BY <3>1 DEF Prepared
    <3>3. \A q \in ProjectNames \ {p} : q \in disk.projects => q \in mem'.projects /\ SameProject(disk, mem', q)
        BY <3>1 DEF Prepared
    <3>4. Covered(agent, disk) => Covered(agent, mem')
      <4>1. CASE p \in disk.projects
        <5>1. \A c \in Rows(disk, p) : agent[projectAgentHost(disk, p)][c] = None
            BY <3>2, <4>1
        <5> QED
            BY <1>0, <3>3, <5>1, CoveredBut
      <4>2. CASE p \notin disk.projects
        <5>1. \A q \in disk.projects : q \in mem'.projects /\ SameProject(disk, mem', q)
            BY <1>0, <3>3, <4>2 DEF Data
        <5> QED
            BY <5>1, CoveredSame
      <4> QED
          BY <4>1, <4>2
    <3>5. ~ failed' => Covered(agent', mem')
        BY <2>3, <3>1, <3>4 DEF Began
    <3> QED
        BY <3>1, <3>5, RecordGoes
  <2>7. LoopStart \/ ClearStart => Began /\ mem' = normalize(disk) /\ cmd' \in Commands
      BY DEF LoopStart, ClearStart, LoopStarts, ClearStarts, Starts
  <2> QED
      BY <1>0, <1>1, <2>4, <2>5, <2>6, <2>7, BeginsDo
<1>2. CASE projectClearMain
  <2> DEFINE names == Rows(mem, cmd.p) \cup (IF cmd.op = "rebuild" THEN {DeployName[cmd.p]} ELSE {})
  <2>1. /\ cmd \in Commands /\ cmd.pc = "clear" /\ agent' = agent
        /\ \/ names = {} /\ ClearEnds(mem)
           \/ Goes /\ mem' = mem /\ cmd' \in Commands
      BY <1>0, <1>2, ClearMainDoes DEF Apart, Moves
  <2>2. names = {} => Rows(mem, cmd.p) = {}
      OBVIOUS
  <2> HIDE DEF names
  <2> QED
      BY <1>0, <1>g, <2>1, <2>2, RecordKnown, RecordClearEnds, RecordMoves
<1>3. CASE ListContainers \/ SkipDelete \/ stageProjectArtifacts
  <2>1. /\ cmd \in Commands /\ cmd.pc \notin {"inspect", "renamed"} /\ agent' = agent /\ Goes
        /\ mem' = mem /\ cmd' \in Commands
      BY <1>0, <1>3, ListDoes, SkipDeleteDoes, StageDoes DEF Apart, Moves
  <2> QED
      BY <2>1, RecordMoves
<1>4. CASE CallFails
    BY <1>0, <1>4, CallFailsDoes, RecordErrorEnds
<1>5. CASE DeleteContainer
  <2>1. /\ cmd \in Commands /\ cmd.pc = "delete" /\ Goes /\ mem' = mem /\ cmd' \in Commands
        /\ agent' = agent \/ \E c : Sets(c, None)
      BY <1>0, <1>5, DeleteContainerDoes DEF Moves
  <2>2. \A h \in HostNames, c \in ContainerNames : agent'[h][c] # None => agent[h][c] # None
      BY <2>1 DEF Sets
  <2> QED
      BY <2>1, <2>2, RecordMoves
<1>6. CASE DeletesDone
  <2>1. /\ cmd \in Commands /\ cmd.pc = "delete" /\ agent' = agent /\ cmd.todo = {}
        /\ \/ cmd.names = {} /\ ClearEnds(mem)
           \/ Goes /\ mem' = mem /\ cmd' \in Commands
      BY <1>0, <1>6, DeletesDoneDoes DEF Apart, Moves
  <2>2. cmd.op \in Removing
      BY <1>0, <1>g, <2>1, FieldsIn DEF FlowInv, Removing, Ops
  <2>3. cmd.names = {} => \A c \in Rows(mem, cmd.p) : agent[Target][c] = None
      BY <1>g, <2>1, <2>2 DEF GoneNow, RowsGone, Pending
  <2> QED
      BY <1>0, <1>g, <2>1, <2>3, RecordKnown, RecordClearEnds, RecordMoves
<1>7. CASE ChangeContainer
  <2>1. /\ cmd \in Commands /\ cmd.pc = "change"
        /\ \/ ErrorEnds(mem)
           \/ Goes /\ mem' = mem /\ cmd' \in Commands
        /\ agent' = agent \/ \E c, k : OnAgent[c] # None /\ Sets(c, k)
      BY <1>0, <1>7, ChangeDoes DEF Moves
  <2>2. \A h \in HostNames, c \in ContainerNames : agent'[h][c] # None => agent[h][c] # None
      BY <1>g, <2>1 DEF Sets
  <2> QED
      BY <1>0, <2>1, <2>2, RecordMoves, RecordErrorEnds
<1>8. CASE SyncContainer
  <2>1. PICK c \in cmd.todo, port \in BOOLEAN :
            /\ [status |-> cmd.listed[c], port |-> port] \in ContainerInfos
            /\ mem' = UpsertProjectContainer(mem, cmd.p, c, [status |-> cmd.listed[c], port |-> port])
      BY <1>0, <1>8, SyncDoes
  <2>2. cmd \in Commands /\ cmd.pc = "sync" /\ agent' = agent /\ Goes /\ cmd' \in Commands
      BY <1>0, <1>8, SyncDoes DEF Moves
  <2>3. cmd.p \in ProjectNames /\ c \in ContainerNames
      BY <2>1, <2>2, FieldsIn
  <2> DEFINE i == [status |-> cmd.listed[c], port |-> port]
  <2>4. mem' = UpsertProjectContainer(mem, cmd.p, c, i) /\ i \in ContainerInfos
      BY <2>1
  <2> HIDE DEF i
  <2>5. ~ failed => Covered(agent, mem')
      BY <1>0, <2>2, <2>3, <2>4, RecordKnown, CoveredMore
  <2> QED
      BY <2>2, <2>5, RecordGoes DEF Goes
<1>9. CASE SyncEnds
  <2>1. /\ cmd \in Commands /\ cmd.pc = "sync" /\ agent' = agent /\ Cut(Synced)
        /\ Rows(Synced, cmd.p) = Rows(mem, cmd.p) \ Absent
      BY <1>0, <1>9, SyncEndsDoes, CutIs
  <2>2. \A c \in Absent : agent[Target][c] = None
    <3>1. cmd.names \subseteq ContainerNames
        BY <2>1, FieldsIn
    <3> QED
        BY <1>g, <2>1, <3>1 DEF Absent, GoneNow, ListedGone
  <2>3. ~ failed => Covered(agent, Synced)
      BY <1>0, <2>1, <2>2, RecordKnown, CoveredCut
  <2>4. CASE Succeed(Synced)
      BY <2>1, <2>3, <2>4, SucceedDoes, RecordSaves DEF Cut
  <2>5. CASE Goes /\ mem' = Synced /\ cmd' \in Commands
      BY <2>1, <2>3, <2>5, RecordGoes DEF Goes
  <2>6. CASE cmd.drop /\ ~ cmd.errs /\ ClearEnds(Synced)
    <3>1. \A h, c : ~ Pending(h, c)
        BY <2>1, <2>6 DEF Pending
    <3>2. cmd.op \in Removing
        BY <1>0, <1>g, <2>1, <2>6 DEF FlowInv
    <3>3. \A c \in Rows(Synced, cmd.p) : agent[Target][c] = None
        BY <1>g, <2>1, <3>1, <3>2 DEF GoneNow, RowsGone
    <3> QED
        BY <1>0, <2>1, <2>3, <2>6, <3>3, RecordClearEnds
  <2>7. CASE ErrorEnds(Synced)
      BY <1>0, <2>1, <2>7, RecordErrorEnds DEF Cut
  <2> QED
      BY <1>0, <1>9, <2>4, <2>5, <2>6, <2>7, SyncEndsDoes DEF Starts
<1>10. CASE DeployContainer
  <2>1. CASE Fail
      BY <2>1, RecordFailed DEF Fail
  <2>2. CASE ~ Fail
    <3>1. /\ cmd \in Commands /\ cmd.pc = "deploy" /\ Goes /\ mem' = mem
          /\ Moves("inspect", cmd.todo, cmd.listed, cmd.names, cmd.drop, cmd.errs)
        BY <1>0, <1>10, <2>2, DeployDoes
    <3>2. PICK k : Sets(DeployName[cmd.p], k)
        BY <1>0, <1>10, DeployDoes
    <3>3. cmd' # Idle /\ cmd'.pc = "inspect" /\ cmd'.p = cmd.p /\ Target' = Target
        BY <3>1, CommandsAre DEF Moves, Target
    <3>4. SUFFICES ASSUME ~ failed', NEW h \in HostNames, NEW c \in ContainerNames, agent'[h][c] # None
                   PROVE  RecordedIn(mem', h, c) \/ (h = Target' /\ c = DeployName[cmd'.p])
        BY <3>3 DEF RecordInv
    <3>5. ~ failed => Covered(agent, mem)
        BY <3>1, RecordKnown
    <3> QED
        BY <3>1, <3>2, <3>3, <3>4, <3>5 DEF Goes, Covered, Sets
  <2> QED
      BY <2>1, <2>2
<1>11. CASE DeployFails \/ InspectFails \/ Kill
    BY <1>11, RecordFailed DEF DeployFails, InspectFails, Kill, Fail
<1>12. CASE setProjectContainerFromAgent \/ setProjectContainerFromAgentCurrentStatus
  <2> DEFINE c == IF cmd.pc = "inspect" THEN DeployName[cmd.p] ELSE cmd.new
             i == [status |-> OnAgent[c].status, port |-> OnAgent[c].port]
             d == UpsertProjectContainer(mem, cmd.p, c, i)
  <2>1. /\ cmd \in Commands /\ (Succeed(d) \/ Fail) /\ d \in Data /\ cmd.pc \in {"inspect", "renamed"}
        /\ agent' = agent /\ c \in ContainerNames /\ i \in ContainerInfos
      BY <1>0, <1>12, InspectDoes, InspectedIs
  <2>2. ~ failed => \A h \in HostNames, b \in ContainerNames :
            agent[h][b] # None => RecordedIn(mem, h, b) \/ (h = Target /\ b = c)
      BY <1>g, <2>1 DEF RecordInv
  <2> HIDE DEF c, i
  <2>3. ~ failed => Covered(agent, d)
      BY <1>0, <1>g, <2>1, <2>2, CoveredNew DEF Target
  <2> HIDE DEF d
  <2> QED
      BY <2>1, <2>3, SucceedDoes, RecordSaves, RecordFailed DEF Fail
<1>13. CASE RenameContainer
  <2>1. cmd \in Commands /\ cmd.pc = "rename"
      BY <1>0, <1>13, RenameDoes
  <2>2. ~ failed => Covered(agent, mem)
      BY <2>1, RecordKnown
  <2>3. CASE Succeed(mem) /\ agent' = agent
      BY <1>0, <2>1, <2>2, <2>3, SucceedDoes, RecordSaves
  <2>4. CASE Goes /\ mem' = mem /\ Moves("renamed", cmd.todo, cmd.listed, cmd.names, cmd.drop, cmd.errs)
             /\ \E old : agent' = [agent EXCEPT ![Target] = [@ EXCEPT ![old] = None, ![cmd.new] = OnAgent[old]]]
    <3>1. cmd' # Idle /\ cmd'.pc = "renamed" /\ cmd'.p = cmd.p /\ cmd'.new = cmd.new /\ Target' = Target
        BY <2>4, CommandsAre DEF Moves, Target
    <3>2. SUFFICES ASSUME ~ failed', NEW h \in HostNames, NEW c \in ContainerNames, agent'[h][c] # None
                   PROVE  RecordedIn(mem', h, c) \/ (h = Target' /\ c = cmd'.new)
        BY <3>1 DEF RecordInv
    <3>3. (h = Target /\ c = cmd.new) \/ agent[h][c] # None
      <4>1. PICK old : agent' = [agent EXCEPT ![Target] = [@ EXCEPT ![old] = None, ![cmd.new] = OnAgent[old]]]
          BY <2>4
      <4>2. Target \in HostNames /\ agent \in [HostNames -> [ContainerNames -> Containers \cup {None}]]
          BY <1>0, <1>g, <2>1 DEF TypeOK
      <4>3. CASE h = Target /\ c # cmd.new
        <5>1. agent'[h][c] = IF c = old THEN None ELSE agent[h][c]
            BY <4>1, <4>2, <4>3
        <5> QED
            BY <3>2, <5>1
      <4>4. CASE h # Target
          BY <3>2, <4>1, <4>2, <4>4
      <4> QED
          BY <4>3, <4>4
    <3> QED
        BY <2>2, <2>4, <3>1, <3>2, <3>3 DEF Goes, Covered
  <2>5. CASE Fail
      BY <2>5, RecordFailed DEF Fail
  <2> QED
      BY <1>0, <1>13, <2>3, <2>4, <2>5, RenameDoes
<1>14. CASE ContainerRemoved \/ ContainerChanged
  <2>1. /\ UNCHANGED <<mem, cmd, disk, failed>>
        /\ \A h \in HostNames, c \in ContainerNames : agent[h][c] = None => agent'[h][c] = None
      BY <1>0, <1>14 DEF ContainerRemoved, ContainerChanged, TypeOK
  <2> QED
      BY <2>1 DEF RecordInv, Target
<1> QED
    BY <1>1, <1>2, <1>3, <1>4, <1>5, <1>6, <1>7, <1>8, <1>9, <1>10, <1>11, <1>12, <1>13, <1>14
       DEF Next, CommandStep

LEMMA RecordHolds == Spec => []RecordInv
<1>1. Init => RecordInv
    BY DEF Init, RecordInv, NoList
<1>2. Typed /\ CopyInv /\ GoneInv /\ RecordInv /\ [Next]_vars => RecordInv'
  <2>1. RecordInv /\ UNCHANGED vars => RecordInv'
      BY DEF RecordInv, Target, vars
  <2> QED
      BY <2>1, RecordNext
<1> QED
    BY <1>1, <1>2, TypedHolds, CopyHolds, GoneHolds, PTL DEF Spec

(***************************************************************************)
(* As long as every command succeeded, each container on an agent is       *)
(* recorded for a project whose commands look for it there, whatever the   *)
(* commands removed, renamed or found missing on the way.                  *)
(***************************************************************************)
THEOREM NothingForgotten == Spec => []NoContainerForgotten
<1>1. RecordInv => NoContainerForgotten
    BY DEF RecordInv, NoContainerForgotten, RecordedIn
<1> QED
    BY <1>1, RecordHolds, PTL

-----------------------------------------------------------------------------
(***************************************************************************)
(* ReportedIsTrue.  While nothing happens behind its back, a command that  *)
(* loops over containers knows the state of those it has dealt with.       *)
(***************************************************************************)
Looping == {"start", "stop", "sync"}

KnowsRows == Rows(mem, cmd.p) \subseteq cmd.names

KnowsChanged ==
    cmd.pc = "change" => \A c \in ContainerNames :
        (cmd.listed[c] = Wanted \/ c \in cmd.names \ cmd.todo) => Has(c, Wanted)

KnowsWanted ==
    cmd.op # "sync" /\ cmd.pc \in {"synclist", "sync"} => \A c \in cmd.names : Has(c, Wanted)

KnowsListed ==
    cmd.pc = "sync" => \A c \in ContainerNames : agent[Target][c] # None =>
        /\ cmd.listed[c] = agent[Target][c].status
        /\ c \in cmd.names \ cmd.todo => mem.containers[cmd.p][c].status = agent[Target][c].status

Knows == KnowsRows /\ KnowsChanged /\ KnowsWanted /\ KnowsListed

LEMMA StateParts ==
    StateInv <=> (cmd # Idle /\ quiet /\ cmd.op \in Looping => Knows) /\ ReportedIsTrue
    BY DEF StateInv, Knows, KnowsRows, KnowsChanged, KnowsWanted, KnowsListed, Looping

LEMMA StatePartsNext ==
    StateInv' <=> (cmd' # Idle /\ quiet' /\ cmd'.op \in Looping => Knows') /\ ReportedIsTrue'
    BY DEF StateInv, Knows, KnowsRows, KnowsChanged, KnowsWanted, KnowsListed, Looping

\* A command under way has reported nothing.
LEMMA StateRuns ==
    ASSUME FlowInv', cmd' \in Commands, (quiet' /\ cmd'.op \in Looping) => Knows'
    PROVE  StateInv'
<1>1. cmd' # Idle /\ done' = Idle
    BY CommandsAre DEF FlowInv
<1>2. ReportedIsTrue'
    BY <1>1, IdleIs DEF ReportedIsTrue, Idle
<1> QED
    BY <1>2, StatePartsNext

LEMMA StateOther ==
    ASSUME FlowInv', cmd' \in Commands, cmd'.op \notin Looping
    PROVE  StateInv'
    BY StateRuns

\* What a command that ends without a report leaves.
LEMMA StateEnds ==
    ASSUME cmd' = Idle, done'.op \notin {"start", "stop", "sync", "run", "rebuild"}
    PROVE  StateInv'
    BY StatePartsNext DEF ReportedIsTrue

LEMMA StateFail ==
    ASSUME Fail
    PROVE  StateInv'
    BY StateEnds DEF Fail, Idle

LEMMA StateDeleteEnds ==
    ASSUME TypeOK, FlowInv', cmd \in Commands, cmd.op = "delete", NEW ok \in BOOLEAN, NEW d \in Data,
           DeleteEnds(ok, d)
    PROVE  StateInv'
<1>1. CASE Fail
    BY <1>1, StateFail
<1>2. CASE \E e : Saves(e)
    BY <1>2, CommandsAre, StateEnds DEF Saves
<1>3. CASE cmd' \in Commands /\ cmd'.op = "delete"
    BY <1>3, StateOther DEF Looping
<1> QED
    BY <1>1, <1>2, <1>3, DeleteEndsDoes DEF Starts

LEMMA StateErrorEnds ==
    ASSUME TypeOK, FlowInv', cmd \in Commands, NEW d \in Data, ErrorEnds(d)
    PROVE  StateInv'
    BY StateFail, StateDeleteEnds DEF ErrorEnds

LEMMA StateClearEnds ==
    ASSUME TypeOK, FlowInv', cmd \in Commands, NEW d \in Data, ClearEnds(d)
    PROVE  StateInv'
<1>1. CASE cmd.op \in {"clear", "drain"} /\ \E e : Saves(e)
    BY <1>1, CommandsAre, StateEnds DEF Saves
<1>2. CASE cmd' \in Commands /\ cmd'.op = "rebuild"
    BY <1>2, StateOther DEF Looping
<1>3. CASE cmd.op = "delete" /\ DeleteEnds(TRUE, d)
    BY <1>3, StateDeleteEnds
<1> QED
    BY <1>1, <1>2, <1>3, ClearEndsDoes DEF Starts

\* What a command has saved is what it reports.
LEMMA StateSaves ==
    ASSUME TypeOK, cmd \in Commands, NEW d, Saves(d), agent' = agent, projectAgentHost(d, cmd.p) = Target,
           cmd.op \in {"start", "stop", "sync", "run", "rebuild"} /\ quiet' =>
               \A c \in Rows(d, cmd.p) :
                   /\ agent[Target][c] # None => d.containers[cmd.p][c].status = agent[Target][c].status
                   /\ cmd.op = "start" => Has(c, "running")
                   /\ cmd.op = "stop" => Has(c, "exited")
    PROVE  StateInv'
<1>1. cmd' = Idle /\ done'.op = cmd.op /\ done'.p = cmd.p /\ cmd.p \in ProjectNames
    BY CommandsAre, FieldsIn DEF Saves
<1>2. /\ projectAgentHost(disk', cmd.p) = Target /\ Rows(disk', cmd.p) = Rows(d, cmd.p)
      /\ disk'.containers = d.containers
    BY <1>1, NormalizeView, NormalizeIs DEF Saves, SameProject, SameRows
<1>3. ReportedIsTrue'
    BY <1>1, <1>2 DEF ReportedIsTrue, Has
<1> QED
    BY <1>1, <1>3, StatePartsNext

LEMMA StateNext ==
    ASSUME Typed, CopyInv, GoneInv, StateInv, Next
    PROVE  StateInv'
<1>0. TypeOK /\ FlowInv /\ FlowInv' /\ disk \in Data /\ mem \in Data
    BY FlowNext DEF Typed, TypeOK
<1>g. ASSUME cmd \in Commands
      PROVE  /\ GoneNow /\ cmd # Idle /\ Target \in HostNames /\ cmd.p \in ProjectNames
             /\ OnAgent = agent[Target] /\ OnAgent \in [ContainerNames -> Containers \cup {None}]
             /\ cmd.names \subseteq ContainerNames /\ cmd.op \in Ops
             /\ quiet /\ cmd.op \in Looping => Knows
    BY <1>0, <1>g, CommandsAre, GoneParts, OnAgentIn, FieldsIn, StateParts
<1>1. CASE BeginCommand
  <2>1. CASE LocalStep
      BY <2>1, StateEnds DEF LocalStep, Idle
  <2>2. CASE RunStart \/ ClearStart
    <3>1. cmd' \in Commands /\ cmd'.op \notin Looping
        BY <2>2 DEF RunStart, ClearStart, ClearStarts, Starts, Removing, Looping
    <3> QED
        BY <1>0, <3>1, StateOther
  <2>3. CASE LoopStart
    <3>1. PICK op \in {"start", "stop", "sync", "rename"}, pc \in {"list", "synclist"}, p \in disk.projects,
             rest \in SUBSET disk.projects, new \in NewNames \cup {None} : LoopStarts(op, p, pc, rest, new)
        BY <2>3 DEF LoopStart
    <3>2. /\ cmd' \in Commands /\ cmd'.p = p /\ cmd'.op = op /\ cmd'.pc = pc /\ cmd'.names = Rows(disk, p)
          /\ mem' = normalize(disk) /\ pc = IF op \in {"start", "stop"} THEN "list" ELSE "synclist"
        BY <3>1 DEF LoopStarts, Starts
    <3>3. KnowsRows'
        BY <1>0, <3>2, NormalizeView DEF KnowsRows, SameProject
    <3>4. cmd'.op \in Looping => Knows'
        BY <3>2, <3>3 DEF Knows, KnowsChanged, KnowsWanted, KnowsListed, Looping
    <3> QED
        BY <1>0, <3>2, <3>4, StateRuns
  <2> QED
      BY <1>0, <1>1, <2>1, <2>2, <2>3, BeginsDo
<1>2. CASE projectClearMain \/ DeletesDone
  <2>1. /\ cmd \in Commands /\ cmd.pc \in {"clear", "delete"}
        /\ ClearEnds(mem) \/ (cmd' \in Commands /\ cmd'.op = cmd.op)
      BY <1>0, <1>2, ClearMainDoes, DeletesDoneDoes DEF Moves
  <2>2. cmd.op \notin Looping
      BY <1>0, <1>g, <2>1 DEF FlowInv, Looping
  <2> QED
      BY <1>0, <2>1, <2>2, StateClearEnds, StateOther
<1>3. CASE ListContainers
  <2> DEFINE pc == IF cmd.pc = "synclist" THEN "sync"
                   ELSE IF cmd.op \in {"start", "stop"} THEN "change" ELSE "delete"
  <2>1. /\ cmd \in Commands /\ cmd.pc \in {"list", "synclist"} /\ agent' = agent /\ mem' = mem /\ quiet' = quiet
        /\ Moves(pc, cmd.names, Listing, cmd.names, cmd.drop, cmd.errs)
      BY <1>0, <1>3, ListDoes DEF Apart, World
  <2>2. /\ cmd' \in Commands /\ cmd'.op = cmd.op /\ cmd'.p = cmd.p /\ cmd'.names = cmd.names
        /\ cmd'.todo = cmd.names /\ cmd'.listed = Listing /\ cmd'.pc = pc
      BY <2>1 DEF Moves
  <2>3. Target' = Target /\ Wanted' = Wanted
      BY <2>1, <2>2 DEF Target, Wanted
  <2>4. \A c \in ContainerNames : Listing[c] = IF agent[Target][c] = None THEN None ELSE agent[Target][c].status
      BY <1>g, <2>1 DEF Listing
  <2>5. pc \in {"sync", "change", "delete"} /\ (pc = "sync" <=> cmd.pc = "synclist")
      BY <2>1
  <2> HIDE DEF pc
  <2>6. ASSUME quiet', cmd'.op \in Looping PROVE Knows'
    <3>1. Knows
        BY <1>g, <2>1, <2>2, <2>6
    <3>2. KnowsRows'
        BY <2>1, <2>2, <3>1 DEF Knows, KnowsRows
    <3>3. KnowsChanged'
      <4>1. Wanted \in Statuses
          BY DEF Wanted, Statuses
      <4>2. \A c \in ContainerNames : Listing[c] = Wanted => Has(c, Wanted)'
          BY <2>1, <2>3, <2>4, <4>1, AbsenceAssumption DEF Has
      <4> QED
          BY <2>2, <2>3, <4>2 DEF KnowsChanged
    <3>4. KnowsWanted'
        BY <2>1, <2>2, <2>3, <2>5, <3>1 DEF Knows, KnowsWanted, Has
    <3>5. KnowsListed'
        BY <2>1, <2>2, <2>3, <2>4 DEF KnowsListed
    <3> QED
        BY <3>2, <3>3, <3>4, <3>5 DEF Knows
  <2> QED
      BY <1>0, <2>2, <2>6, StateRuns
<1>4. CASE CallFails
    BY <1>0, <1>4, CallFailsDoes, StateErrorEnds
<1>5. CASE SkipDelete \/ DeleteContainer
  <2>1. cmd \in Commands /\ cmd.pc = "delete" /\ cmd' \in Commands /\ cmd'.op = cmd.op
      BY <1>0, <1>5, SkipDeleteDoes, DeleteContainerDoes DEF Moves
  <2>2. cmd.op \notin Looping
      BY <1>0, <1>g, <2>1 DEF FlowInv, Looping
  <2> QED
      BY <1>0, <2>1, <2>2, StateOther
<1>6. CASE ChangeContainer
  <2>1. /\ cmd \in Commands /\ cmd.pc = "change" /\ quiet' = quiet
        /\ \E c \in cmd.todo :
              /\ \/ cmd.listed[c] = Wanted /\ UNCHANGED agent
                 \/ ErrorEnds(mem)
                 \/ OnAgent[c] # None /\ Sets(c, [OnAgent[c] EXCEPT !.status = Wanted])
              /\ \/ ErrorEnds(mem)
                 \/ Goes /\ mem' = mem /\
                    Moves(IF cmd.todo = {c} THEN "synclist" ELSE "change", cmd.todo \ {c},
                          IF cmd.todo = {c} THEN NoList ELSE cmd.listed, cmd.names, cmd.drop, cmd.errs)
      BY <1>0, <1>6, ChangeDoes DEF World
  <2>2. CASE ErrorEnds(mem)
      BY <1>0, <2>1, <2>2, StateErrorEnds
  <2>3. CASE ~ ErrorEnds(mem)
    <3>1. PICK c \in cmd.todo :
              /\ \/ cmd.listed[c] = Wanted /\ UNCHANGED agent
                 \/ OnAgent[c] # None /\ Sets(c, [OnAgent[c] EXCEPT !.status = Wanted])
              /\ mem' = mem
              /\ Moves(IF cmd.todo = {c} THEN "synclist" ELSE "change", cmd.todo \ {c},
                       IF cmd.todo = {c} THEN NoList ELSE cmd.listed, cmd.names, cmd.drop, cmd.errs)
        BY <2>1, <2>3
    <3>2. /\ cmd' \in Commands /\ cmd'.op = cmd.op /\ cmd'.p = cmd.p /\ cmd'.names = cmd.names
          /\ cmd'.todo = cmd.todo \ {c} /\ c \in cmd.names /\ cmd.names \subseteq ContainerNames
          /\ cmd'.pc = IF cmd.todo = {c} THEN "synclist" ELSE "change"
          /\ cmd.todo # {c} => cmd'.listed = cmd.listed
        BY <1>0, <1>g, <2>1, <3>1 DEF Moves, FlowInv
    <3>3. Target' = Target /\ Wanted' = Wanted /\ c \in ContainerNames
        BY <3>1, <3>2 DEF Target, Wanted
    <3>4. ASSUME quiet', cmd'.op \in Looping PROVE Knows'
      <4>1. Knows
          BY <1>g, <2>1, <3>2, <3>4
      <4>2. KnowsRows'
          BY <3>1, <3>2, <4>1 DEF Knows, KnowsRows
      <4>3. \A b \in ContainerNames : b # c /\ Has(b, Wanted) => Has(b, Wanted)'
          BY <1>g, <2>1, <3>1, <3>3 DEF Has, Sets
      <4>4. Has(c, Wanted)'
        <5>1. CASE cmd.listed[c] = Wanted /\ UNCHANGED agent
            BY <2>1, <3>3, <4>1, <5>1 DEF Knows, KnowsChanged, Has
        <5>2. CASE OnAgent[c] # None /\ Sets(c, [OnAgent[c] EXCEPT !.status = Wanted])
          <6> DEFINE k == [OnAgent[c] EXCEPT !.status = Wanted]
          <6>1. OnAgent[c] \in Containers
              BY <1>g, <2>1, <3>3, <5>2
          <6>2. k \in Containers /\ k.status = Wanted
              BY <6>1 DEF Containers, Wanted, Statuses
          <6> HIDE DEF k
          <6>3. agent'[Target][c] = k
              BY <1>g, <2>1, <3>3, <5>2 DEF Sets, k
          <6>4. k # None
              BY <6>2, AbsenceAssumption
          <6> QED
              BY <3>3, <6>2, <6>3, <6>4 DEF Has
        <5> QED
            BY <3>1, <5>1, <5>2
      <4>5. KnowsChanged'
          BY <2>1, <3>2, <3>3, <4>1, <4>3, <4>4 DEF Knows, KnowsChanged
      <4>6. KnowsWanted'
          BY <2>1, <3>2, <3>3, <4>1, <4>3, <4>4 DEF Knows, KnowsChanged, KnowsWanted
      <4>7. KnowsListed'
          BY <3>2 DEF KnowsListed
      <4> QED
          BY <4>2, <4>5, <4>6, <4>7 DEF Knows
    <3> QED
        BY <1>0, <3>2, <3>4, StateRuns
  <2> QED
      BY <2>2, <2>3
<1>7. CASE SyncContainer
  <2>1. PICK c \in cmd.todo, port \in BOOLEAN :
            /\ [status |-> cmd.listed[c], port |-> port] \in ContainerInfos
            /\ mem' = UpsertProjectContainer(mem, cmd.p, c, [status |-> cmd.listed[c], port |-> port])
            /\ Moves("sync", cmd.todo \ {c}, cmd.listed, cmd.names, cmd.drop, cmd.errs)
      BY <1>0, <1>7, SyncDoes
  <2>2. cmd \in Commands /\ cmd.pc = "sync" /\ agent' = agent /\ quiet' = quiet
      BY <1>0, <1>7, SyncDoes DEF World
  <2>3. cmd.p \in ProjectNames /\ c \in ContainerNames /\ c \in cmd.names
      BY <1>0, <1>g, <2>1, <2>2, FieldsIn DEF FlowInv
  <2> DEFINE i == [status |-> cmd.listed[c], port |-> port]
  <2>4. mem' = UpsertProjectContainer(mem, cmd.p, c, i) /\ i \in ContainerInfos /\ i.status = cmd.listed[c]
      BY <2>1
  <2> HIDE DEF i
  <2>5. /\ projectAgentHost(mem', cmd.p) = Target /\ Rows(mem', cmd.p) = Rows(mem, cmd.p) \cup {c}
        /\ \A b \in ContainerNames :
              mem'.containers[cmd.p][b] = IF b = c THEN i ELSE mem.containers[cmd.p][b]
      BY <1>0, <2>3, <2>4, RecordedView, ContainerRowIs DEF Target
  <2>6. /\ cmd' \in Commands /\ cmd'.op = cmd.op /\ cmd'.p = cmd.p /\ cmd'.names = cmd.names
        /\ cmd'.todo = cmd.todo \ {c} /\ cmd'.listed = cmd.listed /\ cmd'.pc = "sync"
      BY <2>1 DEF Moves
  <2>7. Target' = Target /\ Wanted' = Wanted
      BY <2>5, <2>6 DEF Target, Wanted
  <2>8. ASSUME quiet', cmd'.op \in Looping PROVE Knows'
    <3>1. Knows
        BY <1>g, <2>2, <2>6, <2>8
    <3>2. KnowsRows'
        BY <2>3, <2>5, <2>6, <3>1 DEF Knows, KnowsRows
    <3>3. KnowsChanged' /\ KnowsWanted'
        BY <2>2, <2>6, <2>7, <3>1 DEF Knows, KnowsChanged, KnowsWanted, Has
    <3>4. KnowsListed'
        BY <2>2, <2>4, <2>5, <2>6, <2>7, <3>1 DEF Knows, KnowsListed
    <3> QED
        BY <3>2, <3>3, <3>4 DEF Knows
  <2> QED
      BY <1>0, <2>6, <2>8, StateRuns
<1>8. CASE SyncEnds
  <2>1. /\ cmd \in Commands /\ cmd.pc = "sync" /\ agent' = agent /\ quiet' = quiet /\ Cut(Synced)
        /\ \A c \in cmd.todo : cmd.listed[c] = None
      BY <1>0, <1>8, SyncEndsDoes, CutIs DEF World
  <2> DEFINE d == Synced
  <2>2. Cut(d) /\ d \in Data /\ projectAgentHost(d, cmd.p) = Target
      BY <1>g, <2>1 DEF Cut, Target
  <2>3. CASE cmd.op \in Looping /\ Succeed(d)
    <3>1. Saves(d)
        BY <2>1, <2>2, <2>3, SucceedDoes
    <3> HIDE DEF d
    <3>2. ASSUME quiet', NEW c \in Rows(d, cmd.p)
          PROVE  /\ agent[Target][c] # None => d.containers[cmd.p][c].status = agent[Target][c].status
                 /\ cmd.op = "start" => Has(c, "running")
                 /\ cmd.op = "stop" => Has(c, "exited")
      <4>1. Knows
          BY <1>g, <2>1, <2>3, <3>2
      <4>2. c \in cmd.names /\ c \in ContainerNames /\ d.containers[cmd.p][c] = mem.containers[cmd.p][c]
          BY <1>g, <2>1, <2>2, <3>2, <4>1 DEF Cut, Knows, KnowsRows
      <4>3. agent[Target][c] # None => c \notin cmd.todo
        <5>1. SUFFICES ASSUME agent[Target][c] # None PROVE cmd.listed[c] # None
            BY <2>1
        <5>2. agent[Target][c].status \in Statuses
            BY <1>g, <2>1, <4>2, <5>1 DEF Containers
        <5> QED
            BY <2>1, <4>1, <4>2, <5>1, <5>2, AbsenceAssumption DEF Knows, KnowsListed
      <4>4. agent[Target][c] # None => d.containers[cmd.p][c].status = agent[Target][c].status
          BY <2>1, <4>1, <4>2, <4>3 DEF Knows, KnowsListed
      <4>5. cmd.op # "sync" => Has(c, Wanted)
          BY <2>1, <4>1, <4>2 DEF Knows, KnowsWanted
      <4> QED
          BY <4>4, <4>5 DEF Wanted
    <3> QED
        BY <1>0, <2>1, <2>2, <3>1, <3>2, StateSaves
  <2>4. CASE /\ cmd.op = "sync" /\ mem' = d
             /\ \E q \in cmd.rest :
                   Starts("sync", q, "synclist", Rows(d, q), FALSE, FALSE, cmd.rest \ {q}, None, {})
    <3>1. /\ cmd' \in Commands /\ cmd'.op = "sync" /\ cmd'.pc = "synclist"
          /\ cmd'.names = Rows(mem', cmd'.p)
        BY <2>4 DEF Starts
    <3>2. Knows'
        BY <3>1 DEF Knows, KnowsRows, KnowsChanged, KnowsWanted, KnowsListed
    <3> QED
        BY <1>0, <3>1, <3>2, StateRuns
  <2>5. CASE cmd' \in Commands /\ cmd'.op = "rename"
      BY <1>0, <2>5, StateOther DEF Looping
  <2>6. CASE ClearEnds(d) \/ ErrorEnds(d)
      BY <1>0, <2>1, <2>2, <2>6, StateClearEnds, StateErrorEnds
  <2> QED
      BY <1>0, <1>8, <2>3, <2>4, <2>5, <2>6, SyncEndsDoes DEF Starts, Looping
<1>9. CASE stageProjectArtifacts \/ DeployContainer
  <2>1. CASE Fail
      BY <2>1, StateFail
  <2>2. CASE ~ Fail
    <3>1. cmd \in Commands /\ cmd.pc \in {"stage", "deploy"} /\ cmd' \in Commands /\ cmd'.op = cmd.op
        BY <1>0, <1>9, <2>2, StageDoes, DeployDoes DEF Moves
    <3>2. cmd.op \notin Looping
        BY <1>0, <1>g, <3>1 DEF FlowInv, Looping
    <3> QED
        BY <1>0, <3>1, <3>2, StateOther
  <2> QED
      BY <2>1, <2>2
<1>10. CASE DeployFails \/ InspectFails \/ Kill
    BY <1>10, StateFail DEF DeployFails, InspectFails, Kill
<1>11. CASE setProjectContainerFromAgent \/ setProjectContainerFromAgentCurrentStatus
  <2> DEFINE c == IF cmd.pc = "inspect" THEN DeployName[cmd.p] ELSE cmd.new
             i == [status |-> OnAgent[c].status, port |-> OnAgent[c].port]
             d == UpsertProjectContainer(mem, cmd.p, c, i)
  <2>1. /\ cmd \in Commands /\ (Succeed(d) \/ Fail) /\ d \in Data /\ cmd.pc \in {"inspect", "renamed"}
        /\ agent' = agent /\ c \in ContainerNames /\ i \in ContainerInfos
      BY <1>0, <1>11, InspectDoes, InspectedIs
  <2>2. i.status = agent[Target][c].status /\ (cmd.pc = "inspect" => c = DeployName[cmd.p])
      BY <1>g, <2>1
  <2> HIDE DEF c, i
  <2>3. /\ projectAgentHost(d, cmd.p) = Target /\ Rows(d, cmd.p) = Rows(mem, cmd.p) \cup {c}
        /\ d.containers[cmd.p][c] = i
      BY <1>0, <1>g, <2>1, RecordedView, ContainerRowIs DEF Target
  <2> HIDE DEF d
  <2>4. cmd.op \in {"run", "rebuild", "rename"} /\ (cmd.op # "rename" => cmd.pc = "inspect")
      BY <1>0, <1>g, <2>1 DEF FlowInv, Removing, Ops
  <2>5. CASE Succeed(d)
    <3>1. Saves(d)
        BY <2>1, <2>5, SucceedDoes
    <3>2. cmd.op \in {"run", "rebuild"} => \A b \in Rows(d, cmd.p) :
              agent[Target][b] # None => d.containers[cmd.p][b].status = agent[Target][b].status
        BY <1>g, <2>1, <2>2, <2>3, <2>4 DEF GoneNow, StagedGone
    <3> QED
        BY <1>0, <2>1, <2>3, <2>4, <3>1, <3>2, StateSaves
  <2> QED
      BY <2>1, <2>5, StateFail
<1>12. CASE RenameContainer
  <2>1. cmd \in Commands /\ cmd.pc = "rename"
      BY <1>0, <1>12, RenameDoes
  <2>2. cmd.op = "rename"
      BY <1>0, <1>g, <2>1 DEF FlowInv, Removing, Ops
  <2>3. CASE Succeed(mem)
      BY <1>0, <2>1, <2>2, <2>3, SucceedDoes, CommandsAre, StateEnds DEF Saves
  <2>4. CASE cmd' \in Commands /\ cmd'.op = cmd.op
      BY <1>0, <2>2, <2>4, StateOther DEF Looping
  <2> QED
      BY <1>0, <1>12, <2>3, <2>4, RenameDoes, StateFail DEF Moves
<1>13. CASE ContainerRemoved \/ ContainerChanged
  <2>1. ~ quiet'
      BY <1>13 DEF ContainerRemoved, ContainerChanged, Event
  <2> QED
      BY <2>1, StatePartsNext DEF ReportedIsTrue
<1> QED
    BY <1>1, <1>2, <1>3, <1>4, <1>5, <1>6, <1>7, <1>8, <1>9, <1>10, <1>11, <1>12, <1>13
       DEF Next, CommandStep

(***************************************************************************)
(* When start, stop, sync, run or rebuild reports success and nothing      *)
(* changed behind the agent's back, db.json has the state of every         *)
(* container that exists, and start and stop have brought it about.        *)
(***************************************************************************)
THEOREM ReportsHold == Spec => []ReportedIsTrue
<1>1. Init => StateInv
    BY StateParts, IdleIs DEF Init, ReportedIsTrue, Idle
<1>2. Typed /\ CopyInv /\ GoneInv /\ StateInv /\ [Next]_vars => StateInv'
  <2>1. StateInv /\ UNCHANGED vars => StateInv'
      BY DEF StateInv, ReportedIsTrue, Target, Wanted, Has, vars
  <2> QED
      BY <2>1, StateNext
<1>3. StateInv => ReportedIsTrue
    BY DEF StateInv
<1> QED
    BY <1>1, <1>2, <1>3, TypedHolds, CopyHolds, GoneHolds, PTL DEF Spec

-----------------------------------------------------------------------------
(***************************************************************************)
(* SshFollowsDb, first half: the aliases and the ports.                    *)
(***************************************************************************)
\* What PortsAgree says, of any set of aliases.
Follows(s, d) == \A p \in d.projects : \A c \in Rows(d, p) : c \in s <=> d.containers[p][c].port

\* Every row of e is one of d.
Narrows(d, e) ==
    \A q \in e.projects : \A c \in Rows(e, q) :
        q \in d.projects /\ c \in Rows(d, q) /\ e.containers[q][c] = d.containers[q][c]

\* Dropping rows neither makes names shared nor changes a port.
LEMMA NarrowedIs ==
    ASSUME NEW d, NEW e, Narrows(d, e)
    PROVE  /\ NameShared(e) => NameShared(d)
           /\ \A s : Follows(s, d) => Follows(s, e)
<1>1. NameShared(e) => NameShared(d)
    BY DEF NameShared, Narrows
<1>2. \A s : Follows(s, d) => Follows(s, e)
    BY DEF Follows, Narrows
<1> QED
    BY <1>1, <1>2

LEMMA NarrowsMore ==
    ASSUME NEW d, NEW e, NEW f, Narrows(d, e), Narrows(e, f)
    PROVE  Narrows(d, f)
    BY DEF Narrows

LEMMA NarrowsSame ==
    ASSUME NEW d, NEW e, SameRows(d, e)
    PROVE  Narrows(d, e)
    BY SameView DEF Narrows, SameRows, SameProject

\* A project may be new or cleared, but the others are as they were.
LEMMA NarrowsBut ==
    ASSUME NEW d, NEW e,
           \A q \in e.projects : Rows(e, q) = {} \/ (q \in d.projects /\ SameProject(d, e, q))
    PROVE  Narrows(d, e)
    BY DEF Narrows, SameProject

LEMMA NarrowsCut ==
    ASSUME TypeOK, cmd \in Commands, NEW d, Cut(d)
    PROVE  Narrows(mem, d)
<1>1. d.projects = mem.projects /\ d.projects \subseteq ProjectNames
    BY DEF Cut, Data
<1>2. SUFFICES ASSUME NEW q \in d.projects, NEW c \in Rows(d, q)
               PROVE  c \in Rows(mem, q) /\ d.containers[q][c] = mem.containers[q][c]
    BY <1>1 DEF Narrows
<1>3. CASE q = cmd.p
    BY <1>2, <1>3 DEF Cut
<1>4. CASE q # cmd.p
    BY <1>1, <1>2, <1>4 DEF Cut, SameProject
<1> QED
    BY <1>3, <1>4

LEMMA NarrowsAfter ==
    ASSUME TypeOK, cmd \in Commands, NEW d, Cut(d), NEW removed \in BOOLEAN
    PROVE  Narrows(d, After(removed, d))
<1> DEFINE e == After(removed, d)
<1>1. CASE removed
  <2>1. /\ e.projects \subseteq ProjectNames /\ Rows(e, cmd.p) = {}
        /\ \A q \in ProjectNames : q \in e.projects => q \in mem.projects
        /\ \A q \in ProjectNames \ {cmd.p} : SameProject(mem, e, q)
      BY <1>1, AfterIs DEF Data
  <2>2. d.projects = mem.projects /\ \A q \in ProjectNames \ {cmd.p} : SameProject(mem, d, q)
      BY DEF Cut
  <2> HIDE DEF e
  <2>3. \A q \in ProjectNames \ {cmd.p} : SameProject(d, e, q)
      BY <2>1, <2>2 DEF SameProject
  <2>4. Narrows(d, e)
      BY <2>1, <2>2, <2>3, NarrowsBut
  <2> QED
      BY <2>4 DEF e
<1>2. CASE ~ removed
    BY <1>2, NarrowsSame DEF After, SameRows
<1> QED
    BY <1>1, <1>2

LEMMA NarrowsDrained ==
    ASSUME NEW d \in Data, NEW p \in ProjectNames
    PROVE  Narrows(d, RemoveHostAndContainersFromProject(unregisterFromHost(d, p), p))
<1> DEFINE e == RemoveHostAndContainersFromProject(unregisterFromHost(d, p), p)
<1>1. /\ e.projects = d.projects /\ Rows(e, p) = {}
      /\ \A q \in ProjectNames \ {p} : SameProject(d, e, q)
    BY DrainedIs, DrainedView
<1>2. d.projects \subseteq ProjectNames
    BY DEF Data
<1> HIDE DEF e
<1>3. Narrows(d, e)
    BY <1>1, <1>2, NarrowsBut
<1> QED
    BY <1>3 DEF e

\* A container no other project has is recorded, and its alias set.
LEMMA RecordedFollows ==
    ASSUME NEW d \in Data, NEW p \in d.projects, NEW c \in ContainerNames, NEW i \in ContainerInfos,
           NEW s, NEW t, t = IF i.port THEN upsertManagedSSHHostEntry(s, c) ELSE removeManagedSSHHostEntry(s, {c})
    PROVE  LET e == UpsertProjectContainer(d, p, c, i) IN
           /\ ~ NameShared(e) => \A q \in d.projects \ {p} : c \notin Rows(d, q)
           /\ (\A q \in d.projects \ {p} : c \notin Rows(d, q)) =>
                 /\ ~ NameShared(d) => ~ NameShared(e)
                 /\ Follows(s, d) => Follows(t, e)
<1> DEFINE e == UpsertProjectContainer(d, p, c, i)
<1>1. d.projects \subseteq ProjectNames /\ p \in ProjectNames
    BY DEF Data
<1>2. /\ e.projects = d.projects /\ Rows(e, p) = Rows(d, p) \cup {c}
      /\ \A q \in ProjectNames \ {p} : SameProject(d, e, q)
    BY <1>1, RecordedView
<1>3. \A q \in ProjectNames : \A k \in ContainerNames :
          e.containers[q][k] = IF q = p /\ k = c THEN i ELSE d.containers[q][k]
    BY <1>1, ContainerRowIs
<1> HIDE DEF e
<1>4. \A q \in d.projects \ {p} : Rows(e, q) = Rows(d, q)
    BY <1>1, <1>2 DEF SameProject
<1>5. ~ NameShared(e) => \A q \in d.projects \ {p} : c \notin Rows(d, q)
    BY <1>2, <1>4 DEF NameShared
<1>6. ASSUME \A q \in d.projects \ {p} : c \notin Rows(d, q), ~ NameShared(d)
      PROVE  ~ NameShared(e)
  <2>1. SUFFICES ASSUME NEW q \in d.projects, NEW r \in d.projects, q # r,
                        NEW k, k \in Rows(e, q), k \in Rows(e, r)
                 PROVE  FALSE
      BY <1>2 DEF NameShared
  <2>2. k \in Rows(d, q) /\ k \in Rows(d, r)
      BY <1>2, <1>4, <1>6, <2>1
  <2> QED
      BY <1>6, <2>1, <2>2 DEF NameShared
<1>7. ASSUME \A q \in d.projects \ {p} : c \notin Rows(d, q), Follows(s, d)
      PROVE  Follows(t, e)
  <2>1. SUFFICES ASSUME NEW q \in d.projects, NEW k \in Rows(e, q)
                 PROVE  k \in t <=> e.containers[q][k].port
      BY <1>2 DEF Follows
  <2>2. k \in ContainerNames /\ q \in ProjectNames
      BY <1>1, <2>1, RowsIn
  <2>3. CASE k = c
    <3>1. q = p
        BY <1>4, <1>7, <2>1, <2>3
    <3>2. e.containers[q][k] = i
        BY <1>3, <2>2, <2>3, <3>1
    <3>3. k \in t <=> i.port
        BY <2>3, <3>1 DEF upsertManagedSSHHostEntry, removeManagedSSHHostEntry
    <3> QED
        BY <3>2, <3>3
  <2>4. CASE k # c
    <3>1. e.containers[q][k] = d.containers[q][k] /\ k \in Rows(d, q)
        BY <1>2, <1>3, <1>4, <2>1, <2>2, <2>4
    <3>2. k \in t <=> k \in s
        BY <2>4 DEF upsertManagedSSHHostEntry, removeManagedSSHHostEntry
    <3> QED
        BY <1>7, <2>1, <3>1, <3>2 DEF Follows
  <2> QED
      BY <2>3, <2>4
<1> QED
    BY <1>5, <1>6, <1>7 DEF e

\* What PortInv says of a copy, of db.json, and of the names.
Kept(s, d) == ~ shared => ~ NameShared(d) /\ (~ failed => Follows(s, d))

NamesOwn == cmd.names \subseteq Rows(mem, cmd.p) \cup (IF cmd.op = "rebuild" THEN {DeployName[cmd.p]} ELSE {})

LEMMA PortParts ==
    PortInv <=> /\ ~ shared => ~ NameShared(disk)
                /\ cmd = Idle /\ ~ failed /\ ~ shared => Follows(ssh, disk)
                /\ cmd # Idle => NamesOwn /\ (~ Takes => Kept(ssh, mem))
    BY DEF PortInv, PortsAgree, Follows, NamesOwn, Kept

\* The command fails.
LEMMA PortFail ==
    ASSUME PortInv, Fail
    PROVE  PortInv'
    BY DEF PortInv, Fail

\* It ends, and what it saves agrees with the aliases.
LEMMA PortSaves ==
    ASSUME NEW d, Saves(d), ~ shared' => ~ NameShared(d), ~ failed' /\ ~ shared' => Follows(ssh', d)
    PROVE  PortInv'
<1>1. d \in Data /\ disk' = normalize(d) /\ cmd' = Idle
    BY DEF Saves
<1>2. Narrows(d, disk')
    BY <1>1, NormalizeIs, NarrowsSame
<1>3. NameShared(disk') => NameShared(d)
    BY <1>2, NarrowedIs
<1>4. Follows(ssh', d) => Follows(ssh', disk')
    BY <1>2, NarrowedIs
<1> QED
    BY <1>1, <1>3, <1>4 DEF PortInv, PortsAgree, Follows, NameShared

LEMMA PortSucceeds ==
    ASSUME cmd \in Commands, NEW d \in Data, Succeed(d),
           ~ shared /\ ~ NameShared(d) /\ ~ failed => Follows(ssh', d)
    PROVE  PortInv'
<1>1. Saves(d) /\ shared' = (shared \/ NameShared(d)) /\ failed' = failed
    BY SucceedDoes
<1> QED
    BY <1>1, PortSaves

\* It goes on.
LEMMA PortGoes ==
    ASSUME PortInv, disk' = disk, shared' = shared, failed => failed', cmd' \in Commands, NamesOwn',
           Takes' \/ (~ shared => ~ NameShared(mem') /\ (~ failed' => Follows(ssh', mem')))
    PROVE  PortInv'
<1>1. cmd' # Idle
    BY CommandsAre
<1> QED
    BY <1>1 DEF PortInv, PortsAgree, Follows, NameShared, NamesOwn

\* ... with the same copy.
LEMMA PortMoves ==
    ASSUME PortInv, cmd \in Commands, Goes, mem' = mem, ssh' = ssh,
           NEW pc, NEW todo, NEW listed, NEW names, NEW drop, NEW errs,
           Moves(pc, todo, listed, names, drop, errs),
           names \subseteq Rows(mem, cmd.p) \cup (IF cmd.op = "rebuild" THEN {DeployName[cmd.p]} ELSE {})
    PROVE  PortInv'
<1>1. cmd # Idle /\ cmd' \in Commands
    BY CommandsAre DEF Moves
<1>2. NamesOwn' /\ (Takes' <=> Takes)
    BY DEF Moves, NamesOwn, Takes
<1>3. ~ Takes => (~ shared => ~ NameShared(mem') /\ (~ failed' => Follows(ssh', mem')))
    BY <1>1, PortParts DEF Kept, Goes
<1> QED
    BY <1>1, <1>2, <1>3, PortGoes DEF Goes

\* The end of delete for one project.
LEMMA PortDeleteEnds ==
    ASSUME TypeOK, PortInv, cmd \in Commands, NEW ok \in BOOLEAN, NEW d, Cut(d), DeleteEnds(ok, d),
           Kept(ssh', d)
    PROVE  PortInv'
<1> DEFINE removed == ok \/ cmd.force
           after == After(removed, d)
<1>1. d \in Data /\ removed \in BOOLEAN
    BY FieldsIn DEF Cut
<1>2. Narrows(d, after)
    BY <1>1, NarrowsAfter
<1>3. \/ /\ \E e : Saves(e) /\ SameRows(after, e)
         /\ failed' = (failed \/ ~ ok)
         /\ UNCHANGED shared
      \/ Fail
      \/ /\ \E q \in cmd.rest : \E report, rest, had :
               Starts("delete", q, "clear", {}, cmd.force, report, rest, None, had)
         /\ mem' = after
         /\ failed' = (failed \/ ~ ok)
         /\ UNCHANGED <<disk, done, shared>>
    BY <1>1, DeleteEndsDoes DEF After
<1> HIDE DEF removed, after
<1>4. ASSUME NEW e, Saves(e), SameRows(after, e), failed' = (failed \/ ~ ok), shared' = shared
      PROVE  PortInv'
  <2>1. Narrows(d, e)
      BY <1>2, <1>4, NarrowsSame, NarrowsMore
  <2>2. ~ shared' => ~ NameShared(e) /\ (~ failed' => Follows(ssh', e))
      BY <1>4, <2>1, NarrowedIs DEF Kept
  <2> QED
      BY <1>4, <2>2, PortSaves
<1>5. ASSUME NEW q \in cmd.rest, NEW report, NEW rest, NEW had,
             Starts("delete", q, "clear", {}, cmd.force, report, rest, None, had),
             mem' = after, failed' = (failed \/ ~ ok), disk' = disk, shared' = shared
      PROVE  PortInv'
  <2>1. cmd' \in Commands /\ NamesOwn'
      BY <1>5 DEF Starts, NamesOwn
  <2>2. ~ shared => ~ NameShared(mem') /\ (~ failed' => Follows(ssh', mem'))
      BY <1>2, <1>5, NarrowedIs DEF Kept
  <2> QED
      BY <1>5, <2>1, <2>2, PortGoes
<1> QED
    BY <1>3, <1>4, <1>5, PortFail

LEMMA PortErrorEnds ==
    ASSUME TypeOK, PortInv, cmd \in Commands, NEW d, Cut(d), ErrorEnds(d),
           cmd.op = "delete" => Kept(ssh', d)
    PROVE  PortInv'
    BY PortDeleteEnds, PortFail DEF ErrorEnds

\* The end of the clearing.
LEMMA PortClearEnds ==
    ASSUME TypeOK, PortInv, cmd \in Commands, NEW d, Cut(d), ClearEnds(d), ~ Takes => Kept(ssh', d)
    PROVE  PortInv'
<1>1. d \in Data /\ cmd.p \in ProjectNames
    BY FieldsIn DEF Cut
<1>2. cmd.op # "rebuild" => Kept(ssh', d)
    BY DEF Takes
<1>3. CASE cmd.op = "clear"
    BY <1>1, <1>2, <1>3, PortSucceeds DEF ClearEnds, Kept
<1>4. CASE cmd.op = "drain"
  <2> DEFINE e == RemoveHostAndContainersFromProject(unregisterFromHost(d, cmd.p), cmd.p)
  <2>1. e \in Data /\ Narrows(d, e)
      BY <1>1, DrainedIs, NarrowsDrained
  <2>2. Succeed(e)
      BY <1>4 DEF ClearEnds
  <2> HIDE DEF e
  <2>3. ~ shared /\ ~ failed => Follows(ssh', e)
      BY <1>2, <1>4, <2>1, NarrowedIs DEF Kept
  <2> QED
      BY <2>1, <2>2, <2>3, PortSucceeds
<1>5. CASE cmd.op = "rebuild"
  <2>1. Goes /\ mem' = d /\ Starts("rebuild", cmd.p, "stage", {}, FALSE, FALSE, {}, None, {})
      BY <1>1, <1>5, ClearEndsDoes
  <2>2. cmd' \in Commands /\ NamesOwn'
      BY <2>1 DEF Starts, NamesOwn
  <2>3. Takes => Takes'
    <3>1. \A q \in mem.projects \ {cmd.p} : q \in d.projects /\ Rows(d, q) = Rows(mem, q)
        BY <1>1 DEF Cut, Data, SameProject
    <3> QED
        BY <2>1, <3>1 DEF Takes, Starts
  <2>4. ~ Takes => (~ shared => ~ NameShared(mem') /\ (~ failed' => Follows(ssh', mem')))
      BY <2>1 DEF Kept, Goes
  <2> QED
      BY <2>1, <2>2, <2>3, <2>4, PortGoes DEF Goes
<1>6. CASE cmd.op = "delete"
    BY <1>2, <1>6, PortDeleteEnds DEF ClearEnds
<1> QED
    BY <1>3, <1>4, <1>5, <1>6 DEF ClearEnds

LEMMA PortNext ==
    ASSUME Typed, CopyInv, PortInv, Next
    PROVE  PortInv'
<1>0. TypeOK /\ FlowInv /\ disk \in Data /\ mem \in Data
    BY DEF Typed, TypeOK
<1>g. ASSUME cmd \in Commands
      PROVE  /\ cmd # Idle /\ Cut(mem) /\ cmd.p \in mem.projects /\ cmd.p \in ProjectNames
             /\ NamesOwn /\ (~ Takes => Kept(ssh, mem)) /\ mem.projects \subseteq ProjectNames
    BY <1>0, <1>g, CommandsAre, CutIs, FieldsIn, PortParts DEF CopyInv, Data
<1>1. CASE BeginCommand
  <2>1. cmd = Idle => Kept(ssh, disk)
      BY PortParts DEF Kept
  <2>2. CASE LocalStep
    <3>1. PICK e \in Data : /\ disk' = normalize(e)
                            /\ \A q \in disk.projects : SameProject(disk, e, q)
                            /\ \A q \in e.projects \ disk.projects : Rows(e, q) = {}
        BY <2>2 DEF LocalStep
    <3>2. Narrows(disk, e)
        BY <3>1, NarrowsBut
    <3>3. Narrows(disk, disk')
        BY <3>1, <3>2, NormalizeIs, NarrowsSame, NarrowsMore
    <3>4. Kept(ssh, disk')
        BY <2>1, <2>2, <3>3, NarrowedIs DEF Kept, LocalStep
    <3> QED
        BY <2>2, <3>4 DEF LocalStep, PortInv, PortsAgree, Kept, Follows, NameShared
  <2>3. ASSUME Began, Narrows(disk, mem'), cmd' \in Commands, NamesOwn'
        PROVE  PortInv'
    <3>1. ~ shared => ~ NameShared(mem') /\ (~ failed' => Follows(ssh', mem'))
        BY <2>1, <2>3, NarrowedIs DEF Kept, Began
    <3> QED
        BY <2>3, <3>1, PortGoes DEF Began
  <2>4. CASE RunStart
    <3>1. PICK p \in ProjectNames :
              Began /\ Prepared(p, mem') /\ Starts("run", p, "stage", {}, FALSE, FALSE, {}, None, {})
        BY <2>4 DEF RunStart
    <3>2. mem'.projects \subseteq ProjectNames
        BY <3>1 DEF Prepared, Data
    <3>3. \A q \in mem'.projects : Rows(mem', q) = {} \/ (q \in disk.projects /\ SameProject(disk, mem', q))
        BY <3>1, <3>2 DEF Prepared
    <3> QED
        BY <2>3, <3>1, <3>3, NarrowsBut DEF Starts, NamesOwn
  <2>5. Narrows(disk, normalize(disk)) /\ \A q : Rows(normalize(disk), q) = Rows(disk, q)
      BY <1>0, NormalizeIs, NarrowsSame, NormalizeView DEF SameProject
  <2>6. CASE LoopStart
    <3>1. PICK op \in {"start", "stop", "sync", "rename"}, pc \in {"list", "synclist"}, p \in disk.projects,
               rest \in SUBSET disk.projects, new \in NewNames \cup {None} : LoopStarts(op, p, pc, rest, new)
        BY <2>6 DEF LoopStart
    <3> QED
        BY <2>3, <2>5, <3>1 DEF LoopStarts, Starts, NamesOwn
  <2>7. CASE ClearStart
    <3>1. PICK op \in Removing, p \in disk.projects, rest \in SUBSET disk.projects, force \in BOOLEAN :
              ClearStarts(op, p, rest, force)
        BY <2>7 DEF ClearStart
    <3> QED
        BY <2>3, <2>5, <3>1 DEF ClearStarts, Starts, NamesOwn
  <2> QED
      BY <1>0, <1>1, <2>2, <2>4, <2>6, <2>7, BeginsDo
<1>2. CASE projectClearMain
  <2> DEFINE names == Rows(mem, cmd.p) \cup (IF cmd.op = "rebuild" THEN {DeployName[cmd.p]} ELSE {})
  <2>1. /\ cmd \in Commands /\ ssh' = ssh
        /\ \/ ClearEnds(mem)
           \/ Goes /\ mem' = mem /\ Moves("list", cmd.todo, cmd.listed, names, cmd.drop, cmd.errs)
      BY <1>0, <1>2, ClearMainDoes DEF Apart
  <2> QED
      BY <1>0, <1>g, <2>1, PortMoves, PortClearEnds
<1>3. CASE ListContainers \/ SkipDelete \/ stageProjectArtifacts \/ DeleteContainer
  <2>1. PICK pc, todo, listed, names, drop, errs :
            /\ cmd \in Commands /\ ssh' = ssh /\ Goes /\ mem' = mem
            /\ Moves(pc, todo, listed, names, drop, errs) /\ names \subseteq cmd.names
    <3>1. CASE ListContainers
        BY <1>0, <3>1, ListDoes DEF Apart
    <3>2. CASE SkipDelete
      <4>1. /\ cmd \in Commands /\ ssh' = ssh /\ Goes /\ mem' = mem
            /\ \E c \in cmd.todo :
                  Moves("delete", cmd.todo \ {c}, cmd.listed, cmd.names \ {c}, cmd.drop, cmd.errs)
          BY <1>0, <3>2, SkipDeleteDoes DEF Apart
      <4> QED
          BY <4>1
    <3>3. CASE stageProjectArtifacts
        BY <1>0, <3>3, StageDoes DEF Apart
    <3>4. CASE DeleteContainer
      <4>1. /\ cmd \in Commands /\ ssh' = ssh /\ Goes /\ mem' = mem
            /\ \E c \in cmd.todo, ok \in BOOLEAN :
                  Moves("delete", cmd.todo \ {c}, cmd.listed, cmd.names, cmd.drop, cmd.errs \/ ~ ok)
          BY <1>0, <3>4, DeleteContainerDoes
      <4> QED
          BY <4>1
    <3> QED
        BY <1>3, <3>1, <3>2, <3>3, <3>4
  <2> QED
      BY <1>g, <2>1, PortMoves DEF NamesOwn
<1>4. CASE CallFails
    BY <1>0, <1>g, <1>4, CallFailsDoes, PortErrorEnds DEF Apart, Takes
<1>5. CASE DeletesDone
  <2>1. /\ cmd \in Commands /\ ssh' = ssh
        /\ \/ ClearEnds(mem)
           \/ Goes /\ mem' = mem /\ Moves("synclist", cmd.todo, NoList, cmd.names, TRUE, cmd.errs)
      BY <1>0, <1>5, DeletesDoneDoes DEF Apart
  <2> QED
      BY <1>0, <1>g, <2>1, PortMoves, PortClearEnds DEF NamesOwn
<1>6. CASE ChangeContainer
  <2>1. /\ cmd \in Commands /\ ssh' = ssh
        /\ \/ ErrorEnds(mem)
           \/ \E pc, todo, listed : Goes /\ mem' = mem /\ Moves(pc, todo, listed, cmd.names, cmd.drop, cmd.errs)
      BY <1>0, <1>6, ChangeDoes
  <2> QED
      BY <1>0, <1>g, <2>1, PortMoves, PortErrorEnds DEF NamesOwn, Takes
<1>7. CASE SyncContainer
  <2>1. PICK c \in cmd.todo, port \in BOOLEAN :
            /\ [status |-> cmd.listed[c], port |-> port] \in ContainerInfos
            /\ mem' = UpsertProjectContainer(mem, cmd.p, c, [status |-> cmd.listed[c], port |-> port])
            /\ upsertProjectContainerSSHConfig(c, port)
            /\ Moves("sync", cmd.todo \ {c}, cmd.listed, cmd.names, cmd.drop, cmd.errs)
      BY <1>0, <1>7, SyncDoes
  <2>2. cmd \in Commands /\ Goes
      BY <1>0, <1>7, SyncDoes
  <2> DEFINE i == [status |-> cmd.listed[c], port |-> port]
  <2>3. /\ mem' = UpsertProjectContainer(mem, cmd.p, c, i) /\ i \in ContainerInfos
        /\ ssh' = IF i.port THEN upsertManagedSSHHostEntry(ssh, c) ELSE removeManagedSSHHostEntry(ssh, {c})
      BY <2>1 DEF upsertProjectContainerSSHConfig
  <2>4. cmd' \in Commands /\ cmd'.op = cmd.op /\ cmd'.p = cmd.p /\ cmd'.names = cmd.names
      BY <2>1 DEF Moves
  <2>5. c \in cmd.names /\ c \in ContainerNames
      BY <1>0, <1>g, <2>2, FieldsIn DEF FlowInv
  <2> HIDE DEF i
  <2>6. /\ mem'.projects = mem.projects /\ Rows(mem', cmd.p) = Rows(mem, cmd.p) \cup {c}
        /\ \A q \in mem.projects \ {cmd.p} : Rows(mem', q) = Rows(mem, q)
      BY <1>0, <1>g, <2>2, <2>3, <2>5, RecordedView DEF SameProject
  <2>7. NamesOwn' /\ (Takes' <=> Takes)
      BY <1>g, <2>2, <2>4, <2>6 DEF NamesOwn, Takes
  <2>8. ~ Takes /\ ~ NameShared(mem) => \A q \in mem.projects \ {cmd.p} : c \notin Rows(mem, q)
    <3>1. c \in Rows(mem, cmd.p) \/ (cmd.op = "rebuild" /\ c = DeployName[cmd.p])
        BY <1>g, <2>2, <2>5 DEF NamesOwn
    <3> QED
        BY <1>g, <2>2, <3>1 DEF Takes, NameShared
  <2>9. ~ Takes => (~ shared => ~ NameShared(mem') /\ (~ failed' => Follows(ssh', mem')))
      BY <1>0, <1>g, <2>2, <2>3, <2>5, <2>8, RecordedFollows DEF Kept, Goes
  <2> QED
      BY <2>2, <2>4, <2>7, <2>9, PortGoes DEF Goes
<1>8. CASE SyncEnds
  <2>1. /\ cmd \in Commands /\ Cut(Synced) /\ ssh' = ssh \ Absent
        /\ Rows(Synced, cmd.p) = Rows(mem, cmd.p) \ Absent
      BY <1>0, <1>8, SyncEndsDoes, CutIs
  <2>2. Narrows(mem, Synced) /\ Synced \in Data /\ Synced.projects = mem.projects
      BY <1>0, <2>1, NarrowsCut DEF Cut
  <2>3. \A q \in mem.projects \ {cmd.p} : Rows(Synced, q) = Rows(mem, q)
      BY <1>g, <2>1 DEF Cut, SameProject
  <2>4. ~ Takes => Kept(ssh', Synced)
    <3>1. SUFFICES ASSUME ~ Takes, ~ shared
                   PROVE  ~ NameShared(Synced) /\ (~ failed => Follows(ssh', Synced))
        BY DEF Kept
    <3>2. ~ NameShared(mem) /\ (~ failed => Follows(ssh, mem))
        BY <1>g, <2>1, <3>1 DEF Kept
    <3>3. ASSUME NEW q \in mem.projects, NEW c \in Rows(Synced, q) PROVE c \notin Absent
      <4>1. CASE q = cmd.p
          BY <2>1, <3>3, <4>1
      <4>2. CASE q # cmd.p
        <5>1. c \in Rows(mem, q) /\ c \notin Rows(mem, cmd.p)
            BY <1>g, <2>1, <2>3, <3>2, <3>3, <4>2 DEF NameShared
        <5>2. ~ (cmd.op = "rebuild" /\ c = DeployName[cmd.p])
            BY <3>1, <3>3, <4>2, <5>1 DEF Takes
        <5> QED
            BY <1>g, <2>1, <5>1, <5>2 DEF Absent, NamesOwn
      <4> QED
          BY <4>1, <4>2
    <3>4. ~ failed => Follows(ssh', Synced)
        BY <2>1, <2>2, <3>2, <3>3, NarrowedIs DEF Follows
    <3> QED
        BY <2>2, <3>2, <3>4, NarrowedIs
  <2>5. CASE cmd.op \in {"start", "stop", "sync"} /\ Succeed(Synced)
      BY <2>1, <2>2, <2>4, <2>5, PortSucceeds DEF Kept, Takes
  <2>6. ASSUME cmd.op # "rebuild", Goes, mem' = Synced, cmd' \in Commands, NamesOwn'
        PROVE  PortInv'
    <3>1. ~ shared => ~ NameShared(mem') /\ (~ failed' => Follows(ssh', mem'))
        BY <2>4, <2>6 DEF Kept, Takes, Goes
    <3> QED
        BY <2>6, <3>1, PortGoes DEF Goes
  <2>7. CASE ClearEnds(Synced)
      BY <1>0, <2>1, <2>4, <2>7, PortClearEnds
  <2>8. CASE ErrorEnds(Synced)
      BY <1>0, <2>1, <2>4, <2>8, PortErrorEnds DEF Takes
  <2>9. ASSUME cmd.op = "sync", Goes, mem' = Synced, NEW q \in cmd.rest,
               Starts("sync", q, "synclist", Rows(Synced, q), FALSE, FALSE, cmd.rest \ {q}, None, {})
        PROVE  PortInv'
    <3>1. cmd' \in Commands /\ NamesOwn'
        BY <2>9 DEF Starts, NamesOwn
    <3> QED
        BY <2>6, <2>9, <3>1
  <2>10. ASSUME cmd.op = "rename", Goes, mem' = Synced,
                Starts("rename", cmd.p, "rename", {}, FALSE, FALSE, {}, cmd.new, {})
         PROVE  PortInv'
    <3>1. cmd' \in Commands /\ NamesOwn'
        BY <2>10 DEF Starts, NamesOwn
    <3> QED
        BY <2>6, <2>10, <3>1
  <2> QED
      BY <1>0, <1>8, <2>5, <2>7, <2>8, <2>9, <2>10, SyncEndsDoes
<1>9. CASE DeployContainer
  <2>1. CASE Fail
      BY <2>1, PortFail
  <2>2. CASE ~ Fail
    <3>1. /\ cmd \in Commands /\ Goes /\ mem' = mem /\ ssh' = ssh
          /\ Moves("inspect", cmd.todo, cmd.listed, cmd.names, cmd.drop, cmd.errs)
        BY <1>0, <1>9, <2>2, DeployDoes
    <3> QED
        BY <1>g, <3>1, PortMoves DEF NamesOwn
  <2> QED
      BY <2>1, <2>2
<1>10. CASE DeployFails \/ InspectFails \/ Kill
    BY <1>10, PortFail DEF DeployFails, InspectFails, Kill
<1>11. CASE setProjectContainerFromAgent \/ setProjectContainerFromAgentCurrentStatus
  <2> DEFINE c == IF cmd.pc = "inspect" THEN DeployName[cmd.p] ELSE cmd.new
             i == [status |-> OnAgent[c].status, port |-> OnAgent[c].port]
             d == UpsertProjectContainer(mem, cmd.p, c, i)
  <2>1. /\ cmd \in Commands /\ (Succeed(d) \/ Fail) /\ d \in Data
        /\ c \in ContainerNames /\ i \in ContainerInfos
        /\ cmd.pc \in {"inspect", "renamed"} /\ (cmd.pc = "renamed" => cmd.op = "rename")
      BY <1>0, <1>11, InspectDoes, InspectedIs
  <2>2. ssh' = IF i.port THEN upsertManagedSSHHostEntry(ssh, c) ELSE removeManagedSSHHostEntry(ssh, {c})
      BY <1>0, <1>11, InspectDoes DEF upsertProjectContainerSSHConfig
  <2>3. cmd.op = "rebuild" => c = DeployName[cmd.p]
      BY <2>1
  <2> HIDE DEF c, i
  <2>4. /\ ~ NameShared(d) => \A q \in mem.projects \ {cmd.p} : c \notin Rows(mem, q)
        /\ (\A q \in mem.projects \ {cmd.p} : c \notin Rows(mem, q)) =>
              (Follows(ssh, mem) => Follows(ssh', d))
      BY <1>0, <1>g, <2>1, <2>2, RecordedFollows
  <2>5. ~ shared /\ ~ NameShared(d) /\ ~ failed => Follows(ssh', d)
    <3>1. SUFFICES ASSUME ~ shared, ~ NameShared(d), ~ failed PROVE Follows(ssh', d)
        OBVIOUS
    <3>2. ~ Takes
        BY <2>3, <2>4, <3>1 DEF Takes
    <3> QED
        BY <1>g, <2>1, <2>4, <3>1, <3>2 DEF Kept
  <2> HIDE DEF d
  <2> QED
      BY <2>1, <2>5, PortSucceeds, PortFail
<1>12. CASE RenameContainer
  <2>1. cmd \in Commands /\ cmd.pc = "rename" /\ ssh' = ssh
      BY <1>0, <1>12, RenameDoes
  <2>2. cmd.op = "rename"
      BY <1>0, <1>g, <2>1, FieldsIn DEF FlowInv, Ops, Removing
  <2>3. CASE Succeed(mem)
      BY <1>0, <1>g, <2>1, <2>2, <2>3, PortSucceeds DEF Kept, Takes
  <2>4. CASE Goes /\ mem' = mem /\ Moves("renamed", cmd.todo, cmd.listed, cmd.names, cmd.drop, cmd.errs)
      BY <1>g, <2>1, <2>4, PortMoves DEF NamesOwn
  <2>5. CASE Fail
      BY <2>5, PortFail
  <2> QED
      BY <1>0, <1>12, <2>3, <2>4, <2>5, RenameDoes
<1>13. CASE ContainerRemoved \/ ContainerChanged
  <2>1. UNCHANGED <<mem, cmd, disk, ssh, failed, shared>>
      BY <1>13 DEF ContainerRemoved, ContainerChanged
  <2> QED
      BY <2>1 DEF PortInv, PortsAgree, NameShared, Takes
<1> QED
    BY <1>1, <1>2, <1>3, <1>4, <1>5, <1>6, <1>7, <1>8, <1>9, <1>10, <1>11, <1>12, <1>13
       DEF Next, CommandStep

LEMMA PortHolds == Spec => []PortInv
<1>1. Init => PortInv
    BY EmptyOK DEF Init, PortInv, PortsAgree, NameShared
<1>2. Typed /\ CopyInv /\ PortInv /\ [Next]_vars => PortInv'
  <2>1. PortInv /\ UNCHANGED vars => PortInv'
      BY DEF PortInv, PortsAgree, NameShared, Takes, vars
  <2> QED
      BY <2>1, PortNext
<1> QED
    BY <1>1, <1>2, TypedHolds, CopyHolds, PTL DEF Spec

-----------------------------------------------------------------------------
(***************************************************************************)
(* SshFollowsDb, second half: no alias without its container.              *)
(***************************************************************************)
\* What Served says, of any state of the agents.
Backed(a, d, c) == \E p \in d.projects : c \in Rows(d, p) /\ a[projectAgentHost(d, p)][c] # None

\* The first part of AliasInv.
ListedThere ==
    ~ gone /\ cmd # Idle /\ cmd.pc = "sync" =>
        \A c \in ContainerNames : cmd.listed[c] # None => agent[Target][c] # None

LEMMA AliasParts ==
    AliasInv <=> /\ ListedThere
                 /\ ~ gone /\ ~ failed => \A c \in ssh :
                       IF cmd = Idle THEN Backed(agent, disk, c)
                       ELSE Backed(agent, mem, c) \/ Leaving(c)
    BY DEF AliasInv, ListedThere, Served, Backed

\* A container has left its name.
LEMMA AliasGone ==
    ASSUME gone' = TRUE
    PROVE  AliasInv'
    BY DEF AliasInv

LEMMA AliasFail ==
    ASSUME Fail
    PROVE  AliasInv'
    BY DEF AliasInv, Fail

\* Databases that show the same projects, and agents that lose nothing.
LEMMA BackedSame ==
    ASSUME NEW a, NEW d, NEW e, NEW c, Backed(a, d, c),
           \A q \in d.projects : c \in Rows(d, q) /\ a[projectAgentHost(d, q)][c] # None =>
               q \in e.projects /\ SameProject(d, e, q)
    PROVE  Backed(a, e, c)
    BY DEF Backed, SameProject

LEMMA BackedMore ==
    ASSUME TypeOK, NEW d \in Data, NEW a, NEW c, Backed(agent, d, c),
           \A h \in HostNames : agent[h][c] # None => a[h][c] # None
    PROVE  Backed(a, d, c)
    BY AgentHostIn DEF Backed, Data

\* A container is recorded.
LEMMA BackedRecorded ==
    ASSUME NEW d \in Data, NEW p \in d.projects, NEW k \in ContainerNames, NEW i \in ContainerInfos,
           NEW a, NEW c, Backed(a, d, c) \/ (c = k /\ a[projectAgentHost(d, p)][k] # None)
    PROVE  Backed(a, UpsertProjectContainer(d, p, k, i), c)
<1> DEFINE e == UpsertProjectContainer(d, p, k, i)
<1>1. d.projects \subseteq ProjectNames /\ p \in ProjectNames
    BY DEF Data
<1>2. /\ e.projects = d.projects /\ Rows(e, p) = Rows(d, p) \cup {k}
      /\ \A q \in ProjectNames : projectAgentHost(e, q) = projectAgentHost(d, q)
      /\ \A q \in ProjectNames \ {p} : SameProject(d, e, q)
    BY <1>1, RecordedView
<1> HIDE DEF e
<1>3. \A q \in d.projects : Rows(d, q) \subseteq Rows(e, q)
    BY <1>1, <1>2 DEF SameProject
<1>4. Backed(a, e, c)
    BY <1>1, <1>2, <1>3 DEF Backed
<1> QED
    BY <1>4 DEF e

\* A command has ended, and what it saved backs the aliases.
LEMMA AliasSaves ==
    ASSUME NEW d, Saves(d), ~ gone' /\ ~ failed' => \A c \in ssh' : Backed(agent', d, c)
    PROVE  AliasInv'
<1>1. d \in Data /\ disk' = normalize(d) /\ cmd' = Idle
    BY DEF Saves
<1>2. \A q \in d.projects : q \in disk'.projects /\ SameProject(d, disk', q)
    BY <1>1, NormalizeIs, NormalizeView DEF SameRows
<1>3. ~ gone' /\ ~ failed' => \A c \in ssh' : Backed(agent', disk', c)
    BY <1>2, BackedSame
<1> QED
    BY <1>1, <1>3 DEF AliasInv, Served, Backed

\* The command goes on, and its copy backs the aliases.
LEMMA AliasGoes ==
    ASSUME cmd' \in Commands, cmd'.pc # "sync",
           ~ gone' /\ ~ failed' => \A c \in ssh' : Backed(agent', mem', c)
    PROVE  AliasInv'
<1>1. cmd' # Idle
    BY CommandsAre
<1> QED
    BY <1>1 DEF AliasInv, Served, Backed

\* The project whose containers are gone backs nothing.
LEMMA BackedBut ==
    ASSUME NEW d \in Data, NEW e, NEW p \in ProjectNames, NEW a, NEW c, Backed(a, d, c),
           \A k \in Rows(d, p) : a[projectAgentHost(d, p)][k] = None,
           \A q \in ProjectNames \ {p} : q \in d.projects => q \in e.projects /\ SameProject(d, e, q)
    PROVE  Backed(a, e, c)
<1>1. d.projects \subseteq ProjectNames
    BY DEF Data
<1> QED
    BY <1>1 DEF Backed, SameProject

\* The end of delete for one project, whose containers are gone if it worked.
LEMMA AliasDeleteEnds ==
    ASSUME TypeOK, cmd \in Commands, NEW ok \in BOOLEAN, NEW d, Cut(d), DeleteEnds(ok, d),
           ok /\ ~ gone' /\ ~ failed => \A c \in ssh' : Backed(agent', d, c),
           ok => \A c \in Rows(d, cmd.p) : agent'[Target][c] = None
    PROVE  AliasInv'
<1> DEFINE removed == ok \/ cmd.force
           after == After(removed, d)
<1>1. d \in Data /\ removed \in BOOLEAN /\ cmd.p \in ProjectNames /\ projectAgentHost(d, cmd.p) = Target
    BY FieldsIn DEF Cut, Target
<1>2. \/ /\ \E e : Saves(e) /\ SameRows(after, e)
         /\ failed' = (failed \/ ~ ok)
      \/ Fail
      \/ /\ \E q \in cmd.rest : \E report, rest, had :
               Starts("delete", q, "clear", {}, cmd.force, report, rest, None, had)
         /\ mem' = after
         /\ failed' = (failed \/ ~ ok)
    BY <1>1, DeleteEndsDoes DEF After
<1>3. \A q \in ProjectNames \ {cmd.p} : q \in d.projects => q \in after.projects /\ SameProject(d, after, q)
  <2> HIDE DEF removed
  <2> QED
      BY <1>1, AfterIs DEF Cut, SameProject
<1> HIDE DEF removed, after
<1>4. ok /\ ~ gone' /\ ~ failed => \A c \in ssh' : Backed(agent', after, c)
    BY <1>1, <1>3, BackedBut
<1>5. ASSUME NEW e, Saves(e), SameRows(after, e), failed' = (failed \/ ~ ok)
      PROVE  AliasInv'
  <2>1. \A q \in after.projects : q \in e.projects /\ SameProject(after, e, q)
      BY <1>5, SameView DEF SameRows
  <2>2. ~ gone' /\ ~ failed' => \A c \in ssh' : Backed(agent', e, c)
      BY <1>4, <1>5, <2>1, BackedSame
  <2> QED
      BY <1>5, <2>2, AliasSaves
<1>6. ASSUME NEW q \in cmd.rest, NEW report, NEW rest, NEW had,
             Starts("delete", q, "clear", {}, cmd.force, report, rest, None, had),
             mem' = after, failed' = (failed \/ ~ ok)
      PROVE  AliasInv'
  <2>1. cmd' \in Commands /\ cmd'.pc # "sync"
      BY <1>6 DEF Starts
  <2>2. ~ gone' /\ ~ failed' => \A c \in ssh' : Backed(agent', mem', c)
      BY <1>4, <1>6
  <2> QED
      BY <2>1, <2>2, AliasGoes
<1> QED
    BY <1>2, <1>5, <1>6, AliasFail

LEMMA AliasErrorEnds ==
    ASSUME TypeOK, cmd \in Commands, NEW d \in Data, ErrorEnds(d)
    PROVE  AliasInv'
<1>1. failed' = TRUE
    BY DeleteEndsDoes DEF ErrorEnds, Fail
<1>2. cmd' = Idle \/ cmd'.pc # "sync"
  <2>1. cmd' = Idle \/ \E q, force, report, rest, new, had :
                           Starts("delete", q, "clear", {}, force, report, rest, new, had)
      BY DeleteEndsDoes DEF ErrorEnds, Fail, Saves
  <2> QED
      BY <2>1 DEF Starts
<1> QED
    BY <1>1, <1>2 DEF AliasInv

\* The end of the clearing, with all the containers of the project gone.
LEMMA AliasClearEnds ==
    ASSUME TypeOK, cmd \in Commands, NEW d, Cut(d), ClearEnds(d),
           ~ gone' /\ ~ failed => \A c \in ssh' : Backed(agent', d, c),
           \A c \in Rows(d, cmd.p) : agent'[Target][c] = None
    PROVE  AliasInv'
<1>1. d \in Data /\ cmd.p \in ProjectNames /\ projectAgentHost(d, cmd.p) = Target /\ d.projects \subseteq ProjectNames
    BY FieldsIn DEF Cut, Target, Data
<1>2. CASE cmd.op = "clear"
    BY <1>1, <1>2, ClearEndsDoes, AliasSaves
<1>3. CASE cmd.op = "drain"
  <2> DEFINE e == RemoveHostAndContainersFromProject(unregisterFromHost(d, cmd.p), cmd.p)
  <2>1. Saves(e) /\ failed' = failed
      BY <1>1, <1>3, ClearEndsDoes
  <2>2. e.projects = d.projects /\ \A q \in ProjectNames \ {cmd.p} : SameProject(d, e, q)
      BY <1>1, DrainedIs, DrainedView
  <2> HIDE DEF e
  <2>3. ~ gone' /\ ~ failed' => \A c \in ssh' : Backed(agent', e, c)
      BY <1>1, <2>1, <2>2, BackedBut
  <2> QED
      BY <2>1, <2>3, AliasSaves
<1>4. CASE cmd.op = "rebuild"
  <2>1. Goes /\ mem' = d /\ Starts("rebuild", cmd.p, "stage", {}, FALSE, FALSE, {}, None, {})
      BY <1>1, <1>4, ClearEndsDoes
  <2> QED
      BY <2>1, AliasGoes DEF Goes, Starts
<1>5. CASE cmd.op = "delete"
    BY <1>5, AliasDeleteEnds DEF ClearEnds
<1> QED
    BY <1>2, <1>3, <1>4, <1>5 DEF ClearEnds

\* The command goes on as it was; an alias that loses its container is of one
\* the command is removing.
LEMMA AliasMoves ==
    ASSUME TypeOK, AliasInv, cmd \in Commands, Goes, mem' = mem, ssh' = ssh, gone' = gone,
           cmd' \in Commands, cmd'.pc = "sync" => ListedThere',
           \A c \in ContainerNames : Leaving(c) => Leaving(c)',
           \A h \in HostNames, c \in ContainerNames : agent[h][c] # None => agent'[h][c] # None \/ Leaving(c)'
    PROVE  AliasInv'
<1>1. cmd # Idle /\ cmd' # Idle /\ mem \in Data
    BY CommandsAre DEF TypeOK
<1>2. ListedThere'
    BY <1>1 DEF ListedThere
<1>3. ASSUME ~ gone', ~ failed', NEW c \in ssh' PROVE Backed(agent', mem', c) \/ Leaving(c)'
  <2>1. c \in ContainerNames /\ (Backed(agent, mem, c) \/ Leaving(c))
      BY <1>1, <1>3, AliasParts DEF TypeOK, Goes
  <2>2. (\A h \in HostNames : agent[h][c] # None => agent'[h][c] # None) \/ Leaving(c)'
      BY <2>1
  <2>3. (\A h \in HostNames : agent[h][c] # None => agent'[h][c] # None) /\ Backed(agent, mem, c)
            => Backed(agent', mem, c)
      BY <1>1, BackedMore
  <2> QED
      BY <2>1, <2>2, <2>3
<1> QED
    BY <1>1, <1>2, <1>3 DEF AliasInv, ListedThere, Served, Backed

LEMMA AliasNext ==
    ASSUME Typed, CopyInv, GoneInv, AliasInv, Next
    PROVE  AliasInv'
<1>0. TypeOK /\ FlowInv /\ disk \in Data /\ mem \in Data
    BY DEF Typed, TypeOK
<1>g. ASSUME cmd \in Commands
      PROVE  /\ GoneNow /\ cmd # Idle /\ Cut(mem) /\ Target \in HostNames /\ cmd.p \in mem.projects
             /\ cmd.p \in ProjectNames /\ OnAgent = agent[Target] /\ mem.projects \subseteq ProjectNames
             /\ ~ gone /\ ~ failed => \A c \in ssh : Backed(agent, mem, c) \/ Leaving(c)
    BY <1>0, <1>g, CommandsAre, GoneParts, CutIs, OnAgentIn, FieldsIn, AliasParts DEF CopyInv, Data
<1>1. CASE BeginCommand
  <2>1. cmd = Idle /\ ~ gone /\ ~ failed => \A c \in ssh : Backed(agent, disk, c)
      BY AliasParts
  <2>2. disk.projects \subseteq ProjectNames
      BY <1>0 DEF Data
  <2>3. CASE LocalStep
    <3>1. PICK e \in Data : /\ disk' = normalize(e)
                            /\ \A q \in disk.projects : q \in e.projects /\ SameProject(disk, e, q)
        BY <2>3 DEF LocalStep
    <3>2. \A q \in disk.projects : q \in disk'.projects /\ SameProject(disk, disk', q)
        BY <3>1, NormalizeIs, NormalizeView DEF SameRows, SameProject
    <3>3. ~ gone' /\ ~ failed' => \A c \in ssh' : Backed(agent', disk', c)
        BY <2>1, <2>3, <3>2, BackedSame DEF LocalStep
    <3> QED
        BY <2>3, <3>3 DEF LocalStep, AliasInv, Served, Backed
  <2>4. ASSUME Began, cmd' \in Commands, cmd'.pc # "sync",
               \A q \in disk.projects : Rows(disk, q) # {} => q \in mem'.projects /\ SameProject(disk, mem', q)
        PROVE  AliasInv'
    <3>1. ~ gone' /\ ~ failed' => \A c \in ssh' : Backed(agent', mem', c)
        BY <2>1, <2>4, BackedSame DEF Began
    <3> QED
        BY <2>4, <3>1, AliasGoes
  <2>5. CASE RunStart
    <3>1. PICK p \in ProjectNames :
              Began /\ Prepared(p, mem') /\ Starts("run", p, "stage", {}, FALSE, FALSE, {}, None, {})
        BY <2>5 DEF RunStart
    <3>2. \A q \in disk.projects : Rows(disk, q) # {} => q \in mem'.projects /\ SameProject(disk, mem', q)
        BY <2>2, <3>1 DEF Prepared
    <3> QED
        BY <2>4, <3>1, <3>2 DEF Starts
  <2>6. CASE LoopStart \/ ClearStart
    <3>1. Began /\ mem' = normalize(disk) /\ cmd' \in Commands /\ cmd'.pc # "sync"
        BY <2>6 DEF LoopStart, ClearStart, LoopStarts, ClearStarts, Starts
    <3>2. \A q \in disk.projects : q \in mem'.projects /\ SameProject(disk, mem', q)
        BY <1>0, <3>1, NormalizeIs, NormalizeView DEF SameRows
    <3> QED
        BY <2>4, <3>1, <3>2
  <2> QED
      BY <1>0, <1>1, <2>3, <2>5, <2>6, BeginsDo
<1>2. CASE projectClearMain
  <2> DEFINE names == Rows(mem, cmd.p) \cup (IF cmd.op = "rebuild" THEN {DeployName[cmd.p]} ELSE {})
  <2>1. /\ cmd \in Commands /\ cmd.pc = "clear" /\ UNCHANGED <<agent, ssh, gone>>
        /\ \/ names = {} /\ ClearEnds(mem)
           \/ Goes /\ mem' = mem /\ cmd' \in Commands /\ cmd'.pc = "list"
      BY <1>0, <1>2, ClearMainDoes DEF Apart, World, Moves
  <2>2. names = {} => Rows(mem, cmd.p) = {}
      OBVIOUS
  <2>3. \A c : ~ Leaving(c)
      BY <2>1 DEF Leaving
  <2> HIDE DEF names
  <2>4. CASE names = {} /\ ClearEnds(mem)
      BY <1>0, <1>g, <2>1, <2>2, <2>3, <2>4, AliasClearEnds
  <2>5. CASE Goes /\ mem' = mem /\ cmd' \in Commands /\ cmd'.pc = "list"
      BY <1>0, <2>1, <2>3, <2>5, AliasMoves
  <2> QED
      BY <2>1, <2>4, <2>5
<1>3. CASE ListContainers
  <2>1. /\ cmd \in Commands /\ cmd.pc \in {"list", "synclist"} /\ UNCHANGED <<agent, ssh, gone>>
        /\ Goes /\ mem' = mem /\ cmd' \in Commands
        /\ cmd'.op = cmd.op /\ cmd'.names = cmd.names /\ cmd'.p = cmd.p /\ cmd'.listed = Listing
        /\ cmd.pc = "synclist" => cmd'.pc = "sync"
      BY <1>0, <1>3, ListDoes DEF Apart, World, Moves
  <2>2. \A c \in ContainerNames : Leaving(c) => Leaving(c)'
      BY <2>1 DEF Leaving
  <2>3. Target' = Target
      BY <2>1 DEF Target
  <2>4. ListedThere'
      BY <1>g, <2>1, <2>3 DEF ListedThere, Listing
  <2> QED
      BY <1>0, <2>1, <2>2, <2>4, AliasMoves
<1>4. CASE CallFails
    BY <1>0, <1>4, CallFailsDoes, AliasErrorEnds
<1>5. CASE SkipDelete
  <2>1. /\ cmd \in Commands /\ cmd.pc = "delete" /\ UNCHANGED <<agent, ssh, gone>> /\ Goes /\ mem' = mem
        /\ \E c \in cmd.todo :
              Moves("delete", cmd.todo \ {c}, cmd.listed, cmd.names \ {c}, cmd.drop, cmd.errs)
      BY <1>0, <1>5, SkipDeleteDoes DEF Apart, World
  <2>2. PICK k \in cmd.todo : Moves("delete", cmd.todo \ {k}, cmd.listed, cmd.names \ {k}, cmd.drop, cmd.errs)
      BY <2>1
  <2>3. \A c \in ContainerNames : Leaving(c) => Leaving(c)'
      BY <2>1, <2>2 DEF Leaving, Moves
  <2> QED
      BY <1>0, <2>1, <2>2, <2>3, AliasMoves DEF Moves
<1>6. CASE DeleteContainer
  <2>1. /\ cmd \in Commands /\ cmd.pc = "delete" /\ UNCHANGED <<ssh, gone>> /\ Goes /\ mem' = mem
        /\ \E c \in cmd.todo, ok \in BOOLEAN :
              /\ UNCHANGED agent \/ Sets(c, None)
              /\ Moves("delete", cmd.todo \ {c}, cmd.listed, cmd.names, cmd.drop, cmd.errs \/ ~ ok)
      BY <1>0, <1>6, DeleteContainerDoes DEF World
  <2>2. PICK k \in cmd.todo :
            /\ UNCHANGED agent \/ Sets(k, None)
            /\ cmd' \in Commands /\ cmd'.pc = "delete" /\ cmd'.op = cmd.op
            /\ cmd'.todo = cmd.todo \ {k} /\ cmd'.names = cmd.names
      BY <2>1 DEF Moves
  <2>3. cmd.op \in Removing /\ k \in cmd.names
      BY <1>0, <1>g, <2>1, FieldsIn DEF FlowInv, Removing, Ops
  <2>4. (\A c \in ContainerNames : Leaving(c) => Leaving(c)') /\ Leaving(k)'
      BY <2>1, <2>2, <2>3 DEF Leaving
  <2>5. \A h \in HostNames, c \in ContainerNames : agent[h][c] # None => agent'[h][c] # None \/ Leaving(c)'
      BY <2>2, <2>4 DEF Sets
  <2> QED
      BY <1>0, <2>1, <2>2, <2>4, <2>5, AliasMoves
<1>7. CASE DeletesDone
  <2>1. /\ cmd \in Commands /\ cmd.pc = "delete" /\ UNCHANGED <<agent, ssh, gone>> /\ cmd.todo = {}
        /\ \/ cmd.names = {} /\ ClearEnds(mem)
           \/ /\ Goes /\ mem' = mem /\ cmd' \in Commands /\ cmd'.pc = "synclist"
              /\ cmd'.op = cmd.op /\ cmd'.names = cmd.names
      BY <1>0, <1>7, DeletesDoneDoes DEF Apart, World, Moves
  <2>2. cmd.op \in Removing
      BY <1>0, <1>g, <2>1, FieldsIn DEF FlowInv, Removing, Ops
  <2>3. CASE cmd.names = {} /\ ClearEnds(mem)
    <3>1. \A c \in Rows(mem, cmd.p) : agent[Target][c] = None
        BY <1>g, <2>1, <2>2, <2>3 DEF GoneNow, RowsGone, Pending
    <3>2. \A c : ~ Leaving(c)
        BY <2>3 DEF Leaving
    <3> QED
        BY <1>0, <1>g, <2>1, <2>3, <3>1, <3>2, AliasClearEnds
  <2>4. CASE /\ Goes /\ mem' = mem /\ cmd' \in Commands /\ cmd'.pc = "synclist"
             /\ cmd'.op = cmd.op /\ cmd'.names = cmd.names
    <3>1. \A c \in ContainerNames : Leaving(c) => Leaving(c)'
        BY <2>4 DEF Leaving
    <3> QED
        BY <1>0, <2>1, <2>4, <3>1, AliasMoves
  <2> QED
      BY <2>1, <2>3, <2>4
<1>8. CASE ChangeContainer
  <2>1. /\ cmd \in Commands /\ cmd.pc = "change" /\ UNCHANGED <<ssh, gone>>
        /\ \/ ErrorEnds(mem)
           \/ Goes /\ mem' = mem /\ cmd' \in Commands /\ cmd'.pc # "sync"
      BY <1>0, <1>8, ChangeDoes DEF World, Moves
  <2>2. agent' = agent \/ \E c \in cmd.todo : OnAgent[c] # None /\ Sets(c, [OnAgent[c] EXCEPT !.status = Wanted])
      BY <1>0, <1>8, ChangeDoes
  <2>3. \A h \in HostNames, c \in ContainerNames : agent[h][c] # None => agent'[h][c] # None
    <3>1. CASE agent' = agent
        BY <3>1
    <3>2. CASE agent' # agent
      <4>1. PICK k \in cmd.todo : OnAgent[k] # None /\ Sets(k, [OnAgent[k] EXCEPT !.status = Wanted])
          BY <2>2, <3>2
      <4>2. OnAgent[k] \in Containers
          BY <1>0, <2>1, <4>1, OnAgentIn, FieldsIn
      <4>3. [OnAgent[k] EXCEPT !.status = Wanted] \in Containers
          BY <4>2 DEF Containers, Statuses, Wanted
      <4>4. [OnAgent[k] EXCEPT !.status = Wanted] # None
          BY <4>3, AbsenceAssumption
      <4> QED
          BY <4>1, <4>4 DEF Sets
    <3> QED
        BY <3>1, <3>2
  <2>4. \A c : ~ Leaving(c)
      BY <2>1 DEF Leaving
  <2> QED
      BY <1>0, <2>1, <2>3, <2>4, AliasMoves, AliasErrorEnds
<1>9. CASE SyncContainer
  <2>1. PICK k \in cmd.todo, port \in BOOLEAN :
            /\ cmd.listed[k] \in Statuses
            /\ [status |-> cmd.listed[k], port |-> port] \in ContainerInfos
            /\ mem' = UpsertProjectContainer(mem, cmd.p, k, [status |-> cmd.listed[k], port |-> port])
            /\ upsertProjectContainerSSHConfig(k, port)
            /\ Moves("sync", cmd.todo \ {k}, cmd.listed, cmd.names, cmd.drop, cmd.errs)
      BY <1>0, <1>9, SyncDoes
  <2>2. cmd \in Commands /\ cmd.pc = "sync" /\ agent' = agent /\ gone' = gone /\ Goes
      BY <1>0, <1>9, SyncDoes DEF World
  <2>3. k \in ContainerNames /\ cmd.listed[k] # None
      BY <2>1, <2>2, FieldsIn, AbsenceAssumption
  <2>4. ssh' \subseteq ssh \cup {k}
      BY <2>1 DEF upsertProjectContainerSSHConfig, upsertManagedSSHHostEntry, removeManagedSSHHostEntry
  <2>5. /\ cmd' \in Commands /\ cmd'.pc = "sync" /\ cmd'.op = cmd.op /\ cmd'.p = cmd.p
        /\ cmd'.names = cmd.names /\ cmd'.listed = cmd.listed
      BY <2>1 DEF Moves
  <2> DEFINE i == [status |-> cmd.listed[k], port |-> port]
  <2>6. mem' = UpsertProjectContainer(mem, cmd.p, k, i) /\ i \in ContainerInfos
      BY <2>1
  <2> HIDE DEF i
  <2>7. ~ gone => agent[Target][k] # None
      BY <1>g, <2>2, <2>3, AliasParts DEF ListedThere
  <2>8. cmd' # Idle /\ Target' = Target
    <3>1. projectAgentHost(mem', cmd.p) = projectAgentHost(mem, cmd.p)
        BY <1>0, <1>g, <2>2, <2>3, <2>6, RecordedView
    <3> QED
        BY <2>5, <3>1, CommandsAre DEF Target
  <2>9. ListedThere'
      BY <1>g, <2>2, <2>5, <2>8, AliasParts DEF ListedThere
  <2>10. ASSUME ~ gone', ~ failed', NEW c \in ssh' PROVE Backed(agent', mem', c) \/ Leaving(c)'
    <3>1. ~ gone /\ ~ failed
        BY <2>2, <2>10 DEF Goes
    <3>2. Leaving(c) => Leaving(c)'
        BY <2>2, <2>5 DEF Leaving
    <3>3. Backed(agent, mem, c) \/ Leaving(c) \/ (c = k /\ agent[projectAgentHost(mem, cmd.p)][k] # None)
        BY <1>g, <2>2, <2>4, <2>7, <2>10, <3>1 DEF Target
    <3>4. Leaving(c) \/ Backed(agent, mem', c)
        BY <1>0, <1>g, <2>2, <2>3, <2>6, <3>3, BackedRecorded
    <3> QED
        BY <2>2, <3>2, <3>4
  <2> QED
      BY <2>8, <2>9, <2>10 DEF AliasInv, ListedThere, Served, Backed
<1>10. CASE SyncEnds
  <2>1. /\ cmd \in Commands /\ cmd.pc = "sync" /\ UNCHANGED <<agent, gone>> /\ Cut(Synced)
        /\ ssh' = ssh \ Absent /\ Rows(Synced, cmd.p) = Rows(mem, cmd.p) \ Absent /\ Synced \in Data
      BY <1>0, <1>10, SyncEndsDoes, CutIs DEF World, Cut
  <2>2. \A h, c : ~ cmd.errs => ~ Pending(h, c)
      BY <2>1 DEF Pending
  <2>3. ~ gone /\ ~ failed /\ (cmd.drop => ~ cmd.errs) => \A c \in ssh' : Backed(agent', Synced, c)
    <3>1. SUFFICES ASSUME ~ gone, ~ failed, cmd.drop => ~ cmd.errs, NEW c \in ssh, c \notin Absent
                   PROVE  Backed(agent, Synced, c)
        BY <2>1
    <3>2. c \in ContainerNames
        BY <1>0, <3>1 DEF TypeOK
    <3>3. ~ Leaving(c)
      <4>1. SUFFICES ASSUME cmd.op \in Removing, c \in cmd.names PROVE FALSE
          BY DEF Leaving
      <4>2. cmd.drop
          BY <1>0, <1>g, <2>1, <4>1 DEF FlowInv
      <4>3. agent[Target][c] = None
          BY <1>g, <2>1, <2>2, <3>1, <4>1, <4>2 DEF GoneNow, NamesGone
      <4>4. cmd.listed[c] = None
          BY <1>g, <2>1, <3>1, <3>2, <4>3, AliasParts DEF ListedThere
      <4> QED
          BY <3>1, <4>1, <4>2, <4>4 DEF Absent
    <3>4. PICK q \in mem.projects : c \in Rows(mem, q) /\ agent[projectAgentHost(mem, q)][c] # None
        BY <1>g, <2>1, <3>1, <3>3 DEF Backed
    <3>5. q \in Synced.projects /\ projectAgentHost(Synced, q) = projectAgentHost(mem, q)
        BY <1>g, <2>1 DEF Cut
    <3>6. c \in Rows(Synced, q)
      <4>1. CASE q = cmd.p
          BY <2>1, <3>1, <3>4, <4>1
      <4>2. CASE q # cmd.p
          BY <1>g, <2>1, <3>4, <4>2 DEF Cut, SameProject
      <4> QED
          BY <4>1, <4>2
    <3> QED
        BY <3>4, <3>5, <3>6 DEF Backed
  <2>4. cmd.op \notin Removing => ~ cmd.drop
      BY <1>0, <1>g, <2>1 DEF FlowInv
  <2>5. CASE cmd.op \in {"start", "stop", "sync"} /\ Succeed(Synced)
    <3>1. Saves(Synced) /\ failed' = failed
        BY <2>1, <2>5, SucceedDoes
    <3>2. ~ cmd.drop
        BY <2>4, <2>5 DEF Removing
    <3> QED
        BY <2>1, <2>3, <3>1, <3>2, AliasSaves
  <2>6. CASE cmd.op \in {"sync", "rename"} /\ Goes /\ mem' = Synced /\ cmd' \in Commands /\ cmd'.pc # "sync"
    <3>1. ~ cmd.drop
        BY <2>4, <2>6 DEF Removing
    <3>2. ~ gone' /\ ~ failed' => \A c \in ssh' : Backed(agent', mem', c)
        BY <2>1, <2>3, <2>6, <3>1 DEF Goes
    <3> QED
        BY <2>6, <3>2, AliasGoes
  <2>7. CASE cmd.drop /\ ~ cmd.errs /\ ClearEnds(Synced)
    <3>1. cmd.op \in Removing
        BY <2>4, <2>7
    <3>2. \A c \in Rows(Synced, cmd.p) : agent'[Target][c] = None
        BY <1>g, <2>1, <2>2, <2>7, <3>1 DEF GoneNow, RowsGone
    <3>3. ~ gone' /\ ~ failed => \A c \in ssh' : Backed(agent', Synced, c)
        BY <2>1, <2>3, <2>7
    <3> QED
        BY <1>0, <2>1, <2>7, <3>2, <3>3, AliasClearEnds
  <2>8. CASE ErrorEnds(Synced)
      BY <1>0, <2>1, <2>8, AliasErrorEnds
  <2> QED
      BY <1>0, <1>10, <2>5, <2>6, <2>7, <2>8, SyncEndsDoes DEF Starts
<1>11. CASE stageProjectArtifacts
  <2>1. /\ cmd \in Commands /\ cmd.pc = "stage" /\ UNCHANGED <<agent, ssh, gone>> /\ Goes /\ mem' = mem
        /\ cmd' \in Commands /\ cmd'.pc = "deploy"
      BY <1>0, <1>11, StageDoes DEF Apart, World, Moves
  <2>2. \A c : ~ Leaving(c)
      BY <2>1 DEF Leaving
  <2> QED
      BY <1>0, <2>1, <2>2, AliasMoves
<1>12. CASE DeployContainer
  <2>1. CASE Fail
      BY <2>1, AliasFail
  <2>2. CASE ~ Fail
    <3>1. /\ cmd \in Commands /\ cmd.pc = "deploy" /\ UNCHANGED <<ssh, gone>> /\ Goes /\ mem' = mem
          /\ cmd' \in Commands /\ cmd'.pc = "inspect"
        BY <1>0, <1>12, <2>2, DeployDoes DEF World, Moves
    <3>2. PICK port \in BOOLEAN :
              Sets(DeployName[cmd.p], [project |-> cmd.p, status |-> "running", port |-> port])
        BY <1>0, <1>12, DeployDoes
    <3> DEFINE k == [project |-> cmd.p, status |-> "running", port |-> port]
    <3>3. k \in Containers
        BY <1>g, <3>1 DEF Containers, Statuses
    <3>4. k # None /\ Sets(DeployName[cmd.p], k)
        BY <3>2, <3>3, AbsenceAssumption
    <3> HIDE DEF k
    <3>5. \A h \in HostNames, c \in ContainerNames : agent[h][c] # None => agent'[h][c] # None
        BY <3>4 DEF Sets
    <3>6. \A c : ~ Leaving(c)
        BY <3>1 DEF Leaving
    <3> QED
        BY <1>0, <3>1, <3>5, <3>6, AliasMoves
  <2> QED
      BY <2>1, <2>2
<1>13. CASE DeployFails \/ InspectFails \/ Kill
    BY <1>13, AliasFail DEF DeployFails, InspectFails, Kill
<1>14. CASE setProjectContainerFromAgent \/ setProjectContainerFromAgentCurrentStatus
  <2> DEFINE k == IF cmd.pc = "inspect" THEN DeployName[cmd.p] ELSE cmd.new
             i == [status |-> OnAgent[k].status, port |-> OnAgent[k].port]
             d == UpsertProjectContainer(mem, cmd.p, k, i)
  <2>1. /\ cmd \in Commands /\ (Succeed(d) \/ Fail) /\ d \in Data
        /\ k \in ContainerNames /\ i \in ContainerInfos
        /\ cmd.pc \in {"inspect", "renamed"} /\ UNCHANGED <<agent, gone>> /\ OnAgent[k] # None
      BY <1>0, <1>14, InspectDoes, InspectedIs DEF World
  <2>2. ssh' \subseteq ssh \cup {k}
    <3>1. upsertProjectContainerSSHConfig(k, OnAgent[k].port)
        BY <1>0, <1>14, InspectDoes
    <3> QED
        BY <3>1 DEF upsertProjectContainerSSHConfig, upsertManagedSSHHostEntry, removeManagedSSHHostEntry
  <2> HIDE DEF k, i
  <2>3. \A c : ~ Leaving(c)
      BY <2>1 DEF Leaving
  <2>4. agent[projectAgentHost(mem, cmd.p)][k] # None
      BY <1>g, <2>1 DEF Target
  <2>5. ~ gone /\ ~ failed => \A c \in ssh' : Backed(agent, d, c)
    <3>1. SUFFICES ASSUME ~ gone, ~ failed, NEW c \in ssh' PROVE Backed(agent, d, c)
        OBVIOUS
    <3>2. Backed(agent, mem, c) \/ (c = k /\ agent[projectAgentHost(mem, cmd.p)][k] # None)
        BY <1>g, <2>1, <2>2, <2>3, <2>4, <3>1
    <3> QED
        BY <1>0, <1>g, <2>1, <3>2, BackedRecorded
  <2> HIDE DEF d
  <2>6. CASE Succeed(d)
    <3>1. Saves(d) /\ failed' = failed
        BY <2>1, <2>6, SucceedDoes
    <3> QED
        BY <2>1, <2>5, <3>1, AliasSaves
  <2> QED
      BY <2>1, <2>6, AliasFail
<1>15. CASE RenameContainer
  <2>1. cmd \in Commands /\ cmd.pc = "rename" /\ ssh' = ssh
      BY <1>0, <1>15, RenameDoes
  <2>2. \A c : ~ Leaving(c)
      BY <2>1 DEF Leaving
  <2>3. CASE Succeed(mem) /\ UNCHANGED <<agent, gone>>
    <3>1. Saves(mem) /\ failed' = failed
        BY <1>0, <2>1, <2>3, SucceedDoes
    <3> QED
        BY <1>g, <2>1, <2>2, <2>3, <3>1, AliasSaves
  <2> QED
      BY <1>0, <1>15, <2>3, RenameDoes, AliasFail, AliasGone
<1>16. CASE ContainerRemoved
    BY <1>16, AliasGone DEF ContainerRemoved
<1>17. CASE ContainerChanged
  <2>1. UNCHANGED <<disk, mem, cmd, ssh, failed, gone>>
      BY <1>17 DEF ContainerChanged
  <2>2. \A h \in HostNames, c \in ContainerNames : agent[h][c] # None => agent'[h][c] # None
    <3>1. PICK h \in HostNames, k \in ContainerNames, status \in Statuses :
              /\ agent[h][k] # None
              /\ agent' = [agent EXCEPT ![h] = [agent[h] EXCEPT ![k] = [agent[h][k] EXCEPT !.status = status]]]
        BY <1>17 DEF ContainerChanged
    <3> DEFINE x == [agent[h][k] EXCEPT !.status = status]
    <3>2. agent[h][k] \in Containers
        BY <1>0, <3>1 DEF TypeOK
    <3>3. x \in Containers
        BY <3>2 DEF Containers
    <3>4. x # None /\ agent' = [agent EXCEPT ![h] = [agent[h] EXCEPT ![k] = x]]
        BY <3>1, <3>3, AbsenceAssumption
    <3> HIDE DEF x
    <3> QED
        BY <1>0, <3>4 DEF TypeOK
  <2>3. ListedThere'
      BY <1>0, <2>1, <2>2, AliasParts, Running, OnAgentIn DEF ListedThere, Target
  <2>4. \A c \in ContainerNames : \A d \in Data : Backed(agent, d, c) => Backed(agent', d, c)
      BY <1>0, <2>2, BackedMore
  <2>5. ~ gone' /\ ~ failed' => \A c \in ssh' :
            IF cmd' = Idle THEN Backed(agent', disk', c) ELSE Backed(agent', mem', c) \/ Leaving(c)'
    <3>1. ssh \subseteq ContainerNames /\ \A c : Leaving(c)' = Leaving(c)
        BY <1>0, <2>1 DEF TypeOK, Leaving
    <3> QED
        BY <1>0, <2>1, <2>4, <3>1, AliasParts
  <2> QED
      BY <2>3, <2>5 DEF AliasInv, ListedThere, Served, Backed
<1> QED
    BY <1>1, <1>2, <1>3, <1>4, <1>5, <1>6, <1>7, <1>8, <1>9, <1>10, <1>11, <1>12, <1>13, <1>14, <1>15,
       <1>16, <1>17 DEF Next, CommandStep

LEMMA AliasHolds == Spec => []AliasInv
<1>1. Init => AliasInv
    BY DEF Init, AliasInv
<1>2. Typed /\ CopyInv /\ GoneInv /\ AliasInv /\ [Next]_vars => AliasInv'
  <2>1. AliasInv /\ UNCHANGED vars => AliasInv'
      BY DEF AliasInv, Served, Leaving, Target, vars
  <2> QED
      BY <2>1, AliasNext
<1> QED
    BY <1>1, <1>2, TypedHolds, CopyHolds, GoneHolds, PTL DEF Spec

(***************************************************************************)
(* The ssh config, which is written at each step, agrees with db.json,     *)
(* which is written at the end: as long as every command succeeded, a      *)
(* recorded container has an alias exactly if it has a port, unless names  *)
(* were shared, and every alias is that of a recorded container, unless a  *)
(* container was renamed or removed behind the agent's back.               *)
(***************************************************************************)
THEOREM SshFollows == Spec => []SshFollowsDb
<1>1. PortInv /\ AliasInv => SshFollowsDb
  <2>1. SUFFICES ASSUME PortInv, AliasInv, cmd = Idle, ~ failed
                 PROVE  /\ ~ shared => PortsAgree(disk)
                        /\ ~ gone => \A c \in ssh : Served(disk, c)
      BY DEF SshFollowsDb, PortsAgree, Served
  <2> QED
      BY <2>1 DEF PortInv, AliasInv
<1> QED
    BY <1>1, PortHolds, AliasHolds, PTL
=============================================================================
