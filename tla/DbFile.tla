------------------------------- MODULE DbFile -------------------------------
(***************************************************************************)
(* data.normalize at the level of the lists of rows that db.json holds     *)
(* (internal/db/normalize.go): a file written by an older release or by    *)
(* hand may hold several rows for one name, names that are not canonical,  *)
(* lists that name projects nobody has, and several default hosts.         *)
(*                                                                         *)
(* The result is compared with the normalize of DbData, which works on     *)
(* sets of names, applied to what the rows mean: the last value of each    *)
(* column wins.  This justifies DbData's use of sets.                      *)
(***************************************************************************)
EXTENDS DbData, Sequences, SequencesExt

CONSTANTS
    Files,         \* the raw files to read
    RegistryNames, \* trimmed names of registry instances
    HostSettings   \* the host attributes mergeHost keeps from the older row

VARIABLES
    file,    \* the rows as decoded from db.json
    rows,    \* the rows in memory
    passes   \* how often normalize has been applied

vars == <<file, rows, passes>>

-----------------------------------------------------------------------------
(***************************************************************************)
(* A name in a file is a pair of a canonical name and a spelling, or None  *)
(* for the empty string.  TrimSpace, and ToLower for hosts, pick the       *)
(* canonical one.  So they do for what a container row says of its         *)
(* container: id, states and remote user are trimmed, the states in small  *)
(* letters.                                                                *)
(***************************************************************************)
canonical(s) == IF s = None THEN None ELSE Exact(s[1])

indexOf(s, n) == SelectInSeq(s, LAMBDA r : r.name = n)

firstNonEmpty(preferred, fallback) ==
    IF preferred # None THEN preferred ELSE fallback

\* Mutant: what is already there is added again.
appendIfMissing_Repeats(s, e) == Append(s, e)

appendIfMissing(s, e) == IF Contains(s, e) THEN s ELSE Append(s, e)

(***************************************************************************)
(* Containers.                                                             *)
(***************************************************************************)
mergeContainer(existing, incoming) ==
    [incoming EXCEPT !.info = firstNonEmpty(@, existing.info)]

normalizeContainers(cs) ==
    LET add(acc, c) ==
          LET q == [name |-> canonical(c.name), info |-> canonical(c.info)] IN
          IF indexOf(acc, q.name) = 0 THEN Append(acc, q)
          ELSE [acc EXCEPT ![indexOf(acc, q.name)] = mergeContainer(@, q)]
    IN  FoldLeft(add, <<>>, SelectSeq(cs, LAMBDA c : c.name # None))

\* Mutant: the later row replaces the earlier one.
mergeProject_Replaces(existing, incoming) == incoming

(***************************************************************************)
(* Projects: rows of one name are merged into the first, the later row     *)
(* winning where it says something.                                        *)
(***************************************************************************)
mergeProject(existing, incoming) ==
    [incoming EXCEPT
        !.host       = firstNonEmpty(@, existing.host),
        !.settings   = existing.settings \cup @,
        !.containers = normalizeContainers(existing.containers \o @)]

normalizeProjects(ps) ==
    LET canonicalRow(p) ==
          [p EXCEPT !.name = canonical(@), !.host = canonical(@),
                    !.containers = normalizeContainers(@)]
        add(acc, p) ==
          LET q == canonicalRow(p) IN
          IF indexOf(acc, q.name) = 0 THEN Append(acc, q)
          ELSE [acc EXCEPT ![indexOf(acc, q.name)] = mergeProject(@, q)]
    IN  FoldLeft(add, <<>>, SelectSeq(ps, LAMBDA p : p.name # None))

(***************************************************************************)
(* Hosts.                                                                  *)
(***************************************************************************)
projectNameSet(ps) == {ps[i].name : i \in DOMAIN ps}

\* The canonical existing projects of a list, each once.
normalizeProjectList(list, valid) ==
    FoldLeft(LAMBDA acc, s :
               IF canonical(s) \in valid THEN appendIfMissing(acc, canonical(s))
               ELSE acc,
             <<>>, list)

\* ... without the ones mapped to another host.
filterHostProjectList(name, list, ps) ==
    FoldLeft(LAMBDA acc, p :
               IF ps[indexOf(ps, p)].host \in {None, name} THEN appendIfMissing(acc, p)
               ELSE acc,
             <<>>, list)

\* Runtime and ownership are the incoming row's; key and user are kept.
mergeHost(existing, incoming) ==
    [incoming EXCEPT
        !.attrs    = @ \cup (existing.attrs \cap HostSettings),
        !.projects = FoldLeft(appendIfMissing, existing.projects, @)]

normalizeHostRows(hs, ps) ==
    LET valid == projectNameSet(ps)
        add(acc, h) ==
          LET q == [h EXCEPT !.name = canonical(@),
                             !.projects = normalizeProjectList(@, valid)] IN
          IF indexOf(acc, q.name) = 0 THEN Append(acc, q)
          ELSE [acc EXCEPT ![indexOf(acc, q.name)] = mergeHost(@, q)]
        named == SelectSeq(hs, LAMBDA h : h.name # None)
        merged == FoldLeft(add, <<>>, named)
        defaults == SelectSeq(named, LAMBDA h : h.isDefault)
        defaultHostName ==
          IF defaults = <<>> THEN None ELSE canonical(Last(defaults).name)
        register(acc, p) ==
          IF p.host = None THEN acc
          ELSE IF indexOf(acc, p.host) # 0
          THEN [acc EXCEPT ![indexOf(acc, p.host)].projects = appendIfMissing(@, p.name)]
          ELSE Append(acc, [name |-> p.host, projects |-> <<p.name>>,
                            inUse |-> FALSE, isDefault |-> FALSE, attrs |-> {}])
        registered == FoldLeft(register, merged, ps)
        finish(h) ==
          LET list == filterHostProjectList(h.name,
                        normalizeProjectList(h.projects, valid), ps) IN
          [h EXCEPT !.projects = list, !.inUse = list # <<>>,
                    !.isDefault = h.name = defaultHostName]
    IN  [i \in DOMAIN registered |-> finish(registered[i])]

\* A later row of a name replaces the earlier one, in its place.
normalizeRegistries(rs) ==
    LET add(acc, r) ==
          LET q == [r EXCEPT !.name = canonical(@)] IN
          IF indexOf(acc, q.name) = 0 THEN Append(acc, q)
          ELSE [acc EXCEPT ![indexOf(acc, q.name)] = q]
    IN  FoldLeft(add, <<>>, SelectSeq(rs, LAMBDA r : r.name # None))

normalizeContextName(c, ps) ==
    IF canonical(c) \in projectNameSet(ps) THEN canonical(c) ELSE None

\* Mutant: the hosts are normalized before the projects they refer to.
normalizeRows_HostsFirst(r) ==
    LET ps == normalizeProjects(r.projects) IN
    [projects   |-> ps,
     hosts      |-> normalizeHostRows(r.hosts, r.projects),
     registries |-> normalizeRegistries(r.registries),
     context    |-> normalizeContextName(r.context, ps)]

normalizeRows(r) ==
    LET ps == normalizeProjects(r.projects) IN
    [projects   |-> ps,
     hosts      |-> normalizeHostRows(r.hosts, ps),
     registries |-> normalizeRegistries(r.registries),
     context    |-> normalizeContextName(r.context, ps)]

-----------------------------------------------------------------------------
(* unmarshall: decode, then normalize. *)
Init == file \in Files /\ rows = file /\ passes = 0

unmarshall ==
    /\ passes = 0
    /\ rows' = normalizeRows(rows)
    /\ passes' = 1
    /\ UNCHANGED file

\* saveDBContent of a command that changed nothing normalizes again.
saveDBContent ==
    /\ passes = 1
    /\ rows' = normalizeRows(rows)
    /\ passes' = 2
    /\ UNCHANGED file

Next == unmarshall \/ saveDBContent

Spec == Init /\ [][Next]_vars

-----------------------------------------------------------------------------
(***************************************************************************)
(* What a file means, column by column: the database of DbData, before     *)
(* normalization.                                                          *)
(***************************************************************************)
RowsNamed(s, n) == SelectSeq(s, LAMBDA r : r.name # None /\ r.name[1] = n)

\* The last row that says something about column col, or None.
LastSaid(s, col(_)) ==
    LET said == SelectSeq(s, LAMBDA r : col(r) # None) IN
    IF said = <<>> THEN None ELSE col(Last(said))

Meaning(r) ==
    LET P(n) == RowsNamed(r.projects, n)
        H(n) == RowsNamed(r.hosts, n)
        hostOf(row) == IF row.host = None THEN None ELSE row.host[1]
        containersOf(n) == FlattenSeq([i \in DOMAIN P(n) |-> P(n)[i].containers])
        infoOf(n, c) == LastSaid(RowsNamed(containersOf(n), c),
                                 LAMBDA k : IF k.info = None THEN None ELSE k.info[1])
        defaults == SelectSeq(r.hosts, LAMBDA h : h.name # None /\ h.isDefault)
    IN [projects     |-> {n \in ProjectNames : P(n) # <<>>},
        host         |-> [n \in ProjectNames |-> LastSaid(P(n), hostOf)],
        containers   |-> [n \in ProjectNames |-> [c \in ContainerNames |-> infoOf(n, c)]],
        settings     |-> [n \in ProjectNames |-> UNION {P(n)[i].settings : i \in DOMAIN P(n)}],
        hosts        |-> {n \in HostNames : H(n) # <<>>},
        hostProjects |-> [n \in HostNames |->
                            {p \in ProjectNames : \E i \in DOMAIN H(n) :
                                \E j \in DOMAIN H(n)[i].projects :
                                    H(n)[i].projects[j][1] = p}],
        inUse        |-> {n \in HostNames : \E i \in DOMAIN H(n) : H(n)[i].inUse},
        isDefault    |-> IF defaults = <<>> THEN {} ELSE {Last(defaults).name[1]},
        hostAttrs    |-> [n \in HostNames |-> IF H(n) = <<>> THEN {} ELSE
                            Last(H(n)).attrs \cup
                            (HostSettings \cap UNION {H(n)[i].attrs : i \in DOMAIN H(n)})],
        context      |-> r.context]

\* What a file says of registry n: the whole of its last row.
RegistrySaid(r, n) ==
    LET rs == RowsNamed(r.registries, n) IN
    IF rs = <<>> THEN None ELSE Last(rs).info

(***************************************************************************)
(* Reading a file of any shape yields what DbData's normalize makes of     *)
(* its meaning: no column of a duplicated row is lost or taken from the    *)
(* wrong row, and every list agrees with the mapping of the projects.      *)
(***************************************************************************)
AgreesWithMeaning ==
    passes >= 1 =>
        /\ Meaning(rows) = normalize(Meaning(file))
        /\ \A n \in RegistryNames : RegistrySaid(rows, n) = RegistrySaid(file, n)

\* Where the file first names project n.
FirstSeen(n) ==
    SelectInSeq(file.projects, LAMBDA p : p.name # None /\ p.name[1] = n)

(***************************************************************************)
(* In memory there is one row per project, host, registry and container,   *)
(* and no project is listed twice by a host: what the setters, which look  *)
(* for the first row, rely on.  The projects are in the order of their     *)
(* first rows in the file: deleting the selected project selects the first *)
(* one left, so a Save that reordered the list would select another one.   *)
(***************************************************************************)
RowsInOrder ==
    passes >= 1 =>
        /\ \A i, j \in DOMAIN rows.projects :
              i < j => FirstSeen(rows.projects[i].name[1])
                         < FirstSeen(rows.projects[j].name[1])
        /\ \A i, j \in DOMAIN rows.hosts :
              rows.hosts[i].name[1] = rows.hosts[j].name[1] => i = j
        /\ \A i, j \in DOMAIN rows.registries :
              rows.registries[i].name[1] = rows.registries[j].name[1] => i = j
        /\ \A i \in DOMAIN rows.projects :
              IsInjective([k \in DOMAIN rows.projects[i].containers |->
                              rows.projects[i].containers[k].name[1]])
        /\ \A i \in DOMAIN rows.hosts : IsInjective(rows.hosts[i].projects)

(***************************************************************************)
(* A second normalization changes nothing, not even the order of the rows  *)
(* and lists: commands that change nothing leave db.json as it is.         *)
(***************************************************************************)
SecondPassIsIdentity == [][passes = 1 => rows' = rows]_vars
=============================================================================
