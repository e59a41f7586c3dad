------------------------------ MODULE MC_CdsDb ------------------------------
(* Model checking instance of CdsDb. *)
EXTENDS CdsDb, TLC

CONSTANTS p1, p2, h1, h2, c1, running, deleted, x1, x2

\* Names are only ever compared.
Perms ==
    Permutations({p1, p2}) \cup Permutations({h1, h2}) \cup Permutations({x1, x2})

\* Containers, options and attributes of hosts are columns nothing refers to.
Columns(d) ==
    {<<p, c>> \in ProjectNames \X ContainerNames : d.containers[p][c] # None}
      \cup {<<p, o>> \in ProjectNames \X Settings : o \in d.settings[p]}
      \cup {<<h, a>> \in HostNames \X HostAttrs : a \in d.hostAttrs[h]}

\* A command that runs alone may fill them and save, but nothing is explored
\* after that.
Sparse ==
    /\ disk \in Data => Columns(disk) = {}
    /\ \A x \in Procs : Columns(mem[x]) # {} => \A y \in Procs \ {x} : pc[y] = "idle"

\* An operation touches the copy of its process only, so it may as well wait until
\* no other process works on one; two operations are for a command that runs alone.
Turns ==
    \A x \in Procs : pc[x] = "running" =>
        \A y \in Procs \ {x} :
            /\ ops[x] = 1 => pc[y] # "running" \/ ops[y] = 0
            /\ ops[x] = 2 => pc[y] = "idle"
=============================================================================
