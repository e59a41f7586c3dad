------------------------ MODULE MC_ProjectLifecycle ------------------------
(* Model checking instance of ProjectLifecycle. *)
EXTENDS ProjectLifecycle, TLC

CONSTANTS p1, p2, c1, c2, c3

\* Deploy plans that build a name each; c3 is for rename.
OwnName == [p \in ProjectNames |-> IF p = p1 THEN c1 ELSE c2]

\* The projects, with the names of their plans, may change places.
Places ==
    {f \in Permutations({p1, p2, c1, c2}) :
        <<f[p1], f[c1]>> \in {<<p1, c1>>, <<p2, c2>>}
        /\ <<f[p2], f[c2]>> \in {<<p1, c1>>, <<p2, c2>>}}

Infos == [status : Statuses, port : BOOLEAN]
=============================================================================
