------------------------ MODULE MC_ContainerService ------------------------
(* A small instance of ContainerService for TLC. *)
EXTENDS ContainerService, TLC

CONSTANTS c1, c2, p1, u1, u2, x, y

Plan(c, img, cu, ru, key, authfile) ==
    [project |-> p1, name |-> c,
     config |-> [image |-> img, containerUser |-> cu, remoteUser |-> ru,
                 initialize |-> cu = ru, post |-> TRUE,
                 appPorts |-> IF img = "url" THEN 0 ELSE 1,
                 exposed |-> IF img = "url" THEN "after" ELSE "before"],
     client |-> [dockerfile |-> key, authfile |-> authfile, authEnv |-> FALSE,
                 key |-> key, userKey |-> "good"]]

\* The last plan names an auth file that is not there.
MCPlans ==
    {Plan(c1, "url", u1, u2, x, y), Plan(c1, "dockerfile", u1, u1, y, None),
     Plan(c2, "none", Root, Root, x, None),
     [Plan(c2, "url", Root, Root, x, None) EXCEPT !.client.authEnv = TRUE]}

Symmetry == Permutations(Calls)

=============================================================================
