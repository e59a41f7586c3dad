------------------------- MODULE MC_ArtifactStaging -------------------------
(* Model checking instances of ArtifactStaging. *)
EXTENDS ArtifactStaging, TLC

CONSTANTS b1, b2

\* What the CLI sends, a client that declares only a size, one that
\* declares nothing, and one whose file changed after it was described.
MCRequests ==
    LET R(n, d, c) == [size |-> n, digest |-> d, data |-> c] IN
    {R(2, <<b1, b2>>, <<b1, b2>>),
     R(1, Absent, <<b1, b2>>),
     R(0, Absent, <<b2, b1>>),
     R(2, <<b1, b2>>, <<b1, b1>>),
     R(0, <<>>, <<>>)}

\* Streams and identifiers are only ever compared.
Perms == Permutations(Streams) \cup Permutations(Ids)
=============================================================================
