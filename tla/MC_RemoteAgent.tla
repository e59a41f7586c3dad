--------------------------- MODULE MC_RemoteAgent ---------------------------
(***************************************************************************)
(* Two cds processes and two ports; three commands, so that a third meets  *)
(* what two that ran together have left; one event, which may be a kill.   *)
(***************************************************************************)
EXTENDS RemoteAgent

Symmetry == Permutations(Clis)
=============================================================================
