---------------------------- MODULE MC_SshAccess ----------------------------
(***************************************************************************)
(* Two processes and two projects of one host.  Four commands, so that a   *)
(* project can be deployed, shared, unshared and shared again, each of     *)
(* which may fail or be killed; two events, so that the user can make a    *)
(* pair and remove it.                                                     *)
(***************************************************************************)
EXTENDS SshAccess, TLC

Symmetry == Permutations(Procs) \cup Permutations(Projects)
=============================================================================
