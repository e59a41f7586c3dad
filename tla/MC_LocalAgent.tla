---------------------------- MODULE MC_LocalAgent ----------------------------
(***************************************************************************)
(* Small instances of LocalAgent.                                          *)
(***************************************************************************)
EXTENDS LocalAgent, TLC

\* The default port is not interchangeable with another; cds processes and
\* process ids are.
Symmetry == Permutations(Clis) \cup Permutations(Pids)
=============================================================================
