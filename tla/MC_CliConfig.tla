---------------------------- MODULE MC_CliConfig ----------------------------
(***************************************************************************)
(* Two processes; the local host and one remote host, spelled in the ways  *)
(* that the code tells apart; lists that an earlier version or the user    *)
(* left with a host twice, in capitals, and without a target server.       *)
(***************************************************************************)
EXTENDS CliConfig

CONSTANTS Remote, CapitalRemote, CapitalLocalhost

MC_Names == {Localhost, CapitalLocalhost, Remote, CapitalRemote}

MC_Lower ==
    [n \in MC_Names |-> IF n \in {Remote, CapitalRemote} THEN Remote ELSE Localhost]

T(form, host, port) == [form |-> form, host |-> host, port |-> port]

MC_Targets ==
    {T("port", Localhost, 1), T("host", CapitalLocalhost, 0),
     T("hostport", CapitalRemote, 1), T("url", Remote, 2)}

\* An empty list, duplicates in capitals, and an entry without a target.
MC_Seeds ==
    {<<>>,
     <<T("hostport", CapitalRemote, 1), T("port", Localhost, 1), T("url", Remote, 2),
       T("hostport", CapitalLocalhost, 2)>>,
     <<T("port", Localhost, 1), T("blank", Remote, 0)>>}

Symmetry == Permutations(Procs)
=============================================================================
