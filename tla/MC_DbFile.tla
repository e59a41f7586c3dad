----------------------------- MODULE MC_DbFile -----------------------------
(* A bounded set of raw db.json files for DbFile. *)
EXTENDS DbFile

CONSTANTS p1, p2, ghost, h1, h2, c1, running, exited, key, owner, g1

MCContainerLists ==
    {<<>>, <<[name |-> <<c1, "exact">>, info |-> <<running, "padded">>],
             [name |-> <<c1, "padded">>, info |-> None]>>,
     <<[name |-> <<c1, "padded">>, info |-> <<exited, "exact">>],
       [name |-> None, info |-> <<running, "exact">>]>>}

MCProjectRows ==
    {[name |-> n, host |-> h, settings |-> {}, containers |-> cs] :
        n \in {<<p1, "exact">>, <<p1, "padded">>, <<p2, "exact">>},
        h \in {None, <<h1, "padded">>, <<h2, "exact">>},
        cs \in {<<>>}}
    \cup
    {[name |-> <<p1, "padded">>, host |-> None, settings |-> {"nas"}, containers |-> cs] :
        cs \in MCContainerLists}
    \cup
    {[name |-> None, host |-> <<h2, "exact">>, settings |-> {}, containers |-> <<>>]}

MCHostRows ==
    {[name |-> n, projects |-> l, inUse |-> FALSE, isDefault |-> d, attrs |-> {}] :
        n \in {<<h1, "exact">>, <<h1, "padded">>, <<h2, "exact">>},
        l \in {<<>>, <<<<p1, "padded">>, <<p1, "exact">>>>,
               <<<<p2, "exact">>, <<ghost, "exact">>>>},
        d \in BOOLEAN}
    \cup
    {[name |-> <<h1, "exact">>, projects |-> <<>>, inUse |-> TRUE, isDefault |-> FALSE,
      attrs |-> a] : a \in {{key}, {owner}}}
    \cup
    {[name |-> None, projects |-> <<<<p1, "exact">>>>, inUse |-> TRUE,
      isDefault |-> TRUE, attrs |-> {}]}

MCRegistryRows ==
    [name : {None, <<g1, "exact">>, <<g1, "padded">>}, info : {running, exited}]

\* A row between two rows of another project.
MCThreeRows ==
    {[name |-> n, host |-> h, settings |-> {}, containers |-> <<>>] :
        n \in {<<p1, "exact">>, <<p1, "padded">>, <<p2, "exact">>},
        h \in {None, <<h1, "padded">>, <<h2, "exact">>}}

\* Registries refer to nothing and are tried in files of their own.
MCFiles ==
    [projects   : BoundedSeq(MCProjectRows, 2),
     hosts      : BoundedSeq(MCHostRows, 2),
     registries : {<<>>},
     context    : {None, <<p1, "padded">>, <<ghost, "exact">>}]
    \cup
    [projects   : BoundedSeq(MCThreeRows, 3),
     hosts      : {<<>>},
     registries : {<<>>},
     context    : {<<p1, "padded">>}]
    \cup
    [projects   : {<<>>},
     hosts      : {<<>>},
     registries : BoundedSeq(MCRegistryRows, 3),
     context    : {None}]
=============================================================================
