---------------------------- MODULE StagingStore ----------------------------
(***************************************************************************)
(* What the artifact staging area of the agent promises to a deployment: a *)
(* map from identifiers to contents in which a content appears whole, in   *)
(* one step, and only if it is what an upload declared; it is replaced the *)
(* same way, or dropped.                                                   *)
(***************************************************************************)
EXTENDS Integers, Sequences

CONSTANTS
    Ids,          \* artifact identifiers of one project
    Bytes,        \* the alphabet of contents
    Requests,     \* what uploads declare and send: records [size, digest, data]
    Absent        \* no file, no digest

VARIABLE store

\* c is how data begins.
Begins(c, data) ==
    /\ Len(c) <= Len(data)
    /\ \A k \in 1 .. Len(c) : c[k] = data[k]

\* A size of zero and an empty digest declare nothing.
SizeMatches(r, c) == r.size > 0 => r.size = Len(c)

DigestMatches(r, c) == r.digest # Absent => r.digest = c

\* c is what upload r declared, and a gap-free beginning of what it sent.
Delivers(r, c) ==
    /\ SizeMatches(r, c)
    /\ DigestMatches(r, c)
    /\ Begins(c, r.data)

Put(i) ==
    /\ store'[i] \in Seq(Bytes)
    /\ \E r \in Requests : Delivers(r, store'[i])
    /\ \A j \in Ids \ {i} : store'[j] = store[j]

\* The area, or one artifact of it, is removed.
Drop(i) == store' = [store EXCEPT ![i] = Absent]

Init == store = [i \in Ids |-> Absent]

Next == \E i \in Ids : Put(i) \/ Drop(i)

Spec == Init /\ [][Next]_store
=============================================================================
