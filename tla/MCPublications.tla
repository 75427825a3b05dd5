--------------------------- MODULE MCPublications ---------------------------
(* A small instance of Publications for TLC. *)
EXTENDS Publications, TLC

CONSTANTS page, api, log, head1, head2

MCTree(s) == IF s = head1 THEN {page, log} ELSE {page, api, log}

\* Two requests that differ in the caller's own info alone, and one of another
\* commit.
MCRequests ==
    {[source |-> head1, paths |-> {page, api, log}, exclude |-> {log}, note |-> n] : n \in {0, 1}}
    \cup {[source |-> head2, paths |-> {page, api, log}, exclude |-> {log}, note |-> 0]}

Symmetry == Permutations(Clients)

First == CHOOSE r \in MCRequests : r.source = head1 /\ r.note = 0
Again == CHOOSE r \in MCRequests : r.source = head1 /\ r.note = 1
Other == CHOOSE r \in MCRequests : r.source = head2

\* The calls of publish that matter apart: the next number; the same cut again
\* without the pointer; a new lineage only, named and cut from another commit.
SomePublishes(c) ==
    \E n \in Names :
        \/ PublishCall(c, n, 0, First, TRUE, FALSE)
        \/ PublishCall(c, n, 0, Again, FALSE, FALSE)
        \/ PublishCall(c, n, 1, Other, TRUE, TRUE)

RaceNext == HandStep \/ \E c \in Clients : SomePublishes(c) \/ ClientStep(c)

RaceSpec == Init /\ [][RaceNext]_vars
=============================================================================
