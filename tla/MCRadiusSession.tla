-------------------------- MODULE MCRadiusSession --------------------------
(***************************************************************************)
(* Two clients that may use the same ids, and datagrams of two kinds.      *)
(***************************************************************************)
EXTENDS RadiusSession

CONSTANTS c1, c2, i1, i2

MCClients == {c1, c2}
MCIds     == {i1, i2}

Plain == [size |-> 20, len |-> 20]
Tiny  == [size |-> 19, len |-> 19]   \* is forwarded, and rejected by rad_recv

MCShapes == {Plain, Tiny}

SessionSymmetry == Permutations(MCClients) \cup Permutations(MCIds)
=============================================================================
