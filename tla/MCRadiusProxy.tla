--------------------------- MODULE MCRadiusProxy ---------------------------
(***************************************************************************)
(* Two clients that may use the same ids, and datagrams of four kinds.     *)
(***************************************************************************)
EXTENDS RadiusProxy

CONSTANTS c1, c2, i1, i2

MCClients == {c1, c2}
MCIds     == {i1, i2}

Short   == [size |-> 20,  len |-> 20]
Middle  == [size |-> 200, len |-> 200]   \* 200 reads as a negative length
Long    == [size |-> 400, len |-> 400]   \* 400 reads as 144
Cut     == [size |-> 30,  len |-> 60]    \* ends before its length says

MCShapes   == {Short, Cut, Long}
AllShapes  == {Short, Middle, Long, Cut}

\* "Only one client and one server is supported"
MCOneClient == {c1}
=============================================================================
