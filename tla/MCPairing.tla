----------------------------- MODULE MCPairing -----------------------------
(***************************************************************************)
(* Pairing with two session ids: a0, which is used over and over, and b0,  *)
(* which runs beside it.                                                   *)
(***************************************************************************)
EXTENDS Pairing

CONSTANTS a0, b0, a1, a2, a3, a4, a5, b1, b2, none

MCKeys     == {a0, b0}
MCMessages == {a1, a2, a3, a4, a5, b1, b2}
MCKeyOf    == [m \in MCMessages |-> IF m \in {b1, b2} THEN b0 ELSE a0]

\* The messages of one session are interchangeable: without loss they arrive
\* in one order. (A symmetry set would not do for the liveness property.)
InOrder == <<a1, a2, a3, a4, a5>>
Then    == <<b1, b2>>

Prefix(s) == \A i \in 2..Len(s) : s[i] \in arrived => s[i-1] \in arrived

ArriveInOrder == Prefix(InOrder)' /\ Prefix(Then)'
=============================================================================
