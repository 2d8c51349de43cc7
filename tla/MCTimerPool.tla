---------------------------- MODULE MCTimerPool ----------------------------
(***************************************************************************)
(* Three timers, two of which share an id.                                 *)
(***************************************************************************)
EXTENDS TimerPool

CONSTANTS t1, t2, t3, x, y

MCTimers == {t1, t2, t3}
MCIds    == {x, y}
MCIdOf   == [t \in MCTimers |-> IF t = t3 THEN y ELSE x]
=============================================================================
