----------------------------- MODULE MCAppStats -----------------------------
(***************************************************************************)
(* AppStats with its three counters, narrow enough to wrap around.               *)
(***************************************************************************)
EXTENDS AppStats
=============================================================================
