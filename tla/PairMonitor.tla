---------------------------- MODULE PairMonitor ----------------------------
(***************************************************************************)
(* What pairer promises to an operator who reads its log: every message it *)
(* accepts waits alone under its session id, and leaves that place at most *)
(* once, either paired with the next message of the same id or dropped.    *)
(* Threads, timers, counters and the reporter are left to Pairing, which   *)
(* implements this module.                                                 *)
(***************************************************************************)
EXTENDS Sessions

VARIABLES waiting,    \* the unpaired message that waits under a session id
          matched,    \* pairs made so far, the earlier message first
          dropped     \* messages given up on

monitorVars == <<waiting, matched, dropped>>

Waiting(m)  == \E k \in Keys : waiting[k] = m
Asked(m)    == \E a \in Messages : <<m, a>> \in matched
Answered(m) == \E q \in Messages : <<q, m>> \in matched

\* A message that has not been accepted yet.
Fresh(m) == ~Waiting(m) /\ ~Asked(m) /\ ~Answered(m) /\ m \notin dropped

Init == /\ waiting = [k \in Keys |-> NoMsg]
        /\ matched = {}
        /\ dropped = {}

(***************************************************************************)
(* No partner waits: the message itself starts to wait.                    *)
(***************************************************************************)
Hold(m) == /\ Fresh(m)
           /\ waiting[KeyOf[m]] = NoMsg
           /\ waiting' = [waiting EXCEPT ![KeyOf[m]] = m]
           /\ UNCHANGED <<matched, dropped>>

\* Bug for comparison: the earlier message is found and not taken out.
MatchKeeps(m) == /\ Fresh(m)
                 /\ waiting[KeyOf[m]] # NoMsg
                 /\ matched' = matched \cup {<<waiting[KeyOf[m]], m>>}
                 /\ UNCHANGED <<waiting, dropped>>

(***************************************************************************)
(* The partner waits: the two leave together as a pair.                    *)
(***************************************************************************)
Match(m) == /\ Fresh(m)
            /\ waiting[KeyOf[m]] # NoMsg
            /\ matched' = matched \cup {<<waiting[KeyOf[m]], m>>}
            /\ waiting' = [waiting EXCEPT ![KeyOf[m]] = NoMsg]
            /\ UNCHANGED dropped

(***************************************************************************)
(* Nobody answered in time.                                                *)
(***************************************************************************)
Drop(k) == /\ waiting[k] # NoMsg
           /\ dropped' = dropped \cup {waiting[k]}
           /\ waiting' = [waiting EXCEPT ![k] = NoMsg]
           /\ UNCHANGED matched

Next == \/ \E m \in Messages : Hold(m) \/ Match(m)
        \/ \E k \in Keys : Drop(k)

Spec == Init /\ [][Next]_monitorVars

-----------------------------------------------------------------------------

TypeOK == /\ waiting \in [Keys -> MsgOrNull]
          /\ matched \subseteq Messages \X Messages
          /\ dropped \subseteq Messages

(***************************************************************************)
(* A message waits under its own session id only.                          *)
(***************************************************************************)
WaitsAtItsKey == \A k \in Keys : waiting[k] # NoMsg => KeyOf[waiting[k]] = k

(***************************************************************************)
(* The two messages of a pair carry one session id.                        *)
(***************************************************************************)
PairsShareKey == \A p \in matched : KeyOf[p[1]] = KeyOf[p[2]]

(***************************************************************************)
(* A message is in one place: it waits, or opened a pair, or closed one,   *)
(* or was dropped, and it belongs to one pair at most.                     *)
(***************************************************************************)
OneFate ==
    /\ \A m \in Messages :
         /\ ~(Waiting(m) /\ (Asked(m) \/ Answered(m) \/ m \in dropped))
         /\ ~(Asked(m) /\ (Answered(m) \/ m \in dropped))
         /\ ~(Answered(m) /\ m \in dropped)
    /\ \A p, q \in matched : p[1] = q[1] \/ p[2] = q[2] => p = q

Inv == TypeOK /\ WaitsAtItsKey /\ PairsShareKey /\ OneFate
=============================================================================
