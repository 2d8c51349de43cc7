---------------------------- MODULE TimerService ----------------------------
(***************************************************************************)
(* What TimerPool promises to its client: timers wait in the order they    *)
(* were armed, a timer can be cancelled by its id as long as it waits, and *)
(* the timer that expires next is always the one armed first. All timers   *)
(* have the same duration, so neither clock nor deadlines are needed here. *)
(***************************************************************************)
EXTENDS Naturals, Sequences, SequencesExt

CONSTANTS Timers,   \* the timers a client may arm, each once
          Ids,      \* what a client names its timers with
          IdOf      \* the id of a timer; several timers may share one

VARIABLES pending,  \* armed, not cancelled, not expired: oldest first
          armed,    \* timers armed so far
          fired     \* timers expired so far, in that order

serviceVars == <<pending, armed, fired>>

\* i is the first pending timer with this id.
FirstWith(i, id) == /\ IdOf[pending[i]] = id
                    /\ \A j \in 1..i-1 : IdOf[pending[j]] # id

ServiceInit == pending = <<>> /\ armed = {} /\ fired = <<>>

ServiceArm(t) == /\ t \notin armed
                 /\ armed' = armed \cup {t}
                 /\ pending' = Append(pending, t)
                 /\ UNCHANGED fired

ServiceCancel(id) == \E i \in 1..Len(pending) :
                        /\ FirstWith(i, id)
                        /\ pending' = RemoveAt(pending, i)
                        /\ UNCHANGED <<armed, fired>>

ServiceFire == /\ pending # <<>>
               /\ fired' = Append(fired, Head(pending))
               /\ pending' = Tail(pending)
               /\ UNCHANGED armed

ServiceNext == \/ \E t \in Timers : ServiceArm(t)
               \/ \E id \in Ids : ServiceCancel(id)
               \/ ServiceFire

ServiceSpec == ServiceInit /\ [][ServiceNext]_serviceVars
=============================================================================
