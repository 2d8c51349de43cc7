--------------------------- MODULE AppStatsProofs ---------------------------
(***************************************************************************)
(* Proofs about AppStats, for any number of counters of any width.         *)
(***************************************************************************)
EXTENDS AppStats, SequenceTheorems, TLAPS

\* The timers that the code makes and changes are timers.
LEMMA TimerTypes ==
    /\ NewTimer \in Timer
    /\ \A t \in Timer : Elapsed(t) \in Timer
    /\ \A t \in Timer : [t EXCEPT !.seen = t.left] \in Timer
<1>1. NewTimer \in Timer
  BY StatsAssumption DEF NewTimer, Timer, Past
<1>2. ASSUME NEW t \in Timer PROVE Elapsed(t) \in Timer
  <2>1. (IF t.left > Past THEN t.left - 1 ELSE Past) \in Past..Duration
    BY StatsAssumption DEF Past, Timer
  <2> QED BY <2>1 DEF Elapsed, Timer
<1>3. ASSUME NEW t \in Timer PROVE [t EXCEPT !.seen = t.left] \in Timer
  BY DEF Timer
<1> QED BY <1>1, <1>2, <1>3

-----------------------------------------------------------------------------
(* The types, those of the queue apart *)

RegisterType == /\ active \in [Ids -> Nat]
                /\ holding \in [Ids -> Nat]
                /\ cpc \in {"constructing", "ready"}
                /\ pc \in {"check", "scan", "sleep", "rearm", "fetch", "store"}
                /\ idx \in 0..NumStats
                /\ pc = "store" => idx \in Ids
                /\ hand \in Nat
                /\ counted \in [Ids -> Nat]
                /\ moved \in [Ids -> Nat]
                /\ wrapped \in [Ids -> Nat]
                /\ since \in [Ids -> Nat]

\* Both parts together are the type invariant.
LEMMA TypeParts == TypeOK <=> RegisterType /\ timers \in Seq(Timer)
BY DEF TypeOK, RegisterType

\* The constructor's state is well typed.
LEMMA InitType == Init => TypeOK
<1>1. Init => timers \in Seq(Timer)
  BY EmptySeq DEF Init
<1>2. Init => RegisterType
  BY StatsAssumption DEF Init, RegisterType, Zero, Ids
<1> QED BY <1>1, <1>2, TypeParts

\* Every step keeps the queue a sequence of timers.
LEMMA NextQueue == timers \in Seq(Timer) /\ [Next]_vars => timers' \in Seq(Timer)
<1> SUFFICES ASSUME timers \in Seq(Timer), [Next]_vars
             PROVE  timers' \in Seq(Timer)
  OBVIOUS
<1>1. CASE Construct \/ Rearm
  <2>1. timers' = Append(timers, NewTimer)
    BY <1>1 DEF Construct, Rearm
  <2> QED BY <2>1, TimerTypes, AppendProperties
<1>2. CASE Tick
  <2>1. /\ timers' = [n \in 1..Len(timers) |-> Elapsed(timers[n])]
        /\ \A n \in 1..Len(timers) : timers[n] \in Timer
        /\ Len(timers) \in Nat
    BY <1>2, ElementOfSeq, LenProperties DEF Tick
  <2> QED BY ONLY <2>1, TimerTypes, IsASeq
<1>3. CASE ReadClock
  <2>1. /\ timers' = [n \in 1..Len(timers) |->
                        [timers[n] EXCEPT !.seen = timers[n].left]]
        /\ \A n \in 1..Len(timers) : timers[n] \in Timer
        /\ Len(timers) \in Nat
    BY <1>3, ElementOfSeq, LenProperties DEF ReadClock
  <2> QED BY ONLY <2>1, TimerTypes, IsASeq
<1>4. CASE Expire
  <2>1. timers # <<>> /\ timers' = Tail(timers)
    BY <1>4 DEF Expire
  <2> QED BY <2>1, HeadTailProperties
<1>5. CASE \/ Sleep \/ WakesUp \/ MoveDone \/ FetchAndZero \/ Hold
           \/ (\E i \in Ids : IncrementCounter(i)) \/ UNCHANGED vars
  <2>1. UNCHANGED timers
    BY <1>5 DEF Sleep, WakesUp, MoveDone, FetchAndZero, Hold,
                IncrementCounter, vars, pool
  <2> QED BY <2>1
<1> QED BY <1>1, <1>2, <1>3, <1>4, <1>5 DEF Next, PoolThread

\* Every step keeps the types of the registers and of the thread's variables.
LEMMA NextRegisters == RegisterType /\ [Next]_vars => RegisterType'
<1> SUFFICES ASSUME RegisterType, [Next]_vars PROVE RegisterType'
  OBVIOUS
<1> USE StatsAssumption DEF RegisterType, pool, register, history, At
<1>1. ASSUME NEW i \in Ids, IncrementCounter(i) PROVE RegisterType'
  BY <1>1 DEF IncrementCounter
<1>2. CASE \/ Construct \/ Tick \/ ReadClock \/ Expire \/ Sleep \/ WakesUp
           \/ MoveDone \/ UNCHANGED vars
  <2>1. UNCHANGED <<active, holding, idx, hand, counted, moved, wrapped, since>>
    BY <1>2 DEF Construct, Tick, ReadClock, Expire, Sleep, WakesUp, MoveDone, vars
  <2> QED BY <1>2, <2>1 DEF Construct, Tick, ReadClock, Expire, Sleep, WakesUp,
                            MoveDone, vars
<1>3. CASE Rearm
  BY <1>3 DEF Rearm
<1>4. CASE FetchAndZero
  <2>1. idx \in Ids
    BY <1>4 DEF FetchAndZero, Ids
  <2> QED BY <1>4, <2>1 DEF FetchAndZero
<1>5. CASE Hold
  <2>1. idx \in Ids /\ idx + 1 \in 0..NumStats
    BY <1>5 DEF Hold, Ids
  <2> QED BY <1>5, <2>1 DEF Hold
<1> QED BY <1>1, <1>2, <1>3, <1>4, <1>5 DEF Next, PoolThread

\* Every step keeps the types.
LEMMA NextType == TypeOK /\ [Next]_vars => TypeOK'
<1>1. TypeOK' <=> RegisterType' /\ timers' \in Seq(Timer)
  BY DEF TypeOK, RegisterType
<1> QED BY <1>1, TypeParts, NextQueue, NextRegisters

(***************************************************************************)
(* The variables of AppStats and of its thread keep their types.           *)
(***************************************************************************)
THEOREM StatsTypeCorrect == Spec => []TypeOK
BY InitType, NextType, PTL DEF Spec

-----------------------------------------------------------------------------
\* What is logged, in hand, active, and lost by wrapping is what was counted.
LEMMA NextConserved == RegisterType /\ Conserved /\ [Next]_vars => Conserved'
<1> SUFFICES ASSUME RegisterType, Conserved, [Next]_vars PROVE Conserved'
  OBVIOUS
<1> USE StatsAssumption
    DEF RegisterType, Conserved, InHand, pool, register, history, At
<1>1. ASSUME NEW i \in Ids, IncrementCounter(i) PROVE Conserved'
  BY <1>1 DEF IncrementCounter
<1>2. CASE \/ Construct \/ Tick \/ ReadClock \/ Expire \/ Sleep \/ WakesUp
           \/ MoveDone \/ UNCHANGED vars
  <2>1. UNCHANGED <<active, holding, idx, hand, counted, moved, wrapped, since>>
    BY <1>2 DEF Construct, Tick, ReadClock, Expire, Sleep, WakesUp, MoveDone, vars
  <2> QED BY <1>2, <2>1 DEF Construct, Tick, ReadClock, Expire, Sleep, WakesUp,
                            MoveDone, vars
<1>3. CASE Rearm
  BY <1>3 DEF Rearm
<1>4. CASE FetchAndZero
  BY <1>4 DEF FetchAndZero
<1>5. CASE Hold
  BY <1>5 DEF Hold
<1> QED BY <1>1, <1>2, <1>3, <1>4, <1>5 DEF Next, PoolThread

(***************************************************************************)
(* No increment is lost or logged twice, however the threads interleave.   *)
(***************************************************************************)
THEOREM NoneLost == Spec => []Conserved
<1>1. Init => Conserved
  BY DEF Init, Conserved, InHand, Zero
<1> QED BY InitType, NextType, NextConserved, TypeParts, <1>1, PTL DEF Spec

-----------------------------------------------------------------------------
\* A move begins with what was counted so far.
SinceBefore == \A i \in Ids : since[i] <= counted[i]

\* Increments after a move began raise both sides alike; a fetch zeroes one.
LEMMA NextRecent ==
    RegisterType /\ ActiveIsRecent /\ SinceBefore /\ [Next]_vars
        => ActiveIsRecent' /\ SinceBefore'
<1> SUFFICES ASSUME RegisterType, ActiveIsRecent, SinceBefore, [Next]_vars
             PROVE  ActiveIsRecent' /\ SinceBefore'
  OBVIOUS
<1> USE StatsAssumption
    DEF RegisterType, ActiveIsRecent, Passed, SinceBefore, pool, register, history, At
<1>1. ASSUME NEW i \in Ids, IncrementCounter(i)
      PROVE  ActiveIsRecent' /\ SinceBefore'
  BY <1>1 DEF IncrementCounter
<1>2. CASE \/ Construct \/ Tick \/ ReadClock \/ Expire \/ Sleep \/ WakesUp
           \/ UNCHANGED vars
  BY <1>2 DEF Construct, Tick, ReadClock, Expire, Sleep, WakesUp, vars
<1>3. CASE Rearm
  BY <1>3 DEF Rearm, Ids
<1>4. CASE MoveDone
  BY <1>4 DEF MoveDone, Ids
<1>5. CASE FetchAndZero
  BY <1>5 DEF FetchAndZero, Ids
<1>6. CASE Hold
  BY <1>6 DEF Hold, Ids
<1> QED BY <1>1, <1>2, <1>3, <1>4, <1>5, <1>6 DEF Next, PoolThread

(***************************************************************************)
(* A move leaves nothing in the active register that was counted before.   *)
(***************************************************************************)
THEOREM MovesAll == Spec => []ActiveIsRecent
<1>1. Init => ActiveIsRecent /\ SinceBefore
  BY DEF Init, ActiveIsRecent, SinceBefore, Zero
<1> QED BY InitType, NextType, NextRecent, TypeParts, <1>1, PTL DEF Spec

-----------------------------------------------------------------------------
\* The thread is past construction when it handles a timer.
BuiltFirst == cpc = "constructing" => pc \in {"check", "scan", "sleep"}

\* The timer that was taken is added again before the next is taken.
LEMMA NextTimer ==
    TypeOK /\ OneTimer /\ BuiltFirst /\ [Next]_vars
        => OneTimer' /\ BuiltFirst'
<1> SUFFICES ASSUME TypeOK, OneTimer, BuiltFirst, [Next]_vars
             PROVE  OneTimer' /\ BuiltFirst'
  OBVIOUS
<1> USE DEF OneTimer, BuiltFirst, pool, register, history, At
<1>0. timers \in Seq(Timer) /\ Len(timers) \in Nat
  BY LenProperties DEF TypeOK
<1>1. CASE Construct \/ Rearm
  <2>1. Len(timers') = Len(timers) + 1
    BY <1>0, <1>1, TimerTypes, AppendProperties DEF Construct, Rearm
  <2> QED BY <1>0, <1>1, <2>1 DEF Construct, Rearm, TypeOK
<1>2. CASE Tick \/ ReadClock
  <2>1. Len(timers') = Len(timers)
    BY <1>0, <1>2 DEF Tick, ReadClock
  <2> QED BY <1>2, <2>1 DEF Tick, ReadClock
<1>3. CASE Expire
  <2>1. timers # <<>> /\ Len(timers') = Len(timers) - 1 /\ Len(timers) > 0
    BY <1>0, <1>3, HeadTailProperties, EmptySeq DEF Expire
  <2> QED BY <1>0, <1>3, <2>1 DEF Expire
<1>4. CASE \/ Sleep \/ WakesUp \/ MoveDone \/ FetchAndZero \/ Hold
           \/ (\E i \in Ids : IncrementCounter(i)) \/ UNCHANGED vars
  BY <1>4 DEF Sleep, WakesUp, MoveDone, FetchAndZero, Hold,
              IncrementCounter, vars
<1> QED BY <1>1, <1>2, <1>3, <1>4 DEF Next, PoolThread

(***************************************************************************)
(* There is one timer to start the next move, at every moment.             *)
(***************************************************************************)
THEOREM TimerStays == Spec => []OneTimer
<1>1. Init => OneTimer /\ BuiltFirst
  BY EmptySeq DEF Init, OneTimer, BuiltFirst
<1> QED BY InitType, NextType, NextTimer, <1>1, PTL DEF Spec
=============================================================================
