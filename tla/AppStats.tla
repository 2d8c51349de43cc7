------------------------------ MODULE AppStats ------------------------------
(***************************************************************************)
(* AppStats: counters that any thread increments, and the thread of the    *)
(* TimerPool that AppStats owns, which moves every counter from the active *)
(* to the holding register once in a period and logs it.                   *)
(*                                                                         *)
(* The timer that starts a move is re-armed by the callback itself, on the *)
(* pool's thread, inside the loop that drains expired timers. The clock is *)
(* relative: a timer carries the time left to its deadline. Nobody else    *)
(* uses this pool, so no one races for its queue (TimerPool.tla has that). *)
(***************************************************************************)
EXTENDS Integers, Sequences

CONSTANTS NumStats,  \* number_stats_
          Width,     \* a counter counts modulo Width, 2^32 in the code
          Duration,  \* active_counter_duration
          MaxCount   \* bound: increments of one counter

ASSUME StatsAssumption == /\ NumStats \in Nat
                          /\ Width \in Nat \ {0}
                          /\ Duration \in Nat
                          /\ MaxCount \in Nat

Ids == 0..NumStats-1

VARIABLES
    active,     \* active_counters_
    holding,    \* holding_counters_
    timers,     \* pool_.queue_: the time left, now and as of current_time
    cpc,        \* client: "constructing", or "ready" to use the counters
    pc,         \* pool thread: the step it is at
    idx,        \* ... i, the counter to be moved
    hand,       \* ... what fetch_and returned
    counted,    \* history: increments of each counter
    moved,      \* history: the sum of what was logged for each counter
    wrapped,    \* history: the sum of what was lost when it wrapped around
    since       \* history: counted, when the last move began

vars == <<active, holding, timers, cpc, pc, idx, hand, counted, moved,
          wrapped, since>>

pool     == <<timers, pc, idx, hand>>
register == <<active, holding>>
history  == <<counted, moved, wrapped, since>>

Zero == [i \in Ids |-> 0]
At(step) == pc = step

Past == -1     \* stands for any deadline in the past
Timer == [left : Past..Duration, seen : Past..Duration]
NewTimer == [left |-> Duration, seen |-> Duration]

-----------------------------------------------------------------------------
Init == /\ active = Zero /\ holding = Zero
        /\ timers = <<>> /\ cpc = "constructing"
        /\ pc = "check" /\ idx = 0 /\ hand = 0
        /\ counted = Zero /\ moved = Zero /\ wrapped = Zero /\ since = Zero

\* The constructor has started the pool's thread, and now adds the timer.
Construct == /\ cpc = "constructing"
             /\ cpc' = "ready"
             /\ timers' = Append(timers, NewTimer)
             /\ UNCHANGED <<register, pc, idx, hand, history>>

\* Time passes.
Elapsed(t) == [t EXCEPT !.left = IF @ > Past THEN @ - 1 ELSE Past]

Tick == /\ timers # <<>>
        /\ timers' = [n \in 1..Len(timers) |-> Elapsed(timers[n])]
        /\ UNCHANGED <<register, cpc, pc, idx, hand, history>>

\* incrementCounter(i): one atomic step. An i out of range is ignored.
IncrementCounter(i) ==
    /\ cpc = "ready"
    /\ counted[i] < MaxCount
    /\ counted' = [counted EXCEPT ![i] = @ + 1]
    /\ IF active[i] + 1 = Width
       THEN /\ active' = [active EXCEPT ![i] = 0]
            /\ wrapped' = [wrapped EXCEPT ![i] = @ + Width]
       ELSE /\ active' = [active EXCEPT ![i] = @ + 1]
            /\ UNCHANGED wrapped
    /\ UNCHANGED <<holding, cpc, pool, moved, since>>

-----------------------------------------------------------------------------
(* The pool's thread *)

\* current_time = now(): what counts as expired in this round.
ReadClock ==
    /\ At("check")
    /\ timers' = [n \in 1..Len(timers) |->
                     [timers[n] EXCEPT !.seen = timers[n].left]]
    /\ pc' = "scan"
    /\ UNCHANGED <<register, cpc, idx, hand, history>>

\* Bug for comparison: the clock is read again for every timer.
IsExpiredNow(t) == t.left < 0

IsExpired(t) == t.seen < 0

\* retrieve_one_if and the call of onTimerExpiry.
Expire ==
    /\ At("scan")
    /\ timers # <<>> /\ IsExpired(Head(timers))
    /\ timers' = Tail(timers)
    /\ pc' = "rearm"
    /\ UNCHANGED <<register, cpc, idx, hand, history>>

\* Nothing has expired: front() waits for a timer ...
Sleep ==
    /\ At("scan")
    /\ timers # <<>> => ~IsExpired(Head(timers))
    /\ pc' = "sleep"
    /\ UNCHANGED <<register, cpc, timers, idx, hand, history>>

\* ... and the thread sleeps until its deadline.
WakesUp ==
    /\ At("sleep")
    /\ timers # <<>> /\ Head(timers).left <= 0
    /\ pc' = "check"
    /\ UNCHANGED <<register, cpc, timers, idx, hand, history>>

\* Bug for comparison: the timer is not added again.
ForgetTimer ==
    /\ At("rearm")
    /\ pc' = "fetch"
    /\ idx' = 0
    /\ since' = counted
    /\ UNCHANGED <<register, cpc, timers, hand, counted, moved, wrapped>>

\* onTimerExpiry re-adds the timer, then calls moveActiveToHold.
Rearm ==
    /\ At("rearm")
    /\ timers' = Append(timers, NewTimer)
    /\ pc' = "fetch"
    /\ idx' = 0
    /\ since' = counted
    /\ UNCHANGED <<register, cpc, hand, counted, moved, wrapped>>

\* The head of moveActiveToHold's loop.
MoveDone ==
    /\ At("fetch")
    /\ idx >= NumStats
    /\ pc' = "scan"
    /\ UNCHANGED <<register, cpc, timers, idx, hand, history>>

\* Bug for comparison: the counter is read and not zeroed.
FetchAndKeep ==
    /\ At("fetch")
    /\ idx < NumStats
    /\ hand' = active[idx]
    /\ pc' = "store"
    /\ UNCHANGED <<register, cpc, timers, idx, history>>

\* active_counters_[i].fetch_and(0)
FetchAndZero ==
    /\ At("fetch")
    /\ idx < NumStats
    /\ hand' = active[idx]
    /\ active' = [active EXCEPT ![idx] = 0]
    /\ pc' = "store"
    /\ UNCHANGED <<holding, cpc, timers, idx, history>>

\* Bug for comparison: the loop steps over every other counter.
HoldEveryOther ==
    /\ At("store")
    /\ holding' = [holding EXCEPT ![idx] = hand]
    /\ moved' = [moved EXCEPT ![idx] = @ + hand]
    /\ idx' = idx + 2
    /\ hand' = 0
    /\ pc' = "fetch"
    /\ UNCHANGED <<active, cpc, timers, counted, wrapped, since>>

\* holding_counters_[i] = ...; the value is logged.
Hold ==
    /\ At("store")
    /\ holding' = [holding EXCEPT ![idx] = hand]
    /\ moved' = [moved EXCEPT ![idx] = @ + hand]
    /\ idx' = idx + 1
    /\ hand' = 0
    /\ pc' = "fetch"
    /\ UNCHANGED <<active, cpc, timers, counted, wrapped, since>>

-----------------------------------------------------------------------------
PoolThread == \/ ReadClock \/ Expire \/ Sleep \/ WakesUp \/ Rearm
              \/ MoveDone \/ FetchAndZero \/ Hold

Next == \/ Construct \/ Tick \/ PoolThread
        \/ \E i \in Ids : IncrementCounter(i)

\* The clock advances, the constructor returns, the thread is scheduled.
Fairness == WF_vars(Construct) /\ WF_vars(Tick) /\ WF_vars(PoolThread)

Spec == Init /\ [][Next]_vars /\ Fairness

-----------------------------------------------------------------------------
(* Properties *)

TypeOK == /\ active \in [Ids -> Nat]
          /\ holding \in [Ids -> Nat]
          /\ timers \in Seq(Timer)
          /\ cpc \in {"constructing", "ready"}
          /\ pc \in {"check", "scan", "sleep", "rearm", "fetch", "store"}
          /\ idx \in 0..NumStats
          /\ pc = "store" => idx \in Ids
          /\ hand \in Nat
          /\ counted \in [Ids -> Nat]
          /\ moved \in [Ids -> Nat]
          /\ wrapped \in [Ids -> Nat]
          /\ since \in [Ids -> Nat]

(***************************************************************************)
(* No increment is lost between the registers and none is logged twice,    *)
(* although other threads increment while a move is under way: what was    *)
(* counted is in the active register, in the thread's hand, or was logged; *)
(* only a counter that wraps around forgets (AppStats.cpp:31,53).          *)
(***************************************************************************)
InHand(i) == IF pc = "store" /\ idx = i THEN hand ELSE 0

Conserved ==
    \A i \in Ids :
        counted[i] = moved[i] + InHand(i) + active[i] + wrapped[i]

(***************************************************************************)
(* A move leaves nothing behind: once it has passed a counter, the active  *)
(* register holds only increments made after the move began                *)
(* (AppStats.cpp:52-54).                                                   *)
(***************************************************************************)
Passed(i) == /\ pc = "fetch" => i < idx
             /\ pc = "store" => i <= idx

ActiveIsRecent ==
    \A i \in Ids : Passed(i) => active[i] <= counted[i] - since[i]

(***************************************************************************)
(* There is always one timer that will start the next move, never two and  *)
(* never none, from the construction on (AppStats.cpp:16,21).              *)
(***************************************************************************)
OneTimer == Len(timers) + (IF pc = "rearm" THEN 1 ELSE 0)
               = (IF cpc = "ready" THEN 1 ELSE 0)

(***************************************************************************)
(* A timer re-armed by the callback is not taken in the same round, so the *)
(* loop that drains expired timers ends even when a move takes longer than *)
(* the period (TimerPool.h:125-135).                                       *)
(***************************************************************************)
DrainEnds == []<>(pc = "sleep")

(***************************************************************************)
(* What was counted is moved to the holding register at last.              *)
(***************************************************************************)
CountsMove == \A i \in Ids : (active[i] > 0) ~> (active[i] = 0)
=============================================================================
