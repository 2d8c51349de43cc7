----------------------------- MODULE TimerPool -----------------------------
(***************************************************************************)
(* TimerPool with its BlockingDequeue and a clock: the pool's own thread   *)
(* (timerPoolProcessor), and the one client thread that starts the pool,   *)
(* sets the handler, adds and deletes timers, and stops the pool.          *)
(*                                                                         *)
(* The clock is the steady clock in some fixed unit, Grain of which make   *)
(* a millisecond; it may advance between any two steps of either thread.   *)
(* A sleep is cut to whole milliseconds. retrieve_one_if is one step       *)
(* here; what becomes of two threads inside it at once is in Pairing.tla.  *)
(* push_back first changes the queue and then notifies; front() tests the  *)
(* queue and starts to wait in one step, for it has the mutex.             *)
(* A local variable is reset when the code is done with it.                *)
(***************************************************************************)
EXTENDS Naturals, Sequences, SequencesExt

CONSTANTS Timers,    \* the timers the client may arm, each once
          Ids,       \* timer ids, what deleteTimer compares
          IdOf,      \* the id of a timer
          WakeUp,    \* the timer that stop() adds, its id is the empty string
          NoId,      \* the empty string
          Duration,  \* duration_
          Grain,     \* clock units in a millisecond
          MaxTime    \* bound: the clock stops here

ASSUME PoolAssumption == /\ IdOf \in [Timers -> Ids]
                         /\ WakeUp \notin Timers
                         /\ NoId \notin Ids
                         /\ Duration \in Nat
                         /\ Grain \in Nat \ {0}
                         /\ MaxTime \in Nat

AllTimers == Timers \cup {WakeUp}
IdOfAny(t) == IF t = WakeUp THEN NoId ELSE IdOf[t]

VARIABLES
    now,        \* steady_clock::now()
    queue,      \* queue_: records of a timer and its deadline, oldest first
    active,     \* active_
    handler,    \* handler_ is not null
    tpc,        \* pool thread: the step of its loop it is at
    current,    \* ... current_time
    expired,    \* ... expiredPair
    front,      \* ... the element that queue_.front() refers to
    wake,       \* ... the time sleep_for ends
    cpc,        \* client thread: the call it is in
    adding,     \* ... the pair that addNewTimer has made and not yet pushed
    armed,      \* history: timers pushed
    fired,      \* history: timers taken off as expired, in that order
    torn        \* history: front()'s reference was read after its element
                \*   had been erased

vars == <<now, queue, active, handler, tpc, current, expired, front, wake,
          cpc, adding, armed, fired, torn>>

thread == <<tpc, current, expired, front, wake>>
client == <<cpc, adding>>
history == <<armed, fired, torn>>

Entry == [timer : AllTimers, due : Nat]
NoEntry == [timer |-> WakeUp, due |-> 0]
Never == MaxTime + 1    \* a time the clock does not reach

TAt(step) == tpc = step
CAt(step) == cpc = step

-----------------------------------------------------------------------------
(* BlockingDequeue::retrieve_one_if: the first element that satisfies P *)

FirstThat(i, P(_)) == P(queue[i]) /\ \A j \in 1..i-1 : ~P(queue[j])
SomeThat(P(_)) == \E i \in 1..Len(queue) : P(queue[i])
Retrieve(i) == queue' = RemoveAt(queue, i)

\* Bug for comparison: the deadline itself already counts as expired.
IsDueAt(e) == current >= e.due

IsExpired(e) == current > e.due

-----------------------------------------------------------------------------
Init == /\ now = 0
        /\ queue = <<>>
        /\ active = FALSE
        /\ handler = FALSE
        /\ tpc = "off" /\ current = 0 /\ expired = NoEntry
        /\ front = NoEntry /\ wake = 0
        /\ cpc = "created" /\ adding = NoEntry
        /\ armed = {} /\ fired = <<>> /\ torn = FALSE

\* Time passes. Bound: the deadline that stop() is about to compute can pass.
Tick == /\ now < MaxTime
        /\ CAt("stopping") => now + 1 + Duration < MaxTime
        /\ now' = now + 1
        /\ UNCHANGED <<queue, active, handler, thread, client, history>>

-----------------------------------------------------------------------------
(* Client thread *)

\* start()
Start == /\ CAt("created")
         /\ active' = TRUE
         /\ tpc' = "check"
         /\ cpc' = "started"
         /\ UNCHANGED <<now, queue, handler, current, expired, front, wake,
                        adding, history>>

\* setTimeoutHandler(), called when the message handler is constructed, after
\* the pool was started.
SetTimeoutHandler ==
    /\ CAt("started")
    /\ handler' = TRUE
    /\ cpc' = "use"
    /\ UNCHANGED <<now, queue, active, thread, adding, history>>

\* Bug for comparison: messages are received before the handler is set.
AddUnhandled(t) ==
    /\ cpc \in {"started", "use"}
    /\ t \notin armed
    /\ now + Duration < MaxTime
    /\ adding' = [timer |-> t, due |-> now + Duration]
    /\ cpc' = "add"
    /\ UNCHANGED <<now, queue, active, handler, thread, history>>

\* addNewTimer() reads the clock and computes the deadline ...
AddNewTimer(t) ==
    /\ CAt("use")
    /\ t \notin armed
    /\ now + Duration < MaxTime     \* bound: every deadline can pass
    /\ adding' = [timer |-> t, due |-> now + Duration]
    /\ cpc' = "add"
    /\ UNCHANGED <<now, queue, active, handler, thread, history>>

\* Bug for comparison: the new timer goes to the head of the queue.
PushFront ==
    /\ CAt("add")
    /\ queue' = <<adding>> \o queue
    /\ armed' = armed \cup {adding.timer}
    /\ cpc' = "notify"
    /\ adding' = NoEntry
    /\ UNCHANGED <<now, active, handler, thread, fired, torn>>

\* ... pushes the pair ...
Push ==
    /\ CAt("add")
    /\ queue' = Append(queue, adding)
    /\ armed' = armed \cup {adding.timer}
    /\ cpc' = "notify"
    /\ adding' = NoEntry
    /\ UNCHANGED <<now, active, handler, thread, fired, torn>>

\* Bug for comparison: deleteTimer empties the queue when it finds the id.
DeleteAll(id) ==
    /\ CAt("use")
    /\ SomeThat(LAMBDA e : IdOfAny(e.timer) = id)
    /\ queue' = <<>>
    /\ UNCHANGED <<now, active, handler, thread, client, history>>

\* deleteTimer() that finds the id; without a match it changes nothing.
DeleteTimer(id) ==
    /\ CAt("use")
    /\ \E i \in 1..Len(queue) :
          /\ FirstThat(i, LAMBDA e : IdOfAny(e.timer) = id)
          /\ Retrieve(i)
    /\ UNCHANGED <<now, active, handler, thread, client, history>>

\* stop() clears the flag ...
Stop ==
    /\ CAt("use")
    /\ now + Duration < MaxTime     \* bound: as in AddNewTimer
    /\ active' = FALSE
    /\ cpc' = "stopping"
    /\ UNCHANGED <<now, queue, handler, thread, adding, history>>

\* ... adds a timer with an empty id to wake the thread up, in the steps of
\* addNewTimer ...
AddWakeUp ==
    /\ CAt("stopping")
    /\ adding' = [timer |-> WakeUp, due |-> now + Duration]
    /\ cpc' = "waking"
    /\ UNCHANGED <<now, queue, active, handler, thread, history>>

PushWakeUp ==
    /\ CAt("waking")
    /\ queue' = Append(queue, adding)
    /\ armed' = armed \cup {WakeUp}
    /\ cpc' = "rouse"
    /\ adding' = NoEntry
    /\ UNCHANGED <<now, active, handler, thread, fired, torn>>

\* What follows once push_back has returned.
AfterNotify == IF CAt("rouse") THEN "joining" ELSE "use"

\* Bug for comparison: a push tells nobody.
NotifyNobody ==
    /\ cpc \in {"notify", "rouse"}
    /\ cpc' = AfterNotify
    /\ UNCHANGED <<now, queue, active, handler, thread, adding, history>>

\* push_back has released the mutex, and tells a thread that waits.
Notify ==
    /\ cpc \in {"notify", "rouse"}
    /\ cpc' = AfterNotify
    /\ tpc' = IF TAt("wait") THEN "front" ELSE tpc
    /\ UNCHANGED <<now, queue, active, handler, current, expired, front, wake,
                   adding, history>>

\* ... and waits for the thread to end.
Join ==
    /\ CAt("joining")
    /\ TAt("done")
    /\ cpc' = "stopped"
    /\ UNCHANGED <<now, queue, active, handler, thread, adding, history>>

-----------------------------------------------------------------------------
(* Pool thread: timerPoolProcessor *)

\* while (active_)
Check ==
    /\ TAt("check")
    /\ tpc' = IF active THEN "clock" ELSE "done"
    /\ UNCHANGED <<now, queue, active, handler, current, expired, front, wake,
                   client, history>>

\* current_time = now()
ReadClock ==
    /\ TAt("clock")
    /\ current' = now
    /\ tpc' = "scan"
    /\ UNCHANGED <<now, queue, active, handler, expired, front, wake, client,
                   history>>

\* retrieve_one_if(current_time > deadline) finds a timer ...
TakeExpired ==
    /\ TAt("scan")
    /\ \E i \in 1..Len(queue) :
          /\ FirstThat(i, IsExpired)
          /\ Retrieve(i)
          /\ expired' = queue[i]
          /\ fired' = Append(fired, queue[i].timer)
    /\ tpc' = "fire"
    /\ UNCHANGED <<now, active, handler, current, front, wake, client, armed,
                   torn>>

\* ... or none.
NoneExpired ==
    /\ TAt("scan")
    /\ ~SomeThat(IsExpired)
    /\ tpc' = "front"
    /\ current' = 0
    /\ UNCHANGED <<now, queue, active, handler, expired, front, wake,
                   client, history>>

\* handler_->onTimerExpiry(id); a null handler_ ends the process.
OnTimerExpiry ==
    /\ TAt("fire")
    /\ tpc' = IF handler THEN "scan" ELSE "crashed"
    /\ expired' = NoEntry
    /\ UNCHANGED <<now, queue, active, handler, current, front, wake,
                   client, history>>

\* queue_.front() waits, without the mutex, as long as there is no element ...
WaitFront ==
    /\ TAt("front")
    /\ queue = <<>>
    /\ tpc' = "wait"
    /\ UNCHANGED <<now, queue, active, handler, current, expired, front, wake,
                   client, history>>

\* ... also when the condition variable wakes it for nothing ...
WakesSpuriously ==
    /\ TAt("wait")
    /\ tpc' = "front"
    /\ UNCHANGED <<now, queue, active, handler, current, expired, front, wake,
                   client, history>>

\* ... and returns a reference to the first.
FrontReturns ==
    /\ TAt("front")
    /\ queue # <<>>
    /\ front' = queue[1]
    /\ tpc' = "nap"
    /\ UNCHANGED <<now, queue, active, handler, current, expired, wake, client,
                   history>>

CutShort(due) == {w \in 0..due : due < w + Grain}

\* Bug for comparison: the nap always lasts a full duration.
NapDuration ==
    /\ TAt("nap")
    /\ wake' = now + Duration
    /\ tpc' = "sleep"
    /\ front' = NoEntry
    /\ UNCHANGED <<now, queue, active, handler, current, expired, client, history>>

\* Bug for comparison: the time left is taken for the time to wake up.
NapRelative ==
    /\ TAt("nap")
    /\ wake' = front.due - now
    /\ tpc' = "sleep"
    /\ front' = NoEntry
    /\ UNCHANGED <<now, queue, active, handler, current, expired, client,
                   history>>

\* The reference is read, after the mutex was released, and the time left
\* until that deadline is slept, less the part of a millisecond that
\* duration_cast cuts off. If the element was erased in between, the slot may
\* hold the old deadline, or anything.
Nap ==
    /\ TAt("nap")
    /\ IF queue # <<>> /\ queue[1] = front
       THEN wake' \in CutShort(front.due) /\ UNCHANGED torn
       ELSE wake' \in {front.due, now, Never} /\ torn' = TRUE
    /\ tpc' = "sleep"
    /\ front' = NoEntry
    /\ UNCHANGED <<now, queue, active, handler, current, expired, client, armed, fired>>

\* sleep_for(wake - now) returns, at once when the deadline has passed.
WakesUp ==
    /\ TAt("sleep")
    /\ now >= wake
    /\ tpc' = "check"
    /\ wake' = 0
    /\ UNCHANGED <<now, queue, active, handler, current, expired, front, client, history>>

-----------------------------------------------------------------------------
PoolThread == \/ Check \/ ReadClock \/ TakeExpired \/ NoneExpired
              \/ OnTimerExpiry \/ WaitFront \/ FrontReturns \/ Nap \/ WakesUp

\* What the client does once it has begun it.
InCall == \/ SetTimeoutHandler \/ Push \/ AddWakeUp \/ PushWakeUp \/ Notify
          \/ Join

Client == \/ Start
          \/ \E t \in Timers : AddNewTimer(t)
          \/ \E id \in Ids : DeleteTimer(id)
          \/ Stop
          \/ InCall

Next == Tick \/ PoolThread \/ WakesSpuriously \/ Client

\* The clock advances and both threads are scheduled. Nothing makes the
\* client add, delete or stop, or the condition variable wake for nothing.
Fairness == WF_vars(Tick) /\ WF_vars(PoolThread) /\ WF_vars(InCall)

Spec == Init /\ [][Next]_vars /\ Fairness

-----------------------------------------------------------------------------
Queued == {queue[i].timer : i \in 1..Len(queue)}

Service == INSTANCE TimerService WITH
              Timers <- AllTimers,
              Ids <- Ids \cup {NoId},
              IdOf <- [t \in AllTimers |-> IdOfAny(t)],
              pending <- [i \in 1..Len(queue) |-> queue[i].timer]

-----------------------------------------------------------------------------
(* Properties *)

ThreadSteps == {"off", "check", "clock", "scan", "fire", "crashed", "front",
                "wait", "nap", "sleep", "done"}
ClientSteps == {"created", "started", "use", "add", "notify", "stopping",
                "waking", "rouse", "joining", "stopped"}

TypeOK == /\ now \in Nat
          /\ queue \in Seq(Entry)
          /\ active \in BOOLEAN
          /\ handler \in BOOLEAN
          /\ tpc \in ThreadSteps
          /\ current \in Nat
          /\ expired \in Entry
          /\ front \in Entry
          /\ wake \in Nat
          /\ cpc \in ClientSteps
          /\ adding \in Entry
          /\ armed \subseteq AllTimers
          /\ fired \in Seq(AllTimers)
          /\ torn \in BOOLEAN

(***************************************************************************)
(* "Assuming that timers have equal duration, so the first in the queue is *)
(* nearest for expiration" (TimerPool.h:141): the deadlines of the queue   *)
(* do not decrease, whatever is deleted and however late a pair is pushed. *)
(***************************************************************************)
FirstIsNearest ==
    \A i, j \in 1..Len(queue) : i < j => queue[i].due <= queue[j].due

(***************************************************************************)
(* While the thread sleeps no timer passes its deadline before the sleep   *)
(* ends, although the sleep is computed from a front element read without  *)
(* the lock, which may have been deleted since (TimerPool.h:142-146).      *)
(***************************************************************************)
NoOversleep ==
    tpc = "sleep" /\ ~torn =>
        \A i \in 1..Len(queue) : wake <= queue[i].due

(***************************************************************************)
(* A timer is handed to the handler after its deadline, never at it or     *)
(* before (TimerPool.h:131-135).                                           *)
(***************************************************************************)
NeverEarly == tpc = "fire" => now > expired.due

(***************************************************************************)
(* The pool is started before it has a handler (main.cpp:47,51), yet a     *)
(* null handler is never called.                                           *)
(***************************************************************************)
HandlerThere == tpc # "crashed"

(***************************************************************************)
(* What the properties need to be inductive. No deadline is farther than a *)
(* duration from now, and a pair that addNewTimer has made but not pushed  *)
(* is due no earlier than any timer in the queue or the end of the sleep;  *)
(* that pair is a new timer; and until the handler is set, the client does *)
(* not use the pool, so that the thread finds nothing to fire.             *)
(***************************************************************************)
Adding == cpc \in {"add", "waking"}

DeadlinesAhead ==
    /\ \A i \in 1..Len(queue) : queue[i].due <= now + Duration
    /\ Adding => /\ adding.due <= now + Duration
                 /\ \A i \in 1..Len(queue) : queue[i].due <= adding.due

SleepAhead ==
    tpc = "sleep" /\ ~torn => /\ wake <= now + Duration
                              /\ Adding => wake <= adding.due

AddingIsNew ==
    /\ cpc = "add" => adding.timer \in Timers \ armed
    /\ cpc = "waking" => adding.timer = WakeUp
    /\ cpc \notin {"rouse", "joining", "stopped"} => WakeUp \notin armed

NothingToFire ==
    /\ tpc = "fire" => handler
    /\ ~handler => queue = <<>> /\ cpc \in {"created", "started"}

ClockRead == /\ current <= now
             /\ tpc = "fire" => expired.due < current

PoolInv == /\ FirstIsNearest /\ DeadlinesAhead
           /\ NoOversleep /\ SleepAhead
           /\ AddingIsNew /\ NothingToFire /\ HandlerThere
           /\ ClockRead

(***************************************************************************)
(* The pool is a TimerService: the scan of the whole queue for an expired  *)
(* timer always stops at the timer armed first.                            *)
(***************************************************************************)
ImplementsService == Service!ServiceSpec

(***************************************************************************)
(* Every timer expires or is deleted, as long as the pool is not stopped.  *)
(***************************************************************************)
TimersSettle ==
    \A t \in Timers : (t \in Queued) ~> (t \notin Queued \/ ~active \/ torn)

(***************************************************************************)
(* stop() returns, unless the timer it adds to wake the thread up expired  *)
(* before the thread came to wait for the queue.                           *)
(***************************************************************************)
WakeUpTaken == \E i \in 1..Len(fired) : fired[i] = WakeUp

StopReturnsIfWoken ==
    (cpc = "stopping") ~> (cpc = "stopped" \/ WakeUpTaken \/ torn)

-----------------------------------------------------------------------------
(* What a comment says, and the code does not keep *)

(***************************************************************************)
(* stop() unblocks a thread that waits on an empty queue by adding a timer *)
(* (TimerPool.h:104-106), so stop() returns.                               *)
(***************************************************************************)
StopReturns == (cpc = "stopping" /\ ~torn) ~> (cpc = "stopped" \/ torn)
=============================================================================
