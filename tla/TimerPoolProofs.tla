-------------------------- MODULE TimerPoolProofs --------------------------
(***************************************************************************)
(* Proofs about TimerPool, for every set of timers, every duration and     *)
(* every bound of the clock.                                               *)
(***************************************************************************)
EXTENDS TimerPool, DequeLemmas

\* The fields of a queued pair.
LEMMA EntryFields ==
    /\ NoEntry \in Entry
    /\ \A e \in Entry : e.timer \in AllTimers /\ e.due \in Nat
BY DEF Entry, NoEntry, AllTimers

\* The initial state is well typed.
LEMMA InitType == Init => TypeOK
<1> SUFFICES ASSUME Init PROVE TypeOK
  OBVIOUS
<1>1. queue \in Seq(Entry) /\ fired \in Seq(AllTimers)
  BY EmptySeq DEF Init
<1> QED BY <1>1, EntryFields DEF Init, TypeOK, ThreadSteps, ClientSteps

\* Every step of either thread, and of the clock, keeps the types.
LEMMA NextType == TypeOK /\ [Next]_vars => TypeOK'
<1> SUFFICES ASSUME TypeOK, [Next]_vars PROVE TypeOK'
  OBVIOUS
<1> USE PoolAssumption, EntryFields
        DEF TypeOK, ThreadSteps, ClientSteps, TAt, CAt, thread, client, history
<1>1. CASE Tick
  BY <1>1 DEF Tick
<1>2. CASE Start \/ SetTimeoutHandler \/ Stop \/ Join
  BY <1>2 DEF Start, SetTimeoutHandler, Stop, Join
<1>3. ASSUME NEW t \in Timers, AddNewTimer(t) PROVE TypeOK'
  BY <1>3 DEF AddNewTimer, Entry, AllTimers
<1>4. CASE AddWakeUp
  BY <1>4 DEF AddWakeUp, Entry, AllTimers
<1>5. CASE Push \/ PushWakeUp
  <2>1. queue' \in Seq(Entry)
    <3>1. queue' = Append(queue, adding) /\ adding \in Entry
      BY <1>5 DEF Push, PushWakeUp
    <3> QED BY <3>1, AppendProperties
  <2> QED BY <1>5, <2>1 DEF Push, PushWakeUp, AllTimers
<1>6. ASSUME NEW id \in Ids, DeleteTimer(id) PROVE TypeOK'
  <2>1. queue' \in Seq(Entry)
    <3>1. PICK i \in 1..Len(queue) : queue' = RemoveAt(queue, i)
      BY <1>6 DEF DeleteTimer, Retrieve
    <3> QED BY <3>1, RemoveAtProperties
  <2> QED BY <1>6, <2>1 DEF DeleteTimer
<1>7. CASE TakeExpired
  <2>1. PICK i \in 1..Len(queue) :
          /\ queue' = RemoveAt(queue, i)
          /\ expired' = queue[i]
          /\ fired' = Append(fired, queue[i].timer)
    BY <1>7 DEF TakeExpired, Retrieve
  <2>2. queue' \in Seq(Entry) /\ expired' \in Entry
    BY <2>1, RemoveAtProperties
  <2>3. fired' \in Seq(AllTimers)
    BY <2>1, AppendProperties
  <2> QED BY <1>7, <2>2, <2>3 DEF TakeExpired
<1>8. CASE Check \/ ReadClock \/ NoneExpired \/ OnTimerExpiry
  BY <1>8 DEF Check, ReadClock, NoneExpired, OnTimerExpiry
<1>9. CASE FrontReturns
  <2>1. queue[1] \in Entry
    BY <1>9, EmptySeq DEF FrontReturns
  <2> QED BY <1>9, <2>1 DEF FrontReturns
<1>10. CASE Nap
  <2>1. wake' \in Nat
    BY <1>10 DEF Nap, Never, CutShort
  <2> QED BY <1>10, <2>1 DEF Nap
<1>11. CASE WakesUp
  BY <1>11 DEF WakesUp
<1>12. CASE UNCHANGED vars
  BY <1>12 DEF vars
<1>13. CASE WaitFront \/ WakesSpuriously \/ Notify
  BY <1>13 DEF WaitFront, WakesSpuriously, Notify, AfterNotify
<1> QED BY <1>1, <1>2, <1>3, <1>4, <1>5, <1>6, <1>7, <1>8, <1>9, <1>10, <1>11,
           <1>12, <1>13 DEF Next, Client, InCall, PoolThread

(***************************************************************************)
(* The variables of both threads keep their types.                         *)
(***************************************************************************)
THEOREM PoolTypeCorrect == Spec => []TypeOK
BY InitType, NextType, PTL DEF Spec

-----------------------------------------------------------------------------
(* The order of the queue *)

Order == FirstIsNearest /\ DeadlinesAhead

\* A bound relative to the clock outlives the clock's advance.
LEMMA LaterIsFarther ==
    \A w, a, b, d \in Nat : a <= b /\ w <= a + d => w <= b + d
OBVIOUS

\* Steps that leave the queue alone and do not take the clock back.
LEMMA OrderKept ==
    ASSUME TypeOK, Order, UNCHANGED <<queue, adding>>,
           now' \in Nat, now <= now', Adding' => Adding
    PROVE  Order'
<1>1. FirstIsNearest'
  BY DEF Order, FirstIsNearest
<1>2. /\ Duration \in Nat /\ now \in Nat /\ adding.due \in Nat
      /\ \A i \in 1..Len(queue) : queue[i].due \in Nat
  BY PoolAssumption, EntryFields, ElementOfSeq DEF TypeOK
<1>3. now' \in Nat /\ now <= now'
  OBVIOUS
<1>4. \A d \in Nat : d <= now + Duration => d <= now' + Duration
  BY <1>2, <1>3, LaterIsFarther
<1>5. DeadlinesAhead'
  BY <1>2, <1>4 DEF Order, DeadlinesAhead, Adding
<1> QED BY <1>1, <1>5 DEF Order

\* Steps that take an element off the queue.
LEMMA OrderRetrieved ==
    ASSUME TypeOK, Order, NEW i \in 1..Len(queue), Retrieve(i),
           UNCHANGED <<now, cpc, adding>>
    PROVE  Order'
<1>1. queue' = RemoveAt(queue, i) /\ queue \in Seq(Entry)
  BY DEF Retrieve, TypeOK
<1>2. /\ Len(queue) \in Nat
      /\ Len(queue') = Len(queue) - 1
      /\ \A n \in 1..Len(queue) - 1 :
            queue'[n] = IF n < i THEN queue[n] ELSE queue[n + 1]
  BY <1>1, RemoveAtProperties, LenProperties
<1> DEFINE From(n) == IF n < i THEN n ELSE n + 1
<1>3. \A n \in 1..Len(queue') : /\ From(n) \in 1..Len(queue)
                                /\ queue'[n] = queue[From(n)]
  BY <1>2
<1>4. \A m, n \in 1..Len(queue') : m < n => From(m) < From(n)
  BY <1>2
<1> HIDE DEF From
<1>5. FirstIsNearest'
  BY <1>3, <1>4 DEF Order, FirstIsNearest
<1>6. DeadlinesAhead'
  BY <1>3 DEF Order, DeadlinesAhead, Adding
<1> QED BY <1>5, <1>6 DEF Order

\* Steps that append the pair made before.
LEMMA OrderPushed ==
    ASSUME TypeOK, Order, Adding, queue' = Append(queue, adding),
           UNCHANGED now, ~Adding'
    PROVE  Order'
<1>1. /\ Len(queue) \in Nat
      /\ Len(queue') = Len(queue) + 1
      /\ \A i \in 1..Len(queue) : queue'[i] = queue[i]
      /\ queue'[Len(queue) + 1] = adding
  BY AppendProperties, LenProperties DEF TypeOK
<1>2. DeadlinesAhead'
  BY <1>1 DEF Order, DeadlinesAhead
<1>3. FirstIsNearest'
  BY <1>1 DEF Order, FirstIsNearest, DeadlinesAhead
<1> QED BY <1>2, <1>3 DEF Order

\* Steps that make a pair.
LEMMA OrderStamped ==
    ASSUME TypeOK, Order, UNCHANGED <<queue, now>>,
           adding'.due = now + Duration
    PROVE  Order'
<1>1. now + Duration \in Nat
  BY PoolAssumption DEF TypeOK
<1> QED BY <1>1 DEF Order, FirstIsNearest, DeadlinesAhead

\* Every step keeps the queue sorted and its deadlines within one duration.
LEMMA NextOrder == TypeOK /\ Order /\ [Next]_vars => Order'
<1> SUFFICES ASSUME TypeOK, Order, [Next]_vars PROVE Order'
  OBVIOUS
<1> USE DEF thread, client, history, CAt
<1>1. CASE Tick
  <2>1. now' \in Nat /\ now <= now' /\ UNCHANGED <<queue, adding, cpc>>
    BY <1>1 DEF Tick, TypeOK
  <2> QED BY <2>1, OrderKept DEF Adding
<1>2. CASE Push \/ PushWakeUp
  <2>1. /\ Adding /\ ~Adding' /\ queue' = Append(queue, adding)
        /\ UNCHANGED now
    BY <1>2 DEF Push, PushWakeUp, Adding
  <2> QED BY <2>1, OrderPushed
<1>3. CASE AddWakeUp \/ \E t \in Timers : AddNewTimer(t)
  <2>1. UNCHANGED <<queue, now>> /\ adding'.due = now + Duration
    BY <1>3 DEF AddWakeUp, AddNewTimer
  <2> QED BY <2>1, OrderStamped
<1>4. CASE TakeExpired \/ \E id \in Ids : DeleteTimer(id)
  <2>1. \E i \in 1..Len(queue) : Retrieve(i) /\ UNCHANGED <<now, cpc, adding>>
    BY <1>4 DEF TakeExpired, DeleteTimer
  <2> QED BY <2>1, OrderRetrieved
<1>5. CASE \/ Start \/ SetTimeoutHandler \/ Stop \/ Join
           \/ Check \/ ReadClock \/ NoneExpired \/ OnTimerExpiry \/ WaitFront
           \/ FrontReturns \/ Nap \/ WakesUp \/ WakesSpuriously \/ Notify
           \/ UNCHANGED vars
  <2>1. UNCHANGED <<queue, adding, now>> /\ (Adding' => Adding)
    BY <1>5 DEF Start, SetTimeoutHandler, Stop, Join, Check, ReadClock,
                NoneExpired, OnTimerExpiry, WaitFront, FrontReturns, Nap,
                WakesUp, WakesSpuriously, Notify, AfterNotify, vars, Adding
  <2>2. now' \in Nat /\ now <= now'
    BY <2>1 DEF TypeOK
  <2> QED BY <2>1, <2>2, OrderKept
<1> QED BY <1>1, <1>2, <1>3, <1>4, <1>5 DEF Next, Client, InCall, PoolThread

\* The empty queue is sorted.
LEMMA InitOrder == Init => Order
BY EmptySeq DEF Init, Order, FirstIsNearest, DeadlinesAhead, Adding

(***************************************************************************)
(* The queue is sorted by deadline, so the first timer is the nearest.     *)
(***************************************************************************)
THEOREM QueueSorted == Spec => []FirstIsNearest
<1>1. TypeOK /\ Order /\ [Next]_vars => TypeOK' /\ Order'
  BY NextType, NextOrder
<1>2. Order => FirstIsNearest
  BY DEF Order
<1> QED BY InitType, InitOrder, <1>1, <1>2, PTL DEF Spec

-----------------------------------------------------------------------------
(* The sleep *)

Sleep == NoOversleep /\ SleepAhead

\* Steps that do not begin or disturb a sleep.
LEMMA SleepKept ==
    ASSUME TypeOK, Sleep, UNCHANGED <<queue, adding, wake, torn>>,
           now' \in Nat, now <= now', Adding' => Adding,
           tpc' = "sleep" => tpc = "sleep"
    PROVE  Sleep'
<1>1. NoOversleep'
  BY DEF Sleep, NoOversleep, Adding
<1>2. SleepAhead'
  <2>1. SUFFICES ASSUME tpc = "sleep", ~torn
                 PROVE  /\ wake <= now' + Duration
                        /\ Adding => wake <= adding.due
    BY DEF SleepAhead, Adding
  <2>2. wake <= now + Duration /\ (Adding => wake <= adding.due)
    BY <2>1 DEF Sleep, SleepAhead
  <2>3. now \in Nat /\ Duration \in Nat /\ wake \in Nat
    BY PoolAssumption DEF TypeOK
  <2>4. now' \in Nat /\ now <= now'
    OBVIOUS
  <2>5. wake <= now' + Duration
    BY <2>2, <2>3, <2>4, LaterIsFarther
  <2> QED BY <2>2, <2>5
<1> QED BY <1>1, <1>2 DEF Sleep

\* Every step keeps the sleep within the deadlines queued and about to be
\* queued.
LEMMA NextSleep == TypeOK /\ Order /\ Sleep /\ [Next]_vars => Sleep'
<1> SUFFICES ASSUME TypeOK, Order, Sleep, [Next]_vars PROVE Sleep'
  OBVIOUS
<1> USE DEF thread, client, history, CAt, TAt
<1>1. CASE Tick
  <2>1. now' \in Nat /\ now <= now'
    BY <1>1 DEF Tick, TypeOK
  <2> QED BY <1>1, <2>1, SleepKept DEF Tick, Adding
<1>2. CASE Push \/ PushWakeUp
  <2>1. /\ Adding /\ ~Adding' /\ queue' = Append(queue, adding)
        /\ UNCHANGED <<now, tpc, wake, torn>>
    BY <1>2 DEF Push, PushWakeUp, Adding
  <2>2. /\ Len(queue) \in Nat
        /\ Len(queue') = Len(queue) + 1
        /\ \A i \in 1..Len(queue) : queue'[i] = queue[i]
        /\ queue'[Len(queue) + 1] = adding
    BY <2>1, AppendProperties, LenProperties DEF TypeOK
  <2>3. NoOversleep'
    BY <2>1, <2>2 DEF Sleep, NoOversleep, SleepAhead
  <2>4. SleepAhead'
    BY <2>1 DEF Sleep, SleepAhead
  <2> QED BY <2>3, <2>4 DEF Sleep
<1>3. CASE AddWakeUp \/ \E t \in Timers : AddNewTimer(t)
  <2>1. /\ UNCHANGED <<queue, now, tpc, wake, torn>>
        /\ adding'.due = now + Duration
    BY <1>3 DEF AddWakeUp, AddNewTimer
  <2> QED BY <2>1 DEF Sleep, NoOversleep, SleepAhead
<1>4. CASE \E id \in Ids : DeleteTimer(id)
  <2>1. /\ UNCHANGED <<now, tpc, wake, torn, cpc, adding>>
        /\ \E i \in 1..Len(queue) : queue' = RemoveAt(queue, i)
    BY <1>4 DEF DeleteTimer, Retrieve
  <2>2. \A n \in 1..Len(queue') : \E j \in 1..Len(queue) : queue'[n] = queue[j]
    BY <2>1, RemoveAtAddsNone DEF TypeOK
  <2> QED BY <2>1, <2>2 DEF Sleep, NoOversleep, SleepAhead, Adding
<1>5. CASE Nap
  <2>1. UNCHANGED <<queue, now, cpc, adding>>
    BY <1>5 DEF Nap
  <2>2. CASE queue # <<>> /\ queue[1] = front
    <3>1. 1 \in 1..Len(queue) /\ wake' \in Nat /\ wake' <= queue[1].due
      BY <1>5, <2>2, EmptySeq, EntryFields DEF Nap, CutShort, TypeOK
    <3>2. /\ \A n \in 1..Len(queue) : queue[n] \in Entry /\ queue[n].due \in Nat
          /\ adding.due \in Nat /\ now + Duration \in Nat
      BY EntryFields, ElementOfSeq, PoolAssumption DEF TypeOK
    <3>3. /\ \A n \in 1..Len(queue) : queue[1].due <= queue[n].due
          /\ queue[1].due <= now + Duration
          /\ Adding => queue[1].due <= adding.due
      BY <3>1, <3>2 DEF Order, FirstIsNearest, DeadlinesAhead
    <3>4. /\ \A n \in 1..Len(queue) : wake' <= queue[n].due
          /\ wake' <= now + Duration
          /\ Adding => wake' <= adding.due
      BY <3>1, <3>2, <3>3
    <3> QED BY <2>1, <3>4 DEF Sleep, NoOversleep, SleepAhead, Adding
  <2>3. CASE ~(queue # <<>> /\ queue[1] = front)
    BY <1>5, <2>3 DEF Nap, Sleep, NoOversleep, SleepAhead
  <2> QED BY <2>2, <2>3
<1>6. CASE \/ TakeExpired \/ Check \/ ReadClock \/ NoneExpired \/ OnTimerExpiry
           \/ WaitFront \/ FrontReturns \/ WakesUp \/ WakesSpuriously \/ Start
  <2>1. tpc' # "sleep"
    BY <1>6 DEF TakeExpired, Check, ReadClock, NoneExpired, OnTimerExpiry,
                WaitFront, FrontReturns, WakesUp, WakesSpuriously, Start
  <2> QED BY <2>1 DEF Sleep, NoOversleep, SleepAhead
<1>7. CASE SetTimeoutHandler \/ Stop \/ Join \/ UNCHANGED vars
  <2>1. /\ UNCHANGED <<queue, adding, wake, torn, now, tpc>>
        /\ Adding' => Adding
    BY <1>7 DEF SetTimeoutHandler, Stop, Join, vars, Adding
  <2>2. now' \in Nat /\ now <= now'
    BY <2>1 DEF TypeOK
  <2> QED BY <2>1, <2>2, SleepKept
<1>8. CASE Notify
  <2>1. /\ UNCHANGED <<queue, adding, wake, torn, now>>
        /\ Adding' => Adding
        /\ tpc' = "sleep" => tpc = "sleep"
    BY <1>8 DEF Notify, AfterNotify, Adding
  <2>2. now' \in Nat /\ now <= now'
    BY <2>1 DEF TypeOK
  <2> QED BY <2>1, <2>2, SleepKept
<1> QED BY <1>1, <1>2, <1>3, <1>4, <1>5, <1>6, <1>7, <1>8
        DEF Next, Client, InCall, PoolThread

(***************************************************************************)
(* The thread never sleeps beyond the deadline of a timer in the queue.    *)
(***************************************************************************)
THEOREM NeverOversleeps == Spec => []NoOversleep
<1>1. Init => Sleep
  BY DEF Init, Sleep, NoOversleep, SleepAhead
<1>2. TypeOK /\ Order /\ Sleep /\ [Next]_vars => TypeOK' /\ Order' /\ Sleep'
  BY NextType, NextOrder, NextSleep
<1>3. Sleep => NoOversleep
  BY DEF Sleep
<1> QED BY InitType, InitOrder, <1>1, <1>2, <1>3, PTL DEF Spec

-----------------------------------------------------------------------------
(* Firing *)

\* Every step keeps the timer in hand overdue, and the handler set before one
\* is.
LEMMA FiringStep ==
    TypeOK /\ NothingToFire /\ HandlerThere /\ ClockRead /\ [Next]_vars
        => NothingToFire' /\ HandlerThere' /\ ClockRead'
<1> SUFFICES ASSUME TypeOK, NothingToFire, HandlerThere, ClockRead, [Next]_vars
             PROVE  NothingToFire' /\ HandlerThere' /\ ClockRead'
  OBVIOUS
<1> USE DEF thread, client, history, CAt, TAt,
            NothingToFire, HandlerThere, ClockRead
<1>1. CASE Tick
  BY <1>1 DEF Tick, TypeOK
<1>2. CASE \/ Start \/ SetTimeoutHandler \/ Push \/ Stop \/ AddWakeUp
           \/ PushWakeUp \/ Join \/ \E t \in Timers : AddNewTimer(t)
  BY <1>2 DEF Start, SetTimeoutHandler, Push, Stop, AddWakeUp, PushWakeUp,
              Join, AddNewTimer
<1>3. CASE \E id \in Ids : DeleteTimer(id)
  <2>1. handler
    BY <1>3 DEF DeleteTimer
  <2> QED BY <1>3, <2>1 DEF DeleteTimer
<1>4. CASE TakeExpired
  <2>1. PICK i \in 1..Len(queue) : IsExpired(queue[i]) /\ expired' = queue[i]
    BY <1>4 DEF TakeExpired, FirstThat
  <2>2. queue # <<>>
    BY <2>1, EmptySeq
  <2> QED BY <1>4, <2>1, <2>2 DEF TakeExpired, IsExpired
<1>5. CASE \/ Check \/ NoneExpired \/ OnTimerExpiry \/ WaitFront
           \/ FrontReturns \/ Nap \/ WakesUp \/ WakesSpuriously \/ Notify
           \/ UNCHANGED vars
  BY <1>5 DEF Check, NoneExpired, OnTimerExpiry, WaitFront, FrontReturns, Nap,
              WakesUp, WakesSpuriously, Notify, AfterNotify, vars,
              TypeOK
<1>6. CASE ReadClock
  BY <1>6 DEF ReadClock, TypeOK
<1> QED BY <1>1, <1>2, <1>3, <1>4, <1>5, <1>6
        DEF Next, Client, InCall, PoolThread

(***************************************************************************)
(* A timer is handed over after its deadline.                              *)
(***************************************************************************)
THEOREM FiresLate == Spec => []NeverEarly
<1>1. Init => NothingToFire /\ HandlerThere /\ ClockRead
  BY DEF Init, NothingToFire, HandlerThere, ClockRead
<1>2. TypeOK /\ ClockRead => NeverEarly
  BY EntryFields DEF ClockRead, NeverEarly, TypeOK
<1> QED BY InitType, NextType, FiringStep, <1>1, <1>2, PTL DEF Spec

(***************************************************************************)
(* By the time a timer is handed over there is a handler.                  *)
(***************************************************************************)
THEOREM HandlerIsSet == Spec => []HandlerThere
<1>1. Init => NothingToFire /\ HandlerThere /\ ClockRead
  BY DEF Init, NothingToFire, HandlerThere, ClockRead
<1> QED BY InitType, NextType, FiringStep, <1>1, PTL DEF Spec

-----------------------------------------------------------------------------
(* TimerPool implements TimerService *)

TimersOf(q) == [i \in 1..Len(q) |-> q[i].timer]
IdFun == [t \in AllTimers |-> IdOfAny(t)]

(***************************************************************************)
(* The timers of a queue follow its changes: at the end, in the middle, at *)
(* the head.                                                               *)
(***************************************************************************)
LEMMA TimersOfSeq ==
    ASSUME NEW q \in Seq(Entry)
    PROVE  /\ TimersOf(q) \in Seq(AllTimers)
           /\ Len(TimersOf(q)) = Len(q)
           /\ \A i \in 1..Len(q) : TimersOf(q)[i] = q[i].timer
<1>1. Len(q) \in Nat
  BY LenProperties
<1>2. \A i \in 1..Len(q) : q[i].timer \in AllTimers
  BY EntryFields, ElementOfSeq
<1> QED BY <1>1, <1>2, IsASeq DEF TimersOf

\* The timers of a queue to which a pair is pushed.
LEMMA TimersOfAppend ==
    ASSUME NEW q \in Seq(Entry), NEW e \in Entry
    PROVE  TimersOf(Append(q, e)) = Append(TimersOf(q), e.timer)
<1> DEFINE l == TimersOf(Append(q, e))
           r == Append(TimersOf(q), e.timer)
<1>1. /\ Append(q, e) \in Seq(Entry)
      /\ Len(Append(q, e)) = Len(q) + 1
      /\ \A i \in 1..Len(q) : Append(q, e)[i] = q[i]
      /\ Append(q, e)[Len(q) + 1] = e
      /\ Len(q) \in Nat
  BY AppendProperties, LenProperties
<1>2. /\ l \in Seq(AllTimers) /\ Len(l) = Len(q) + 1
      /\ \A i \in 1..Len(q) + 1 : l[i] = Append(q, e)[i].timer
  BY <1>1, TimersOfSeq
<1>3. e.timer \in AllTimers
  BY EntryFields
<1>4. /\ r \in Seq(AllTimers) /\ Len(r) = Len(q) + 1
      /\ \A i \in 1..Len(q) : r[i] = q[i].timer
      /\ r[Len(q) + 1] = e.timer
  BY <1>3, TimersOfSeq, AppendProperties
<1> HIDE DEF l, r
<1>5. \A i \in 1..Len(q) + 1 : l[i] = r[i]
  BY <1>1, <1>2, <1>4
<1>6. l = r
  BY <1>2, <1>4, <1>5, SeqEqual
<1> QED BY <1>6 DEF l, r

\* The timers of a queue from which a pair is erased.
LEMMA TimersOfRemoveAt ==
    ASSUME NEW q \in Seq(Entry), NEW i \in 1..Len(q)
    PROVE  TimersOf(RemoveAt(q, i)) = RemoveAt(TimersOf(q), i)
<1> DEFINE l == TimersOf(RemoveAt(q, i))
           r == RemoveAt(TimersOf(q), i)
<1>1. /\ RemoveAt(q, i) \in Seq(Entry)
      /\ Len(RemoveAt(q, i)) = Len(q) - 1
      /\ \A j \in 1..Len(q) - 1 :
           RemoveAt(q, i)[j] = IF j < i THEN q[j] ELSE q[j + 1]
      /\ Len(q) \in Nat
  BY RemoveAtProperties, LenProperties
<1>2. /\ l \in Seq(AllTimers) /\ Len(l) = Len(q) - 1
      /\ \A j \in 1..Len(q) - 1 : l[j] = RemoveAt(q, i)[j].timer
  BY <1>1, TimersOfSeq
<1>3. /\ TimersOf(q) \in Seq(AllTimers) /\ Len(TimersOf(q)) = Len(q)
      /\ \A j \in 1..Len(q) : TimersOf(q)[j] = q[j].timer
  BY TimersOfSeq
<1>4. /\ r \in Seq(AllTimers) /\ Len(r) = Len(q) - 1
      /\ \A j \in 1..Len(q) - 1 :
           r[j] = IF j < i THEN TimersOf(q)[j] ELSE TimersOf(q)[j + 1]
  BY <1>3, RemoveAtProperties
<1> HIDE DEF l, r
<1>5. ASSUME NEW j \in 1..Len(q) - 1 PROVE l[j] = r[j]
  <2>1. j \in 1..Len(q) /\ j + 1 \in 1..Len(q)
    BY <1>1
  <2>2. CASE j < i
    BY <1>1, <1>2, <1>3, <1>4, <2>1, <2>2
  <2>3. CASE ~(j < i)
    BY <1>1, <1>2, <1>3, <1>4, <2>1, <2>3
  <2> QED BY <2>2, <2>3
<1>6. l = r
  BY <1>2, <1>4, <1>5, SeqEqual
<1> QED BY <1>6 DEF l, r

\* To remove the first element is to take the tail.
LEMMA RemoveFirstIsTail ==
    ASSUME NEW S, NEW s \in Seq(S), s # <<>>
    PROVE  RemoveAt(s, 1) = Tail(s) /\ Head(s) = s[1]
<1>1. 1 \in 1..Len(s)
  BY EmptySeq
<1>2. /\ Tail(s) \in Seq(S) /\ Len(Tail(s)) = Len(s) - 1
      /\ \A i \in 1..Len(s) - 1 : Tail(s)[i] = s[i + 1]
  BY HeadTailProperties
<1>3. /\ RemoveAt(s, 1) \in Seq(S) /\ Len(RemoveAt(s, 1)) = Len(s) - 1
      /\ \A i \in 1..Len(s) - 1 : RemoveAt(s, 1)[i] = s[i + 1]
  BY <1>1, RemoveAtProperties
<1>4. \A i \in 1..Len(s) - 1 : RemoveAt(s, 1)[i] = Tail(s)[i]
  BY <1>2, <1>3
<1>5. RemoveAt(s, 1) = Tail(s)
  BY <1>2, <1>3, <1>4, SeqEqual
<1> QED BY <1>5

(***************************************************************************)
(* What the client is about to push is a timer it has not armed before.    *)
(***************************************************************************)
LEMMA NextAdding == TypeOK /\ AddingIsNew /\ [Next]_vars => AddingIsNew'
<1> SUFFICES ASSUME TypeOK, AddingIsNew, [Next]_vars PROVE AddingIsNew'
  OBVIOUS
<1> USE PoolAssumption DEF thread, client, history, CAt, AddingIsNew
<1>1. CASE \/ Tick \/ Start \/ SetTimeoutHandler \/ Stop \/ AddWakeUp \/ Join
           \/ \E t \in Timers : AddNewTimer(t)
  BY <1>1 DEF Tick, Start, SetTimeoutHandler, Stop, AddWakeUp, Join,
              AddNewTimer
<1>2. CASE Push \/ PushWakeUp
  BY <1>2 DEF Push, PushWakeUp
<1>3. CASE \/ \E id \in Ids : DeleteTimer(id)
           \/ Check \/ ReadClock \/ TakeExpired \/ NoneExpired
           \/ OnTimerExpiry \/ WaitFront \/ FrontReturns \/ Nap \/ WakesUp
           \/ WakesSpuriously \/ UNCHANGED vars
  <2>1. UNCHANGED <<cpc, adding, armed>>
    BY <1>3 DEF DeleteTimer, Check, ReadClock, TakeExpired, NoneExpired,
                OnTimerExpiry, WaitFront, FrontReturns, Nap, WakesUp,
                WakesSpuriously, vars
  <2> QED BY <2>1
<1>4. CASE Notify
  BY <1>4 DEF Notify, AfterNotify
<1> QED BY <1>1, <1>2, <1>3, <1>4 DEF Next, Client, InCall, PoolThread

(***************************************************************************)
(* A push is the service's arming of the pair's timer.                     *)
(***************************************************************************)
LEMMA PushArms ==
    ASSUME TypeOK, AddingIsNew, Push \/ PushWakeUp
    PROVE  \E t \in AllTimers : Service!ServiceArm(t)
<1>1. /\ adding \in Entry /\ queue \in Seq(Entry)
      /\ adding.timer \in AllTimers \ armed
  BY EntryFields, PoolAssumption
     DEF TypeOK, AddingIsNew, Push, PushWakeUp, CAt, AllTimers
<1>2. /\ queue' = Append(queue, adding)
      /\ armed' = armed \cup {adding.timer}
      /\ fired' = fired
  BY DEF Push, PushWakeUp, AddingIsNew, CAt
<1>3. TimersOf(queue') = Append(TimersOf(queue), adding.timer)
  BY <1>1, <1>2, TimersOfAppend
<1>4. Service!ServiceArm(adding.timer)
  BY <1>1, <1>2, <1>3 DEF Service!ServiceArm, TimersOf
<1> QED BY <1>1, <1>4 DEF Service!ServiceArm

(***************************************************************************)
(* deleteTimer is the service's cancelling of the same id.                 *)
(***************************************************************************)
LEMMA DeleteCancels ==
    ASSUME TypeOK, NEW id \in Ids, DeleteTimer(id)
    PROVE  Service!ServiceCancel(id)
<1>1. PICK i \in 1..Len(queue) :
        /\ FirstThat(i, LAMBDA e : IdOfAny(e.timer) = id)
        /\ queue' = RemoveAt(queue, i)
  BY DEF DeleteTimer, Retrieve
<1>2. /\ IdOfAny(queue[i].timer) = id
      /\ \A j \in 1..i-1 : IdOfAny(queue[j].timer) # id
  BY <1>1 DEF FirstThat
<1>3. UNCHANGED <<armed, fired>>
  BY DEF DeleteTimer, history
<1>4. /\ queue \in Seq(Entry) /\ Len(TimersOf(queue)) = Len(queue)
      /\ \A j \in 1..Len(queue) : /\ TimersOf(queue)[j] = queue[j].timer
                                  /\ queue[j].timer \in AllTimers
  BY TimersOfSeq, EntryFields, ElementOfSeq DEF TypeOK
<1>5. TimersOf(queue') = RemoveAt(TimersOf(queue), i)
  BY <1>1, <1>4, TimersOfRemoveAt
<1>6. \A j \in 1..Len(queue) :
        IdFun[TimersOf(queue)[j]] = IdOfAny(queue[j].timer)
  BY <1>4 DEF IdFun
<1>7. Len(queue) \in Nat /\ \A j \in 1..i-1 : j \in 1..Len(queue)
  BY <1>4, LenProperties
<1>8. /\ i \in 1..Len(TimersOf(queue))
      /\ IdFun[TimersOf(queue)[i]] = id
      /\ \A j \in 1..i-1 : IdFun[TimersOf(queue)[j]] # id
  BY <1>2, <1>4, <1>6, <1>7
<1>9. Service!FirstWith(i, id)
  BY <1>8 DEF Service!FirstWith, TimersOf, IdFun
<1>10. i \in 1..Len([j \in 1..Len(queue) |-> queue[j].timer])
  BY <1>8 DEF TimersOf
<1>11. [j \in 1..Len(queue') |-> queue'[j].timer]
          = Service!RemoveAt([j \in 1..Len(queue) |-> queue[j].timer], i)
  BY <1>5 DEF TimersOf, RemoveAt, Service!RemoveAt
<1> QED BY <1>3, <1>9, <1>10, <1>11 DEF Service!ServiceCancel

(***************************************************************************)
(* In a sorted queue the expired timer that is found first is the head.    *)
(***************************************************************************)
LEMMA TakeFires ==
    ASSUME TypeOK, FirstIsNearest, TakeExpired
    PROVE  Service!ServiceFire
<1>1. PICK i \in 1..Len(queue) :
        /\ FirstThat(i, IsExpired)
        /\ queue' = RemoveAt(queue, i)
        /\ fired' = Append(fired, queue[i].timer)
  BY DEF TakeExpired, Retrieve
<1>2. /\ queue \in Seq(Entry) /\ Len(queue) \in Nat
      /\ \A j \in 1..Len(queue) : queue[j].due \in Nat
  BY EntryFields, ElementOfSeq, LenProperties DEF TypeOK
<1>3. i = 1
  <2>1. SUFFICES ASSUME i # 1 PROVE FALSE
    OBVIOUS
  <2>2. 1 \in 1..i-1 /\ 1 \in 1..Len(queue) /\ 1 < i
    BY <1>2, <2>1
  <2>3. current > queue[i].due /\ ~(current > queue[1].due)
    BY <1>1, <2>2 DEF FirstThat, IsExpired
  <2>4. queue[1].due <= queue[i].due
    BY <2>2 DEF FirstIsNearest
  <2> QED BY <1>2, <2>2, <2>3, <2>4 DEF TypeOK
<1>4. /\ TimersOf(queue) \in Seq(AllTimers)
      /\ Len(TimersOf(queue)) = Len(queue)
      /\ TimersOf(queue)[1] = queue[1].timer
  BY <1>2, <1>3, TimersOfSeq
<1>5. TimersOf(queue) # <<>>
  BY <1>2, <1>4, EmptySeq
<1>6. TimersOf(queue') = RemoveAt(TimersOf(queue), 1)
  BY <1>1, <1>2, <1>3, TimersOfRemoveAt
<1>7. /\ TimersOf(queue') = Tail(TimersOf(queue))
      /\ Head(TimersOf(queue)) = queue[1].timer
  BY <1>4, <1>5, <1>6, RemoveFirstIsTail
<1>8. armed' = armed /\ fired' = Append(fired, queue[1].timer)
  BY <1>1, <1>3 DEF TakeExpired
<1> QED BY <1>5, <1>7, <1>8 DEF Service!ServiceFire, TimersOf

\* The empty pool is the service's initial state.
LEMMA InitService == Init => Service!ServiceInit
<1> SUFFICES ASSUME Init PROVE Service!ServiceInit
  OBVIOUS
<1>1. queue = <<>> /\ armed = {} /\ fired = <<>>
  BY DEF Init
<1>2. queue \in Seq(Entry) /\ Len(queue) = 0
  BY <1>1, EmptySeq
<1>3. TimersOf(queue) \in Seq(AllTimers) /\ Len(TimersOf(queue)) = 0
  BY <1>2, TimersOfSeq
<1>4. TimersOf(queue) = <<>>
  BY <1>3, EmptySeq
<1> QED BY <1>1, <1>4 DEF Service!ServiceInit, TimersOf

\* Every step of the pool is a step of the service or changes none of its
\* variables.
LEMMA NextService ==
    TypeOK /\ FirstIsNearest /\ AddingIsNew /\ [Next]_vars
        => [Service!ServiceNext]_(Service!serviceVars)
<1> SUFFICES ASSUME TypeOK, FirstIsNearest, AddingIsNew, [Next]_vars
             PROVE  Service!ServiceNext \/ UNCHANGED Service!serviceVars
  OBVIOUS
<1>1. CASE Push \/ PushWakeUp
  BY <1>1, PushArms DEF Service!ServiceNext
<1>2. ASSUME NEW id \in Ids, DeleteTimer(id) PROVE Service!ServiceNext
  BY <1>2, DeleteCancels DEF Service!ServiceNext
<1>3. CASE TakeExpired
  BY <1>3, TakeFires DEF Service!ServiceNext
<1>4. CASE \/ Tick \/ Start \/ SetTimeoutHandler \/ Stop \/ AddWakeUp \/ Join
           \/ (\E t \in Timers : AddNewTimer(t))
           \/ Check \/ ReadClock \/ NoneExpired \/ OnTimerExpiry \/ WaitFront
           \/ FrontReturns \/ Nap \/ WakesUp \/ WakesSpuriously \/ Notify
           \/ UNCHANGED vars
  <2>1. UNCHANGED <<queue, armed, fired>>
    BY <1>4 DEF Tick, Start, SetTimeoutHandler, Stop, AddWakeUp, Join,
                AddNewTimer, Check, ReadClock, NoneExpired, OnTimerExpiry,
                WaitFront, FrontReturns, Nap, WakesUp, WakesSpuriously,
                Notify, vars, history
  <2> QED BY <2>1 DEF Service!serviceVars
<1> QED BY <1>1, <1>2, <1>3, <1>4 DEF Next, Client, InCall, PoolThread

(***************************************************************************)
(* The pool is a TimerService: timers leave it in the order of arming,     *)
(* except those that are cancelled.                                        *)
(***************************************************************************)
THEOREM ServiceImplemented == Spec => ImplementsService
<1>1. Init => AddingIsNew
  BY PoolAssumption DEF Init, AddingIsNew
<1>2. Order => FirstIsNearest
  BY DEF Order
<1> QED BY InitType, InitOrder, InitService, NextType, NextOrder, NextAdding,
           NextService, <1>1, <1>2, PTL
        DEF Spec, ImplementsService, Service!ServiceSpec
=============================================================================
