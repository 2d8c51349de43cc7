--------------------------- MODULE PairingProofs ---------------------------
(***************************************************************************)
(* Proofs about Pairing, for every set of messages and session ids: what   *)
(* keeps the timers; then that it keeps the promise of PairMonitor, and    *)
(* what follows for the fate of a message, the end of the process, and the *)
(* counters.                                                               *)
(***************************************************************************)
EXTENDS Pairing, DequeLemmas, FiniteSetTheorems

(***************************************************************************)
(* Erasing leaves a queue of messages, or ends the process.                *)
(***************************************************************************)
LEMMA EraseAtType ==
    ASSUME TypeOK, NEW i \in Nat, EraseAt(i)
    PROVE  /\ timers' \in Seq(Messages)
           /\ process' \in {"running", "crashed", "exited"}
<1>1. CASE Landed(i) \in 1..Len(timers)
  BY <1>1, RemoveAtProperties DEF EraseAt, TypeOK
<1>2. CASE Landed(i) \notin 1..Len(timers)
  BY <1>2 DEF EraseAt, TypeOK
<1> QED BY <1>1, <1>2

\* An iterator stays a slot number when the other thread erases an element.
LEMMA ShiftedType ==
    ASSUME NEW i \in Nat, NEW j \in Shifted(i)
    PROVE  j \in Nat
BY DEF Shifted

\* The initial state is well typed.
LEMMA InitType == Init => TypeOK
<1> SUFFICES ASSUME Init PROVE TypeOK
  OBVIOUS
<1>1. timers \in Seq(Messages)
  BY EmptySeq DEF Init
<1>2. stats \in [Counters -> Nat] /\ cache \in [Keys -> MsgOrNull]
  BY DEF Init, MsgOrNull
<1> QED BY <1>1, <1>2 DEF Init, TypeOK, MsgOrNull, ReceiverSteps

(***************************************************************************)
(* Type correctness is inductive on its own.                               *)
(***************************************************************************)
LEMMA NextType == TypeOK /\ [Next]_vars => TypeOK'
<1> SUFFICES ASSUME TypeOK, [Next]_vars PROVE TypeOK'
  OBVIOUS
<1> USE KeyAssumption DEF TypeOK, MsgOrNull, ReceiverSteps, RAt, TAt, Running,
                          receiver, timer, history, Increment, Return, RKey
<1>1. ASSUME NEW m \in Messages, Receive(m) PROVE TypeOK'
  BY <1>1 DEF Receive, Counters
<1>2. CASE Lookup
  BY <1>2 DEF Lookup
<1>3. CASE PopPair
  BY <1>3 DEF PopPair, Counters, Forget
<1>4. CASE Report
  BY <1>4 DEF Report
<1>5. CASE ReportFails
  BY <1>5 DEF ReportFails
<1>6. CASE FindTimer
  BY <1>6 DEF FindTimer
<1>7. CASE EraseTimer
  <2>1. timers' \in Seq(Messages) /\ process' \in {"running", "crashed", "exited"}
    BY <1>7, EraseAtType DEF EraseTimer
  <2>2. tpos' \in Nat
    BY <1>7, ShiftedType DEF EraseTimer
  <2> QED BY <1>7, <2>1, <2>2 DEF EraseTimer
<1>8. CASE Add
  BY <1>8 DEF Add, Store
<1>9. CASE Arm
  <2>1. rmsg \in Messages
    BY <1>9 DEF Arm
  <2>2. Append(timers, rmsg) \in Seq(Messages) /\ Len(timers) + 1 \in Nat
    BY <2>1, AppendProperties
  <2>3. timers' \in Seq(Messages) /\ tpos' \in Nat
    BY <1>9, <2>2 DEF Arm
  <2> QED BY <1>9, <2>3 DEF Arm
<1>10. CASE FindExpired
  BY <1>10, HeadTailProperties DEF FindExpired
<1>11. CASE EraseExpired
  <2>1. timers' \in Seq(Messages) /\ process' \in {"running", "crashed", "exited"}
    BY <1>11, EraseAtType DEF EraseExpired
  <2>2. rpos' \in Nat
    BY <1>11, ShiftedType DEF EraseExpired
  <2> QED BY <1>11, <2>1, <2>2 DEF EraseExpired
<1>12. CASE OnTimerExpiry
  <2>1. expiries' \subseteq Messages \X Messages
    BY <1>12 DEF OnTimerExpiry, Holds
  <2> QED BY <1>12, <2>1 DEF OnTimerExpiry, Counters, Forget
<1>13. CASE CorruptQueue
  BY <1>13 DEF CorruptQueue
<1>14. CASE UNCHANGED vars
  BY <1>14 DEF vars
<1> QED BY <1>1, <1>2, <1>3, <1>4, <1>5, <1>6, <1>7, <1>8, <1>9, <1>10, <1>11,
           <1>12, <1>13, <1>14 DEF Next, ReceiverStep, TimerStep

(***************************************************************************)
(* The threads' variables keep their types; in particular deleteTimer is   *)
(* never reached without a pair.                                           *)
(***************************************************************************)
THEOREM TypeCorrect == Spec => []TypeOK
BY InitType, NextType, PTL DEF Spec

-----------------------------------------------------------------------------

(***************************************************************************)
(* The two ways to use CachedHasOwnTimer: by message and by session id.    *)
(***************************************************************************)
LEMMA WaitingIsCached ==
    ASSUME TypeOK, CachedUnderOwnKey
    PROVE  \A m \in Waiting : /\ m \in Messages
                              /\ KeyOf[m] \in Keys
                              /\ cache[KeyOf[m]] = m
BY KeyAssumption DEF Waiting, CachedUnderOwnKey, Holds, TypeOK, MsgOrNull

(***************************************************************************)
(* When no message enters the cache and no iterator, hand or queue         *)
(* changes, the timers of the messages that wait are where they were.      *)
(***************************************************************************)
LEMMA TimersUndisturbed ==
    ASSUME CachedHasOwnTimer,
           Waiting' \subseteq Waiting, overlap' = overlap,
           UNCHANGED timers, UNCHANGED tpc, UNCHANGED thand,
           rpc # "arm"
    PROVE  CachedHasOwnTimer'
BY DEF CachedHasOwnTimer, HasOwnTimer

(***************************************************************************)
(* The receiver erases a timer of its own session id, under which nothing  *)
(* is cached: whoever waits keeps the timer it armed.                      *)
(***************************************************************************)
LEMMA EraseTimerKeepsTimers ==
    ASSUME TypeOK, TimerInv, EraseTimer
    PROVE  CachedHasOwnTimer'
<1> SUFFICES ASSUME ~overlap', NEW m \in Waiting'
             PROVE  HasOwnTimer(m)'
  BY DEF CachedHasOwnTimer
<1>1. /\ ~overlap /\ tpc # "erase" /\ tpc' = tpc /\ thand' = thand
      /\ Waiting' = Waiting
      /\ rpc = "erase"
  BY DEF EraseTimer, TypeOK, RAt, Waiting
<1>2. /\ rpos \in 1..Len(timers)
      /\ KeyOf[timers[rpos]] = RKey
      /\ ~Holds(RKey)
  BY <1>1 DEF TimerInv, IteratorsValid, KeyStaysFree
<1>3. timers' = RemoveAt(timers, rpos)
  BY <1>2 DEF EraseTimer, EraseAt, Landed, TypeOK
<1>4. m # NoMsg /\ cache[KeyOf[m]] = m
  BY <1>1, WaitingIsCached, KeyAssumption DEF TimerInv
<1>5. KeyOf[m] # RKey
  BY <1>2, <1>4 DEF Holds
<1>6. HasOwnTimer(m)
  BY <1>1 DEF TimerInv, CachedHasOwnTimer
<1>7. CASE \E i \in 1..Len(timers) : timers[i] = m
  <2>1. PICK i \in 1..Len(timers) : timers[i] = m
    BY <1>7
  <2>2. i # rpos
    BY <1>2, <1>5, <2>1
  <2>3. \E n \in 1..Len(timers') : timers'[n] = m
    BY <1>2, <1>3, <2>1, <2>2, RemoveAtKeeps DEF TypeOK
  <2> QED BY <2>3 DEF HasOwnTimer
<1>8. CASE tpc = "expire" /\ thand = m
  BY <1>1, <1>8 DEF HasOwnTimer
<1> QED BY <1>1, <1>6, <1>7, <1>8 DEF HasOwnTimer

(***************************************************************************)
(* The timer thread erases the timer it holds a copy of, and no other.     *)
(***************************************************************************)
LEMMA EraseExpiredKeepsTimers ==
    ASSUME TypeOK, TimerInv, EraseExpired
    PROVE  CachedHasOwnTimer'
<1> SUFFICES ASSUME ~overlap', NEW m \in Waiting'
             PROVE  HasOwnTimer(m)'
  BY DEF CachedHasOwnTimer
<1>1. /\ ~overlap /\ tpc = "erase" /\ tpc' = "expire" /\ thand' = thand
      /\ Waiting' = Waiting
      /\ rpc' = rpc /\ rmsg' = rmsg
  BY DEF EraseExpired, TypeOK, TAt, Waiting
<1>2. tpos = 1 /\ Len(timers) > 0 /\ timers[1] = thand
  BY <1>1 DEF TimerInv, IteratorsValid
<1>3. 1 \in 1..Len(timers) /\ timers' = RemoveAt(timers, 1)
  BY <1>2 DEF EraseExpired, EraseAt, Landed, TypeOK
<1>4. HasOwnTimer(m)
  BY <1>1 DEF TimerInv, CachedHasOwnTimer
<1>5. CASE \E i \in 1..Len(timers) : timers[i] = m
  <2>1. PICK i \in 1..Len(timers) : timers[i] = m
    BY <1>5
  <2>2. CASE i = 1
    BY <1>1, <1>2, <2>1, <2>2 DEF HasOwnTimer
  <2>3. CASE i # 1
    <3>1. \E n \in 1..Len(timers') : timers'[n] = m
      BY <1>3, <2>1, <2>3, RemoveAtKeeps DEF TypeOK
    <3> QED BY <3>1 DEF HasOwnTimer
  <2> QED BY <2>2, <2>3
<1>6. CASE rpc = "arm" /\ rmsg = m
  BY <1>1, <1>6 DEF HasOwnTimer
<1> QED BY <1>1, <1>4, <1>5, <1>6 DEF HasOwnTimer

(***************************************************************************)
(* The receiver's new timer goes to the end.                               *)
(***************************************************************************)
LEMMA ArmKeepsTimers ==
    ASSUME TypeOK, TimerInv, Arm
    PROVE  CachedHasOwnTimer' /\ IteratorsValid'
<1> SUFFICES ASSUME ~overlap'
             PROVE  /\ \A m \in Waiting' : HasOwnTimer(m)'
                    /\ IteratorsValid'
  BY DEF CachedHasOwnTimer, IteratorsValid
<1>1. /\ ~overlap /\ tpc # "erase" /\ tpc' = tpc /\ thand' = thand
      /\ Waiting' = Waiting
      /\ rpc = "arm" /\ rpc' = "idle" /\ rmsg \in Messages
      /\ timers' = Append(timers, rmsg)
  BY DEF Arm, TypeOK, RAt, Return, Waiting
<1>2. /\ Len(timers') = Len(timers) + 1
      /\ \A i \in 1..Len(timers) : timers'[i] = timers[i]
      /\ timers'[Len(timers) + 1] = rmsg
      /\ Len(timers) \in Nat
  BY <1>1, AppendProperties, LenProperties DEF TypeOK
<1>3. ASSUME NEW m \in Waiting PROVE HasOwnTimer(m)'
  BY <1>1, <1>2 DEF TimerInv, CachedHasOwnTimer, HasOwnTimer
<1>4. IteratorsValid'
  BY <1>1 DEF IteratorsValid
<1> QED BY <1>1, <1>3, <1>4

\* No message waits at first, so each has its timer.
LEMMA InitTimers == Init => TimerInv
BY DEF Init, TimerInv, CachedUnderOwnKey, KeyStaysFree, IteratorsValid,
       CachedHasOwnTimer, Waiting, Holds

(***************************************************************************)
(* TimerInv is inductive: one step per action, and under it the conjuncts  *)
(* that the action can disturb.                                            *)
(***************************************************************************)
LEMMA NextTimers == TypeOK /\ TimerInv /\ [Next]_vars => TimerInv'
<1> SUFFICES ASSUME TypeOK, TimerInv, [Next]_vars PROVE TimerInv'
  OBVIOUS
<1> USE KeyAssumption DEF RAt, TAt, Running, receiver, timer, history
<1>1. ASSUME NEW m \in Messages, Receive(m) PROVE TimerInv'
  <2>1. CachedHasOwnTimer'
    BY <1>1, TimersUndisturbed DEF Receive, Waiting, TimerInv
  <2> QED BY <1>1, <2>1 DEF Receive, TimerInv, CachedUnderOwnKey, KeyStaysFree,
                            IteratorsValid, Holds, RKey
<1>2. CASE Lookup
  <2>1. CachedHasOwnTimer'
    BY <1>2, TimersUndisturbed DEF Lookup, Waiting, TimerInv
  <2> QED BY <1>2, <2>1 DEF Lookup, TimerInv, CachedUnderOwnKey, KeyStaysFree,
                            IteratorsValid, Holds, RKey
<1>3. CASE PopPair
  <2>1. CachedHasOwnTimer'
    <3>1. Waiting' \subseteq Waiting
      BY <1>3 DEF PopPair, Forget, Waiting, TypeOK
    <3> QED BY <1>3, <3>1, TimersUndisturbed DEF PopPair, TimerInv
  <2>2. KeyStaysFree' /\ CachedUnderOwnKey'
    BY <1>3 DEF PopPair, Forget, TimerInv, CachedUnderOwnKey, KeyStaysFree,
                Holds, RKey, TypeOK
  <2> QED BY <1>3, <2>1, <2>2 DEF PopPair, TimerInv, IteratorsValid
<1>4. CASE Report
  <2>1. CachedHasOwnTimer'
    BY <1>4, TimersUndisturbed DEF Report, Waiting, TimerInv
  <2> QED BY <1>4, <2>1 DEF Report, TimerInv, CachedUnderOwnKey, KeyStaysFree,
                            IteratorsValid, Holds, RKey
<1>5. CASE ReportFails
  <2>1. CachedHasOwnTimer'
    BY <1>5, TimersUndisturbed DEF ReportFails, Waiting, TimerInv
  <2> QED BY <1>5, <2>1 DEF ReportFails, TimerInv, CachedUnderOwnKey,
                            KeyStaysFree, IteratorsValid, Holds, RKey
<1>6. CASE FindTimer
  <2>1. CachedHasOwnTimer'
    BY <1>6, TimersUndisturbed DEF FindTimer, Waiting, TimerInv
  <2>2. CachedUnderOwnKey' /\ KeyStaysFree'
    BY <1>6 DEF FindTimer, Return, TimerInv, CachedUnderOwnKey, KeyStaysFree,
                Holds, RKey
  <2>3. IteratorsValid'
    <3>1. rpair # NoMsg /\ KeyOf[rpair] = RKey
      BY <1>6 DEF FindTimer, TypeOK, TimerInv, KeyStaysFree
    <3> QED BY <1>6, <3>1 DEF FindTimer, Return, FirstTimer, TimerInv,
                              IteratorsValid, RKey
  <2> QED BY <2>1, <2>2, <2>3 DEF TimerInv
<1>7. CASE EraseTimer
  <2>1. CachedHasOwnTimer'
    BY <1>7, EraseTimerKeepsTimers
  <2>2. CachedUnderOwnKey' /\ KeyStaysFree'
    BY <1>7 DEF EraseTimer, Return, TimerInv, CachedUnderOwnKey, KeyStaysFree,
                Holds
  <2>3. IteratorsValid'
    BY <1>7 DEF EraseTimer, Return, IteratorsValid
  <2> QED BY <2>1, <2>2, <2>3 DEF TimerInv
<1>8. CASE Add
  <2>1. ~Holds(RKey) /\ rmsg \in Messages /\ KeyOf[rmsg] \in Keys
    BY <1>8 DEF Add, TimerInv, KeyStaysFree, TypeOK
  <2>2. /\ cache' = [cache EXCEPT ![KeyOf[rmsg]] = rmsg]
        /\ rpc' = "arm" /\ rmsg' = rmsg
        /\ UNCHANGED <<timers, tpc, thand, tpos, overlap>>
    BY <1>8, <2>1 DEF Add, Store
  <2>3. CachedHasOwnTimer'
    <3>1. Waiting' \subseteq Waiting \cup {rmsg}
      BY <2>1, <2>2 DEF Waiting, TypeOK
    <3>2. rpc = "add"
      BY <1>8 DEF Add
    <3> QED BY <2>2, <3>1, <3>2 DEF TimerInv, CachedHasOwnTimer, HasOwnTimer
  <2>4. CachedUnderOwnKey'
    BY <2>1, <2>2 DEF TimerInv, CachedUnderOwnKey, Holds, TypeOK
  <2> QED BY <2>2, <2>3, <2>4 DEF TimerInv, KeyStaysFree, IteratorsValid
<1>9. CASE Arm
  <2>1. CachedHasOwnTimer' /\ IteratorsValid'
    BY <1>9, ArmKeepsTimers
  <2> QED BY <1>9, <2>1 DEF Arm, Return, TimerInv, CachedUnderOwnKey,
                            KeyStaysFree, Holds
<1>10. CASE FindExpired
  <2>1. CachedHasOwnTimer'
    BY <1>10 DEF FindExpired, Waiting, TimerInv, CachedHasOwnTimer, HasOwnTimer
  <2>2. IteratorsValid'
    <3>1. Len(timers) > 0 /\ Head(timers) = timers[1]
      BY <1>10, EmptySeq, LenProperties DEF FindExpired, TypeOK
    <3> QED BY <1>10, <3>1 DEF FindExpired, TimerInv, IteratorsValid, RKey
  <2> QED BY <1>10, <2>1, <2>2 DEF FindExpired, TimerInv, CachedUnderOwnKey,
                                   KeyStaysFree, Holds, RKey
<1>11. CASE EraseExpired
  <2>1. CachedHasOwnTimer'
    BY <1>11, EraseExpiredKeepsTimers
  <2> QED BY <1>11, <2>1 DEF EraseExpired, TimerInv, CachedUnderOwnKey,
                             KeyStaysFree, IteratorsValid, Holds, RKey
<1>12. CASE OnTimerExpiry
  <2>1. CachedHasOwnTimer'
    <3>1. ASSUME NEW m \in Waiting' PROVE m \in Waiting /\ m # thand
      <4>1. PICK k \in Keys : cache'[k] = m /\ m # NoMsg
        BY <3>1 DEF Waiting
      <4>2. k # KeyOf[thand] /\ cache[k] = m
        BY <1>12, <4>1 DEF OnTimerExpiry, Forget, TypeOK
      <4>3. KeyOf[m] = k
        BY <4>1, <4>2 DEF TimerInv, CachedUnderOwnKey, Holds
      <4> QED BY <4>1, <4>2, <4>3 DEF Waiting
    <3> QED BY <1>12, <3>1 DEF OnTimerExpiry, TimerInv, CachedHasOwnTimer,
                               HasOwnTimer
  <2>2. CachedUnderOwnKey' /\ KeyStaysFree'
    BY <1>12 DEF OnTimerExpiry, Forget, TimerInv, CachedUnderOwnKey,
                 KeyStaysFree, Holds, RKey, TypeOK
  <2> QED BY <1>12, <2>1, <2>2 DEF OnTimerExpiry, TimerInv, IteratorsValid, RKey
<1>13. CASE CorruptQueue
  <2>1. CachedHasOwnTimer'
    BY <1>13 DEF CorruptQueue, CachedHasOwnTimer
  <2> QED BY <1>13, <2>1 DEF CorruptQueue, TimerInv, CachedUnderOwnKey,
                             KeyStaysFree, IteratorsValid, Holds, RKey
<1>14. CASE UNCHANGED vars
  BY <1>14 DEF vars, TimerInv, CachedUnderOwnKey, KeyStaysFree, IteratorsValid,
               CachedHasOwnTimer, HasOwnTimer, Waiting, Holds, RKey
<1> QED BY <1>1, <1>2, <1>3, <1>4, <1>5, <1>6, <1>7, <1>8, <1>9, <1>10, <1>11,
           <1>12, <1>13, <1>14 DEF Next, ReceiverStep, TimerStep

(***************************************************************************)
(* As long as the threads have not changed the queue at once, a message in *)
(* the cache has its own timer pending: it cannot be forgotten there.      *)
(***************************************************************************)
THEOREM TimersKept == Spec => []CachedHasOwnTimer
<1>1. TypeOK /\ TimerInv /\ [Next]_vars => TypeOK' /\ TimerInv'
  BY NextType, NextTimers
<1>2. TimerInv => CachedHasOwnTimer
  BY DEF TimerInv
<1> QED BY InitType, InitTimers, <1>1, <1>2, PTL DEF Spec

(***************************************************************************)
(* The whole of it: messages are cached under their own ids, the key of a  *)
(* message in hand stays free, and the iterators the threads hold into the *)
(* queue of timers are good as long as they did not race.                  *)
(***************************************************************************)
THEOREM TimersHold == Spec => []TimerInv
<1>1. TypeOK /\ TimerInv /\ [Next]_vars => TypeOK' /\ TimerInv'
  BY NextType, NextTimers
<1> QED BY InitType, InitTimers, <1>1, PTL DEF Spec

-----------------------------------------------------------------------------
(* How many timers were deleted *)

(***************************************************************************)
(* A message in hand has no timer yet; a timer in the timer thread's hand  *)
(* is counted when it is handled; and the receiver that has made a pair    *)
(* may still delete one timer for it.                                      *)
(***************************************************************************)
Unarmed   == IF rpc \in {"lookup", "pop", "add", "arm"} THEN 1 ELSE 0
Deleting  == IF rpc \in {"report", "find", "erase"} THEN 1 ELSE 0
Firing    == IF tpc = "expire" THEN 1 ELSE 0

BalanceInv ==
    ~overlap => /\ Deleted \in Int
                /\ 0 <= Deleted
                /\ Deleted + Deleting <= stats["paired"]

\* No timer was armed at first.
LEMMA InitBalance == Init => BalanceInv
<1> SUFFICES ASSUME Init PROVE BalanceInv
  OBVIOUS
<1>1. Len(timers) = 0 /\ rpc = "idle" /\ tpc = "scan"
  BY EmptySeq DEF Init
<1>2. stats["received"] = 0 /\ stats["paired"] = 0 /\ stats["expired"] = 0
  BY DEF Init, Counters
<1> QED BY <1>1, <1>2 DEF BalanceInv, Deleted, Armed, Deleting

(***************************************************************************)
(* Only EraseTimer adds to the deleted timers, and only after a pair: what *)
(* the timer thread takes off the queue moves to its hand, and from there  *)
(* to the counter.                                                         *)
(***************************************************************************)
LEMMA NextBalance ==
    ASSUME TypeOK, TimerInv, BalanceInv, [Next]_vars
    PROVE  BalanceInv'
<1> SUFFICES ASSUME ~overlap'
             PROVE  /\ Deleted' \in Int
                    /\ 0 <= Deleted'
                    /\ Deleted' + Deleting' <= stats'["paired"]
  BY DEF BalanceInv
<1> DEFINE r == stats["received"]
           p == stats["paired"]
           x == stats["expired"]
           l == Len(timers)
<1>0. ~overlap
  BY DEF Next, Receive, ReceiverStep, TimerStep, Lookup, PopPair, Report,
         ReportFails, FindTimer, EraseTimer, Add, Arm, FindExpired, EraseExpired,
         OnTimerExpiry, CorruptQueue, vars, TypeOK
<1>1. /\ r \in Nat /\ p \in Nat /\ x \in Nat /\ l \in Nat
      /\ Unarmed \in Nat /\ Deleting \in Nat /\ Firing \in Nat /\ Deleted \in Int
      /\ 0 <= Deleted /\ Deleted + Deleting <= p
  BY <1>0, LenProperties
     DEF BalanceInv, TypeOK, Counters, Unarmed, Deleting, Firing
<1>2. Deleted = r - p - Unarmed - (x + l + Firing)
  BY DEF Deleted, Armed, Unarmed, Firing
<1>3. Deleted' = stats'["received"] - stats'["paired"] - Unarmed'
                 - (stats'["expired"] + Len(timers') + Firing')
  BY DEF Deleted, Armed, Unarmed, Firing
<1> USE DEF Unarmed, Deleting, Firing
<1>4. CASE \E m \in Messages : Receive(m)
  <2>1. /\ Unarmed = 0 /\ Unarmed' = 1 /\ Deleting' = 0 /\ Firing' = Firing
        /\ Len(timers') = l
        /\ stats'["received"] = r + 1 /\ stats'["paired"] = p
        /\ stats'["expired"] = x
    BY <1>4 DEF Receive, RAt, Increment, TypeOK, Counters, timer
  <2> HIDE DEF Unarmed, Deleting, Firing, r, p, x, l
  <2>2. Deleted' = Deleted
    BY <1>1, <1>2, <1>3, <2>1
  <2> QED BY <1>1, <2>1, <2>2
<1>5. CASE PopPair
  <2>1. /\ Unarmed = 1 /\ Unarmed' = 0 /\ Deleting = 0 /\ Deleting' = 1
        /\ Firing' = Firing /\ Len(timers') = l
        /\ stats'["received"] = r /\ stats'["paired"] = p + 1
        /\ stats'["expired"] = x
    BY <1>5 DEF PopPair, RAt, Increment, TypeOK, Counters, timer
  <2> HIDE DEF Unarmed, Deleting, Firing, r, p, x, l
  <2>2. Deleted' = Deleted
    BY <1>1, <1>2, <1>3, <2>1
  <2> QED BY <1>1, <2>1, <2>2
<1>6. CASE OnTimerExpiry
  <2>1. /\ Unarmed' = Unarmed /\ Deleting' = Deleting
        /\ Firing = 1 /\ Firing' = 0 /\ Len(timers') = l
        /\ stats'["received"] = r /\ stats'["paired"] = p
        /\ stats'["expired"] = x + 1
    BY <1>6 DEF OnTimerExpiry, TAt, Increment, TypeOK, Counters, receiver
  <2> HIDE DEF Unarmed, Deleting, Firing, r, p, x, l
  <2>2. Deleted' = Deleted
    BY <1>1, <1>2, <1>3, <2>1
  <2> QED BY <1>1, <2>1, <2>2
<1>7. CASE Arm
  <2>1. /\ Unarmed = 1 /\ Unarmed' = 0 /\ Deleting' = 0 /\ Firing' = Firing
        /\ stats'["received"] = r /\ stats'["paired"] = p
        /\ stats'["expired"] = x
    BY <1>7 DEF Arm, RAt, Return, TypeOK
  <2>2. timers' = Append(timers, rmsg) /\ rmsg \in Messages
    BY <1>7, <1>0 DEF Arm, RAt, TypeOK
  <2>3. Len(timers') = l + 1
    BY <2>2, AppendProperties DEF TypeOK
  <2> HIDE DEF Unarmed, Deleting, Firing, r, p, x, l
  <2>4. Deleted' = r - p - 0 - (x + (l + 1) + Firing)
    BY <1>3, <2>1, <2>3
  <2>5. Deleted = r - p - 1 - (x + l + Firing)
    BY <1>2, <2>1
  <2>6. Deleted' = Deleted
    BY <1>1, <2>4, <2>5
  <2> QED BY <1>1, <2>1, <2>6
<1>8. CASE EraseTimer
  <2>1. /\ Unarmed = 0 /\ Unarmed' = 0 /\ Deleting = 1 /\ Deleting' = 0
        /\ Firing' = Firing
        /\ stats'["received"] = r /\ stats'["paired"] = p
        /\ stats'["expired"] = x
    BY <1>8 DEF EraseTimer, RAt, Return
  <2>2. rpos \in 1..Len(timers)
    BY <1>0, <1>8 DEF EraseTimer, RAt, TimerInv, IteratorsValid
  <2>3. timers' = RemoveAt(timers, rpos)
    BY <1>8, <2>2 DEF EraseTimer, EraseAt, Landed
  <2>4. Len(timers') = l - 1
    BY <2>2, <2>3, RemoveAtProperties DEF TypeOK
  <2> HIDE DEF Unarmed, Deleting, Firing, r, p, x, l
  <2>5. Deleted' = r - p - 0 - (x + (l - 1) + Firing)
    BY <1>3, <2>1, <2>4
  <2>6. Deleted = r - p - 0 - (x + l + Firing)
    BY <1>2, <2>1
  <2>7. Deleted' = Deleted + 1
    BY <1>1, <2>5, <2>6
  <2> QED BY <1>1, <2>1, <2>7
<1>9. CASE EraseExpired
  <2>1. /\ Unarmed' = Unarmed /\ Deleting' = Deleting
        /\ Firing = 0 /\ Firing' = 1
        /\ stats'["received"] = r /\ stats'["paired"] = p
        /\ stats'["expired"] = x
    BY <1>9 DEF EraseExpired, TAt
  <2>2. tpos \in 1..Len(timers)
    BY <1>0, <1>9 DEF EraseExpired, TAt, TimerInv, IteratorsValid, TypeOK
  <2>3. timers' = RemoveAt(timers, tpos)
    BY <1>9, <2>2 DEF EraseExpired, EraseAt, Landed
  <2>4. Len(timers') = l - 1
    BY <2>2, <2>3, RemoveAtProperties DEF TypeOK
  <2> HIDE DEF Unarmed, Deleting, Firing, r, p, x, l
  <2>5. Deleted' = Deleted
    BY <1>1, <1>2, <1>3, <2>1, <2>4
  <2> QED BY <1>1, <2>1, <2>5
<1>10. CASE \/ Lookup \/ Report \/ ReportFails \/ FindTimer \/ Add \/ FindExpired
           \/ CorruptQueue \/ UNCHANGED vars
  <2>1. /\ Len(timers') = l
        /\ stats'["received"] = r /\ stats'["paired"] = p
        /\ stats'["expired"] = x
        /\ Firing' = Firing /\ Unarmed' = Unarmed
        /\ Deleting' = Deleting \/ Deleting' = 0
    BY <1>10
       DEF Lookup, Report, ReportFails, FindTimer, Add, FindExpired,
           CorruptQueue, vars, RAt, TAt, receiver, timer, Return
  <2> HIDE DEF Unarmed, Deleting, Firing, r, p, x, l
  <2>2. Deleted' = Deleted
    BY <1>1, <1>2, <1>3, <2>1
  <2> QED BY <1>1, <2>1, <2>2
<1> QED BY <1>4, <1>5, <1>6, <1>7, <1>8, <1>9, <1>10
        DEF Next, ReceiverStep, TimerStep

(***************************************************************************)
(* Every timer that was armed waits, fires once, or was deleted once, for  *)
(* a pair, as long as the threads do not race on the queue.                *)
(***************************************************************************)
THEOREM TimersAddUp == Spec => []TimersBalance
<1>1. TypeOK /\ TimerInv /\ BalanceInv /\ [Next]_vars => BalanceInv'
  BY NextBalance
<1>2. TypeOK /\ BalanceInv => TimersBalance
  <2> SUFFICES ASSUME TypeOK, BalanceInv, ~overlap
               PROVE  Deleted \in 0..stats["paired"]
    BY DEF TimersBalance
  <2>1. stats["paired"] \in Nat
    BY DEF TypeOK, Counters
  <2> QED BY <2>1 DEF BalanceInv, Deleting
<1>3. TypeOK /\ TimerInv /\ [Next]_vars => TypeOK' /\ TimerInv'
  BY NextType, NextTimers
<1> QED BY InitType, InitTimers, InitBalance, <1>1, <1>2, <1>3, PTL DEF Spec

-----------------------------------------------------------------------------
(* The refinement of PairMonitor *)

MonitorProofs == INSTANCE PairMonitorProofs WITH waiting <- cache,
                                                 matched <- Matched,
                                                 dropped <- Dropped

(***************************************************************************)
(* The message the handler works on has arrived, and it is in no place     *)
(* before it is cached or paired.                                          *)
(***************************************************************************)
PlacesInv == /\ rpc # "idle" => rmsg \in arrived
             /\ InHandIsFresh

\* No message is anywhere at first.
LEMMA InitPlaces == Init => PlacesInv
BY KeyAssumption
   DEF Init, PlacesInv, InHandIsFresh, InHand, Matched, Dropped,
       Monitor!Fresh, Monitor!Waiting, Monitor!Asked, Monitor!Answered

(***************************************************************************)
(* How each action moves the pairs, the drops and the cache.               *)
(***************************************************************************)
MonitorUnchanged == UNCHANGED <<cache, Matched, Dropped>>

\* The steps that move no message are stuttering steps of the monitor.
LEMMA QuietSteps ==
    ASSUME TypeOK,
           \/ \E m \in Messages : Receive(m)
           \/ Lookup \/ Report \/ ReportFails \/ FindTimer \/ EraseTimer
           \/ Arm \/ FindExpired \/ EraseExpired \/ CorruptQueue
           \/ UNCHANGED vars
    PROVE  MonitorUnchanged
<1> USE DEF MonitorUnchanged, Matched, Dropped, RAt, TAt, receiver, timer,
            history
<1>1. ASSUME NEW m \in Messages, Receive(m) PROVE MonitorUnchanged
  BY <1>1 DEF Receive
<1>2. CASE Lookup
  BY <1>2 DEF Lookup
<1>3. CASE Report
  BY <1>3 DEF Report
<1>4. CASE ReportFails
  BY <1>4 DEF ReportFails
<1>5. CASE FindTimer
  BY <1>5 DEF FindTimer, Return
<1>6. CASE EraseTimer
  BY <1>6 DEF EraseTimer, Return
<1>7. CASE Arm
  BY <1>7 DEF Arm, Return
<1>8. CASE FindExpired
  BY <1>8 DEF FindExpired
<1>9. CASE EraseExpired
  BY <1>9 DEF EraseExpired
<1>10. CASE CorruptQueue
  BY <1>10 DEF CorruptQueue
<1>11. CASE UNCHANGED vars
  BY <1>11 DEF vars
<1> QED BY <1>1, <1>2, <1>3, <1>4, <1>5, <1>6, <1>7, <1>8, <1>9, <1>10, <1>11

(***************************************************************************)
(* add makes the message wait.                                             *)
(***************************************************************************)
LEMMA AddHolds ==
    ASSUME TypeOK, TimerInv, PlacesInv, Add
    PROVE  Monitor!Hold(rmsg)
<1>1. rpc = "add" /\ rmsg \in Messages /\ ~Holds(RKey)
  BY DEF Add, RAt, TypeOK, TimerInv, KeyStaysFree
<1>2. Monitor!Fresh(rmsg)
  BY <1>1 DEF PlacesInv, InHandIsFresh, InHand
<1>3. rpc' = "arm" /\ cache' = [cache EXCEPT ![KeyOf[rmsg]] = rmsg]
      /\ UNCHANGED <<reported, expiries>>
  BY <1>1 DEF Add, Store, history
<1> QED BY <1>1, <1>2, <1>3
        DEF Monitor!Hold, Matched, Dropped, Holds, RKey

(***************************************************************************)
(* pop_object makes the pair, or finds nothing and leaves all as it was.   *)
(***************************************************************************)
LEMMA PopMatches ==
    ASSUME TypeOK, PlacesInv, PopPair
    PROVE  Monitor!Match(rmsg) \/ MonitorUnchanged
<1>1. /\ rpc = "pop" /\ rmsg \in Messages /\ KeyOf[rmsg] \in Keys
      /\ rpc' = "report" /\ rmsg' = rmsg /\ rpair' = cache[KeyOf[rmsg]]
      /\ cache' = [cache EXCEPT ![KeyOf[rmsg]] = NoMsg]
      /\ UNCHANGED <<reported, expiries>>
  BY KeyAssumption DEF PopPair, RAt, RKey, Forget, TypeOK, history
<1>2. Monitor!Fresh(rmsg)
  BY <1>1 DEF PlacesInv, InHandIsFresh, InHand
<1>3. CASE cache[KeyOf[rmsg]] = NoMsg
  BY <1>1, <1>3 DEF MonitorUnchanged, Matched, Dropped, TypeOK
<1>4. CASE cache[KeyOf[rmsg]] # NoMsg
  BY <1>1, <1>2, <1>4 DEF Monitor!Match, Matched, Dropped
<1> QED BY <1>3, <1>4

(***************************************************************************)
(* onTimerExpiry drops what is cached under the timer's id, if anything.   *)
(***************************************************************************)
LEMMA ExpiryDrops ==
    ASSUME TypeOK, OnTimerExpiry
    PROVE  (\E k \in Keys : Monitor!Drop(k)) \/ MonitorUnchanged
<1> DEFINE k == KeyOf[thand]
<1>1. /\ k \in Keys
      /\ cache' = [cache EXCEPT ![k] = NoMsg]
      /\ expiries' = IF cache[k] # NoMsg
                     THEN expiries \cup {<<cache[k], thand>>} ELSE expiries
      /\ UNCHANGED <<reported, rpc, rmsg, rpair>>
  BY KeyAssumption DEF OnTimerExpiry, TAt, Forget, Holds, TypeOK, receiver
<1> HIDE DEF k
<1>2. Matched' = Matched
  BY <1>1 DEF Matched
<1>3. CASE cache[k] = NoMsg
  BY <1>1, <1>2, <1>3 DEF MonitorUnchanged, Dropped, TypeOK
<1>4. CASE cache[k] # NoMsg
  <2>1. Dropped' = Dropped \cup {cache[k]}
    <3>1. expiries' = expiries \cup {<<cache[k], thand>>}
      BY <1>1, <1>4
    <3>2. \A e \in expiries' : e \in expiries \/ e[1] = cache[k]
      BY <3>1
    <3>3. <<cache[k], thand>> \in expiries' /\ <<cache[k], thand>>[1] = cache[k]
      BY <3>1
    <3> QED BY <3>1, <3>2, <3>3 DEF Dropped
  <2> QED BY <1>1, <1>2, <1>4, <2>1 DEF Monitor!Drop
<1> QED BY <1>3, <1>4

-----------------------------------------------------------------------------

\* The first state is one of the monitor's.
LEMMA InitRefines == Init => Monitor!Init
BY DEF Init, Monitor!Init, Matched, Dropped

\* Each step of the two threads is a step of the monitor or moves no message.
LEMMA StepRefines ==
    TypeOK /\ TimerInv /\ PlacesInv /\ [Next]_vars
        => [Monitor!Next]_(Monitor!monitorVars)
<1> SUFFICES ASSUME TypeOK, TimerInv, PlacesInv, [Next]_vars
             PROVE  Monitor!Next \/ MonitorUnchanged
  BY DEF MonitorUnchanged, Monitor!monitorVars
<1>1. CASE Add
  <2>1. Monitor!Hold(rmsg) /\ rmsg \in Messages
    BY <1>1, AddHolds DEF Add, RAt, TypeOK
  <2> QED BY <2>1 DEF Monitor!Next
<1>2. CASE PopPair
  <2>1. (Monitor!Match(rmsg) \/ MonitorUnchanged) /\ rmsg \in Messages
    BY <1>2, PopMatches DEF PopPair, RAt, TypeOK
  <2> QED BY <2>1 DEF Monitor!Next
<1>3. CASE OnTimerExpiry
  BY <1>3, ExpiryDrops DEF Monitor!Next
<1> QED BY <1>1, <1>2, <1>3, QuietSteps DEF Next, ReceiverStep, TimerStep

(***************************************************************************)
(* A message in no place stays in none unless it is the one that moves.    *)
(***************************************************************************)
LEMMA FreshStays ==
    ASSUME TypeOK, TimerInv, PlacesInv, [Next]_vars,
           NEW m \in Messages, Monitor!Fresh(m),
           Add \/ PopPair => m # rmsg
    PROVE  Monitor!Fresh(m)'
<1> USE DEF Monitor!Fresh, Monitor!Waiting, Monitor!Asked, Monitor!Answered
<1>1. CASE MonitorUnchanged
  BY <1>1 DEF MonitorUnchanged
<1>2. CASE Add
  <2>1. m # rmsg /\ Monitor!Hold(rmsg)
    BY <1>2, AddHolds DEF Add, RAt
  <2> QED BY <2>1 DEF Monitor!Hold, TypeOK
<1>3. CASE PopPair /\ Monitor!Match(rmsg)
  <2>1. m # rmsg /\ rmsg \in Messages
    BY <1>3 DEF PopPair, RAt, TypeOK
  <2>2. KeyOf[rmsg] \in Keys /\ m # cache[KeyOf[rmsg]]
    BY <2>1, KeyAssumption
  <2>3. ~Monitor!Waiting(m)'
    BY <1>3, KeyAssumption DEF Monitor!Match, TypeOK
  <2> QED BY <1>3, <2>1, <2>2, <2>3 DEF Monitor!Match
<1>4. ASSUME NEW k \in Keys, Monitor!Drop(k) PROVE Monitor!Fresh(m)'
  BY <1>4, KeyAssumption DEF Monitor!Drop, TypeOK
<1> QED BY <1>1, <1>2, <1>3, <1>4, PopMatches, ExpiryDrops, QuietSteps
        DEF Next, ReceiverStep, TimerStep

\* Every step keeps each message in one place.
LEMMA NextPlaces ==
    TypeOK /\ TimerInv /\ PlacesInv /\ [Next]_vars => PlacesInv'
<1> SUFFICES ASSUME TypeOK, TimerInv, PlacesInv, [Next]_vars PROVE PlacesInv'
  OBVIOUS
<1> USE DEF RAt, TAt, receiver, history
<1>1. /\ arrived \subseteq arrived'
      /\ rpc' # "idle" => rmsg' \in arrived'
  <2>1. ASSUME NEW m \in Messages, Receive(m)
        PROVE  arrived \subseteq arrived' /\ rmsg' \in arrived'
    BY <2>1 DEF Receive
  <2>2. CASE \/ Lookup \/ PopPair \/ Report \/ ReportFails \/ Add
             \/ FindExpired \/ EraseExpired \/ OnTimerExpiry \/ CorruptQueue
             \/ UNCHANGED vars
    BY <2>2 DEF Lookup, PopPair, Report, ReportFails, Add, FindExpired,
                EraseExpired, OnTimerExpiry, CorruptQueue, vars, PlacesInv
  <2>3. CASE FindTimer \/ EraseTimer \/ Arm
    BY <2>3 DEF FindTimer, EraseTimer, Arm, Return, PlacesInv
  <2> QED BY <2>1, <2>2, <2>3 DEF Next, ReceiverStep, TimerStep
<1>2. ASSUME NEW m \in InHand' \cup (Messages \ arrived')
      PROVE  /\ m \in Messages
             /\ m \in InHand \cup (Messages \ arrived)
             /\ Add \/ PopPair => m # rmsg
  <2>1. CASE m \in Messages \ arrived'
    BY <1>1, <2>1 DEF PlacesInv, Add, PopPair
  <2>2. CASE m \in InHand'
    <3>1. rpc' \in {"lookup", "pop", "add"} /\ m = rmsg'
      BY <2>2 DEF InHand
    <3>2. ASSUME NEW n \in Messages, Receive(n)
          PROVE  m \in Messages \ arrived /\ rpc = "idle"
      BY <3>1, <3>2 DEF Receive
    <3>3. CASE Lookup
      BY <3>1, <3>3 DEF Lookup, Add, PopPair, InHand, TypeOK
    <3>4. CASE Add \/ PopPair
      BY <3>1, <3>4 DEF Add, PopPair, TimerInv, KeyStaysFree
    <3>5. CASE \/ Report \/ ReportFails \/ FindExpired \/ EraseExpired
               \/ OnTimerExpiry \/ CorruptQueue \/ UNCHANGED vars
      <4>1. rpc' = rpc /\ rmsg' = rmsg
        BY <3>1, <3>5 DEF Report, ReportFails, FindExpired, EraseExpired,
                          OnTimerExpiry, CorruptQueue, vars
      <4>2. ~Add /\ ~PopPair
        BY <3>1, <4>1 DEF Add, PopPair, TimerInv, KeyStaysFree
      <4> QED BY <3>1, <4>1, <4>2 DEF InHand, TypeOK
    <3>6. CASE FindTimer \/ EraseTimer \/ Arm
      BY <3>1, <3>6 DEF FindTimer, EraseTimer, Arm, Return
    <3> QED BY <3>2, <3>3, <3>4, <3>5, <3>6 DEF Next, ReceiverStep, TimerStep
  <2> QED BY <2>1, <2>2
<1>3. InHandIsFresh'
  BY <1>2, FreshStays DEF PlacesInv, InHandIsFresh
<1> QED BY <1>1, <1>3 DEF PlacesInv

-----------------------------------------------------------------------------

\* The inductive invariant on which the theorems below rest.
LEMMA Inductive == Spec => [](TypeOK /\ TimerInv /\ PlacesInv)
<1>1. Init => TypeOK /\ TimerInv /\ PlacesInv
  BY InitType, InitTimers, InitPlaces
<1>2. TypeOK /\ TimerInv /\ PlacesInv /\ [Next]_vars
        => TypeOK' /\ TimerInv' /\ PlacesInv'
  BY NextType, NextTimers, NextPlaces
<1> QED BY <1>1, <1>2, PTL DEF Spec

(***************************************************************************)
(* The two threads together do to the messages what PairMonitor allows.    *)
(***************************************************************************)
THEOREM Implements == Spec => ImplementsMonitor
<1>1. Spec => [][Monitor!Next]_(Monitor!monitorVars)
  <2>1. TypeOK /\ TimerInv /\ PlacesInv /\ [Next]_vars
          => [Monitor!Next]_(Monitor!monitorVars)
    BY StepRefines
  <2> QED BY Inductive, <2>1, PTL DEF Spec
<1>2. Spec => Monitor!Init
  BY InitRefines DEF Spec
<1> QED BY <1>1, <1>2, PTL DEF ImplementsMonitor, Monitor!Spec

(***************************************************************************)
(* No message is reported twice, reported after it was dropped, or dropped *)
(* twice, whatever the threads do to the queue of timers.                  *)
(***************************************************************************)
THEOREM FateIsOne == Spec => []OneFate
<1>1. Spec => []MonitorProofs!Inv
  <2>1. MonitorProofs!Spec => []MonitorProofs!Inv
    BY MonitorProofs!OneFateEach, KeyAssumption
  <2>2. Monitor!Init => MonitorProofs!Init
    BY DEF Monitor!Init, MonitorProofs!Init
  <2>3. [Monitor!Next]_(Monitor!monitorVars)
          => [MonitorProofs!Next]_(MonitorProofs!monitorVars)
    BY DEF Monitor!Next, Monitor!Hold, Monitor!Match, Monitor!Drop,
           Monitor!Fresh, Monitor!Waiting, Monitor!Asked, Monitor!Answered,
           Monitor!monitorVars,
           MonitorProofs!Next, MonitorProofs!Hold, MonitorProofs!Match,
           MonitorProofs!Drop, MonitorProofs!Fresh, MonitorProofs!Waiting,
           MonitorProofs!Asked, MonitorProofs!Answered,
           MonitorProofs!monitorVars
  <2> QED BY <2>1, <2>2, <2>3, Implements, PTL
          DEF ImplementsMonitor, Monitor!Spec, MonitorProofs!Spec
<1>2. MonitorProofs!Inv => Monitor!OneFate
  BY DEF MonitorProofs!Inv, MonitorProofs!OneFate, MonitorProofs!Waiting,
         MonitorProofs!Asked, MonitorProofs!Answered,
         Monitor!OneFate, Monitor!Waiting, Monitor!Asked, Monitor!Answered
<1>3. PlacesInv => InHandIsFresh
  BY DEF PlacesInv
<1> QED BY <1>1, <1>2, <1>3, Inductive, PTL DEF OneFate

-----------------------------------------------------------------------------

(***************************************************************************)
(* Only a failing reporter makes main return: add finds its key free.      *)
(***************************************************************************)
THEOREM AddNeverThrows == Spec => []ExitOnlyByReporter
<1>1. Init => ExitOnlyByReporter
  BY DEF Init, ExitOnlyByReporter
<1>2. TypeOK /\ TimerInv /\ ExitOnlyByReporter /\ [Next]_vars
        => ExitOnlyByReporter'
  <2> SUFFICES ASSUME TypeOK, TimerInv, ExitOnlyByReporter, [Next]_vars
               PROVE  ExitOnlyByReporter'
    OBVIOUS
  <2> USE DEF RAt, TAt, Running, receiver, ExitOnlyByReporter
  <2>1. CASE Add
    BY <2>1 DEF Add, TimerInv, KeyStaysFree
  <2>2. CASE ReportFails
    BY <2>2 DEF ReportFails
  <2>3. CASE EraseTimer \/ EraseExpired
    BY <2>3 DEF EraseTimer, EraseExpired, EraseAt
  <2>4. CASE \/ \E m \in Messages : Receive(m)
             \/ Lookup \/ PopPair \/ Report \/ FindTimer \/ Arm
             \/ FindExpired \/ OnTimerExpiry \/ CorruptQueue
    BY <2>4 DEF Receive, Lookup, PopPair, Report, FindTimer, Arm, FindExpired,
                OnTimerExpiry, CorruptQueue
  <2>5. CASE UNCHANGED vars
    BY <2>5 DEF vars
  <2> QED BY <2>1, <2>2, <2>3, <2>4, <2>5 DEF Next, ReceiverStep, TimerStep
<1> QED BY <1>1, <1>2, Inductive, PTL DEF Spec

(***************************************************************************)
(* An empty answer of pop_object after lookup said "found" always means    *)
(* that the timer thread dropped the request in between.                   *)
(***************************************************************************)
LEMMA DroppedGrows ==
    ASSUME TypeOK, [Next]_vars, NEW k, SomeDropped(k)
    PROVE  SomeDropped(k)'
<1>1. expiries \subseteq expiries'
  <2> USE DEF history
  <2>1. CASE OnTimerExpiry
    BY <2>1 DEF OnTimerExpiry
  <2>2. CASE \E m \in Messages : Receive(m)
    BY <2>2 DEF Receive
  <2>3. CASE ReceiverStep
    BY <2>3 DEF ReceiverStep, Lookup, PopPair, Report, ReportFails, FindTimer,
                EraseTimer, Add, Arm
  <2>4. CASE FindExpired \/ EraseExpired \/ CorruptQueue \/ UNCHANGED vars
    BY <2>4 DEF FindExpired, EraseExpired, CorruptQueue, vars
  <2> QED BY <2>1, <2>2, <2>3, <2>4 DEF Next, TimerStep
<1> QED BY <1>1 DEF SomeDropped, Dropped

\* Only an expiry of the same key takes back the answer of lookup.
LEMMA NextLookup ==
    TypeOK /\ TimerInv /\ LookupStands /\ [Next]_vars => LookupStands'
<1> SUFFICES ASSUME TypeOK, TimerInv, LookupStands, [Next]_vars
             PROVE  LookupStands'
  OBVIOUS
<1> USE DEF RAt, TAt, RKey, receiver, LookupStands
<1>1. CASE Lookup
  BY <1>1 DEF Lookup, Holds
<1>2. CASE PopPair
  <2>1. KeyOf[rmsg'] = RKey /\ rpair' = cache[RKey] /\ rpc = "pop"
    BY <1>2 DEF PopPair
  <2>2. rpair' = NoMsg => SomeDropped(RKey)'
    BY <2>1, DroppedGrows DEF Holds
  <2> QED BY <1>2, <2>1, <2>2 DEF PopPair
<1>3. CASE OnTimerExpiry
  <2>1. CASE rpc = "pop"
    <3>1. CASE KeyOf[thand] = RKey /\ Holds(RKey)
      <4>1. <<cache[RKey], thand>> \in expiries' /\ KeyOf[cache[RKey]] = RKey
        BY <1>3, <3>1, KeyAssumption
           DEF OnTimerExpiry, TimerInv, CachedUnderOwnKey, TypeOK
      <4>2. cache[RKey] \in Dropped'
        <5>1. <<cache[RKey], thand>>[1] = cache[RKey]
          OBVIOUS
        <5> QED BY <4>1, <5>1 DEF Dropped
      <4> QED BY <1>3, <2>1, <4>1, <4>2 DEF OnTimerExpiry, SomeDropped
    <3>2. CASE ~(KeyOf[thand] = RKey /\ Holds(RKey))
      <4>1. Holds(RKey) => Holds(RKey)'
        BY <1>3, <3>2, <2>1, KeyAssumption
           DEF OnTimerExpiry, Forget, Holds, TypeOK
      <4> QED BY <1>3, <2>1, <4>1, DroppedGrows DEF OnTimerExpiry
    <3> QED BY <3>1, <3>2
  <2>2. CASE rpc # "pop"
    BY <1>3, <2>2, DroppedGrows DEF OnTimerExpiry
  <2> QED BY <2>1, <2>2
<1>4. CASE \/ \E m \in Messages : Receive(m)
           \/ Add \/ FindTimer \/ EraseTimer \/ Arm
  BY <1>4 DEF Receive, Add, FindTimer, EraseTimer, Arm, Return
<1>5. CASE \/ Report \/ ReportFails \/ FindExpired \/ EraseExpired
           \/ CorruptQueue \/ UNCHANGED vars
  <2>1. UNCHANGED <<cache, rmsg, rpair>> /\ (rpc' = rpc \/ rpc' = "find")
    BY <1>5 DEF Report, ReportFails, FindExpired, EraseExpired, CorruptQueue,
                vars
  <2> QED BY <2>1, DroppedGrows DEF Holds
<1> QED BY <1>1, <1>2, <1>3, <1>4, <1>5 DEF Next, ReceiverStep, TimerStep

(***************************************************************************)
(* Without two threads at the queue of timers at once, the process crashes *)
(* for one reason only: a pair whose request expired under its feet.       *)
(***************************************************************************)
THEOREM CrashesOnlyByRace == Spec => []CrashNeedsRace
<1>1. Init => CrashNeedsRace /\ LookupStands
  BY DEF Init, CrashNeedsRace, LookupStands
<1>2. TypeOK /\ TimerInv /\ LookupStands /\ CrashNeedsRace /\ [Next]_vars
        => CrashNeedsRace'
  <2> SUFFICES ASSUME TypeOK, TimerInv, LookupStands, CrashNeedsRace,
                      [Next]_vars, process' = "crashed"
               PROVE  \/ overlap'
                      \/ rpc' = "report" /\ rpair' = NoMsg /\ SomeDropped(RKey)'
    BY DEF CrashNeedsRace
  <2> USE DEF RAt, TAt, Running, RKey, receiver, timer, history
  <2>1. CASE EraseTimer
    <3>1. ~overlap => Landed(rpos) \in 1..Len(timers)
      BY <2>1 DEF EraseTimer, TimerInv, IteratorsValid, Landed, TypeOK
    <3> QED BY <2>1, <3>1 DEF EraseTimer, EraseAt
  <2>2. CASE EraseExpired
    <3>1. ~overlap => Landed(tpos) \in 1..Len(timers)
      BY <2>2 DEF EraseExpired, TimerInv, IteratorsValid, Landed, TypeOK
    <3> QED BY <2>2, <3>1 DEF EraseExpired, EraseAt
  <2>3. CASE Report
    BY <2>3, DroppedGrows DEF Report, LookupStands
  <2>4. CASE CorruptQueue
    BY <2>4 DEF CorruptQueue
  <2>5. CASE \/ \E m \in Messages : Receive(m)
             \/ Lookup \/ PopPair \/ ReportFails \/ FindTimer \/ Add \/ Arm
             \/ FindExpired \/ OnTimerExpiry
    BY <2>5 DEF Receive, Lookup, PopPair, ReportFails, FindTimer, Add, Arm,
                FindExpired, OnTimerExpiry
  <2>6. CASE UNCHANGED vars
    BY <2>6, DroppedGrows DEF vars, CrashNeedsRace
  <2> QED BY <2>1, <2>2, <2>3, <2>4, <2>5, <2>6
          DEF Next, ReceiverStep, TimerStep
<1>3. TypeOK /\ TimerInv /\ LookupStands /\ [Next]_vars => LookupStands'
  BY NextLookup
<1> QED BY <1>1, <1>2, <1>3, Inductive, PTL DEF Spec

-----------------------------------------------------------------------------
(* The counters *)

(***************************************************************************)
(* The messages received are those in a pair, in the cache and dropped,    *)
(* and the one in hand. A null pair was counted as a pair with its request *)
(* among the dropped: it is one too many, until the process crashes.       *)
(***************************************************************************)
CountsFinite == IsFiniteSet(Waiting) /\ IsFiniteSet(Dropped)
Accounted == 2 * stats["paired"] + Cardinality(Waiting) + Cardinality(Dropped)

Unsettled == IF rpc \in {"lookup", "pop", "add"} THEN 1
             ELSE IF rpc = "report" /\ rpair = NoMsg THEN -1 ELSE 0

CountInv == CountsFinite /\ stats["received"] = Accounted + Unsettled

\* One message leaves the cache with its key, as no two keys have the same.
LEMMA ForgetLeaves ==
    ASSUME TypeOK, CachedUnderOwnKey, NEW k \in Keys, Forget(k)
    PROVE  Waiting' = Waiting \ {cache[k]}
<1>1. \A j \in Keys \ {k} : cache'[j] = cache[j] /\ (Holds(j) => cache[j] # cache[k])
  BY DEF Forget, TypeOK, CachedUnderOwnKey, Holds
<1>2. cache'[k] = NoMsg
  BY DEF Forget, TypeOK
<1>3. ASSUME NEW m PROVE m \in Waiting' <=> m \in Waiting \ {cache[k]}
  BY <1>1, <1>2 DEF Waiting, Holds
<1> QED BY <1>3

\* Nothing is counted at first.
LEMMA InitCounts == Init => CountInv
<1> SUFFICES ASSUME Init PROVE CountInv
  OBVIOUS
<1>1. Waiting = {} /\ Dropped = {}
  BY DEF Init, Waiting, Dropped
<1>2. stats["received"] = 0 /\ stats["paired"] = 0 /\ rpc = "idle"
  BY DEF Init, Counters
<1> QED BY <1>1, <1>2, FS_EmptySet DEF CountInv, CountsFinite, Accounted, Unsettled

(***************************************************************************)
(* Messages move between the cache, the pairs and the drops one at a time, *)
(* each from the one place where it is to a place where it was not: that   *)
(* the counters agree rests on OneFate.                                    *)
(***************************************************************************)
LEMMA NextCounts ==
    ASSUME TypeOK, TimerInv, OneFate, CountInv, [Next]_vars
    PROVE  CountInv'
<1> DEFINE W == Cardinality(Waiting)
           D == Cardinality(Dropped)
<1>1. /\ W \in Nat /\ D \in Nat
      /\ stats["received"] \in Nat /\ stats["paired"] \in Nat
      /\ IsFiniteSet(Waiting) /\ IsFiniteSet(Dropped)
      /\ stats["received"] = 2 * stats["paired"] + W + D + Unsettled
  BY FS_CardinalityType DEF CountInv, CountsFinite, TypeOK, Counters, Accounted
<1>2. CASE \E m \in Messages : Receive(m)
  <2>1. /\ Waiting' = Waiting /\ Dropped' = Dropped
        /\ rpc = "idle" /\ rpc' = "lookup"
        /\ stats'["received"] = stats["received"] + 1
        /\ stats'["paired"] = stats["paired"]
    BY <1>2 DEF Receive, RAt, Waiting, Dropped, Increment, TypeOK, Counters
  <2> QED BY <1>1, <2>1 DEF CountInv, CountsFinite, Accounted, Unsettled
<1>3. CASE PopPair
  <2> DEFINE c == cache[RKey]
  <2>1. /\ RKey \in Keys /\ CachedUnderOwnKey
        /\ rpc = "pop" /\ rpc' = "report" /\ rpair' = c
        /\ Dropped' = Dropped
        /\ stats'["received"] = stats["received"]
        /\ stats'["paired"] = stats["paired"] + 1
    BY <1>3, KeyAssumption
       DEF PopPair, RAt, RKey, Dropped, Increment, TypeOK, Counters, TimerInv,
           history
  <2>2. Waiting' = Waiting \ {c}
    BY <1>3, <2>1, ForgetLeaves DEF PopPair
  <2>3. c \in Waiting <=> c # NoMsg
    BY <2>1 DEF Waiting
  <2>4. /\ IsFiniteSet(Waiting')
        /\ Cardinality(Waiting') = IF c = NoMsg THEN W ELSE W - 1
    BY <1>1, <2>2, <2>3, FS_RemoveElement
  <2> HIDE DEF c
  <2> QED BY <1>1, <2>1, <2>4 DEF CountInv, CountsFinite, Accounted, Unsettled
<1>4. CASE Add
  <2>1. ~Holds(RKey) /\ rpc = "add" /\ RKey \in Keys /\ rmsg \in Messages
    BY <1>4, KeyAssumption DEF Add, RAt, RKey, TypeOK, TimerInv, KeyStaysFree
  <2>2. /\ cache' = [cache EXCEPT ![RKey] = rmsg] /\ rpc' = "arm"
        /\ stats' = stats /\ Dropped' = Dropped
    BY <1>4, <2>1 DEF Add, Store, RKey, Dropped, history
  <2>3. Waiting' = Waiting \cup {rmsg}
    BY <2>1, <2>2, KeyAssumption DEF Waiting, Holds, TypeOK
  <2>4. rmsg \notin Waiting
    <3>1. Monitor!Fresh(rmsg)
      BY <2>1 DEF OneFate, InHandIsFresh, InHand
    <3> QED BY <3>1 DEF Monitor!Fresh, Monitor!Waiting, Waiting
  <2>5. IsFiniteSet(Waiting') /\ Cardinality(Waiting') = W + 1
    BY <1>1, <2>3, <2>4, FS_AddElement
  <2> QED BY <1>1, <2>1, <2>2, <2>5 DEF CountInv, CountsFinite, Accounted, Unsettled
<1>5. CASE OnTimerExpiry
  <2> DEFINE k == KeyOf[thand]
             c == cache[k]
  <2>1. /\ k \in Keys /\ CachedUnderOwnKey /\ Forget(k)
        /\ rpc' = rpc /\ rpair' = rpair
        /\ stats'["received"] = stats["received"]
        /\ stats'["paired"] = stats["paired"]
    BY <1>5, KeyAssumption
       DEF OnTimerExpiry, TAt, Increment, TypeOK, Counters, TimerInv, receiver
  <2>2. Waiting' = Waiting \ {c}
    BY <2>1, ForgetLeaves
  <2>3. CASE c = NoMsg
    <3>1. Waiting' = Waiting
      BY <2>2, <2>3 DEF Waiting
    <3>2. Dropped' = Dropped
      BY <1>5, <2>3 DEF OnTimerExpiry, Holds, Dropped
    <3> QED BY <1>1, <2>1, <3>1, <3>2 DEF CountInv, CountsFinite, Accounted, Unsettled
  <2>4. CASE c # NoMsg
    <3>1. c \in Waiting /\ c \in Messages
      BY <2>1, <2>4 DEF Waiting, TypeOK, MsgOrNull
    <3>2. Dropped' = Dropped \cup {c}
      <4>1. expiries' = expiries \cup {<<c, thand>>}
        BY <1>5, <2>4 DEF OnTimerExpiry, Holds
      <4>2. <<c, thand>>[1] = c
        OBVIOUS
      <4> HIDE DEF c
      <4>3. ASSUME NEW m PROVE m \in Dropped' <=> m \in Dropped \cup {c}
        BY <4>1, <4>2 DEF Dropped
      <4> QED BY <4>3
    <3>3. c \notin Dropped
      BY <2>1, <3>1 DEF OneFate, Monitor!OneFate, Monitor!Waiting
    <3>4. IsFiniteSet(Waiting') /\ Cardinality(Waiting') = W - 1
      BY <1>1, <2>2, <3>1, FS_RemoveElement
    <3>5. IsFiniteSet(Dropped') /\ Cardinality(Dropped') = D + 1
      BY <1>1, <3>2, <3>3, FS_AddElement
    <3> QED BY <1>1, <2>1, <3>4, <3>5 DEF CountInv, CountsFinite, Accounted, Unsettled
  <2> QED BY <2>3, <2>4
<1>6. CASE \/ Lookup \/ Report \/ ReportFails \/ FindTimer \/ EraseTimer \/ Arm
           \/ FindExpired \/ EraseExpired \/ CorruptQueue \/ UNCHANGED vars
  <2>1. /\ Waiting' = Waiting /\ Dropped' = Dropped /\ stats' = stats
    BY <1>6
       DEF Lookup, Report, ReportFails, FindTimer, EraseTimer, Arm, FindExpired,
           EraseExpired, CorruptQueue, vars, Waiting, Dropped, history
  <2>2. Unsettled' = Unsettled
    BY <1>6
       DEF Lookup, Report, ReportFails, FindTimer, EraseTimer, Arm, FindExpired,
           EraseExpired, CorruptQueue, vars, Unsettled, RAt, receiver, Return,
           TypeOK
  <2> QED BY <1>1, <2>1, <2>2 DEF CountInv, CountsFinite, Accounted
<1> QED BY <1>2, <1>3, <1>4, <1>5, <1>6 DEF Next, ReceiverStep, TimerStep

(***************************************************************************)
(* Between two messages the counters account for every message, although   *)
(* pairs and drops are counted by different threads.                       *)
(***************************************************************************)
THEOREM CountersAgree == Spec => []CountersReconcile
<1>1. TypeOK /\ TimerInv /\ OneFate /\ CountInv /\ [Next]_vars => CountInv'
  BY NextCounts
<1>2. TypeOK /\ CountInv => CountersReconcile
  <2> SUFFICES ASSUME TypeOK, CountInv PROVE CountersReconcile
    OBVIOUS
  <2>1. /\ Cardinality(Waiting) \in Nat /\ Cardinality(Dropped) \in Nat
        /\ stats["paired"] \in Nat
    BY FS_CardinalityType DEF CountInv, CountsFinite, TypeOK, Counters
  <2> QED BY <2>1 DEF CountInv, Accounted, Unsettled, CountersReconcile
<1> QED BY InitCounts, <1>1, <1>2, Inductive, FateIsOne, PTL DEF Spec
=============================================================================
