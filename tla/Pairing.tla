------------------------------ MODULE Pairing ------------------------------
(***************************************************************************)
(* The pairing core of pairer: SimpleSyncReceivedMessageHandler, its cache *)
(* (SimpleMapCache), its counters, and the queue of response timers, as    *)
(* two threads use them.                                                   *)
(*                                                                         *)
(*   receiver thread:  handleMessage, one message after another;           *)
(*   timer thread:     TimerPool::timerPoolProcessor, which takes expired  *)
(*                     timers off the queue and calls onTimerExpiry.       *)
(*                                                                         *)
(* Every cache operation holds the cache's mutex, so it is one step. The   *)
(* timer queue's retrieve_one_if takes no lock: it is two steps, finding   *)
(* the element (the thread now holds an iterator) and erasing it, and the  *)
(* other thread may use the queue in between. Time is abstract here: the   *)
(* oldest timer may be due whenever the timer thread looks; TimerPool.tla  *)
(* has the clock.                                                          *)
(***************************************************************************)
EXTENDS Sessions, Naturals, FiniteSets, SequencesExt

VARIABLES
    cache,      \* SimpleMapCache::map_cache_, NoMsg where a key is absent
    timers,     \* TimerPool::queue_, oldest first; a timer is the message
                \*   that armed it, its id is that message's session id
    stats,      \* the three counters of the handler, never reset here
    rpc,        \* receiver thread: the step of handleMessage it is at
    rmsg,       \* ... its argument msg
    rpair,      \* ... its local variable pair
    rpos,       \* ... its iterator in retrieve_one_if (from deleteTimer)
    tpc,        \* timer thread: the step of its loop it is at
    tpos,       \* ... its iterator in retrieve_one_if
    thand,      \* ... expiredPair, the timer it copied out
    process,    \* "running", "crashed" or "exited" (main caught and returned)
    arrived,    \* history: messages handed to handleMessage
    reported,   \* history: pairs given to reporter_->reportPair
    expiries,   \* history: <<message, timer>> for each message the timer
                \*   thread removed from the cache
    overlap     \* history: two threads changed the timer queue at once

vars == <<cache, timers, stats, rpc, rmsg, rpair, rpos, tpc, tpos, thand,
          process, arrived, reported, expiries, overlap>>

receiver == <<rpc, rmsg, rpair, rpos>>
timer    == <<tpc, tpos, thand>>
history  == <<arrived, reported, expiries>>

Counters == {"received", "paired", "expired"}
Increment(c) == stats' = [stats EXCEPT ![c] = @ + 1]

RKey == KeyOf[rmsg]
Running == process = "running"
RAt(step) == Running /\ rpc = step
TAt(step) == Running /\ tpc = step

-----------------------------------------------------------------------------
(* SimpleMapCache *)

Holds(k)  == cache[k] # NoMsg
Store(m)  == cache' = [cache EXCEPT ![KeyOf[m]] = m]
\* Bug for comparison: pop_object clears the map.
ForgetAll(k) == cache' = [j \in Keys |-> NoMsg]

Forget(k) == cache' = [cache EXCEPT ![k] = NoMsg]

-----------------------------------------------------------------------------
(* BlockingDequeue *)

\* Bug for comparison: the front is taken for the match.
FrontTimer(i, k) == i = 1

\* i is the element at which retrieve_one_if stops, asked for session id k.
FirstTimer(i, k) == /\ KeyOf[timers[i]] = k
                    /\ \A j \in 1..i-1 : KeyOf[timers[j]] # k

\* Where an iterator at i points after the other thread erased an element:
\* a deque closes the gap from either end, so the iterator keeps its slot or
\* falls one back. 0 is the slot before the first element.
Shifted(i) == {i} \cup (IF i > 0 THEN {i - 1} ELSE {})

\* Erasing at 0 shifts every element one slot down and drops the first.
Landed(i) == IF i = 0 THEN 1 ELSE i

\* Bug for comparison: the iterator is advanced before the erase.
EraseAfter(i) ==
    IF i + 1 \in 1..Len(timers)
    THEN /\ timers' = RemoveAt(timers, i + 1)
         /\ UNCHANGED process
    ELSE /\ process' = "crashed"
         /\ UNCHANGED timers

\* Erasing past the last element, or from an empty deque, is undefined: the
\* process does not survive it.
EraseAt(i) ==
    IF Landed(i) \in 1..Len(timers)
    THEN /\ timers' = RemoveAt(timers, Landed(i))
         /\ UNCHANGED process
    ELSE /\ process' = "crashed"
         /\ UNCHANGED timers

-----------------------------------------------------------------------------
Init == /\ cache = [k \in Keys |-> NoMsg]
        /\ timers = <<>>
        /\ stats = [c \in Counters |-> 0]
        /\ rpc = "idle" /\ rmsg = NoMsg /\ rpair = NoMsg /\ rpos = 0
        /\ tpc = "scan" /\ tpos = 0 /\ thand = NoMsg
        /\ process = "running"
        /\ arrived = {} /\ reported = {} /\ expiries = {}
        /\ overlap = FALSE

-----------------------------------------------------------------------------
(* Receiver thread: SimpleSyncReceivedMessageHandler::handleMessage *)

\* handleMessage(m) is entered and counts the message.
Receive(m) ==
    /\ RAt("idle")
    /\ m \notin arrived
    /\ arrived' = arrived \cup {m}
    /\ rmsg' = m
    /\ rpc' = "lookup"
    /\ Increment("received")
    /\ UNCHANGED <<cache, timers, rpair, rpos, timer, process, reported,
                   expiries, overlap>>

\* Bug for comparison: every message is taken for a request.
LookupMisses ==
    /\ RAt("lookup")
    /\ rpc' = "add"
    /\ UNCHANGED <<cache, timers, stats, rmsg, rpair, rpos, timer, process,
                   history, overlap>>

\* msg_cache_->lookup: the answer is used after the cache is unlocked.
Lookup ==
    /\ RAt("lookup")
    /\ rpc' = IF Holds(RKey) THEN "pop" ELSE "add"
    /\ UNCHANGED <<cache, timers, stats, rmsg, rpair, rpos, timer, process,
                   history, overlap>>

\* Bug for comparison: the pair is read from the cache and left there.
PopPairKeepsIt ==
    /\ RAt("pop")
    /\ rpair' = cache[RKey]
    /\ Increment("paired")
    /\ rpc' = "report"
    /\ UNCHANGED <<cache, timers, rmsg, rpos, timer, process, history, overlap>>

\* msg_cache_->pop_object, nullptr when the key has gone meanwhile.
PopPair ==
    /\ RAt("pop")
    /\ rpair' = cache[RKey]
    /\ Forget(RKey)
    /\ Increment("paired")
    /\ rpc' = "report"
    /\ UNCHANGED <<timers, rmsg, rpos, timer, process, history, overlap>>

\* Bug for comparison: a null pair goes through to deleteTimer.
ReportNull ==
    /\ RAt("report")
    /\ reported' = reported \cup {<<rpair, rmsg>>}
    /\ rpc' = "find"
    /\ UNCHANGED <<cache, timers, stats, rmsg, rpair, rpos, timer, process,
                   arrived, expiries, overlap>>

\* reporter_->reportPair(pair, msg) reads both messages: a null pair is
\* dereferenced at once.
Report ==
    /\ RAt("report")
    /\ IF rpair = NoMsg
       THEN /\ process' = "crashed"
            /\ UNCHANGED <<rpc, reported>>
       ELSE /\ reported' = reported \cup {<<rpair, rmsg>>}
            /\ rpc' = "find"
            /\ UNCHANGED process
    /\ UNCHANGED <<cache, timers, stats, rmsg, rpair, rpos, timer, arrived,
                   expiries, overlap>>

\* reportPair throws ThriftServerCommunicationError: nobody catches it before
\* main, which prints it and returns.
ReportFails ==
    /\ RAt("report")
    /\ rpair # NoMsg
    /\ process' = "exited"
    /\ UNCHANGED <<cache, timers, stats, receiver, timer, history, overlap>>

\* handleMessage returns.
Return == rpc' = "idle" /\ rmsg' = NoMsg /\ rpair' = NoMsg /\ rpos' = 0

\* pool_->deleteTimer(pair->getSessionID()): first timer with that id.
FindTimer ==
    /\ RAt("find")
    /\ LET Matches == {i \in 1..Len(timers) : FirstTimer(i, KeyOf[rpair])}
       IN IF Matches = {}
          THEN Return
          ELSE /\ rpos' \in Matches
               /\ rpc' = "erase"
               /\ UNCHANGED <<rmsg, rpair>>
    /\ UNCHANGED <<cache, timers, stats, timer, process, history, overlap>>

EraseTimer ==
    /\ RAt("erase")
    /\ EraseAt(rpos)
    /\ IF tpc = "erase"
       THEN overlap' = TRUE /\ tpos' \in Shifted(tpos)
       ELSE UNCHANGED <<overlap, tpos>>
    /\ Return
    /\ UNCHANGED <<cache, stats, tpc, thand, history>>

\* msg_cache_->add: throws when the key is there already, which ends main.
Add ==
    /\ RAt("add")
    /\ IF Holds(RKey)
       THEN process' = "exited" /\ UNCHANGED <<cache, rpc>>
       ELSE Store(rmsg) /\ rpc' = "arm" /\ UNCHANGED process
    /\ UNCHANGED <<timers, stats, rmsg, rpair, rpos, timer, history, overlap>>

\* pool_->addNewTimer(msg->getSessionID()): push_back holds the mutex, but an
\* erase by the timer thread does not. An erase under way can overwrite the
\* end of the deque and lose the new timer, or take the new last element off
\* in place of its own.
Arm ==
    /\ RAt("arm")
    /\ IF tpc = "erase"
       THEN /\ overlap' = TRUE
            /\ \/ timers' = Append(timers, rmsg)
                  /\ tpos' \in {tpos, Len(timers) + 1}
               \/ UNCHANGED <<timers, tpos>>
       ELSE /\ timers' = Append(timers, rmsg)
            /\ UNCHANGED <<overlap, tpos>>
    /\ Return
    /\ UNCHANGED <<cache, stats, tpc, thand, process, history>>

-----------------------------------------------------------------------------
(* Timer thread: TimerPool::timerPoolProcessor *)

\* retrieve_one_if(current_time > deadline): the deadlines do not decrease
\* along the queue, so the first match is the first timer.
FindExpired ==
    /\ TAt("scan")
    /\ timers # <<>>
    /\ thand' = Head(timers)
    /\ tpos' = 1
    /\ tpc' = "erase"
    /\ UNCHANGED <<cache, timers, stats, receiver, process, history, overlap>>

\* Bug for comparison: an expired timer is read and left in the queue.
EraseNothing ==
    /\ TAt("erase")
    /\ tpos' = 0
    /\ tpc' = "expire"
    /\ UNCHANGED <<cache, timers, stats, receiver, thand, process, history,
                   overlap>>

EraseExpired ==
    /\ TAt("erase")
    /\ EraseAt(tpos)
    /\ IF rpc = "erase"
       THEN overlap' = TRUE /\ rpos' \in Shifted(rpos)
       ELSE UNCHANGED <<overlap, rpos>>
    /\ tpos' = 0
    /\ tpc' = "expire"
    /\ UNCHANGED <<cache, stats, rpc, rmsg, rpair, thand, history>>

\* handler_->onTimerExpiry(id): pop_object(id), whatever is cached there now.
OnTimerExpiry ==
    /\ TAt("expire")
    /\ LET k == KeyOf[thand]
       IN /\ Forget(k)
          /\ expiries' = IF Holds(k)
                         THEN expiries \cup {<<cache[k], thand>>}
                         ELSE expiries
    /\ Increment("expired")
    /\ tpc' = "scan"
    /\ thand' = NoMsg
    /\ UNCHANGED <<timers, receiver, tpos, process, arrived, reported, overlap>>

\* Unsynchronised writes to the deque may leave it corrupt.
CorruptQueue ==
    /\ Running
    /\ overlap
    /\ process' = "crashed"
    /\ UNCHANGED <<cache, timers, stats, receiver, timer, history, overlap>>

-----------------------------------------------------------------------------
ReceiverStep == \/ Lookup \/ PopPair \/ Report \/ ReportFails
                \/ FindTimer \/ EraseTimer \/ Add \/ Arm
TimerStep == FindExpired \/ EraseExpired \/ OnTimerExpiry

Next == \/ \E m \in Messages : Receive(m)
        \/ ReceiverStep
        \/ TimerStep
        \/ CorruptQueue

\* Both threads are scheduled; time passes, so a timer that stays in the
\* queue is found due at last. Nothing makes a message arrive.
Fairness == WF_vars(ReceiverStep) /\ WF_vars(TimerStep)

Spec == Init /\ [][Next]_vars /\ Fairness

-----------------------------------------------------------------------------
(* Where the messages are *)

\* A pair is made when its request leaves the cache; it is reported next, or
\* lost with the process.
Matched == reported \cup (IF rpc = "report" /\ rpair # NoMsg
                          THEN {<<rpair, rmsg>>} ELSE {})
Dropped == {e[1] : e \in expiries}
Waiting == {cache[k] : k \in Keys} \ {NoMsg}

\* Received, but not yet in a pair and not yet in the cache.
InHand == IF rpc \in {"lookup", "pop", "add"} THEN {rmsg} ELSE {}

Monitor == INSTANCE PairMonitor WITH waiting <- cache,
                                     matched <- Matched,
                                     dropped <- Dropped

-----------------------------------------------------------------------------
(* Properties *)

ReceiverSteps == {"idle", "lookup", "pop", "report", "find", "erase", "add", "arm"}

(***************************************************************************)
(* The types of the threads' variables; a step that reads msg or pair has  *)
(* one, except for the pair that pop_object may have returned as null.     *)
(***************************************************************************)
TypeOK ==
    /\ cache \in [Keys -> MsgOrNull]
    /\ timers \in Seq(Messages)
    /\ stats \in [Counters -> Nat]
    /\ rpc \in ReceiverSteps
    /\ rmsg \in MsgOrNull /\ (rpc # "idle" => rmsg \in Messages)
    /\ rpair \in MsgOrNull /\ (rpc \in {"find", "erase"} => rpair \in Messages)
    /\ rpos \in Nat
    /\ tpc \in {"scan", "erase", "expire"}
    /\ tpos \in Nat
    /\ thand \in MsgOrNull /\ (tpc # "scan" => thand \in Messages)
    /\ process \in {"running", "crashed", "exited"}
    /\ arrived \subseteq Messages
    /\ reported \subseteq Messages \X Messages
    /\ expiries \subseteq Messages \X Messages
    /\ overlap \in BOOLEAN

(***************************************************************************)
(* A message in the cache is never forgotten: the timer it armed itself is *)
(* queued, or in the timer thread's hand, or the receiver is about to arm  *)
(* it. deleteTimer looks a timer up by session id and may well delete one  *)
(* that an earlier message armed; it never takes the one that a waiting    *)
(* message depends on (SimpleSyncReceivedMessageHandler.cpp:27,34,41).     *)
(***************************************************************************)
HasOwnTimer(m) == \/ \E i \in 1..Len(timers) : timers[i] = m
                  \/ tpc = "expire" /\ thand = m
                  \/ rpc = "arm" /\ rmsg = m

CachedHasOwnTimer == ~overlap => \A m \in Waiting : HasOwnTimer(m)

(***************************************************************************)
(* What CachedHasOwnTimer needs to be inductive. A message is cached under *)
(* its own id; once the receiver has popped a pair, or has found none, the *)
(* key stays free until the receiver itself fills it; and an iterator that *)
(* a thread holds still points at the timer it was found for.              *)
(***************************************************************************)
CachedUnderOwnKey == \A k \in Keys : Holds(k) => KeyOf[cache[k]] = k

KeyStaysFree ==
    /\ rpc \in {"report", "find", "erase", "add"} => ~Holds(RKey)
    /\ rpc \in {"report", "find", "erase"} /\ rpair # NoMsg
         => KeyOf[rpair] = RKey

IteratorsValid ==
    ~overlap => /\ rpc = "erase" => /\ rpos \in 1..Len(timers)
                                    /\ KeyOf[timers[rpos]] = RKey
                /\ tpc = "erase" => /\ tpos = 1
                                    /\ Len(timers) > 0
                                    /\ timers[1] = thand

TimerInv == /\ CachedUnderOwnKey
            /\ KeyStaysFree
            /\ IteratorsValid
            /\ CachedHasOwnTimer

(***************************************************************************)
(* Each message is in one place: with the receiver, in the cache, in one   *)
(* pair, or dropped by the timer thread, although the receiver's lookup    *)
(* and pop_object are two critical sections with the timer thread's        *)
(* pop_object between them.                                                *)
(***************************************************************************)
InHandIsFresh == \A m \in InHand \cup (Messages \ arrived) : Monitor!Fresh(m)

OneFate == Monitor!OneFate /\ InHandIsFresh

(***************************************************************************)
(* Only a failing reporter makes main return: SimpleMapCache::add never    *)
(* finds its key taken, although lookup and add are separate critical      *)
(* sections.                                                               *)
(***************************************************************************)
ExitOnlyByReporter == process = "exited" => rpc = "report" /\ rpair # NoMsg

(***************************************************************************)
(* As long as the two threads did not change the timer queue at once, no   *)
(* iterator is used out of range, and the one way to crash is to report a  *)
(* pair whose request the timer thread dropped between lookup and pop.     *)
(***************************************************************************)
SomeDropped(k) == \E m \in Dropped : KeyOf[m] = k

CrashNeedsRace ==
    process = "crashed" =>
        overlap \/ (rpc = "report" /\ rpair = NoMsg /\ SomeDropped(RKey))

\* What makes it inductive: only an expiry can take back lookup's answer.
LookupStands ==
    /\ rpc = "pop" => Holds(RKey) \/ SomeDropped(RKey)
    /\ rpc = "report" /\ rpair = NoMsg => SomeDropped(RKey)

(***************************************************************************)
(* Between two messages the counters account for every message: the paired *)
(* ones twice, those in the cache, and those that were dropped.            *)
(***************************************************************************)
CountersReconcile ==
    rpc = "idle" =>
        stats["received"] = 2 * stats["paired"] + Cardinality(Waiting)
                                                + Cardinality(Dropped)

(***************************************************************************)
(* No timer fires twice, fires after it was deleted, or is deleted twice:  *)
(* of the timers armed, those that neither wait, nor are being handled,    *)
(* nor have been counted as expired are at most one per pair.              *)
(***************************************************************************)
Armed == stats["received"] - stats["paired"]
            - (IF rpc \in {"lookup", "pop", "add", "arm"} THEN 1 ELSE 0)
Deleted == Armed - (stats["expired"] + Len(timers)
                    + (IF tpc = "expire" THEN 1 ELSE 0))
TimersBalance == ~overlap => Deleted \in 0..stats["paired"]

(***************************************************************************)
(* The code keeps the promise of PairMonitor.                              *)
(***************************************************************************)
ImplementsMonitor == Monitor!Spec

(***************************************************************************)
(* A message leaves the cache at last, paired or dropped, unless the       *)
(* process ends or the threads raced on the timer queue.                   *)
(***************************************************************************)
CachedLeaves ==
    \A m \in Messages :
        (m \in Waiting) ~> (m \notin Waiting \/ overlap \/ ~Running)

-----------------------------------------------------------------------------
(* What the code's comments say, and the threads do not keep *)

(***************************************************************************)
(* "Pair found / get request from cache" (SimpleSyncReceivedMessageHandler *)
(* .cpp:19-20): the pair that is reported has a request.                   *)
(***************************************************************************)
FoundPairIsThere == rpc = "report" => rpair # NoMsg

(***************************************************************************)
(* A request is dropped when its own "maximal duration" has passed         *)
(* (pairer.ini:6), so by the timer that it armed.                          *)
(***************************************************************************)
DroppedByOwnTimer == \A e \in expiries : e[1] = e[2]

(***************************************************************************)
(* "Blocking queue is thread safe" (BlockingDequeue.h:15): whatever the    *)
(* threads do with it, it does not lose the timer of a waiting message.    *)
(***************************************************************************)
QueueKeepsTimers == \A m \in Waiting : HasOwnTimer(m)
=============================================================================
