------------------------ MODULE RadiusSessionProofs ------------------------
(***************************************************************************)
(* Proofs about RadiusSession: which messages pairer pairs, and when the   *)
(* pairs are right, for any clients, packet ids, datagram shapes and       *)
(* number of arrivals.                                                     *)
(*                                                                         *)
(* The argument goes from the network to the monitor. LogInv and AllLogged *)
(* say what the log of arrivals has, and that every datagram is in it,     *)
(* wherever it is. HandledInv and SentInv say which datagrams the loop has *)
(* handled: all that rad_recv accepted, in order, those that were sent     *)
(* among them. OneByOne is what a calm id is worth: its requests and       *)
(* answers alternate. LastWaits ties the monitor to the calls of           *)
(* handleMessage, and Alternates says what the last of them was. That the  *)
(* pairs are neighbours is an invariant as it stands.                      *)
(***************************************************************************)
EXTENDS RadiusSession, RadiusProxyProofs, FiniteSetTheorems

-----------------------------------------------------------------------------
(* The invariant *)

LoggedEntry == [packet : Datagrams, trans : Nat]

\* A transaction is named by its first request, which has the same id. An
\* answer is whole.
LogInv ==
    /\ log \in Seq(LoggedEntry)
    /\ Len(log) = arrivals
    /\ \A n \in 1..Len(log) :
          LET t == log[n].trans
          IN /\ log[n].packet.n = n
             /\ t \in 1..n
             /\ ~IsAnswer(t)
             /\ log[t].packet.id = log[n].packet.id
             /\ IsAnswer(n) => Whole(log[n].packet.shape)
    /\ calm \in [Ids -> BOOLEAN]

\* The log has this datagram, at its number.
Logged(d) == d.n \in 1..Len(log) /\ log[d.n].packet = d

AllLogged ==
    /\ \A i \in 1..Len(socket) : Logged(socket[i])
    /\ \A i \in 1..Len(taken) : Logged(taken[i])
    /\ \A i \in 1..Len(handled) : Logged(handled[i])
    /\ \A i \in 1..Len(sent) : Logged(sent[i].packet)
    /\ dest # "none" => Logged(buffered)
    /\ pc = "handle" => Logged(msg)

Handled(d) == \E i \in 1..Len(handled) : handled[i] = d

\* Datagrams are handled in order, each that is whole, and the last of those
\* taken is in hand.
HandledInv ==
    /\ \A i, j \in 1..Len(handled) : i < j => handled[i].n < handled[j].n
    /\ \A i \in 1..Len(handled) : handled[i].n <= Len(taken)
    /\ pc = "handle" => /\ Len(taken) \in 1..Len(taken)
                        /\ msg = taken[Len(taken)]
                        /\ \A i \in 1..Len(handled) : handled[i].n < Len(taken)
    /\ pc \notin {"exited", "terminated"} =>
          \A i \in 1..Len(taken) :
              Whole(taken[i].shape) /\ ~(pc = "handle" /\ i = Len(taken))
                  => Handled(taken[i])

\* Whole packets are handled before they are sent.
SentInv ==
    /\ \A j \in 1..Len(sent) :
          Whole(sent[j].packet.shape) => Handled(sent[j].packet)
    /\ pc = "send" /\ dest # "none" /\ Whole(buffered.shape)
          => Handled(buffered)

\* The transaction had an answer when the m-th datagram arrived.
AnsweredBefore(t, m) == \E a \in 1..m-1 : IsAnswer(a) /\ log[a].trans = t

\* On a calm id each transaction has one request, handled before its answer
\* arrives, and one answer, which arrives before the next transaction begins.
OneByOne ==
    \A n \in 1..Len(log) :
        calm[log[n].packet.id] =>
            /\ ~IsAnswer(n) => log[n].trans = n
            /\ IsAnswer(n) => \E i \in 1..Len(handled) : handled[i].n = log[n].trans
            /\ \A m \in n+1..Len(log) :
                  log[m].packet.id = log[n].packet.id =>
                      IF log[m].trans = log[n].trans
                      THEN ~(IsAnswer(m) /\ IsAnswer(n))
                      ELSE AnsweredBefore(log[n].trans, m)

\* The i-th call of handleMessage is the last with its id.
LastCall(i) == \A k \in i+1..Len(handled) : handled[k].id # handled[i].id

\* What waits was handled last; what was paired or dropped was handled.
LastWaits ==
    /\ Pairs!Inv
    /\ \A i \in 1..Len(handled) : \E k \in 1..Len(handled) :
          handled[k].id = handled[i].id /\ LastCall(k)
    /\ \A id \in Ids : waiting[id] # Nothing =>
          \E i \in 1..Len(handled) : /\ handled[i] = waiting[id]
                                     /\ handled[i].id = id
                                     /\ LastCall(i)
    /\ \A p \in matched : Handled(p[1]) /\ Handled(p[2])
    /\ \A d \in dropped : Handled(d)
    /\ IsFiniteSet(dropped)

DropsEven(id) == Cardinality(DroppedOf(id)) % 2 = 0

\* The last message handled under a calm id is an answer, if one waits
\* and the number of messages dropped is odd, or neither.
Alternates ==
    \A i \in 1..Len(handled) :
        calm[handled[i].id] /\ LastCall(i) =>
           (IsAnswer(handled[i].n)
              <=> (waiting[handled[i].id] = Nothing <=> DropsEven(handled[i].id)))

\* An answer that was handled has been paired with its request.
AnswersPaired ==
    \A i \in 1..Len(handled) :
        LET d == handled[i]
        IN IsAnswer(d.n) /\ calm[d.id] /\ DroppedOf(d.id) = {}
              => \E p \in matched : p[2] = d /\ Right(p)

-----------------------------------------------------------------------------
(* The steps *)

PairsProofs == INSTANCE PairMonitorProofs
               WITH Messages <- Datagrams, Keys <- Ids,
                    KeyOf <- [d \in Datagrams |-> d.id], NoMsg <- Nothing

\* A datagram arrives and is logged.
Labelled(d, t) == /\ Arrives(d)
                  /\ log' = Append(log, [packet |-> d, trans |-> t])
                  /\ UNCHANGED monitor

\* It begins transaction t, or is one more of it.
Joins(d, t) == /\ Labelled(d, t)
               /\ IF t = d.n
                  THEN d.src # Server
                  ELSE /\ t \in 1..Len(log)
                       /\ ~IsAnswer(t)
                       /\ log[t].packet.id = d.id
                       /\ d.src = Server => Whole(d.shape)
               /\ calm' \in [Ids -> BOOLEAN]
               /\ \A id \in Ids : calm'[id] => calm[id]

\* The loop goes on, and handles nothing.
Moves == /\ Idle \/ SendBuffered \/ CopyPacket \/ Taking
         /\ UNCHANGED <<monitor, labels>>

\* The message in hand is paired or held.
Handles == /\ Handling
           /\ Pairs!Hold(msg) \/ Pairs!Match(msg)
           /\ UNCHANGED labels

\* A message that waits is dropped.
Drops(id) == Pairs!Drop(id) /\ UNCHANGED <<vars, labels>>

\* An entry of the log.
LEMMA EntryOfLog ==
    ASSUME LogInv, NEW n \in 1..Len(log)
    PROVE  /\ log[n].packet \in Datagrams
           /\ log[n].trans \in 1..n
           /\ log[n].trans \in 1..Len(log)
           /\ log[n].packet.n = n
           /\ ~IsAnswer(log[n].trans)
           /\ log[log[n].trans].packet.id = log[n].packet.id
           /\ IsAnswer(n) => Whole(log[n].packet.shape)
<1>1. log \in Seq(LoggedEntry) /\ Len(log) \in Nat
  BY LenProperties DEF LogInv
<1>2. log[n] \in LoggedEntry
  BY <1>1, ElementOfSeq
<1>3. log[n].packet \in Datagrams /\ log[n].trans \in Nat
  BY <1>2 DEF LoggedEntry
<1>4. /\ log[n].packet.n = n /\ log[n].trans \in 1..n
      /\ ~IsAnswer(log[n].trans)
      /\ log[log[n].trans].packet.id = log[n].packet.id
      /\ IsAnswer(n) => Whole(log[n].packet.shape)
  BY DEF LogInv
<1> QED BY <1>1, <1>3, <1>4

\* A packet that was sent.
LEMMA EntryOfSent ==
    ASSUME TypeOK, NEW j \in 1..Len(sent)
    PROVE  sent[j].packet \in Datagrams
<1>1. sent[j] \in [packet : Datagrams, bytes : Nat,
                   to : Clients \cup {Server, NoAddr}]
  BY ElementOfSeq DEF TypeOK
<1> QED BY <1>1

\* What Arrive does, named by what arrives.
LEMMA ArriveLabelled ==
    ASSUME TypeOK, LogInv, NEW id \in Ids, NEW a \in Clients \cup {Server},
           NEW s \in Shapes, NEW t \in Nat,
           Arrive(id, a, s), a = Server => Asked(id), Label(t), UNCHANGED monitor
    PROVE  \E d \in Datagrams : /\ Labelled(d, t)
                                /\ d.n = arrivals + 1
                                /\ d.id = id /\ d.src = a /\ d.shape = s
<1> DEFINE d == [n |-> arrivals + 1, id |-> id, src |-> a, shape |-> s]
<1>1. d \in Datagrams
  BY ProxyAssumption DEF Arrive, TypeOK, Datagrams
<1>2. d.n = arrivals + 1 /\ d.id = id /\ d.src = a /\ d.shape = s
  OBVIOUS
<1>3. /\ pc \notin {"init", "exited", "terminated"}
      /\ arrivals' = arrivals + 1
      /\ socket' = Append(socket, d)
      /\ UNCHANGED <<pc, buffer, clients, msg, taken, handled, sent>>
  BY DEF Arrive
<1> HIDE DEF d
<1>4. Last(socket') = d
  <2>1. /\ Len(socket') = Len(socket) + 1
        /\ socket'[Len(socket) + 1] = d
    BY <1>1, <1>3, Appended DEF TypeOK
  <2> QED BY <2>1 DEF Last
<1> QED BY <1>1, <1>2, <1>3, <1>4 DEF Labelled, Arrives, Label

\* Calm is lost at most.
LEMMA CalmFalls ==
    ASSUME LogInv, NEW i \in Ids, NEW b,
           calm' = [calm EXCEPT ![i] = @ /\ b] \/ calm' = [calm EXCEPT ![i] = FALSE]
    PROVE  /\ calm' \in [Ids -> BOOLEAN]
           /\ \A id \in Ids : calm'[id] => calm[id]
BY DEF LogInv

\* A transaction is a number.
LEMMA JoinsType ==
    ASSUME TypeOK, LogInv, NEW d \in Datagrams, NEW t, Joins(d, t)
    PROVE  t \in Nat
BY DatagramFields, ProxyAssumption DEF Joins

LEMMA NewTransactionJoins ==
    ASSUME TypeOK, LogInv, NEW c \in Clients, NEW id \in Ids, NEW s \in Shapes,
           NewTransaction(c, id, s)
    PROVE  \E d \in Datagrams :
              /\ Joins(d, d.n)
              /\ d.src # Server
              /\ calm' = [calm EXCEPT ![d.id] = @ /\ ~InUse(d.id)]
<1>1. arrivals + 1 \in Nat /\ c # Server /\ c \in Clients \cup {Server}
  BY ProxyAssumption DEF TypeOK
<1>2. PICK d \in Datagrams : /\ Labelled(d, arrivals + 1)
                             /\ d.n = arrivals + 1 /\ d.id = id /\ d.src = c
  BY <1>1, ArriveLabelled DEF NewTransaction, Request
<1>3. calm' = [calm EXCEPT ![d.id] = @ /\ ~InUse(d.id)]
  BY <1>2 DEF NewTransaction
<1> QED BY <1>1, <1>2, <1>3, CalmFalls DEF Joins

LEMMA RetransmitJoins ==
    ASSUME TypeOK, LogInv, NEW n \in 1..Len(log), Retransmit(n)
    PROVE  \E d \in Datagrams :
              /\ Joins(d, log[n].trans)
              /\ d.src # Server
              /\ d.id = log[n].packet.id
              /\ calm' = [calm EXCEPT ![d.id] = FALSE]
<1> DEFINE e == log[n].packet
<1>1. e \in Datagrams /\ log[n].trans \in Nat
  BY EntryOfLog
<1>2. e.id \in Ids /\ e.src \in Clients \cup {Server} /\ e.shape \in Shapes
      /\ e.src # Server
  BY <1>1, DatagramFields DEF Retransmit, IsAnswer
<1>3. PICK d \in Datagrams : /\ Labelled(d, log[n].trans)
                             /\ d.n = arrivals + 1
                             /\ d.id = e.id /\ d.src = e.src
  BY <1>1, <1>2, ArriveLabelled DEF Retransmit, Request
<1>4. calm' = [calm EXCEPT ![d.id] = FALSE]
  BY <1>3 DEF Retransmit
<1>5. /\ log[n].trans \in 1..Len(log) /\ log[n].trans # d.n
      /\ ~IsAnswer(log[n].trans)
      /\ log[log[n].trans].packet.id = d.id
  BY <1>3, EntryOfLog DEF LogInv
<1> QED BY <1>2, <1>3, <1>4, <1>5, CalmFalls DEF Joins

LEMMA ServerAnswersJoins ==
    ASSUME TypeOK, LogInv, AllLogged, NEW j \in 1..Len(sent), NEW s \in Shapes,
           ServerAnswers(j, s)
    PROVE  \E d \in Datagrams :
              LET e == sent[j].packet
                  t == log[e.n].trans
              IN /\ Joins(d, t)
                 /\ d.src = Server
                 /\ d.id = e.id
                 /\ Whole(d.shape)
                 /\ Reached(sent[j])
                 /\ calm' = [calm EXCEPT ![d.id] = @ /\ ~AnswerSent(t)]
<1> DEFINE e == sent[j].packet
           t == log[e.n].trans
<1>1. e \in Datagrams /\ e.id \in Ids /\ Logged(e)
  BY EntryOfSent, DatagramFields DEF AllLogged
<1>2. t \in Nat
  BY <1>1, EntryOfLog DEF Logged
<1>3. /\ Arrive(e.id, Server, s) /\ Asked(e.id) /\ Whole(s)
      /\ Label(t) /\ UNCHANGED monitor /\ Reached(sent[j])
      /\ calm' = [calm EXCEPT ![e.id] = @ /\ ~AnswerSent(t)]
  BY DEF ServerAnswers, Answer
<1> HIDE DEF e, t
<1>4. PICK d \in Datagrams : /\ Labelled(d, t) /\ d.n = arrivals + 1
                             /\ d.id = e.id /\ d.src = Server /\ d.shape = s
  BY <1>1, <1>2, <1>3, ArriveLabelled
<1>5. t \in 1..Len(log) /\ t # d.n /\ ~IsAnswer(t) /\ log[t].packet.id = d.id
  BY <1>1, <1>4, EntryOfLog DEF Logged, LogInv, t
<1>6. calm' = [calm EXCEPT ![d.id] = @ /\ ~AnswerSent(t)]
  BY <1>3, <1>4
<1>7. /\ calm' \in [Ids -> BOOLEAN]
      /\ \A id \in Ids : calm'[id] => calm[id]
  <2>1. d.id \in Ids
    BY <1>1, <1>4
  <2> QED BY ONLY LogInv, <1>6, <2>1, CalmFalls
<1>8. Joins(d, t)
  BY <1>3, <1>4, <1>5, <1>7 DEF Joins
<1> QED BY <1>3, <1>4, <1>6, <1>8 DEF e, t

\* What the invariant sees of a step.
LEMMA SessionCases ==
    ASSUME TypeOK, LogInv, AllLogged, [SessionNext]_sessionVars
    PROVE  \/ \E d \in Datagrams, t \in Nat : Joins(d, t)
           \/ Moves \/ Handles
           \/ \E id \in Ids : Drops(id)
           \/ UNCHANGED sessionVars
<1>1. ASSUME NEW c \in Clients, NEW id \in Ids, NEW s \in Shapes,
             NewTransaction(c, id, s)
      PROVE  \E d \in Datagrams, t \in Nat : Joins(d, t)
  BY <1>1, NewTransactionJoins, JoinsType
<1>2. ASSUME NEW n \in 1..Len(log), Retransmit(n)
      PROVE  \E d \in Datagrams, t \in Nat : Joins(d, t)
  BY <1>2, RetransmitJoins, JoinsType
<1>3. ASSUME NEW j \in 1..Len(sent), NEW s \in Shapes, ServerAnswers(j, s)
      PROVE  \E d \in Datagrams, t \in Nat : Joins(d, t)
  BY <1>3, ServerAnswersJoins, JoinsType
<1>4. CASE Loop
  BY <1>4 DEF Loop, Moves, Idle, Taking
<1>5. CASE PairIsGone
  BY <1>5 DEF PairIsGone, Moves, Idle
<1>6. CASE Handle \/ ReporterThrows
  BY <1>6 DEF Handle, ReporterThrows, Handles, Handling
<1>7. ASSUME NEW id \in Ids, Expire(id) PROVE Drops(id)
  BY <1>7 DEF Expire, Drops
<1> QED BY <1>1, <1>2, <1>3, <1>4, <1>5, <1>6, <1>7 DEF SessionNext

\* A step of the session is a step of the proxy, or of neither loop nor network.
LEMMA StepsOfProxy ==
    ASSUME TypeOK, LogInv, AllLogged, [SessionNext]_sessionVars
    PROVE  [Next]_vars
<1>1. ASSUME NEW c \in Clients, NEW id \in Ids, NEW s \in Shapes,
             NewTransaction(c, id, s)
      PROVE  Next
  BY <1>1 DEF NewTransaction, Next, Network
<1>2. ASSUME NEW n \in 1..Len(log), Retransmit(n) PROVE Next
  <2> DEFINE e == log[n].packet
  <2>1. e \in Datagrams
    BY EntryOfLog
  <2>2. e.src \in Clients /\ e.id \in Ids /\ e.shape \in Shapes
    BY <1>2, <2>1, DatagramFields DEF Retransmit, IsAnswer
  <2>3. Request(e.src, e.id, e.shape)
    BY <1>2 DEF Retransmit
  <2> HIDE DEF e
  <2> QED BY <2>2, <2>3 DEF Next, Network
<1>3. ASSUME NEW j \in 1..Len(sent), NEW s \in Shapes, ServerAnswers(j, s)
      PROVE  Next
  <2>1. sent[j].packet.id \in Ids /\ Answer(sent[j].packet.id, s)
    BY <1>3, EntryOfSent, DatagramFields DEF ServerAnswers
  <2> QED BY <2>1 DEF Next, Network
<1>4. CASE Loop
  BY <1>4 DEF Loop, Next, Receiver
<1>5. CASE PairIsGone \/ Handle \/ ReporterThrows
  BY <1>5 DEF PairIsGone, Handle, ReporterThrows, Next, Receiver
<1>6. ASSUME NEW id \in Ids, Expire(id) PROVE UNCHANGED vars
  BY <1>6 DEF Expire
<1>7. CASE UNCHANGED sessionVars
  BY <1>7 DEF sessionVars
<1> QED BY <1>1, <1>2, <1>3, <1>4, <1>5, <1>6, <1>7 DEF SessionNext

-----------------------------------------------------------------------------
(* The log *)

\* The log after a step, as far as the invariant looks at it.
LEMMA LogGrows ==
    ASSUME TypeOK, LogInv, NEW d \in Datagrams, NEW t, Joins(d, t)
    PROVE  /\ log' \in Seq(LoggedEntry)
           /\ Len(log) \in Nat /\ Len(log') = Len(log) + 1
           /\ d.n = Len(log')
           /\ \A n \in 1..Len(log) : log'[n] = log[n]
           /\ log'[Len(log')].packet = d
           /\ log'[Len(log')].trans = t
           /\ arrivals' = arrivals + 1
<1> DEFINE e == [packet |-> d, trans |-> t]
<1>1. e \in LoggedEntry /\ e.packet = d /\ e.trans = t
  BY JoinsType DEF LoggedEntry
<1>2. /\ log' = Append(log, e) /\ log \in Seq(LoggedEntry)
      /\ Len(log) = arrivals /\ d.n = arrivals + 1 /\ arrivals' = arrivals + 1
  BY DEF Joins, Labelled, Arrives, LogInv
<1> HIDE DEF e
<1>3. /\ log' \in Seq(LoggedEntry)
      /\ Len(log) \in Nat /\ Len(log') = Len(log) + 1
      /\ \A n \in 1..Len(log) : log'[n] = log[n]
      /\ log'[Len(log) + 1] = e
  BY <1>1, <1>2, Appended
<1>4. log'[Len(log')] = e /\ d.n = Len(log')
  BY <1>2, <1>3
<1>5. log'[Len(log')].packet = d /\ log'[Len(log')].trans = t
  <2>1. log'[Len(log')].packet = e.packet /\ log'[Len(log')].trans = e.trans
    BY ONLY <1>4
  <2> QED BY ONLY <1>1, <2>1
<1> QED BY <1>2, <1>3, <1>4, <1>5

LEMMA SessionLog ==
    ASSUME TypeOK, LogInv, AllLogged, [SessionNext]_sessionVars
    PROVE  LogInv'
<1>1. ASSUME NEW d \in Datagrams, NEW t \in Nat, Joins(d, t)
      PROVE  LogInv'
  <2>1. /\ log' \in Seq(LoggedEntry)
        /\ Len(log) \in Nat /\ Len(log') = Len(log) + 1
        /\ d.n = Len(log')
        /\ \A n \in 1..Len(log) : log'[n] = log[n]
        /\ log'[Len(log')].packet = d
        /\ log'[Len(log')].trans = t
        /\ arrivals' = arrivals + 1
    BY <1>1, LogGrows
  <2>2. ASSUME NEW n \in 1..Len(log')
        PROVE  LET u == log'[n].trans
               IN /\ log'[n].packet.n = n
                  /\ u \in 1..n
                  /\ log'[u].packet.src # Server
                  /\ log'[u].packet.id = log'[n].packet.id
                  /\ log'[n].packet.src = Server => Whole(log'[n].packet.shape)
    <3>1. CASE n \in 1..Len(log)
      <4>1. log[n].trans \in 1..Len(log)
        BY <3>1, EntryOfLog
      <4> QED BY <2>1, <3>1, <4>1, EntryOfLog DEF IsAnswer
    <3>2. CASE n = Len(log')
      <4>1. CASE t = d.n
        BY <1>1, <2>1, <3>2, <4>1 DEF Joins
      <4>2. CASE t # d.n
        <5>1. /\ t \in 1..Len(log) /\ ~IsAnswer(t)
              /\ log[t].packet.id = d.id
              /\ d.src = Server => Whole(d.shape)
          BY <1>1, <4>2 DEF Joins
        <5> QED BY <2>1, <3>2, <5>1 DEF IsAnswer
      <4> QED BY <4>1, <4>2
    <3> QED BY <2>1, <3>1, <3>2
  <2>3. \A n \in 1..Len(log') :
          LET u == log'[n].trans
          IN /\ log'[n].packet.n = n
             /\ u \in 1..n
             /\ log'[u].packet.src # Server
             /\ log'[u].packet.id = log'[n].packet.id
             /\ log'[n].packet.src = Server => Whole(log'[n].packet.shape)
    BY <2>2
  <2>4. calm' \in [Ids -> BOOLEAN] /\ Len(log') = arrivals'
    BY <1>1, <2>1 DEF Joins, LogInv
  <2> QED BY <2>1, <2>3, <2>4 DEF LogInv, IsAnswer, Whole
<1>2. CASE UNCHANGED <<labels, arrivals>>
  <2>1. UNCHANGED <<log, calm, arrivals>>
    BY <1>2 DEF labels
  <2> QED BY <2>1 DEF LogInv, IsAnswer, Whole
<1>3. CASE \/ Moves \/ Handles \/ \E id \in Ids : Drops(id)
           \/ UNCHANGED sessionVars
  BY <1>2, <1>3, IdleMoves, TakingMoves
     DEF Moves, SendBuffered, CopyPacket, Handles, Handling, HandleMessage,
         HandlerThrows, Drops, sessionVars, vars, history
<1> QED BY <1>1, <1>3, SessionCases

\* What the log has it keeps, with its number.
LEMMA LoggedStays ==
    ASSUME TypeOK, LogInv, AllLogged, [SessionNext]_sessionVars
    PROVE  /\ \A d : Logged(d) => Logged(d)'
           /\ \A n \in 1..Len(log) : /\ n \in 1..Len(log')
                                     /\ log'[n] = log[n]
                                     /\ (IsAnswer(n)' <=> IsAnswer(n))
<1>1. ASSUME NEW d \in Datagrams, NEW t \in Nat, Joins(d, t)
      PROVE  \A n \in 1..Len(log) : /\ n \in 1..Len(log')
                                    /\ log'[n] = log[n]
                                    /\ (IsAnswer(n)' <=> IsAnswer(n))
  <2>1. /\ Len(log) \in Nat /\ Len(log') = Len(log) + 1
        /\ \A n \in 1..Len(log) : log'[n] = log[n]
    BY <1>1, LogGrows
  <2> SUFFICES ASSUME NEW n \in 1..Len(log)
               PROVE  /\ n \in 1..Len(log')
                      /\ log'[n] = log[n]
                      /\ IsAnswer(n)' <=> IsAnswer(n)
    OBVIOUS
  <2>2. n \in 1..Len(log') /\ log'[n] = log[n]
    BY <2>1
  <2> QED BY <2>2 DEF IsAnswer
<1>2. CASE log' = log
  BY <1>2 DEF IsAnswer, Logged
<1>3. CASE \/ Moves \/ Handles \/ \E id \in Ids : Drops(id)
           \/ UNCHANGED sessionVars
  BY <1>2, <1>3 DEF Moves, Handles, Drops, sessionVars, labels
<1>4. \A n \in 1..Len(log) : /\ n \in 1..Len(log')
                             /\ log'[n] = log[n]
                             /\ (IsAnswer(n)' <=> IsAnswer(n))
  BY <1>1, <1>3, SessionCases
<1> QED BY <1>4 DEF Logged

LEMMA SessionLogged ==
    ASSUME TypeOK, HoldsHead, LogInv, AllLogged, [SessionNext]_sessionVars
    PROVE  AllLogged'
<1> DEFINE In(d) == d.n \in 1..Len(log') /\ log'[d.n].packet = d
<1>1. \A d : Logged(d) => In(d)
  BY LoggedStays DEF Logged
<1>2. SUFFICES /\ \A i \in 1..Len(socket') : In(socket'[i])
               /\ \A i \in 1..Len(taken') : In(taken'[i])
               /\ \A i \in 1..Len(handled') : In(handled'[i])
               /\ \A i \in 1..Len(sent') : In(sent'[i].packet)
               /\ dest' # "none" => In(buffered')
               /\ pc' = "handle" => In(msg')
  BY DEF AllLogged, Logged
<1>3. ASSUME NEW d \in Datagrams, NEW t \in Nat, Joins(d, t)
      PROVE  /\ \A i \in 1..Len(socket') : In(socket'[i])
             /\ UNCHANGED <<pc, taken, handled, sent, buffer, msg>>
  <2>1. /\ socket' = Append(socket, d)
        /\ UNCHANGED <<pc, taken, handled, sent, buffer, msg>>
    BY <1>3 DEF Joins, Labelled, Arrives
  <2>2. In(d)
    BY <1>3, LogGrows
  <2>3. /\ Len(socket) \in Nat /\ Len(socket') = Len(socket) + 1
        /\ \A i \in 1..Len(socket) : socket'[i] = socket[i]
        /\ socket'[Len(socket) + 1] = d
    BY <2>1, Appended DEF TypeOK
  <2> HIDE DEF In
  <2> QED BY <1>1, <2>1, <2>2, <2>3 DEF AllLogged
<1> HIDE DEF In
<1>4. CASE \E d \in Datagrams, t \in Nat : Joins(d, t)
  BY <1>1, <1>3, <1>4 DEF AllLogged, buffer
<1>5. CASE Idle
  BY <1>1, <1>5, IdleMoves DEF AllLogged, buffer, history
<1>6. CASE SendBuffered
  <2>1. CASE dest = "none"
    BY <1>1, <1>6, <2>1 DEF SendBuffered, SendOut, AllLogged, buffer
  <2>2. CASE dest # "none"
    BY <1>1, <1>6, <2>2, SendingMoves DEF AllLogged
  <2> QED BY <2>1, <2>2
<1>7. CASE CopyPacket
  BY <1>1, <1>7, CopyingMoves DEF AllLogged, buffer, history
<1>8. CASE Taking
  <2>1. /\ taken' = Append(taken, Head(socket))
        /\ socket' = Tail(socket) /\ socket # <<>>
        /\ pc' = "handle" => msg' = Head(socket)
        /\ UNCHANGED <<buffer, handled, sent>>
    BY <1>8, TakingMoves
  <2>2. /\ 1 \in 1..Len(socket) /\ Len(socket) \in Nat
        /\ Head(socket) = socket[1] /\ Head(socket) \in Datagrams
        /\ Len(socket') = Len(socket) - 1
        /\ \A i \in 1..Len(socket') : socket'[i] = socket[i + 1]
    BY <2>1, HeadAndTail DEF TypeOK
  <2>3. /\ Len(taken) \in Nat /\ Len(taken') = Len(taken) + 1
        /\ \A i \in 1..Len(taken) : taken'[i] = taken[i]
        /\ taken'[Len(taken) + 1] = Head(socket)
    BY <2>1, <2>2, Appended DEF TypeOK
  <2>4. \A i \in 1..Len(socket') : In(socket'[i])
    <3> SUFFICES ASSUME NEW i \in 1..Len(socket') PROVE In(socket'[i])
      OBVIOUS
    <3>1. i + 1 \in 1..Len(socket)
      BY <2>2
    <3> QED BY <1>1, <2>2, <3>1 DEF AllLogged
  <2> QED BY <1>1, <2>1, <2>2, <2>3, <2>4 DEF AllLogged, buffer
<1>9. CASE Handling
  <2>1. /\ pc = "handle" /\ msg \in Datagrams /\ pc' # "handle"
        /\ handled' = Append(handled, msg)
        /\ UNCHANGED <<socket, buffer, taken, sent>>
    BY <1>9 DEF Handling, HandleMessage, HandlerThrows, At, HoldsHead
  <2>2. /\ Len(handled) \in Nat /\ Len(handled') = Len(handled) + 1
        /\ \A i \in 1..Len(handled) : handled'[i] = handled[i]
        /\ handled'[Len(handled) + 1] = msg
    BY <2>1, Appended DEF TypeOK
  <2> QED BY <1>1, <2>1, <2>2 DEF AllLogged, buffer
<1>10. CASE UNCHANGED vars
  BY <1>1, <1>10 DEF vars, AllLogged
<1> QED BY <1>4, <1>5, <1>6, <1>7, <1>8, <1>9, <1>10, SessionCases
        DEF Moves, Handles, Drops, sessionVars

-----------------------------------------------------------------------------
(* What was handled *)

\* A call of handleMessage.
LEMMA HandlingMoves ==
    ASSUME TypeOK, HoldsHead, Handling
    PROVE  /\ pc = "handle" /\ pc' \in {"send", "exited"}
           /\ msg \in Datagrams
           /\ Len(handled) \in Nat /\ Len(handled') = Len(handled) + 1
           /\ \A i \in 1..Len(handled) : handled'[i] = handled[i]
           /\ handled'[Len(handled) + 1] = msg
           /\ UNCHANGED <<socket, buffer, clients, arrivals, taken, sent>>
<1>1. /\ pc = "handle" /\ pc' \in {"send", "exited"} /\ msg \in Datagrams
      /\ handled' = Append(handled, msg)
      /\ UNCHANGED <<socket, buffer, clients, arrivals, taken, sent>>
  BY DEF Handling, HandleMessage, HandlerThrows, At, HoldsHead
<1> QED BY <1>1, Appended DEF TypeOK

\* What was handled stays so.
LEMMA HandledStays ==
    ASSUME TypeOK, HoldsHead, [Next]_vars
    PROVE  /\ handled' = handled \/ Handling
           /\ \A d : Handled(d) => Handled(d)'
           /\ \A i \in 1..Len(handled) : i \in 1..Len(handled')
                                         /\ handled'[i] = handled[i]
<1>1. handled' = handled \/ Handling
  BY NextCases, IdleMoves, TakingMoves
     DEF Arrives, SendBuffered, CopyPacket, vars, history
<1>2. \A i \in 1..Len(handled) : i \in 1..Len(handled') /\ handled'[i] = handled[i]
  BY <1>1, HandlingMoves
<1> QED BY <1>1, <1>2 DEF Handled

\* A datagram of handled, or of the datagrams taken.
LEMMA ElementsAreDatagrams ==
    ASSUME TypeOK
    PROVE  /\ Len(taken) \in Nat /\ Len(handled) \in Nat
           /\ \A i \in 1..Len(taken) : taken[i] \in Datagrams
           /\ \A i \in 1..Len(handled) : handled[i] \in Datagrams
BY ElementOfSeq, LenProperties DEF TypeOK

LEMMA NextHandled ==
    TypeOK /\ HoldsHead /\ Numbered /\ HandledInv /\ [Next]_vars => HandledInv'
<1> SUFFICES ASSUME TypeOK, HoldsHead, Numbered, HandledInv, [Next]_vars
             PROVE  HandledInv'
  OBVIOUS
<1>0. /\ Len(taken) \in Nat /\ Len(handled) \in Nat
      /\ \A i \in 1..Len(taken) : taken[i] \in Datagrams
      /\ \A i \in 1..Len(handled) : handled[i] \in Datagrams /\ handled[i].n \in Nat
  BY ElementsAreDatagrams, DatagramFields, ProxyAssumption
<1>1. CASE /\ UNCHANGED <<handled, taken>>
           /\ \/ UNCHANGED <<pc, msg>>
              \/ pc # "handle" /\ pc' # "handle" /\ pc \notin {"exited", "terminated"}
              \/ pc' = "terminated"
  BY <1>1 DEF HandledInv, Handled, Whole
<1>2. CASE \/ \E d \in Datagrams : Arrives(d)
           \/ Idle \/ SendBuffered \/ CopyPacket \/ UNCHANGED vars
  <2>1. CASE \/ \E d \in Datagrams : Arrives(d)
             \/ UNCHANGED vars
    BY <1>1, <2>1 DEF Arrives, vars
  <2>2. CASE Idle
    BY <1>1, <2>2, IdleMoves DEF history
  <2>3. CASE SendBuffered \/ CopyPacket
    BY <1>1, <2>3 DEF SendBuffered, CopyPacket, At, history
  <2> QED BY <1>2, <2>1, <2>2, <2>3
<1>3. CASE Taking
  <2>1. /\ pc = "recv" /\ socket # <<>>
        /\ taken' = Append(taken, Head(socket))
        /\ \/ pc' = "send" /\ ~Whole(Head(socket).shape)
           \/ pc' = "handle" /\ msg' = Head(socket)
        /\ handled' = handled
    BY <1>3, TakingMoves
  <2>2. /\ Len(taken') = Len(taken) + 1
        /\ \A i \in 1..Len(taken) : taken'[i] = taken[i]
        /\ taken'[Len(taken) + 1] = Head(socket)
    BY <2>1, HeadOfSocket, Appended DEF TypeOK
  <2>3. /\ \A i, j \in 1..Len(handled) : i < j => handled[i].n < handled[j].n
        /\ \A i \in 1..Len(handled) : handled[i].n <= Len(taken)
        /\ \A i \in 1..Len(taken) : Whole(taken[i].shape) => Handled(taken[i])
    BY <2>1 DEF HandledInv
  <2>4. \A i \in 1..Len(handled) : handled[i].n < Len(taken')
    BY <1>0, <2>2, <2>3
  <2>5. \A i \in 1..Len(taken') :
           Whole(taken'[i].shape) /\ ~(pc' = "handle" /\ i = Len(taken'))
              => \E k \in 1..Len(handled) : handled[k] = taken'[i]
    BY <1>0, <2>1, <2>2, <2>3 DEF Handled
  <2>6. pc' = "handle" => /\ Len(taken') \in 1..Len(taken')
                          /\ msg' = taken'[Len(taken')]
    BY <1>0, <2>1, <2>2
  <2>7. \A i \in 1..Len(handled) : handled[i].n <= Len(taken')
    BY <1>0, <2>2, <2>4
  <2> QED BY <2>1, <2>3, <2>4, <2>5, <2>6, <2>7 DEF HandledInv, Handled, Whole
<1>4. CASE Handling
  <2>1. /\ pc = "handle" /\ pc' \in {"send", "exited"}
        /\ msg \in Datagrams
        /\ Len(handled') = Len(handled) + 1
        /\ \A i \in 1..Len(handled) : handled'[i] = handled[i]
        /\ handled'[Len(handled) + 1] = msg
        /\ taken' = taken
    BY <1>4, HandlingMoves
  <2>2. /\ Len(taken) \in 1..Len(taken) /\ msg = taken[Len(taken)]
        /\ msg.n = Len(taken)
        /\ \A i \in 1..Len(handled) : handled[i].n < Len(taken)
    BY <2>1 DEF HandledInv, Numbered
  <2>3. \A i, j \in 1..Len(handled') : i < j => handled'[i].n < handled'[j].n
    <3> SUFFICES ASSUME NEW i \in 1..Len(handled'), NEW j \in 1..Len(handled'),
                        i < j
                 PROVE  handled'[i].n < handled'[j].n
      OBVIOUS
    <3>1. i \in 1..Len(handled) /\ handled'[i] = handled[i]
      BY <1>0, <2>1
    <3>2. CASE j \in 1..Len(handled)
      BY <2>1, <3>1, <3>2 DEF HandledInv
    <3>3. CASE j = Len(handled) + 1
      BY <2>1, <2>2, <3>1, <3>3
    <3> QED BY <1>0, <2>1, <3>2, <3>3
  <2>4. \A i \in 1..Len(handled') : handled'[i].n <= Len(taken)
    BY <1>0, <2>1, <2>2
  <2>5. \A i \in 1..Len(taken) : Whole(taken[i].shape) =>
           \E k \in 1..Len(handled') : handled'[k] = taken[i]
    <3> SUFFICES ASSUME NEW i \in 1..Len(taken), Whole(taken[i].shape)
                 PROVE  \E k \in 1..Len(handled') : handled'[k] = taken[i]
      OBVIOUS
    <3>1. CASE i = Len(taken)
      BY <1>0, <2>1, <2>2, <3>1
    <3>2. CASE i # Len(taken)
      <4>1. Handled(taken[i])
        BY <2>1, <3>2 DEF HandledInv
      <4> QED BY <1>0, <2>1, <4>1 DEF Handled
    <3> QED BY <3>1, <3>2
  <2> QED BY <2>1, <2>3, <2>4, <2>5 DEF HandledInv, Handled, Whole
<1> QED BY <1>2, <1>3, <1>4, NextCases

LEMMA NextSent ==
    TypeOK /\ HoldsHead /\ SentInv /\ [Next]_vars => SentInv'
<1> SUFFICES ASSUME TypeOK, HoldsHead, SentInv, [Next]_vars PROVE SentInv'
  OBVIOUS
<1>0. \A d : Handled(d) => Handled(d)'
  BY HandledStays
<1>1. CASE SendBuffered /\ dest # "none"
  <2>1. /\ pc = "send" /\ pc' = "select" /\ dest' = "none"
        /\ Len(sent) \in Nat /\ Len(sent') = Len(sent) + 1
        /\ \A i \in 1..Len(sent) : sent'[i] = sent[i]
        /\ sent'[Len(sent) + 1].packet = buffered
        /\ handled' = handled
    BY <1>1, SendingMoves
  <2>2. \A j \in 1..Len(sent') :
           Whole(sent'[j].packet.shape) => Handled(sent'[j].packet)
    BY <1>1, <2>1 DEF SentInv
  <2> QED BY <2>1, <2>2 DEF SentInv, Handled, Whole
<1>2. CASE ~(SendBuffered /\ dest # "none")
  <2>1. sent' = sent
    BY <1>2, NextCases, IdleMoves, TakingMoves
       DEF Arrives, SendBuffered, SendOut, CopyPacket, Handling, HandleMessage,
           HandlerThrows, vars, history
  <2>2. \A j \in 1..Len(sent') :
           Whole(sent[j].packet.shape)' => Handled(sent[j].packet)'
    BY <1>0, <2>1 DEF SentInv, Whole, Handled
  <2>3. SUFFICES ASSUME pc' = "send", dest' # "none", Whole(buffered'.shape)
                 PROVE  \E k \in 1..Len(handled') : handled'[k] = buffered'
    BY <2>2 DEF SentInv, Handled, Whole
  <2>4. CASE /\ pc = "send" /\ UNCHANGED <<dest, buffered>>
    BY <1>0, <2>3, <2>4 DEF SentInv, Handled
  <2>5. CASE Idle
    BY <2>3, <2>5, IdleMoves DEF HoldsHead, buffer
  <2>6. CASE Taking
    <3>1. /\ pc = "recv" /\ ~Whole(Head(socket).shape)
          /\ UNCHANGED <<buffered, dest>>
      BY <2>3, <2>6, TakingMoves DEF buffer
    <3> QED BY <2>3, <3>1 DEF HoldsHead
  <2>7. CASE Handling
    <3>1. buffered' = buffered /\ dest' = dest /\ buffered = msg
      BY <2>3, <2>7, HandlingMoves DEF HoldsHead, buffer
    <3> QED BY <2>7, <3>1, HandlingMoves
  <2> QED BY <2>3, <2>4, <2>5, <2>6, <2>7, NextCases
          DEF Arrives, SendBuffered, CopyPacket, At, vars, buffer
<1> QED BY <1>1, <1>2

-----------------------------------------------------------------------------
(* Calm ids *)

\* What keeps an id calm when a datagram joins it.
JoinsCalmly(d, t) ==
    calm'[d.id] =>
        /\ d.src # Server => t = d.n
        /\ d.src = Server => \E i \in 1..Len(handled) : handled[i].n = t
        /\ \A n \in 1..Len(log) :
              log[n].packet.id = d.id =>
                  IF t = log[n].trans
                  THEN ~(d.src = Server /\ IsAnswer(n))
                  ELSE AnswerSent(log[n].trans)

LEMMA CalmJoinKeeps ==
    ASSUME TypeOK, LogInv, OneByOne,
           NEW d \in Datagrams, NEW t \in Nat, Joins(d, t), JoinsCalmly(d, t)
    PROVE  OneByOne'
<1> DEFINE L == Len(log)
<1>1. /\ L \in Nat /\ Len(log') = L + 1 /\ d.n = L + 1
      /\ \A n \in 1..L : log'[n] = log[n]
      /\ log'[L + 1].packet = d /\ log'[L + 1].trans = t
      /\ handled' = handled
      /\ \A id \in Ids : calm'[id] => calm[id]
  BY LogGrows DEF Joins, Labelled, Arrives
<1>2. \A n \in 1..L : log[n].packet.id \in Ids
  BY EntryOfLog, DatagramFields
<1>3. ASSUME NEW n \in 1..L, calm'[log[n].packet.id],
             NEW m \in n+1..L+1, log'[m].packet.id = log[n].packet.id
      PROVE  IF log'[m].trans = log[n].trans
             THEN ~(log'[m].packet.src = Server /\ IsAnswer(n))
             ELSE \E a \in 1..m-1 : log'[a].packet.src = Server
                                    /\ log'[a].trans = log[n].trans
  <2>1. CASE m \in 1..L
    <3>1. calm[log[n].packet.id] /\ m \in n+1..L /\ log'[m] = log[m]
      BY <1>1, <1>2, <1>3, <2>1
    <3>2. IF log[m].trans = log[n].trans
          THEN ~(IsAnswer(m) /\ IsAnswer(n))
          ELSE AnsweredBefore(log[n].trans, m)
      BY <1>3, <3>1 DEF OneByOne
    <3>3. ASSUME AnsweredBefore(log[n].trans, m)
          PROVE  \E a \in 1..m-1 : log'[a].packet.src = Server
                                   /\ log'[a].trans = log[n].trans
      <4>1. PICK a \in 1..m-1 : IsAnswer(a) /\ log[a].trans = log[n].trans
        BY <3>3 DEF AnsweredBefore
      <4>2. a \in 1..L
        BY <1>1, <2>1, <4>1
      <4> QED BY <1>1, <4>1, <4>2 DEF IsAnswer
    <3> QED BY <3>1, <3>2, <3>3 DEF IsAnswer
  <2>2. CASE m = L + 1
    <3>1. IF t = log[n].trans
          THEN ~(d.src = Server /\ IsAnswer(n))
          ELSE AnswerSent(log[n].trans)
      BY <1>1, <1>3, <2>2 DEF JoinsCalmly
    <3>2. ASSUME AnswerSent(log[n].trans)
          PROVE  \E a \in 1..m-1 : log'[a].packet.src = Server
                                   /\ log'[a].trans = log[n].trans
      <4>1. PICK a \in 1..L : IsAnswer(a) /\ log[a].trans = log[n].trans
        BY <3>2 DEF AnswerSent
      <4> QED BY <1>1, <2>2, <4>1 DEF IsAnswer
    <3> QED BY <1>1, <2>2, <3>1, <3>2
  <2> QED BY <1>1, <2>1, <2>2
<1>4. ASSUME NEW n \in 1..L+1, calm'[log'[n].packet.id]
      PROVE  /\ log'[n].packet.src # Server => log'[n].trans = n
             /\ log'[n].packet.src = Server =>
                   \E i \in 1..Len(handled) : handled[i].n = log'[n].trans
             /\ \A m \in n+1..L+1 :
                   log'[m].packet.id = log'[n].packet.id =>
                      IF log'[m].trans = log'[n].trans
                      THEN ~(log'[m].packet.src = Server
                             /\ log'[n].packet.src = Server)
                      ELSE \E a \in 1..m-1 : log'[a].packet.src = Server
                                             /\ log'[a].trans = log'[n].trans
  <2>1. CASE n \in 1..L
    <3>1. log'[n] = log[n] /\ calm[log[n].packet.id]
      BY <1>1, <1>2, <1>4, <2>1
    <3>2. /\ ~IsAnswer(n) => log[n].trans = n
          /\ IsAnswer(n) => \E i \in 1..Len(handled) : handled[i].n = log[n].trans
      BY <2>1, <3>1 DEF OneByOne
    <3>3. \A m \in n+1..L+1 :
             log'[m].packet.id = log[n].packet.id =>
                IF log'[m].trans = log[n].trans
                THEN ~(log'[m].packet.src = Server /\ log[n].packet.src = Server)
                ELSE \E a \in 1..m-1 : log'[a].packet.src = Server
                                       /\ log'[a].trans = log[n].trans
      BY <1>3, <1>4, <2>1, <3>1 DEF IsAnswer
    <3> QED BY <3>1, <3>2, <3>3 DEF IsAnswer
  <2>2. CASE n = L + 1
    <3>1. n+1..L+1 = {}
      BY <1>1, <2>2
    <3>2. /\ d.src # Server => t = d.n
          /\ d.src = Server => \E i \in 1..Len(handled) : handled[i].n = t
      BY <1>1, <1>4, <2>2 DEF JoinsCalmly
    <3> QED BY <1>1, <2>2, <3>1, <3>2
  <2> QED BY <1>1, <2>1, <2>2
<1>5. Len(log') = L + 1 /\ handled' = handled
  BY <1>1
<1> HIDE DEF L
<1> QED BY ONLY <1>4, <1>5 DEF OneByOne, IsAnswer, AnsweredBefore

LEMMA NewTransactionCalm ==
    ASSUME TypeOK, LogInv, AllLogged, OneByOne, NEW c \in Clients,
           NEW id \in Ids, NEW s \in Shapes, NewTransaction(c, id, s)
    PROVE  OneByOne'
<1>1. PICK d \in Datagrams :
         /\ Joins(d, d.n)
         /\ d.src # Server
         /\ calm' = [calm EXCEPT ![d.id] = @ /\ ~InUse(d.id)]
  BY NewTransactionJoins
<1>2. d.id \in Ids /\ d.n \in Nat /\ d.n = Len(log) + 1 /\ Len(log) \in Nat
  BY <1>1, DatagramFields, ProxyAssumption, LenProperties
     DEF Joins, Labelled, Arrives, LogInv
<1>3. ASSUME calm'[d.id], NEW n \in 1..Len(log), log[n].packet.id = d.id
      PROVE  d.n # log[n].trans /\ AnswerSent(log[n].trans)
  <2>1. ~InUse(d.id)
    BY <1>1, <1>2, <1>3 DEF LogInv
  <2>2. Concluded(log[n].trans)
    BY <1>3, <2>1 DEF InUse
  <2>3. PICK j \in 1..Len(sent) : /\ IsAnswer(sent[j].packet.n)
                                  /\ log[sent[j].packet.n].trans = log[n].trans
    BY <2>2 DEF Concluded
  <2>4. sent[j].packet.n \in 1..Len(log)
    BY DEF AllLogged, Logged
  <2> QED BY <1>2, <2>3, <2>4, EntryOfLog DEF AnswerSent
<1>4. JoinsCalmly(d, d.n)
  BY <1>1, <1>3 DEF JoinsCalmly
<1> QED BY <1>1, <1>2, <1>4, CalmJoinKeeps

LEMMA RetransmitCalm ==
    ASSUME TypeOK, LogInv, OneByOne, NEW n \in 1..Len(log), Retransmit(n)
    PROVE  OneByOne'
<1>1. PICK d \in Datagrams : /\ Joins(d, log[n].trans)
                             /\ calm' = [calm EXCEPT ![d.id] = FALSE]
  BY RetransmitJoins
<1>2. d.id \in Ids /\ log[n].trans \in Nat
  BY <1>1, DatagramFields, EntryOfLog
<1>3. JoinsCalmly(d, log[n].trans)
  BY <1>1, <1>2 DEF JoinsCalmly, LogInv
<1> QED BY <1>1, <1>2, <1>3, CalmJoinKeeps

LEMMA ServerAnswersCalm ==
    ASSUME TypeOK, AskedFirst, LogInv, AllLogged, SentInv, OneByOne,
           NEW j \in 1..Len(sent), NEW s \in Shapes, ServerAnswers(j, s)
    PROVE  OneByOne'
<1> DEFINE e == sent[j].packet
           t == log[e.n].trans
<1>1. PICK d \in Datagrams :
         /\ Joins(d, t)
         /\ d.src = Server
         /\ d.id = e.id
         /\ Reached(sent[j])
         /\ calm' = [calm EXCEPT ![d.id] = @ /\ ~AnswerSent(t)]
  BY ServerAnswersJoins
<1>2. e.n \in 1..Len(log) /\ log[e.n].packet = e
  BY DEF AllLogged, Logged
<1>3. FromClient(e) /\ Whole(e.shape) /\ Handled(e)
  BY <1>1 DEF Reached, AskedFirst, SentInv
<1> HIDE DEF e
<1>4. ~IsAnswer(e.n) /\ d.id \in Ids /\ t \in Nat /\ Len(log) \in Nat
  BY <1>2, <1>3, DatagramFields, EntryOfLog, ProxyAssumption, LenProperties
     DEF FromClient, IsAnswer, LogInv
<1>5. ASSUME calm'[d.id]
      PROVE  /\ \E i \in 1..Len(handled) : handled[i].n = t
             /\ \A n \in 1..Len(log) :
                   log[n].packet.id = d.id =>
                       IF t = log[n].trans
                       THEN ~IsAnswer(n)
                       ELSE AnswerSent(log[n].trans)
  <2>1. calm[d.id] /\ ~AnswerSent(t)
    BY <1>1, <1>4, <1>5 DEF LogInv
  <2>2. t = e.n
    BY <1>1, <1>2, <1>4, <2>1 DEF OneByOne
  <2>3. \E i \in 1..Len(handled) : handled[i].n = t
    BY <1>3, <2>2 DEF Handled
  <2>4. ASSUME NEW n \in 1..Len(log), log[n].packet.id = d.id, t # log[n].trans
        PROVE  AnswerSent(log[n].trans)
    <3>1. CASE n < e.n
      <4>1. e.n \in n+1..Len(log) /\ calm[log[n].packet.id]
        BY <1>2, <2>1, <2>4, <3>1
      <4>2. AnsweredBefore(log[n].trans, e.n)
        BY <1>1, <1>2, <2>4, <4>1 DEF OneByOne
      <4> QED BY <1>2, <1>4, <4>2 DEF AnsweredBefore, AnswerSent
    <3>2. CASE e.n < n
      <4>1. n \in e.n+1..Len(log) /\ calm[log[e.n].packet.id]
        BY <1>1, <1>2, <1>4, <2>1, <2>4, <3>2
      <4>2. AnsweredBefore(t, n)
        BY <1>1, <1>2, <2>4, <4>1 DEF OneByOne
      <4>3. AnswerSent(t)
        BY <1>4, <4>2 DEF AnsweredBefore, AnswerSent
      <4> QED BY <2>1, <4>3
    <3> QED BY <1>2, <2>4, <3>1, <3>2
  <2>5. ASSUME NEW n \in 1..Len(log), t = log[n].trans PROVE ~IsAnswer(n)
    BY <2>1, <2>5 DEF AnswerSent
  <2> HIDE DEF t
  <2> QED BY <2>3, <2>4, <2>5
<1>6. JoinsCalmly(d, t)
  BY <1>1, <1>5 DEF JoinsCalmly
<1> QED BY <1>1, <1>4, <1>6, CalmJoinKeeps

LEMMA SessionOneByOne ==
    ASSUME TypeOK, HoldsHead, AskedFirst, LogInv, AllLogged, SentInv, OneByOne,
           [SessionNext]_sessionVars
    PROVE  OneByOne'
<1>1. ASSUME UNCHANGED labels PROVE OneByOne'
  <2>1. \A i \in 1..Len(handled) : i \in 1..Len(handled')
                                   /\ handled'[i] = handled[i]
    BY StepsOfProxy, HandledStays
  <2> QED BY <1>1, <2>1 DEF labels, OneByOne, IsAnswer, AnsweredBefore
<1> QED BY <1>1, NewTransactionCalm, RetransmitCalm, ServerAnswersCalm
        DEF SessionNext, Loop, Handle, ReporterThrows, PairIsGone, Expire,
            sessionVars

-----------------------------------------------------------------------------
(* The monitor behind the loop *)

KeyOfDatagram == [d \in Datagrams |-> d.id]

LEMMA DatagramKeys == /\ KeyOfDatagram \in [Datagrams -> Ids]
                      /\ Nothing \notin Datagrams
BY DatagramFields DEF KeyOfDatagram

\* The promise and the module that proves it are the same formulas.
LEMMA SameInv == /\ Pairs!Inv <=> PairsProofs!Inv
                 /\ Pairs!Inv' <=> PairsProofs!Inv'
BY DEF Pairs!Inv, Pairs!TypeOK, Pairs!WaitsAtItsKey, Pairs!PairsShareKey,
       Pairs!OneFate, Pairs!Waiting, Pairs!Asked, Pairs!Answered,
       Pairs!MsgOrNull,
       PairsProofs!Inv, PairsProofs!TypeOK, PairsProofs!WaitsAtItsKey,
       PairsProofs!PairsShareKey, PairsProofs!OneFate, PairsProofs!Waiting,
       PairsProofs!Asked, PairsProofs!Answered, PairsProofs!MsgOrNull

\* A message that waits.
LEMMA WaitingOne ==
    ASSUME Pairs!Inv, NEW id \in Ids, waiting[id] # Nothing
    PROVE  /\ waiting[id] \in Datagrams
           /\ waiting[id].id = id
           /\ waiting[id] \notin dropped
<1>1. waiting[id] \in Datagrams
  BY DEF Pairs!Inv, Pairs!TypeOK, Pairs!MsgOrNull
<1>2. waiting[id].id = id
  BY <1>1 DEF Pairs!Inv, Pairs!WaitsAtItsKey
<1>3. Pairs!Waiting(waiting[id])
  BY DEF Pairs!Waiting
<1>4. waiting[id] \notin dropped
  BY <1>1, <1>3 DEF Pairs!Inv, Pairs!OneFate
<1> QED BY <1>1, <1>2, <1>4

\* A message is held, or makes a pair.
LEMMA MonitorMoves ==
    ASSUME TypeOK, HoldsHead, Handles
    PROVE  /\ msg \in Datagrams /\ msg.id \in Ids /\ msg \notin dropped
           /\ \/ /\ waiting[msg.id] = Nothing
                 /\ waiting' = [waiting EXCEPT ![msg.id] = msg]
                 /\ matched' = matched
              \/ /\ waiting[msg.id] # Nothing
                 /\ waiting' = [waiting EXCEPT ![msg.id] = Nothing]
                 /\ matched' = matched \cup {<<waiting[msg.id], msg>>}
           /\ UNCHANGED <<dropped, log, calm>>
<1>1. msg \in Datagrams /\ msg.id \in Ids
  BY HandlingMoves, DatagramFields DEF Handles
<1>2. [d \in Datagrams |-> d.id][msg] = msg.id
  BY <1>1
<1> QED BY <1>1, <1>2 DEF Handles, Pairs!Hold, Pairs!Match, Pairs!Fresh, labels

LEMMA MonitorInv ==
    ASSUME TypeOK, HoldsHead, LogInv, AllLogged, Pairs!Inv,
           [SessionNext]_sessionVars
    PROVE  Pairs!Inv' /\ [Pairs!Next]_(Pairs!monitorVars)
<1>1. [Pairs!Next]_(Pairs!monitorVars)
  BY SessionCases, MonitorMoves
     DEF Joins, Labelled, Moves, Handles, Drops, Pairs!Next,
         Pairs!monitorVars, sessionVars, monitor
<1>2. [PairsProofs!Next]_(PairsProofs!monitorVars)
  BY <1>1 DEF Pairs!Next, Pairs!Hold, Pairs!Match, Pairs!Drop, Pairs!Fresh,
              Pairs!Waiting, Pairs!Asked, Pairs!Answered, Pairs!monitorVars,
              PairsProofs!Next, PairsProofs!Hold, PairsProofs!Match,
              PairsProofs!Drop, PairsProofs!Fresh, PairsProofs!Waiting,
              PairsProofs!Asked, PairsProofs!Answered, PairsProofs!monitorVars
<1>3. PairsProofs!Inv
  BY SameInv
<1>4. PairsProofs!Inv'
  BY <1>2, <1>3, PairsProofs!NextInv, DatagramKeys DEF KeyOfDatagram
<1>5. Pairs!Inv'
  BY <1>4, SameInv
<1> QED BY <1>1, <1>5

\* A call of handleMessage is the last with its id, as long as none comes.
LEMMA SessionLastWaits ==
    ASSUME TypeOK, HoldsHead, LogInv, AllLogged, LastWaits,
           [SessionNext]_sessionVars
    PROVE  LastWaits'
<1> DEFINE L == Len(handled)
           Last1(i) == \A k \in i+1..Len(handled') : handled'[k].id # handled'[i].id
<1>0. Pairs!Inv' /\ Pairs!Inv
  BY MonitorInv DEF LastWaits
<1>1. CASE UNCHANGED <<handled, monitor>>
  <2>1. UNCHANGED <<handled, waiting, matched, dropped>>
    BY <1>1 DEF monitor
  <2>2. /\ \A i : LastCall(i)' <=> LastCall(i)
        /\ \A d : Handled(d)' <=> Handled(d)
    BY <2>1 DEF LastCall, Handled
  <2>3. /\ \A i \in 1..Len(handled') : \E k \in 1..Len(handled') :
             handled'[k].id = handled'[i].id /\ LastCall(k)'
        /\ \A id \in Ids : waiting'[id] # Nothing =>
             \E i \in 1..Len(handled') : /\ handled'[i] = waiting'[id]
                                         /\ handled'[i].id = id
                                         /\ LastCall(i)'
    BY <2>1, <2>2 DEF LastWaits
  <2>4. /\ \A p \in matched' : Handled(p[1])' /\ Handled(p[2])'
        /\ \A d \in dropped' : Handled(d)'
        /\ IsFiniteSet(dropped')
    BY <2>1, <2>2 DEF LastWaits
  <2> QED BY <1>0, <2>3, <2>4 DEF LastWaits
<1>2. CASE Handles
  <2>1. /\ L \in Nat /\ Len(handled') = L + 1
        /\ \A i \in 1..L : handled'[i] = handled[i]
        /\ handled'[L + 1] = msg
    BY <1>2, HandlingMoves DEF Handles
  <2>2. /\ msg \in Datagrams /\ msg.id \in Ids /\ dropped' = dropped
        /\ \/ /\ waiting[msg.id] = Nothing
              /\ waiting' = [waiting EXCEPT ![msg.id] = msg]
              /\ matched' = matched
           \/ /\ waiting[msg.id] # Nothing
              /\ waiting' = [waiting EXCEPT ![msg.id] = Nothing]
              /\ matched' = matched \cup {<<waiting[msg.id], msg>>}
    BY <1>2, MonitorMoves
  <2>3. ASSUME NEW i \in 1..L, LastCall(i), handled[i].id # msg.id
        PROVE  i \in 1..L+1 /\ Last1(i)
    BY <2>1, <2>3 DEF LastCall
  <2>4. L + 1 \in 1..L+1 /\ Last1(L + 1)
    BY <2>1
  <2>5. ASSUME NEW i \in 1..L+1
        PROVE  \E k \in 1..L+1 : handled'[k].id = handled'[i].id /\ Last1(k)
    <3>1. CASE handled'[i].id = msg.id
      BY <2>1, <2>4, <3>1
    <3>2. CASE handled'[i].id # msg.id
      <4>1. i \in 1..L /\ handled'[i] = handled[i]
        BY <2>1, <3>2
      <4>2. PICK k \in 1..L : handled[k].id = handled[i].id /\ LastCall(k)
        BY <4>1 DEF LastWaits
      <4>3. k \in 1..L+1 /\ Last1(k)
        BY <2>3, <3>2, <4>1, <4>2
      <4> HIDE DEF Last1
      <4> QED BY <2>1, <4>1, <4>2, <4>3
    <3> QED BY <3>1, <3>2
  <2>6. ASSUME NEW id \in Ids, waiting'[id] # Nothing
        PROVE  \E i \in 1..L+1 : /\ handled'[i] = waiting'[id]
                                 /\ handled'[i].id = id
                                 /\ Last1(i)
    <3>1. waiting \in [Ids -> Datagrams \cup {Nothing}]
      BY <1>0 DEF Pairs!Inv, Pairs!TypeOK, Pairs!MsgOrNull
    <3>2. CASE id = msg.id
      <4>1. waiting'[id] = msg
        BY <2>2, <2>6, <3>1, <3>2
      <4> HIDE DEF Last1
      <4> QED BY <2>1, <2>4, <3>2, <4>1
    <3>3. CASE id # msg.id
      <4>1. waiting'[id] = waiting[id]
        BY <2>2, <3>1, <3>3
      <4>2. PICK i \in 1..L : /\ handled[i] = waiting[id]
                               /\ handled[i].id = id
                               /\ LastCall(i)
        BY <2>6, <4>1 DEF LastWaits
      <4>3. i \in 1..L+1 /\ Last1(i)
        BY <2>3, <3>3, <4>2
      <4> HIDE DEF Last1
      <4> QED BY <2>1, <4>1, <4>2, <4>3
    <3> QED BY <3>2, <3>3
  <2>7. \A d : Handled(d) => \E i \in 1..L+1 : handled'[i] = d
    BY <2>1 DEF Handled
  <2>8. \A p \in matched' : /\ \E i \in 1..L+1 : handled'[i] = p[1]
                            /\ \E i \in 1..L+1 : handled'[i] = p[2]
    <3> SUFFICES ASSUME NEW p \in matched'
                 PROVE  /\ \E i \in 1..L+1 : handled'[i] = p[1]
                        /\ \E i \in 1..L+1 : handled'[i] = p[2]
      OBVIOUS
    <3>1. CASE p \in matched
      BY <2>7, <3>1 DEF LastWaits
    <3>2. CASE waiting[msg.id] # Nothing /\ p = <<waiting[msg.id], msg>>
      <4>1. p[1] = waiting[msg.id] /\ p[2] = msg
        BY <3>2
      <4>2. Handled(p[1])
        BY <2>2, <3>2, <4>1 DEF LastWaits, Handled
      <4> QED BY <2>1, <2>7, <4>1, <4>2
    <3> QED BY <2>2, <3>1, <3>2
  <2>9. IsFiniteSet(dropped') /\ \A d \in dropped' : \E i \in 1..L+1 : handled'[i] = d
    BY <2>2, <2>7 DEF LastWaits
  <2> QED BY <1>0, <2>1, <2>5, <2>6, <2>8, <2>9 DEF LastWaits, LastCall, Handled
<1>3. ASSUME NEW id \in Ids, Drops(id) PROVE LastWaits'
  <2>1. /\ waiting[id] # Nothing /\ handled' = handled /\ matched' = matched
        /\ waiting' = [waiting EXCEPT ![id] = Nothing]
        /\ dropped' = dropped \cup {waiting[id]}
    BY <1>3 DEF Drops, Pairs!Drop, vars
  <2>2. IsFiniteSet(dropped')
    BY <2>1, FS_AddElement DEF LastWaits
  <2>3. Handled(waiting[id])
    BY <2>1 DEF LastWaits, Handled
  <2>4. \A j \in Ids : waiting'[j] # Nothing => waiting'[j] = waiting[j]
    BY <1>0, <2>1 DEF Pairs!Inv, Pairs!TypeOK
  <2> QED BY <1>0, <2>1, <2>2, <2>3, <2>4 DEF LastWaits, LastCall, Handled
<1> QED BY <1>1, <1>2, <1>3, SessionCases, IdleMoves, TakingMoves
        DEF Joins, Labelled, Arrives, Moves, SendBuffered, CopyPacket,
            sessionVars, vars, history

\* What is handled next under a calm id: an answer after its request, or a
\* request after an answer.
LEMMA NextInOrder ==
    ASSUME TypeOK, Numbered, LogInv, AllLogged, HandledInv, OneByOne,
           pc = "handle", calm[msg.id]
    PROVE  /\ IsAnswer(msg.n) =>
                 \E i \in 1..Len(handled) : handled[i].id = msg.id
           /\ \A l \in 1..Len(handled) :
                 handled[l].id = msg.id /\ LastCall(l) =>
                    /\ IsAnswer(msg.n) <=> ~IsAnswer(handled[l].n)
                    /\ IsAnswer(msg.n) =>
                          log[handled[l].n].trans = log[msg.n].trans
<1> DEFINE n == msg.n
           t == log[msg.n].trans
<1>1. /\ Len(taken) \in 1..Len(taken) /\ msg = taken[Len(taken)]
      /\ n = Len(taken) /\ n \in 1..Len(log) /\ log[n].packet = msg
      /\ \A i \in 1..Len(handled) : handled[i].n < n
  BY DEF HandledInv, Numbered, AllLogged, Logged
<1>2. ASSUME NEW i \in 1..Len(handled)
      PROVE  handled[i].n \in 1..Len(log) /\ log[handled[i].n].packet = handled[i]
  BY DEF AllLogged, Logged
<1>3. ASSUME NEW i \in 1..Len(handled), NEW l \in 1..Len(handled),
             handled[i].id = msg.id, handled[l].id = msg.id, LastCall(l)
      PROVE  handled[i].n <= handled[l].n /\ (i # l => handled[i].n < handled[l].n)
  <2>1. ~(i > l)
    BY <1>3, ElementsAreDatagrams DEF LastCall
  <2>2. i < l => handled[i].n < handled[l].n
    BY DEF HandledInv
  <2> QED BY <1>2, <2>1, <2>2
<1>4. calm[log[n].packet.id] /\ t \in 1..n /\ t \in 1..Len(log)
      /\ ~IsAnswer(t) /\ log[t].packet.id = msg.id
  BY <1>1, EntryOfLog
<1> HIDE DEF n, t
<1>5. ASSUME IsAnswer(n)
      PROVE  /\ \E i \in 1..Len(handled) : handled[i].id = msg.id
             /\ \A l \in 1..Len(handled) :
                   handled[l].id = msg.id /\ LastCall(l) => handled[l].n = t
  <2>1. log[n].trans = t /\ log[t].trans = t
    BY <1>1, <1>4 DEF OneByOne, n, t
  <2>2. PICK i \in 1..Len(handled) : handled[i].n = t
    BY <1>1, <1>4, <1>5, <2>1 DEF OneByOne
  <2>3. handled[i].id = msg.id
    BY <1>2, <1>4, <2>2
  <2>4. ASSUME NEW l \in 1..Len(handled), handled[l].id = msg.id, LastCall(l),
               handled[l].n # t
        PROVE  FALSE
    <3> DEFINE k == handled[l].n
    <3>1. t < k /\ k < n /\ k \in 1..Len(log) /\ log[k].packet.id = msg.id
      BY <1>1, <1>2, <1>3, <1>4, <2>2, <2>3, <2>4
    <3> HIDE DEF k
    <3>2. ASSUME NEW a \in 1..Len(log), a < n, IsAnswer(a), log[a].trans = t
          PROVE  FALSE
      <4>1. log[a].packet.id = msg.id
        BY <1>4, <3>2, EntryOfLog
      <4>2. n \in a+1..Len(log) /\ calm[log[a].packet.id]
            /\ log[n].packet.id = log[a].packet.id
        BY <1>1, <1>4, <3>2, <4>1
      <4> QED BY <1>5, <2>1, <3>2, <4>2 DEF OneByOne
    <3>3. CASE log[k].trans = t
      <4>1. IsAnswer(k)
        BY <1>4, <3>1, <3>3 DEF OneByOne
      <4> QED BY <3>1, <3>2, <3>3, <4>1
    <3>4. CASE log[k].trans # t
      <4>1. k \in t+1..Len(log) /\ calm[log[t].packet.id]
            /\ log[k].packet.id = log[t].packet.id
        BY <1>1, <1>4, <3>1
      <4>2. AnsweredBefore(t, k)
        BY <1>4, <2>1, <3>4, <4>1 DEF OneByOne
      <4>3. PICK a \in 1..k-1 : IsAnswer(a) /\ log[a].trans = t
        BY <4>2 DEF AnsweredBefore
      <4>4. a \in 1..Len(log) /\ a < n
        BY <1>1, <3>1, <4>3
      <4> QED BY <3>2, <4>3, <4>4
    <3> QED BY <3>3, <3>4
  <2> QED BY <2>2, <2>3, <2>4
<1>6. ASSUME ~IsAnswer(n), NEW l \in 1..Len(handled), handled[l].id = msg.id,
             LastCall(l), ~IsAnswer(handled[l].n)
      PROVE  FALSE
  <2> DEFINE k == handled[l].n
  <2>1. k < n /\ k \in 1..Len(log) /\ log[k].packet.id = msg.id
    BY <1>1, <1>2, <1>6
  <2>2. log[k].trans = k /\ log[n].trans = n
    BY <1>1, <1>4, <1>6, <2>1 DEF OneByOne
  <2>3. ~IsAnswer(k)
    BY <1>6
  <2>4. n \in k+1..Len(log) /\ calm[log[k].packet.id]
        /\ log[n].packet.id = log[k].packet.id /\ log[n].trans # log[k].trans
    BY <1>1, <1>4, <2>1, <2>2
  <2>5. AnsweredBefore(k, n)
    <3> HIDE DEF k
    <3> QED BY <2>1, <2>2, <2>4 DEF OneByOne
  <2>6. PICK a \in 1..n-1 : IsAnswer(a) /\ log[a].trans = k
    BY <2>5 DEF AnsweredBefore
  <2>7. a \in 1..Len(log) /\ a \in 1..Len(taken) /\ a # Len(taken)
    BY <1>1, <2>6
  <2>8. k < a /\ Whole(log[a].packet.shape) /\ log[a].packet.id = msg.id
        /\ log[a].packet.n = a
    <3>1. /\ log[a].trans \in 1..a /\ Whole(log[a].packet.shape)
          /\ log[a].packet.n = a
          /\ log[log[a].trans].packet.id = log[a].packet.id
      BY <2>6, <2>7, EntryOfLog
    <3>2. k # a
      BY <2>3, <2>6
    <3> HIDE DEF k
    <3> QED BY <2>1, <2>6, <3>1, <3>2
  <2>9. taken[a] = log[a].packet
    BY <2>7 DEF AllLogged, Logged, Numbered
  <2>10. PICK i \in 1..Len(handled) : handled[i] = log[a].packet
    BY <2>7, <2>8, <2>9 DEF HandledInv, Handled
  <2>11. handled[i].n <= k
    BY <1>3, <1>6, <2>8, <2>10
  <2> QED BY <2>1, <2>8, <2>10, <2>11
<1>7. ASSUME NEW l \in 1..Len(handled), handled[l].id = msg.id, LastCall(l),
             IsAnswer(n)
      PROVE  ~IsAnswer(handled[l].n) /\ log[handled[l].n].trans = t
  BY <1>4, <1>5, <1>7 DEF OneByOne
<1> QED BY <1>5, <1>6, <1>7 DEF n, t

-----------------------------------------------------------------------------
(* Right pairs *)

\* One more message is dropped.
LEMMA OneMoreDropped ==
    ASSUME Pairs!Inv, IsFiniteSet(dropped), NEW id \in Ids, Drops(id)
    PROVE  /\ waiting[id] # Nothing /\ waiting'[id] = Nothing
           /\ DropsEven(id)' <=> ~DropsEven(id)
           /\ \A j \in Ids \ {id} : /\ waiting'[j] = waiting[j]
                                    /\ DroppedOf(j)' = DroppedOf(j)
           /\ \A j : DroppedOf(j) \subseteq DroppedOf(j)'
<1>1. /\ waiting[id] # Nothing
      /\ waiting' = [waiting EXCEPT ![id] = Nothing]
      /\ dropped' = dropped \cup {waiting[id]}
      /\ waiting[id].id = id /\ waiting[id] \notin dropped
  BY WaitingOne DEF Drops, Pairs!Drop
<1>2. waiting'[id] = Nothing /\ \A j \in Ids \ {id} : waiting'[j] = waiting[j]
  BY <1>1 DEF Pairs!Inv, Pairs!TypeOK
<1>3. /\ DroppedOf(id)' = DroppedOf(id) \cup {waiting[id]}
      /\ waiting[id] \notin DroppedOf(id)
      /\ \A j \in Ids \ {id} : DroppedOf(j)' = DroppedOf(j)
      /\ \A j : DroppedOf(j) \subseteq DroppedOf(j)'
  BY <1>1 DEF DroppedOf
<1>4. IsFiniteSet(DroppedOf(id))
  BY FS_Subset DEF DroppedOf
<1>5. /\ Cardinality(DroppedOf(id)) \in Nat
      /\ Cardinality(DroppedOf(id)') = Cardinality(DroppedOf(id)) + 1
  BY <1>3, <1>4, FS_AddElement, FS_CardinalityType
<1> QED BY <1>1, <1>2, <1>3, <1>5 DEF DropsEven

\* The log has the entries of what was handled.
LEMMA HandledLogged ==
    ASSUME AllLogged, NEW d, Handled(d)
    PROVE  d.n \in 1..Len(log) /\ log[d.n].packet = d
BY DEF Handled, AllLogged, Logged

LEMMA SessionAlternates ==
    ASSUME TypeOK, HoldsHead, Numbered, LogInv, AllLogged, HandledInv,
           OneByOne, LastWaits, Alternates, [SessionNext]_sessionVars
    PROVE  Alternates'
<1> DEFINE L == Len(handled)
<1>1. \A n \in 1..Len(log) : IsAnswer(n)' <=> IsAnswer(n)
  BY LoggedStays
<1>2. \A i \in 1..L : handled[i].n \in 1..Len(log)
  BY DEF AllLogged, Logged
<1>3. \A i \in 1..L : handled[i].id \in Ids
  BY ElementsAreDatagrams, DatagramFields
<1>4. CASE /\ UNCHANGED <<handled, monitor>>
           /\ \A id \in Ids : calm'[id] => calm[id]
  <2>1. UNCHANGED <<handled, waiting, dropped>>
    BY <1>4 DEF monitor
  <2> QED BY <1>1, <1>2, <1>3, <1>4, <2>1 DEF Alternates, LastCall, DropsEven, DroppedOf
<1>5. ASSUME NEW id \in Ids, Drops(id) PROVE Alternates'
  <2>1. /\ handled' = handled /\ calm' = calm /\ log' = log
    BY <1>5 DEF Drops, vars, labels
  <2>2. /\ waiting[id] # Nothing /\ waiting'[id] = Nothing
        /\ DropsEven(id)' <=> ~DropsEven(id)
        /\ \A j \in Ids \ {id} : /\ waiting'[j] = waiting[j]
                                 /\ (DropsEven(j)' <=> DropsEven(j))
    BY <1>5, OneMoreDropped DEF LastWaits, DropsEven
  <2>3. ASSUME NEW i \in 1..L, NEW j \in Ids, j = handled[i].id,
               calm[j], LastCall(i)
        PROVE  IsAnswer(handled[i].n)
                 <=> (waiting'[j] = Nothing <=> DropsEven(j)')
    <3>1. IsAnswer(handled[i].n) <=> (waiting[j] = Nothing <=> DropsEven(j))
      BY <2>3 DEF Alternates
    <3>2. CASE j = id
      BY <2>2, <3>1, <3>2
    <3>3. CASE j # id
      BY <2>2, <3>1, <3>3
    <3> QED BY <3>2, <3>3
  <2>4. \A j : DropsEven(j)' <=> Cardinality({d \in dropped' : d.id = j}) % 2 = 0
    BY DEF DropsEven, DroppedOf
  <2>5. \A i \in 1..L : handled'[i] = handled[i] /\ (LastCall(i)' <=> LastCall(i))
    BY <2>1 DEF LastCall
  <2>6. ASSUME NEW i \in 1..L, calm[handled[i].id], LastCall(i)
        PROVE  IsAnswer(handled[i].n)
                 <=> (waiting'[handled[i].id] = Nothing
                        <=> Cardinality({d \in dropped' : d.id = handled[i].id}) % 2
                              = 0)
    BY <1>3, <2>3, <2>4, <2>6
  <2> QED BY <2>1, <2>5, <2>6 DEF Alternates, DropsEven, DroppedOf, IsAnswer, LastCall
<1>6. CASE Handles
  <2>1. /\ L \in Nat /\ Len(handled') = L + 1 /\ pc = "handle"
        /\ \A i \in 1..L : handled'[i] = handled[i]
        /\ handled'[L + 1] = msg
    BY <1>6, HandlingMoves DEF Handles
  <2>2. /\ msg.id \in Ids /\ UNCHANGED <<dropped, log, calm>>
        /\ \/ /\ waiting[msg.id] = Nothing
              /\ waiting' = [waiting EXCEPT ![msg.id] = msg]
           \/ /\ waiting[msg.id] # Nothing
              /\ waiting' = [waiting EXCEPT ![msg.id] = Nothing]
        /\ msg # Nothing
    BY <1>6, MonitorMoves, DatagramFields
  <2>3. /\ waiting'[msg.id] = Nothing <=> waiting[msg.id] # Nothing
        /\ \A j \in Ids \ {msg.id} : waiting'[j] = waiting[j]
    BY <2>2 DEF LastWaits, Pairs!Inv, Pairs!TypeOK
  <2>4. ASSUME calm[msg.id]
        PROVE  IsAnswer(msg.n)
                 <=> (waiting'[msg.id] = Nothing <=> DropsEven(msg.id))
    <3>1. CASE \E i \in 1..L : handled[i].id = msg.id
      <4>1. PICK l \in 1..L : handled[l].id = msg.id /\ LastCall(l)
        BY <3>1 DEF LastWaits
      <4>2. IsAnswer(msg.n) <=> ~IsAnswer(handled[l].n)
        BY <2>1, <2>4, <4>1, NextInOrder
      <4>3. IsAnswer(handled[l].n)
              <=> (waiting[msg.id] = Nothing <=> DropsEven(msg.id))
        BY <2>4, <4>1 DEF Alternates
      <4> QED BY <2>3, <4>2, <4>3
    <3>2. CASE ~\E i \in 1..L : handled[i].id = msg.id
      <4>1. ~IsAnswer(msg.n)
        BY <2>1, <2>4, <3>2, NextInOrder
      <4>2. waiting[msg.id] = Nothing
        BY <2>2, <3>2 DEF LastWaits
      <4>3. DroppedOf(msg.id) = {}
        BY <3>2 DEF LastWaits, Handled, DroppedOf
      <4>4. DropsEven(msg.id)
        BY <4>3, FS_EmptySet DEF DropsEven
      <4> QED BY <2>3, <4>1, <4>2, <4>4
    <3> QED BY <3>1, <3>2
  <2>5. \A j : DropsEven(j)' <=> DropsEven(j)
    BY <2>2 DEF DropsEven, DroppedOf
  <2>6. ASSUME NEW i \in 1..L+1, calm[handled'[i].id],
               \A k \in i+1..L+1 : handled'[k].id # handled'[i].id
        PROVE  log[handled'[i].n].packet.src = Server
                 <=> (waiting'[handled'[i].id] = Nothing
                        <=> DropsEven(handled'[i].id))
    <3>1. CASE i = L + 1
      BY <2>1, <2>4, <2>6, <3>1 DEF IsAnswer
    <3>2. CASE i \in 1..L
      <4>1. handled'[i] = handled[i] /\ LastCall(i) /\ handled[i].id # msg.id
        BY <2>1, <2>6, <3>2 DEF LastCall
      <4>2. waiting'[handled[i].id] = waiting[handled[i].id]
        BY <1>3, <2>3, <3>2, <4>1
      <4> QED BY <2>6, <3>2, <4>1, <4>2 DEF Alternates, IsAnswer
    <3> QED BY <2>1, <3>1, <3>2
  <2>7. \A j : DropsEven(j) <=> Cardinality({d \in dropped' : d.id = j}) % 2 = 0
    BY <2>2 DEF DropsEven, DroppedOf
  <2> QED BY <2>1, <2>2, <2>6, <2>7
          DEF Alternates, LastCall, IsAnswer, DropsEven, DroppedOf
<1> QED BY <1>4, <1>5, <1>6, SessionCases, IdleMoves, TakingMoves
        DEF Joins, Labelled, Arrives, Moves, SendBuffered, CopyPacket,
            sessionVars, vars, history, labels

\* The pair that a call of handleMessage makes on a calm id.
LEMMA PairInOrder ==
    ASSUME TypeOK, HoldsHead, Numbered, LogInv, AllLogged, HandledInv,
           OneByOne, LastWaits, Alternates, Handles, calm[msg.id],
           waiting[msg.id] # Nothing
    PROVE  Right(<<waiting[msg.id], msg>>) <=> DropsEven(msg.id)
<1> DEFINE p == <<waiting[msg.id], msg>>
<1>1. p[1] = waiting[msg.id] /\ p[2] = msg /\ pc = "handle" /\ msg.id \in Ids
  BY MonitorMoves, HandlingMoves DEF Handles
<1>2. PICK l \in 1..Len(handled) : /\ handled[l] = waiting[msg.id]
                                   /\ handled[l].id = msg.id
                                   /\ LastCall(l)
  BY <1>1 DEF LastWaits
<1>3. /\ IsAnswer(msg.n) <=> ~IsAnswer(handled[l].n)
      /\ IsAnswer(msg.n) => log[handled[l].n].trans = log[msg.n].trans
  BY <1>1, <1>2, NextInOrder
<1>4. ~IsAnswer(handled[l].n) <=> DropsEven(msg.id)
  BY <1>2 DEF Alternates
<1> HIDE DEF p
<1> QED BY <1>1, <1>2, <1>3, <1>4 DEF Right, p

LEMMA SessionAnswersPaired ==
    ASSUME TypeOK, HoldsHead, Numbered, LogInv, AllLogged, HandledInv,
           OneByOne, LastWaits, Alternates, AnswersPaired,
           [SessionNext]_sessionVars
    PROVE  AnswersPaired'
<1> DEFINE L == Len(handled)
           After(p) == /\ log'[p[1].n].packet.src # Server
                       /\ log'[p[2].n].packet.src = Server
                       /\ log'[p[1].n].trans = log'[p[2].n].trans
<1>1. \A n \in 1..Len(log) : log'[n] = log[n] /\ (IsAnswer(n)' <=> IsAnswer(n))
  BY LoggedStays
<1>2. \A p \in matched : Right(p) => After(p)
  BY <1>1, HandledLogged DEF LastWaits, Right, IsAnswer
<1>3. \A i \in 1..L : handled[i].n \in 1..Len(log) /\ handled[i].id \in Ids
  BY ElementsAreDatagrams, DatagramFields DEF AllLogged, Logged
<1>4. ASSUME matched \subseteq matched', NEW i \in 1..L,
             IsAnswer(handled[i].n), calm[handled[i].id],
             DroppedOf(handled[i].id) = {}
      PROVE  \E p \in matched' : p[2] = handled[i] /\ After(p)
  <2>1. PICK p \in matched : p[2] = handled[i] /\ Right(p)
    BY <1>4 DEF AnswersPaired
  <2>2. After(p)
    BY <1>2, <2>1
  <2> HIDE DEF After
  <2> QED BY <1>4, <2>1, <2>2
<1>5. CASE /\ handled' = handled /\ matched' = matched
           /\ \A id \in Ids : calm'[id] => calm[id]
           /\ \A id \in Ids : DroppedOf(id) \subseteq DroppedOf(id)'
  <2>1. ASSUME NEW i \in 1..L, log'[handled[i].n].packet.src = Server,
               calm'[handled[i].id], {d \in dropped' : d.id = handled[i].id} = {}
        PROVE  \E p \in matched' : p[2] = handled[i] /\ After(p)
    <3>1. IsAnswer(handled[i].n) /\ calm[handled[i].id]
      BY <1>1, <1>3, <1>5, <2>1 DEF IsAnswer
    <3>2. \A id \in Ids : DroppedOf(id) \subseteq {d \in dropped' : d.id = id}
      BY <1>5 DEF DroppedOf
    <3>3. DroppedOf(handled[i].id) = {}
      BY <1>3, <2>1, <3>2
    <3> HIDE DEF After
    <3> QED BY <1>4, <1>5, <3>1, <3>3
  <2> QED BY <1>5, <2>1 DEF AnswersPaired, Right, IsAnswer, DroppedOf
<1>6. CASE Handles
  <2>1. /\ L \in Nat /\ Len(handled') = L + 1 /\ pc = "handle"
        /\ \A i \in 1..L : handled'[i] = handled[i]
        /\ handled'[L + 1] = msg
    BY <1>6, HandlingMoves DEF Handles
  <2>2. /\ msg.id \in Ids /\ UNCHANGED <<dropped, log, calm>>
        /\ \/ /\ waiting[msg.id] = Nothing /\ matched' = matched
           \/ /\ waiting[msg.id] # Nothing
              /\ matched' = matched \cup {<<waiting[msg.id], msg>>}
    BY <1>6, MonitorMoves
  <2>3. \A id \in Ids : DroppedOf(id)' = DroppedOf(id)
    BY <2>2 DEF DroppedOf
  <2>4. ASSUME IsAnswer(msg.n), calm[msg.id], DroppedOf(msg.id) = {}
        PROVE  \E p \in matched' : p[2] = msg /\ After(p)
    <3>1. DropsEven(msg.id)
      BY <2>4, FS_EmptySet DEF DropsEven
    <3>2. PICK l \in 1..L : handled[l].id = msg.id /\ LastCall(l)
      BY <2>1, <2>4, NextInOrder DEF LastWaits
    <3>3. ~IsAnswer(handled[l].n)
      BY <2>1, <2>4, <3>2, NextInOrder
    <3>4. waiting[msg.id] # Nothing
      BY <2>4, <3>1, <3>2, <3>3 DEF Alternates
    <3>5. Right(<<waiting[msg.id], msg>>)
      BY <1>6, <2>4, <3>1, <3>4, PairInOrder
    <3>6. <<waiting[msg.id], msg>>[2] = msg
      OBVIOUS
    <3>7. After(<<waiting[msg.id], msg>>)
      BY <2>2, <3>5 DEF Right, IsAnswer
    <3> HIDE DEF After
    <3> QED BY <2>2, <3>4, <3>6, <3>7
  <2>5. matched \subseteq matched' /\ \A id \in Ids : calm'[id] => calm[id]
    BY <2>2
  <2>6. ASSUME NEW i \in 1..L+1, IsAnswer(handled'[i].n), calm[handled'[i].id],
               DroppedOf(handled'[i].id) = {}
        PROVE  \E p \in matched' : p[2] = handled'[i] /\ After(p)
    <3>1. CASE i = L + 1
      BY <2>1, <2>4, <2>6, <3>1
    <3>2. CASE i \in 1..L
      <4>1. handled'[i] = handled[i] /\ handled[i].id \in Ids
        BY <1>3, <2>1, <3>2
      <4> HIDE DEF After
      <4> QED BY <1>4, <2>5, <2>6, <3>2, <4>1
    <3> QED BY <2>1, <3>1, <3>2
  <2> QED BY <2>1, <2>2, <2>6 DEF AnswersPaired, Right, IsAnswer, DroppedOf
<1>7. ASSUME NEW id \in Ids, Drops(id) PROVE AnswersPaired'
  <2>1. /\ handled' = handled /\ calm' = calm /\ matched' = matched
        /\ \A j \in Ids : DroppedOf(j) \subseteq DroppedOf(j)'
    BY <1>7, OneMoreDropped DEF Drops, Pairs!Drop, vars, labels, LastWaits
  <2> QED BY <1>5, <2>1
<1>8. CASE UNCHANGED <<handled, monitor>> /\ \A id \in Ids : calm'[id] => calm[id]
  BY <1>5, <1>8 DEF monitor, DroppedOf
<1> QED BY <1>6, <1>7, <1>8, SessionCases, IdleMoves, TakingMoves
        DEF Joins, Labelled, Arrives, Moves, SendBuffered, CopyPacket,
            sessionVars, vars, history, labels

-----------------------------------------------------------------------------
(* Neighbours *)

LEMMA PairOf ==
    ASSUME NEW S, NEW e \in S \X S
    PROVE  \E a, b \in S : e = <<a, b>>
OBVIOUS

\* A number larger than all others is ranked last.
LEMMA RankOfNew ==
    ASSUME NEW K \in SUBSET Nat, IsFiniteSet(K), NEW m \in Nat,
           \A k \in K : k < m
    PROVE  /\ Cardinality(K) \in Nat
           /\ Cardinality(K \cup {m}) = Cardinality(K) + 1
           /\ \A k \in K : /\ Rank(K \cup {m}, k) = Rank(K, k)
                           /\ Rank(K, k) \in Nat
                           /\ Rank(K, k) <= Cardinality(K)
           /\ Rank(K \cup {m}, m) = Cardinality(K) + 1
<1>1. m \notin K
  BY SMT
<1>2. Cardinality(K) \in Nat /\ Cardinality(K \cup {m}) = Cardinality(K) + 1
  BY <1>1, FS_CardinalityType, FS_AddElement
<1>3. {k \in K \cup {m} : k <= m} = K \cup {m}
  <2>1. \A k \in K \cup {m} : k <= m
    OBVIOUS
  <2> QED BY <2>1, Zenon
<1>4. ASSUME NEW k \in K
      PROVE  /\ {j \in K \cup {m} : j <= k} = {j \in K : j <= k}
             /\ Cardinality({j \in K : j <= k}) \in Nat
             /\ Cardinality({j \in K : j <= k}) <= Cardinality(K)
  <2>1. {j \in K \cup {m} : j <= k} = {j \in K : j <= k}
    BY SMT
  <2>2. {j \in K : j <= k} \subseteq K
    OBVIOUS
  <2> QED BY <2>1, <2>2, FS_Subset, FS_CardinalityType
<1> QED BY <1>2, <1>3, <1>4 DEF Rank

\* The number ranked last is the largest.
LEMMA RankOfLast ==
    ASSUME NEW K \in SUBSET Nat, IsFiniteSet(K), NEW n \in K,
           Rank(K, n) = Cardinality(K)
    PROVE  \A k \in K : k <= n
<1>1. {k \in K : k <= n} = K
  <2>1. {k \in K : k <= n} \subseteq K
    OBVIOUS
  <2> QED BY <2>1, FS_Subset DEF Rank
<1> QED BY <1>1

\* It has no neighbour, or the one that was last before.
LEMMA NewNeighbour ==
    ASSUME NEW K \in SUBSET Nat, IsFiniteSet(K), NEW m \in Nat,
           \A k \in K : k < m
    PROVE  /\ Cardinality(K) % 2 = 0 => Neighbours(K \cup {m}) = Neighbours(K)
           /\ Cardinality(K) % 2 = 1 =>
                 \A n \in K : Rank(K, n) = Cardinality(K) =>
                    Neighbours(K \cup {m}) = Neighbours(K) \cup {<<n, m>>}
<1> DEFINE M == K \cup {m}
           c == Cardinality(K)
<1>1. /\ c \in Nat
      /\ \A k \in K : Rank(M, k) = Rank(K, k) /\ Rank(K, k) \in Nat /\ Rank(K, k) <= c
      /\ Rank(M, m) = c + 1
  BY RankOfNew
<1>2. /\ \A a \in M, b \in M : <<a, b>> \in Neighbours(M)
            <=> Rank(M, a) % 2 = 1 /\ Rank(M, b) = Rank(M, a) + 1
      /\ \A a \in K, b \in K : <<a, b>> \in Neighbours(K)
            <=> Rank(K, a) % 2 = 1 /\ Rank(K, b) = Rank(K, a) + 1
      /\ Neighbours(M) \subseteq M \X M
      /\ Neighbours(K) \subseteq K \X K
  BY DEF Neighbours
<1>6. m \notin K /\ m \in M /\ K \subseteq M /\ \A a \in M : a # m => a \in K
  BY SMT
<1> HIDE DEF M, c
<1>3. \A a \in K, b \in K : <<a, b>> \in Neighbours(M) <=> <<a, b>> \in Neighbours(K)
  <2> SUFFICES ASSUME NEW a \in K, NEW b \in K
               PROVE  <<a, b>> \in Neighbours(M) <=> <<a, b>> \in Neighbours(K)
    OBVIOUS
  <2>1. a \in M /\ b \in M /\ Rank(M, a) = Rank(K, a) /\ Rank(M, b) = Rank(K, b)
    BY <1>1, <1>6
  <2> QED BY <1>2, <2>1
<1>4. \A b \in M : <<m, b>> \notin Neighbours(M)
  <2>1. \A b \in M : Rank(M, b) \in Nat /\ Rank(M, b) <= c + 1
    BY <1>1, <1>6
  <2> QED BY <1>1, <1>2, <1>6, <2>1
<1>5. \A a \in K : <<a, m>> \in Neighbours(M) <=> c % 2 = 1 /\ Rank(K, a) = c
  <2>1. ASSUME NEW a \in K
        PROVE  <<a, m>> \in Neighbours(M)
                 <=> Rank(K, a) % 2 = 1 /\ c + 1 = Rank(K, a) + 1
    BY <1>1, <1>2, <1>6
  <2> QED BY <1>1, <2>1
<1>7. ASSUME c % 2 = 0 PROVE Neighbours(M) = Neighbours(K)
  <2>1. ASSUME NEW e \in Neighbours(M) PROVE e \in Neighbours(K)
    <3>1. PICK a \in M, b \in M : e = <<a, b>>
      BY <1>2, <2>1
    <3>2. a \in K
      BY <1>4, <1>6, <2>1, <3>1
    <3>3. b # m
      BY <1>5, <1>7, <2>1, <3>1, <3>2
    <3> QED BY <1>3, <1>6, <2>1, <3>1, <3>2, <3>3
  <2>2. ASSUME NEW e \in Neighbours(K) PROVE e \in Neighbours(M)
    <3>0. e \in K \X K
      BY <1>2, <2>2
    <3>1. PICK a \in K, b \in K : e = <<a, b>>
      BY <3>0, PairOf
    <3> QED BY <1>3, <2>2, <3>1
  <2> QED BY <2>1, <2>2
<1>8. ASSUME c % 2 = 1, NEW n \in K, Rank(K, n) = c
      PROVE  Neighbours(M) = Neighbours(K) \cup {<<n, m>>}
  <2>1. \A a \in K : Rank(K, a) = c => a = n
    <3> SUFFICES ASSUME NEW a \in K, Rank(K, a) = c PROVE a = n
      OBVIOUS
    <3>1. a <= n /\ n <= a
      BY <1>8, RankOfLast DEF c
    <3> QED BY <3>1
  <2>2. ASSUME NEW e \in Neighbours(M) PROVE e \in Neighbours(K) \cup {<<n, m>>}
    <3>1. PICK a \in M, b \in M : e = <<a, b>>
      BY <1>2, <2>2
    <3>2. a \in K
      BY <1>4, <1>6, <2>2, <3>1
    <3>3. CASE b = m
      BY <1>5, <2>1, <2>2, <3>1, <3>2, <3>3
    <3>4. CASE b # m
      BY <1>3, <1>6, <2>2, <3>1, <3>2, <3>4
    <3> QED BY <3>3, <3>4
  <2>3. <<n, m>> \in Neighbours(M)
    BY <1>5, <1>8
  <2>4. ASSUME NEW e \in Neighbours(K) PROVE e \in Neighbours(M)
    <3>0. e \in K \X K
      BY <1>2, <2>4
    <3>1. PICK a \in K, b \in K : e = <<a, b>>
      BY <3>0, PairOf
    <3> QED BY <1>3, <2>4, <3>1
  <2> QED BY <2>2, <2>3, <2>4
<1> QED BY <1>7, <1>8 DEF M, c

\* What PairsAreNeighbours says of an id: K numbers, in h, the messages that
\* were handled with it and not dropped; P has the pairs, and w waits.
PairedUp(K, h, P, w, id) ==
    /\ {p \in P : p[1].id = id} = {<<h[e[1]], h[e[2]]>> : e \in Neighbours(K)}
    /\ IF Cardinality(K) % 2 = 0
       THEN w = Nothing
       ELSE \E n \in K : Rank(K, n) = Cardinality(K) /\ w = h[n]

LEMMA NeighboursPairedUp ==
    /\ PairsAreNeighbours
         <=> \A id \in Ids : PairedUp(Kept(id), handled, matched, waiting[id], id)
    /\ PairsAreNeighbours'
         <=> \A id \in Ids : PairedUp(Kept(id)', handled', matched', waiting'[id], id)
BY DEF PairsAreNeighbours, PairedUp

\* The pairs are those of the numbers below L.
LEMMA PairedUpSame ==
    ASSUME NEW L \in Nat, NEW K \in SUBSET (1..L), NEW h, NEW g, NEW P, NEW w,
           NEW id, \A i \in 1..L : g[i] = h[i], PairedUp(K, h, P, w, id)
    PROVE  PairedUp(K, g, P, w, id)
<1>1. \A e \in Neighbours(K) : g[e[1]] = h[e[1]] /\ g[e[2]] = h[e[2]]
  BY DEF Neighbours
<1>2. {<<g[e[1]], g[e[2]]>> : e \in Neighbours(K)}
        = {<<h[e[1]], h[e[2]]>> : e \in Neighbours(K)}
  BY <1>1
<1>3. \A n \in K : g[n] = h[n]
  OBVIOUS
<1> QED BY <1>2, <1>3 DEF PairedUp

\* One more message is held, or makes a pair.
LEMMA PairedUpMore ==
    ASSUME NEW L \in Nat, NEW K \in SUBSET (1..L), NEW h, NEW g, NEW P, NEW w,
           NEW id, NEW d, \A i \in 1..L : g[i] = h[i] /\ h[i] # Nothing,
           g[L + 1] = d, PairedUp(K, h, P, w, id)
    PROVE  /\ w = Nothing => PairedUp(K \cup {L + 1}, g, P, d, id)
           /\ w # Nothing /\ w.id = id =>
                 PairedUp(K \cup {L + 1}, g, P \cup {<<w, d>>}, Nothing, id)
<1> DEFINE M == K \cup {L + 1}
<1>1. /\ K \in SUBSET Nat /\ IsFiniteSet(K) /\ L + 1 \in Nat
      /\ \A k \in K : k < L + 1
  <2>1. IsFiniteSet(1..L)
    BY FS_Interval
  <2>2. IsFiniteSet(K)
    BY <2>1, FS_Subset
  <2> QED BY <2>2
<1>2. /\ Cardinality(K) \in Nat
      /\ Cardinality(M) = Cardinality(K) + 1
      /\ Rank(M, L + 1) = Cardinality(M)
      /\ L + 1 \in M
  BY <1>1, RankOfNew
<1>3. PairedUp(K, g, P, w, id)
  BY PairedUpSame
<1>4. CASE w = Nothing
  <2>1. Cardinality(K) % 2 = 0
    BY <1>4 DEF PairedUp
  <2>2. Cardinality(M) % 2 # 0
    BY <1>2, <2>1
  <2>3. Neighbours(M) = Neighbours(K)
    BY <1>1, <2>1, NewNeighbour
  <2> HIDE DEF M
  <2>4. {p \in P : p[1].id = id} = {<<g[e[1]], g[e[2]]>> : e \in Neighbours(M)}
    BY <1>3, <2>3 DEF PairedUp
  <2> QED BY <1>2, <1>4, <2>2, <2>4 DEF PairedUp, M
<1>5. CASE w # Nothing /\ w.id = id
  <2>1. Cardinality(K) % 2 # 0 /\ Cardinality(K) % 2 \in 0..1
    BY <1>2, <1>5 DEF PairedUp
  <2>2. PICK n \in K : Rank(K, n) = Cardinality(K) /\ w = g[n]
    BY <1>3, <2>1 DEF PairedUp
  <2>3. Neighbours(M) = Neighbours(K) \cup {<<n, L + 1>>}
    BY <1>1, <2>1, <2>2, NewNeighbour
  <2>4. Cardinality(M) % 2 = 0
    BY <1>2, <2>1
  <2> HIDE DEF M
  <2>5. {<<g[e[1]], g[e[2]]>> : e \in Neighbours(M)}
          = {<<g[e[1]], g[e[2]]>> : e \in Neighbours(K)} \cup {<<w, d>>}
    <3> DEFINE F(e) == <<g[e[1]], g[e[2]]>>
    <3>1. F(<<n, L + 1>>) = <<w, d>>
      BY <2>2
    <3> HIDE DEF F
    <3>2. {F(e) : e \in Neighbours(M)} = {F(e) : e \in Neighbours(K)} \cup {<<w, d>>}
      BY <2>3, <3>1
    <3> QED BY <3>2 DEF F
  <2>6. {p \in P \cup {<<w, d>>} : p[1].id = id}
          = {p \in P : p[1].id = id} \cup {<<w, d>>}
    BY <1>5
  <2> QED BY <1>3, <1>5, <2>4, <2>5, <2>6 DEF PairedUp, M
<1> QED BY <1>4, <1>5

\* The one that waits is no more.
LEMMA PairedUpLess ==
    ASSUME NEW L \in Nat, NEW K \in SUBSET (1..L), NEW h, NEW P, NEW w, NEW id,
           w # Nothing, PairedUp(K, h, P, w, id)
    PROVE  \E n \in K : w = h[n] /\ PairedUp(K \ {n}, h, P, Nothing, id)
<1>1. K \in SUBSET Nat /\ IsFiniteSet(K)
  <2>1. IsFiniteSet(1..L)
    BY FS_Interval
  <2>2. IsFiniteSet(K)
    BY <2>1, FS_Subset
  <2> QED BY <2>2
<1>2. Cardinality(K) % 2 # 0
  BY DEF PairedUp
<1>3. PICK n \in K : Rank(K, n) = Cardinality(K) /\ w = h[n]
  BY <1>2 DEF PairedUp
<1> DEFINE J == K \ {n}
<1>4. J \in SUBSET Nat /\ IsFiniteSet(J) /\ n \in Nat /\ J \cup {n} = K
      /\ \A k \in J : k < n
  <2>1. \A k \in K : k <= n
    BY <1>1, <1>3, RankOfLast
  <2>2. \A k \in J : k < n
    BY <1>1, <2>1
  <2>3. J \subseteq K
    OBVIOUS
  <2>4. IsFiniteSet(J)
    BY <1>1, <2>3, FS_Subset
  <2> QED BY <1>1, <2>2, <2>4
<1> HIDE DEF J
<1>5. Cardinality(J) \in Nat /\ Cardinality(K) = Cardinality(J) + 1
  BY <1>4, RankOfNew
<1>6. Cardinality(J) % 2 = 0
  BY <1>2, <1>5
<1>7. Neighbours(K) = Neighbours(J)
  BY <1>4, <1>6, NewNeighbour
<1>8. PairedUp(J, h, P, Nothing, id)
  BY <1>6, <1>7 DEF PairedUp
<1> QED BY <1>3, <1>8 DEF J

\* Nobody is handled twice.
LEMMA HandledOnce ==
    ASSUME TypeOK, HandledInv
    PROVE  \A i, k \in 1..Len(handled) : handled[i] = handled[k] => i = k
<1>1. /\ Len(handled) \in Nat
      /\ \A i \in 1..Len(handled) : handled[i].n \in Nat
  BY ElementsAreDatagrams, DatagramFields, ProxyAssumption
<1>2. ASSUME NEW i \in 1..Len(handled), NEW k \in 1..Len(handled), i < k
      PROVE  handled[i] # handled[k]
  <2>1. handled[i].n < handled[k].n /\ handled[i].n \in Nat
    BY <1>1, <1>2 DEF HandledInv
  <2>2. handled[i].n # handled[k].n
    BY <2>1
  <2> QED BY <2>2
<1> QED BY <1>1, <1>2

LEMMA SessionNeighbours ==
    ASSUME TypeOK, HoldsHead, Numbered, LogInv, AllLogged, HandledInv,
           LastWaits, PairsAreNeighbours, [SessionNext]_sessionVars
    PROVE  PairsAreNeighbours'
<1> DEFINE L == Len(handled)
           Up(id) == PairedUp(Kept(id), handled, matched, waiting[id], id)
           UpThen(id) == PairedUp(Kept(id)', handled', matched', waiting'[id], id)
<1>1. /\ L \in Nat
      /\ \A i \in 1..L : handled[i] \in Datagrams /\ handled[i] # Nothing
      /\ \A id : Kept(id) \in SUBSET (1..L)
      /\ \A id \in Ids : Up(id)
  BY ElementsAreDatagrams, DatagramFields, NeighboursPairedUp DEF Kept
<1>2. CASE UNCHANGED <<handled, monitor>>
  <2>1. UNCHANGED <<handled, waiting, matched, dropped>>
    BY <1>2 DEF monitor
  <2>2. \A id \in Ids : Kept(id)' = Kept(id)
    BY <2>1 DEF Kept
  <2> QED BY <1>1, <2>1, <2>2, NeighboursPairedUp
<1>3. CASE Handles
  <2>1. /\ Len(handled') = L + 1
        /\ \A i \in 1..L : handled'[i] = handled[i]
        /\ handled'[L + 1] = msg
    BY <1>3, HandlingMoves DEF Handles
  <2>2. /\ msg \in Datagrams /\ msg.id \in Ids /\ msg \notin dropped
        /\ \/ /\ waiting[msg.id] = Nothing
              /\ waiting' = [waiting EXCEPT ![msg.id] = msg]
              /\ matched' = matched
           \/ /\ waiting[msg.id] # Nothing
              /\ waiting' = [waiting EXCEPT ![msg.id] = Nothing]
              /\ matched' = matched \cup {<<waiting[msg.id], msg>>}
        /\ dropped' = dropped
    BY <1>3, MonitorMoves
  <2>3. \A j \in Ids : waiting'[j] = IF j # msg.id THEN waiting[j]
                                     ELSE IF waiting[j] = Nothing THEN msg ELSE Nothing
    BY <2>2 DEF LastWaits, Pairs!Inv, Pairs!TypeOK
  <2>4. PICK k \in Ids : k = msg.id
    BY <2>2
  <2>5. ASSUME NEW id \in Ids
        PROVE  Kept(id)' = IF id = k THEN Kept(id) \cup {L + 1} ELSE Kept(id)
    <3>1. \A n \in 1..L+1 : n \in Kept(id)'
             <=> handled'[n].id = id /\ handled'[n] \notin dropped
      BY <2>1, <2>2 DEF Kept
    <3>2. \A n \in 1..L : n \in Kept(id)' <=> n \in Kept(id)
      BY <1>1, <2>1, <3>1 DEF Kept
    <3>3. L + 1 \in Kept(id)' <=> id = k
      BY <1>1, <2>1, <2>2, <2>4, <3>1
    <3>4. Kept(id)' \subseteq 1..L+1 /\ Kept(id) \subseteq 1..L
      BY <2>1 DEF Kept
    <3>5. \A n : n \in Kept(id)' <=> n \in Kept(id) \/ (n = L + 1 /\ id = k)
      BY <1>1, <3>2, <3>3, <3>4
    <3> QED BY <3>5
  <2>6. UpThen(k)
    <3>1. waiting[k] # Nothing => waiting[k].id = k
      BY <2>2, <2>4, WaitingOne DEF LastWaits
    <3>2. /\ waiting[k] = Nothing =>
                PairedUp(Kept(k) \cup {L + 1}, handled', matched, msg, k)
          /\ waiting[k] # Nothing =>
                PairedUp(Kept(k) \cup {L + 1}, handled',
                         matched \cup {<<waiting[k], msg>>}, Nothing, k)
      <4>1. Up(k) /\ Kept(k) \in SUBSET (1..L)
        BY <1>1
      <4>2. \A i \in 1..L : handled'[i] = handled[i] /\ handled[i] # Nothing
        BY <1>1, <2>1
      <4> QED BY <1>1, <2>1, <3>1, <4>1, <4>2, PairedUpMore
    <3>3. /\ waiting'[k] = IF waiting[k] = Nothing THEN msg ELSE Nothing
          /\ matched' = IF waiting[k] = Nothing THEN matched
                        ELSE matched \cup {<<waiting[k], msg>>}
      BY <2>2, <2>3, <2>4
    <3> QED BY <2>5, <3>2, <3>3
  <2>7. ASSUME NEW id \in Ids \ {k} PROVE UpThen(id)
    <3>1. PairedUp(Kept(id), handled', matched, waiting[id], id)
      BY <1>1, <2>1, PairedUpSame
    <3>2. {p \in matched' : p[1].id = id} = {p \in matched : p[1].id = id}
      BY <2>2, <2>4, WaitingOne DEF LastWaits
    <3>3. Kept(id)' = Kept(id) /\ waiting'[id] = waiting[id]
      BY <2>3, <2>4, <2>5
    <3> QED BY <3>1, <3>2, <3>3 DEF PairedUp
  <2>8. \A id \in Ids : UpThen(id)
    BY <2>6, <2>7
  <2> QED BY <2>8, NeighboursPairedUp
<1>4. ASSUME NEW id \in Ids, Drops(id) PROVE PairsAreNeighbours'
  <2>1. /\ waiting[id] # Nothing /\ handled' = handled /\ matched' = matched
        /\ waiting' = [waiting EXCEPT ![id] = Nothing]
        /\ dropped' = dropped \cup {waiting[id]}
        /\ waiting[id].id = id
    BY <1>4, WaitingOne DEF Drops, Pairs!Drop, vars, LastWaits
  <2>2. PICK n \in Kept(id) :
           /\ waiting[id] = handled[n]
           /\ PairedUp(Kept(id) \ {n}, handled, matched, Nothing, id)
    BY <1>1, <2>1, PairedUpLess
  <2>3. /\ waiting'[id] = Nothing
        /\ \A j \in Ids \ {id} : waiting'[j] = waiting[j]
    BY <2>1 DEF LastWaits, Pairs!Inv, Pairs!TypeOK
  <2>4. Kept(id)' = Kept(id) \ {n}
    BY <1>1, <2>1, <2>2, HandledOnce DEF Kept
  <2>5. \A j \in Ids \ {id} : Kept(j)' = Kept(j)
    BY <2>1, <2>2 DEF Kept
  <2> QED BY <1>1, <2>1, <2>2, <2>3, <2>4, <2>5, NeighboursPairedUp
<1> QED BY <1>2, <1>3, <1>4, SessionCases, IdleMoves, TakingMoves
        DEF Joins, Labelled, Arrives, Moves, SendBuffered, CopyPacket,
            sessionVars, vars, history

-----------------------------------------------------------------------------
(* The session *)

SessionInv == /\ TypeOK /\ HoldsHead /\ Numbered /\ AskedFirst
              /\ LogInv /\ AllLogged
              /\ HandledInv /\ SentInv
              /\ OneByOne /\ LastWaits /\ Alternates /\ AnswersPaired
              /\ PairsAreNeighbours

LEMMA InitSession == SessionInit => SessionInv
<1> SUFFICES ASSUME SessionInit PROVE SessionInv
  OBVIOUS
<1>1. Init /\ Pairs!Init /\ log = <<>> /\ calm = [id \in Ids |-> TRUE]
  BY DEF SessionInit
<1>2. TypeOK /\ HoldsHead /\ Numbered /\ AskedFirst
  BY <1>1, InitType, InitHoldsHead, InitNumbered, InitAsked
<1>3. /\ Len(socket) = 0 /\ Len(taken) = 0 /\ Len(handled) = 0 /\ Len(sent) = 0
      /\ Len(log) = 0 /\ log \in Seq(LoggedEntry)
      /\ pc = "init" /\ dest = "none" /\ arrivals = 0
  BY <1>1, EmptySeq DEF Init
<1>4. /\ \A id \in Ids : waiting[id] = Nothing
      /\ matched = {} /\ dropped = {}
  BY <1>1 DEF Pairs!Init
<1>5. LogInv /\ AllLogged /\ HandledInv /\ SentInv /\ OneByOne
  BY <1>1, <1>3 DEF LogInv, AllLogged, HandledInv, SentInv, OneByOne
<1>6. Pairs!Inv
  <2>1. PairsProofs!Init
    BY <1>1 DEF Pairs!Init, PairsProofs!Init
  <2>2. PairsProofs!Inv
    BY <2>1, PairsProofs!InitInv, DatagramKeys DEF KeyOfDatagram
  <2> QED BY <2>2, SameInv
<1>7. LastWaits
  <2>1. IsFiniteSet(dropped)
    BY <1>4, FS_EmptySet
  <2> QED BY <1>3, <1>4, <1>6, <2>1 DEF LastWaits
<1>8. Alternates /\ AnswersPaired
  BY <1>3 DEF Alternates, AnswersPaired
<1>9. PairsAreNeighbours
  <2>1. ASSUME NEW id \in Ids
        PROVE  PairedUp(Kept(id), handled, matched, waiting[id], id)
    <3>1. Kept(id) = {}
      BY <1>3 DEF Kept
    <3>2. Neighbours({}) = {} /\ Cardinality({}) = 0
      BY FS_EmptySet DEF Neighbours
    <3> QED BY <1>4, <3>1, <3>2 DEF PairedUp
  <2> QED BY <2>1, NeighboursPairedUp
<1> QED BY <1>2, <1>5, <1>7, <1>8, <1>9 DEF SessionInv

LEMMA NextSession == SessionInv /\ [SessionNext]_sessionVars => SessionInv'
<1> SUFFICES ASSUME SessionInv, [SessionNext]_sessionVars PROVE SessionInv'
  OBVIOUS
<1>1. [Next]_vars
  BY StepsOfProxy DEF SessionInv
<1>2. TypeOK' /\ HoldsHead' /\ Numbered' /\ AskedFirst'
  BY <1>1, NextType, NextHoldsHead, NextNumbered, NextAsked DEF SessionInv
<1>3. LogInv' /\ AllLogged'
  BY SessionLog, SessionLogged DEF SessionInv
<1>4. HandledInv' /\ SentInv'
  BY <1>1, NextHandled, NextSent DEF SessionInv
<1>5. OneByOne' /\ LastWaits'
  BY SessionOneByOne, SessionLastWaits DEF SessionInv
<1>6. Alternates' /\ AnswersPaired'
  BY SessionAlternates, SessionAnswersPaired DEF SessionInv
<1>7. PairsAreNeighbours'
  BY SessionNeighbours DEF SessionInv
<1> QED BY <1>2, <1>3, <1>4, <1>5, <1>6, <1>7 DEF SessionInv

LEMMA SessionInvariant == SessionSpec => []SessionInv
BY InitSession, NextSession, PTL DEF SessionSpec

(***************************************************************************)
(* The loop with its clients, server and timers is the loop of RadiusProxy *)
(* and does nothing that module does not allow, however messages are       *)
(* paired.                                                                 *)
(***************************************************************************)
THEOREM SessionIsProxy == SessionSpec => Init /\ [][Next]_vars
<1>1. SessionInit => Init
  BY DEF SessionInit
<1>2. SessionInv /\ [SessionNext]_sessionVars => [Next]_vars
  BY StepsOfProxy DEF SessionInv
<1> QED BY <1>1, <1>2, SessionInvariant, PTL DEF SessionSpec

(***************************************************************************)
(* What the loop has paired, and what it dropped, keeps the promise of     *)
(* PairMonitor, with packet ids for session ids and datagrams for          *)
(* messages.                                                               *)
(***************************************************************************)
THEOREM SessionIsMonitor == SessionSpec => Pairs!Spec
<1>1. SessionInit => Pairs!Init
  BY DEF SessionInit
<1>2. SessionInv /\ [SessionNext]_sessionVars => [Pairs!Next]_(Pairs!monitorVars)
  BY MonitorInv DEF SessionInv, LastWaits
<1> QED BY <1>1, <1>2, SessionInvariant, PTL DEF SessionSpec, Pairs!Spec

(***************************************************************************)
(* No message reaches handleMessage twice, so that the promise, which is   *)
(* about new messages only, never keeps the loop from going on.            *)
(***************************************************************************)
THEOREM HandledIsFresh == SessionSpec => [](pc = "handle" => Pairs!Fresh(msg))
<1>1. SessionInv => (pc = "handle" => Pairs!Fresh(msg))
  <2> SUFFICES ASSUME SessionInv, pc = "handle" PROVE Pairs!Fresh(msg)
    OBVIOUS
  <2>1. ~Handled(msg)
    <3>1. /\ \A i \in 1..Len(handled) : handled[i].n < Len(taken)
          /\ msg.n = Len(taken) /\ Len(taken) \in Nat
      BY ElementsAreDatagrams DEF SessionInv, HandledInv, Numbered
    <3> QED BY <3>1 DEF Handled
  <2>2. /\ \A id \in Ids : waiting[id] # Nothing => Handled(waiting[id])
        /\ \A p \in matched : Handled(p[1]) /\ Handled(p[2])
        /\ \A d \in dropped : Handled(d)
    BY DEF SessionInv, LastWaits, Handled
  <2>3. msg # Nothing
    BY DatagramFields, ElementsAreDatagrams DEF SessionInv, HandledInv
  <2>4. ~Pairs!Waiting(msg) /\ ~Pairs!Asked(msg) /\ ~Pairs!Answered(msg)
    BY <2>1, <2>2, <2>3 DEF Pairs!Waiting, Pairs!Asked, Pairs!Answered
  <2> QED BY <2>1, <2>2, <2>4 DEF Pairs!Fresh
<1> QED BY <1>1, SessionInvariant, PTL

(***************************************************************************)
(* What pairer pairs, whatever the clients send: neighbours among the      *)
(* messages that were handled with an id and not dropped.                  *)
(***************************************************************************)
THEOREM NeighboursPair == SessionSpec => []PairsAreNeighbours
BY SessionInvariant, PTL DEF SessionInv

(***************************************************************************)
(* On a calm id a pair is right exactly when an even number of messages    *)
(* with the id was dropped before.                                         *)
(***************************************************************************)
THEOREM EvenDropsPairRight == SessionSpec => PairsRightAfterEvenDrops
<1> DEFINE Step == \A p \in matched' \ matched :
                      calm[p[1].id] =>
                         (Right(p) <=> Cardinality(DroppedOf(p[1].id)) % 2 = 0)
<1>1. SessionInv /\ [SessionNext]_sessionVars => Step
  <2> SUFFICES ASSUME SessionInv, [SessionNext]_sessionVars,
                      NEW p \in matched' \ matched, calm[p[1].id]
               PROVE  Right(p) <=> DropsEven(p[1].id)
    BY DEF DropsEven
  <2>1. CASE Handles
    <3>1. waiting[msg.id] # Nothing /\ p = <<waiting[msg.id], msg>> /\ msg.id \in Ids
      BY <2>1, MonitorMoves DEF SessionInv
    <3>2. p[1].id = msg.id
      BY <3>1, WaitingOne DEF SessionInv, LastWaits
    <3>3. Right(<<waiting[msg.id], msg>>) <=> DropsEven(msg.id)
      BY <2>1, <3>1, <3>2, PairInOrder DEF SessionInv
    <3> QED BY <3>1, <3>2, <3>3
  <2>2. CASE matched' = matched
    BY <2>2
  <2> QED BY <2>1, <2>2, SessionCases
          DEF SessionInv, Joins, Labelled, Moves, Drops, Pairs!Drop,
              sessionVars, monitor
<1> QED BY <1>1, SessionInvariant, PTL DEF SessionSpec, PairsRightAfterEvenDrops

(***************************************************************************)
(* Once an answer has been forwarded, it is in a pair with its request, on *)
(* a calm id of which nothing was dropped.                                 *)
(***************************************************************************)
THEOREM ForwardedArePaired == SessionSpec => []ForwardedIsPaired
<1>1. SessionInv => ForwardedIsPaired
  <2> SUFFICES ASSUME SessionInv, NEW j \in 1..Len(sent), NEW d,
                      d = sent[j].packet,
                      IsAnswer(d.n), calm[d.id], DroppedOf(d.id) = {}
               PROVE  \E p \in matched : p[2] = d /\ Right(p)
    BY DEF ForwardedIsPaired
  <2>1. d.n \in 1..Len(log) /\ log[d.n].packet = d
    BY DEF SessionInv, AllLogged, Logged
  <2>2. Whole(d.shape)
    BY <2>1, EntryOfLog DEF SessionInv
  <2>3. PICK i \in 1..Len(handled) : handled[i] = d
    BY <2>2 DEF SessionInv, SentInv, Handled
  <2> QED BY <2>3 DEF SessionInv, AnswersPaired
<1> QED BY <1>1, SessionInvariant, PTL
=============================================================================
