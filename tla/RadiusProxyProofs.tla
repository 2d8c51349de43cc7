------------------------- MODULE RadiusProxyProofs -------------------------
(***************************************************************************)
(* Proofs about RadiusProxy, for every set of clients, packet ids and      *)
(* datagram shapes and every number of arrivals.                           *)
(*                                                                         *)
(* The inductive invariant has three parts. Numbered: a datagram is where  *)
(* its number of arrival says. HoldsHead: the buffer holds the datagram    *)
(* that the loop is busy with, at the steps where it holds one. From these *)
(* the order of forwarding follows; with AskedFirst, that a request has    *)
(* been handled and sent before its answer can arrive, and Remembered,     *)
(* whose address client_addrs_ has under an id, the other two.             *)
(***************************************************************************)
EXTENDS RadiusProxy, DequeLemmas

-----------------------------------------------------------------------------
(* The invariant *)

Numbered ==
    /\ arrivals = Len(taken) + Len(socket)
    /\ \A i \in 1..Len(taken) : taken[i].n = i
    /\ \A i \in 1..Len(socket) : socket[i].n = Len(taken) + i

HoldsHead ==
    /\ pc \in {"init", "select", "copy"} => dest = "none"
    /\ pc = "recv" => IF Copied(Head(socket))
                      THEN dest # "none" /\ buffered = Head(socket)
                      ELSE dest = "none"
    /\ pc = "handle" => /\ msg \in Datagrams
                        /\ dest # "none" => buffered = msg
    /\ dest = "server" => FromClient(buffered)
    /\ dest = "client" => buffered.src = Server

HandledRequest(id) == \E j \in 1..Len(handled) : /\ FromClient(handled[j])
                                                 /\ handled[j].id = id
SentRequest(id) == \E j \in 1..Len(sent) : /\ FromClient(sent[j].packet)
                                           /\ sent[j].packet.id = id
Expected(d) == d.src = Server => HandledRequest(d.id) /\ SentRequest(d.id)

AskedFirst ==
    /\ \A i \in 1..Len(sent) :
          sent[i].to = Server =>
              /\ FromClient(sent[i].packet)
              /\ Whole(sent[i].packet.shape) => HandledRequest(sent[i].packet.id)
    /\ pc = "send" /\ dest = "server" /\ Whole(buffered.shape)
          => HandledRequest(buffered.id)
    /\ \A i \in 1..Len(socket) : Expected(socket[i])
    /\ pc = "handle" => Expected(msg)
    /\ dest # "none" => Expected(buffered)

\* The client that sent the last request with this id that was forwarded.
LastAsker(id, a) ==
    \E j \in 1..Len(sent) :
        /\ sent[j].packet.src = a
        /\ sent[j].packet.id = id
        /\ \A k \in j+1..Len(sent) : FromClient(sent[k].packet) =>
                                     sent[k].packet.id # id

Remembered ==
    \A id \in Ids :
        IF dest = "server" /\ buffered.id = id
        THEN clients[id] = buffered.src
        ELSE SentRequest(id) => LastAsker(id, clients[id])

-----------------------------------------------------------------------------
(* Datagrams and lengths *)

\* The fields of a datagram, which is never the empty buffer.
LEMMA DatagramFields ==
    \A d \in Datagrams : /\ d.n \in 1..MaxArrivals
                         /\ d.id \in Ids
                         /\ d.src \in Clients \cup {Server}
                         /\ d.shape \in Shapes
                         /\ d # Nothing
BY DEF Datagrams, Nothing

\* The length read from a header is an integer.
LEMMA ReadLengthInt == \A s \in Shapes : ReadLength(s) \in Int
<1> SUFFICES ASSUME NEW s \in Shapes PROVE ReadLength(s) \in Int
  OBVIOUS
<1>1. s.len \in Int
  BY ProxyAssumption
<1>2. s.len \div 256 \in Int /\ s.len % 256 \in Int
  BY <1>1
<1>3. SignedChar(s.len \div 256) \in Int /\ SignedChar(s.len % 256) \in Int
  BY <1>2 DEF SignedChar
<1> QED BY <1>3 DEF ReadLength

\* A length is copied.
LEMMA CopiedLengthType == \A s \in Shapes : CopiedLength(s) \in Nat
<1> SUFFICES ASSUME NEW s \in Shapes PROVE CopiedLength(s) \in Nat
  OBVIOUS
<1>1. s.size \in Nat /\ ReadLength(s) \in Int
  BY ProxyAssumption, ReadLengthInt
<1> QED BY <1>1 DEF CopiedLength

\* The oldest datagram on the socket.
LEMMA HeadOfSocket ==
    ASSUME TypeOK, socket # <<>>
    PROVE  /\ Head(socket) = socket[1]
           /\ Head(socket) \in Datagrams
           /\ 1 \in 1..Len(socket)
BY HeadAndTail DEF TypeOK

-----------------------------------------------------------------------------
(* Types *)

LEMMA InitType == Init => TypeOK
BY EmptySeq, ProxyAssumption DEF Init, TypeOK, Steps

LEMMA NextType == TypeOK /\ HoldsHead /\ [Next]_vars => TypeOK'
<1> SUFFICES ASSUME TypeOK, HoldsHead, [Next]_vars PROVE TypeOK'
  OBVIOUS
<1> USE DEF Steps, At, buffer, history
<1>1. ASSUME NEW id \in Ids, NEW a \in Clients \cup {Server}, NEW s \in Shapes,
             Arrive(id, a, s)
      PROVE  TypeOK'
  <2>1. [n |-> arrivals + 1, id |-> id, src |-> a, shape |-> s] \in Datagrams
    BY <1>1, ProxyAssumption DEF Arrive, TypeOK, Datagrams
  <2>2. socket' \in Seq(Datagrams) /\ socket' # <<>>
    <3>1. socket' = Append(socket, [n |-> arrivals + 1, id |-> id, src |-> a,
                                    shape |-> s])
      BY <1>1 DEF Arrive
    <3> QED BY <2>1, <3>1, Appended DEF TypeOK
  <2>3. arrivals' \in 0..MaxArrivals
    BY <1>1, ProxyAssumption DEF Arrive, TypeOK
  <2> QED BY <1>1, <2>2, <2>3 DEF Arrive, TypeOK
<1>2. CASE \/ Startup \/ NoDictionary \/ NoSocket \/ Select \/ SelectFails
           \/ HandlerCrashes
  BY <1>2 DEF Startup, NoDictionary, NoSocket, Select, SelectFails,
              HandlerCrashes, TypeOK
<1>3. CASE SendBuffered
  <2>1. CASE dest = "none"
    BY <1>3, <2>1 DEF SendBuffered, SendOut, TypeOK
  <2>2. CASE dest # "none"
    <3>1. buffered \in Datagrams
      BY <2>2 DEF TypeOK
    <3>2. AddressOf(buffered) \in Clients \cup {Server, NoAddr}
      BY <3>1, DatagramFields DEF AddressOf, TypeOK
    <3> DEFINE e == [packet |-> buffered, bytes |-> length,
                     to |-> AddressOf(buffered)]
    <3>3. e \in [packet : Datagrams, bytes : Nat, to : Clients \cup {Server, NoAddr}]
      BY <3>1, <3>2 DEF TypeOK
    <3>4. sent' = Append(sent, e)
      BY <1>3, <2>2 DEF SendBuffered, SendOut
    <3> HIDE DEF e
    <3>5. sent' \in Seq([packet : Datagrams, bytes : Nat,
                          to : Clients \cup {Server, NoAddr}])
      BY <3>3, <3>4, AppendProperties DEF TypeOK
    <3> QED BY <1>3, <2>2, <3>5 DEF SendBuffered, SendOut, FreeBuffer, TypeOK
  <2> QED BY <2>1, <2>2
<1>4. CASE CopyPacket
  <2>1. socket # <<>>
    BY <1>4 DEF CopyPacket, TypeOK
  <2>2. Head(socket) \in Datagrams
    BY <2>1, HeadOfSocket
  <2>3. CASE CopiedLength(Head(socket).shape) = 0
    BY <1>4, <2>1, <2>3 DEF CopyPacket, TypeOK
  <2>4. CASE CopiedLength(Head(socket).shape) # 0
    <3>1. /\ buffered' = Head(socket)
          /\ length' = CopiedLength(Head(socket).shape)
          /\ dest' \in {"server", "client"}
          /\ Remember(Head(socket))
          /\ pc' = "recv"
          /\ UNCHANGED <<socket, msg, arrivals, taken, handled, sent>>
      BY <1>4, <2>4 DEF CopyPacket
    <3>2. length' \in Nat /\ buffered' # Nothing
      BY <2>2, <3>1, CopiedLengthType, DatagramFields
    <3>3. clients' \in [Ids -> Clients \cup {NoAddr}]
      BY <2>2, <3>1, DatagramFields DEF Remember, TypeOK
    <3> QED BY <2>1, <2>2, <3>1, <3>2, <3>3 DEF TypeOK
  <2> QED BY <2>3, <2>4
<1>5. CASE ReceiveNothing \/ ReceivePacket
  <2>1. socket # <<>>
    BY <1>5 DEF ReceiveNothing, ReceivePacket, TypeOK
  <2>2. Head(socket) \in Datagrams /\ Tail(socket) \in Seq(Datagrams)
    BY <2>1, HeadTailProperties DEF TypeOK
  <2>3. taken' \in Seq(Datagrams) /\ socket' \in Seq(Datagrams)
    <3>1. taken' = Append(taken, Head(socket)) /\ socket' = Tail(socket)
      BY <1>5 DEF ReceiveNothing, ReceivePacket, TakeHead
    <3> QED BY <2>2, <3>1, AppendProperties DEF TypeOK
  <2> QED BY <1>5, <2>2, <2>3 DEF ReceiveNothing, ReceivePacket, TypeOK
<1>6. CASE HandleMessage \/ HandlerThrows
  <2>1. msg \in Datagrams
    BY <1>6 DEF HandleMessage, HandlerThrows, HoldsHead
  <2>2. handled' \in Seq(Datagrams)
    <3>1. handled' = Append(handled, msg)
      BY <1>6 DEF HandleMessage, HandlerThrows
    <3> QED BY <2>1, <3>1, AppendProperties DEF TypeOK
  <2> QED BY <1>6, <2>2 DEF HandleMessage, HandlerThrows, TypeOK
<1>7. CASE UNCHANGED vars
  BY <1>7 DEF vars, TypeOK
<1>8. CASE Network
  BY <1>1, <1>8 DEF Network, Request, Answer
<1> QED BY <1>2, <1>3, <1>4, <1>5, <1>6, <1>7, <1>8 DEF Next, Receiver

-----------------------------------------------------------------------------
(* The steps, as far as the invariant sees them *)

\* The loop's own steps that change neither buffer nor histories.
Idle == \/ Startup \/ NoDictionary \/ NoSocket \/ Select \/ SelectFails
        \/ HandlerCrashes
Taking == ReceiveNothing \/ ReceivePacket
Handling == HandleMessage \/ HandlerThrows

\* What arrives goes to the end of the socket's queue.
Arrives(d) ==
    /\ d \in Datagrams
    /\ d.n = arrivals + 1
    /\ d.src = Server => Asked(d.id)
    /\ pc \notin {"init", "exited", "terminated"}
    /\ arrivals' = arrivals + 1
    /\ socket' = Append(socket, d)
    /\ UNCHANGED <<pc, buffer, clients, msg, taken, handled, sent>>

LEMMA NetworkArrives ==
    ASSUME TypeOK, Network
    PROVE  \E d \in Datagrams : Arrives(d)
<1>1. PICK id \in Ids, a \in Clients \cup {Server}, s \in Shapes :
        Arrive(id, a, s) /\ (a = Server => Asked(id))
  <2>1. CASE \E c \in Clients, id \in Ids, s \in Shapes : Request(c, id, s)
    BY <2>1, ProxyAssumption DEF Request
  <2>2. CASE \E id \in Ids, s \in Shapes : Answer(id, s)
    BY <2>2 DEF Answer
  <2> QED BY <2>1, <2>2 DEF Network
<1> DEFINE d == [n |-> arrivals + 1, id |-> id, src |-> a, shape |-> s]
<1>2. d \in Datagrams
  BY <1>1, ProxyAssumption DEF Arrive, TypeOK, Datagrams
<1> QED BY <1>1, <1>2 DEF Arrive, Arrives

LEMMA NextCases ==
    ASSUME TypeOK, [Next]_vars
    PROVE  \/ \E d \in Datagrams : Arrives(d)
           \/ Idle \/ SendBuffered \/ CopyPacket \/ Taking \/ Handling
           \/ UNCHANGED vars
BY NetworkArrives DEF Next, Receiver, Idle, Taking, Handling

\* What is left to say about a step that only moves the loop on.
LEMMA IdleMoves ==
    ASSUME Idle
    PROVE  /\ UNCHANGED <<socket, buffer, clients, msg, history>>
           /\ \/ pc \in {"init", "select"}
              \/ pc = "handle" /\ pc' = "terminated"
           /\ pc' \in {"send", "copy", "exited", "terminated"}
           /\ pc' = "copy" => pc = "select"
BY DEF Idle, Startup, NoDictionary, NoSocket, Select, SelectFails,
       HandlerCrashes, At

\* The step that takes the oldest datagram.
LEMMA TakingMoves ==
    ASSUME TypeOK, Taking
    PROVE  /\ pc = "recv" /\ socket # <<>>
           /\ taken' = Append(taken, Head(socket))
           /\ socket' = Tail(socket)
           /\ \/ pc' = "send" /\ ~Whole(Head(socket).shape)
              \/ pc' = "handle" /\ msg' = Head(socket)
           /\ UNCHANGED <<buffer, clients, arrivals, handled, sent>>
BY DEF Taking, ReceiveNothing, ReceivePacket, TakeHead, At, TypeOK

-----------------------------------------------------------------------------
(* The buffer *)

LEMMA NextHoldsHead == TypeOK /\ HoldsHead /\ [Next]_vars => HoldsHead'
<1> SUFFICES ASSUME TypeOK, HoldsHead, [Next]_vars PROVE HoldsHead'
  OBVIOUS
<1> USE DEF buffer, history, At
<1>1. ASSUME NEW d \in Datagrams, Arrives(d) PROVE HoldsHead'
  <2>1. CASE pc = "recv"
    <3>1. socket # <<>> /\ socket' = Append(socket, d)
      BY <1>1, <2>1 DEF Arrives, TypeOK
    <3>2. Head(socket') = Head(socket)
      BY <3>1, Appended, HeadAndTail DEF TypeOK
    <3> QED BY <1>1, <2>1, <3>2 DEF Arrives, HoldsHead, Copied, FromClient
  <2>2. CASE pc # "recv"
    BY <1>1, <2>2 DEF Arrives, HoldsHead, FromClient
  <2> QED BY <2>1, <2>2
<1>2. CASE Idle
  BY <1>2, IdleMoves DEF HoldsHead, FromClient
<1>3. CASE SendBuffered
  BY <1>3 DEF SendBuffered, SendOut, FreeBuffer, HoldsHead
<1>4. CASE CopyPacket
  <2>1. /\ socket # <<>> /\ Head(socket) \in Datagrams
        /\ dest = "none" /\ pc' = "recv" /\ socket' = socket
    BY <1>4, HeadOfSocket DEF CopyPacket, TypeOK, HoldsHead
  <2>2. Head(socket).src \in Clients \cup {Server}
    BY <2>1, DatagramFields
  <2>3. CopiedLength(Head(socket).shape) \in Nat
    BY <2>1, DatagramFields, CopiedLengthType
  <2>4. CASE CopiedLength(Head(socket).shape) = 0
    BY <1>4, <2>1, <2>4 DEF CopyPacket, HoldsHead, Copied
  <2>5. CASE CopiedLength(Head(socket).shape) # 0
    <3>1. /\ buffered' = Head(socket)
          /\ dest' = IF Head(socket).src = Server THEN "client" ELSE "server"
      BY <1>4, <2>5 DEF CopyPacket
    <3>2. Copied(Head(socket))
      BY <2>3, <2>5 DEF Copied
    <3> QED BY <2>1, <2>2, <3>1, <3>2 DEF HoldsHead, Copied, FromClient
  <2> QED BY <2>4, <2>5
<1>5. CASE Taking
  <2>1. Head(socket) \in Datagrams
    BY <1>5, TakingMoves, HeadOfSocket
  <2> QED BY <1>5, <2>1, TakingMoves DEF HoldsHead, FromClient
<1>6. CASE Handling
  BY <1>6 DEF Handling, HandleMessage, HandlerThrows, HoldsHead, FromClient
<1>7. CASE UNCHANGED vars
  BY <1>7 DEF vars, HoldsHead, FromClient, Copied
<1> QED BY <1>1, <1>2, <1>3, <1>4, <1>5, <1>6, <1>7, NextCases

LEMMA InitHoldsHead == Init => HoldsHead
BY DEF Init, HoldsHead

(***************************************************************************)
(* The variables of the loop keep their types: no address is looked up for *)
(* an empty buffer, and nothing is taken off an empty socket.              *)
(***************************************************************************)
THEOREM ProxyTypeCorrect == Spec => []TypeOK
BY InitType, InitHoldsHead, NextType, NextHoldsHead, PTL DEF Spec

-----------------------------------------------------------------------------
(* The order of forwarding *)

LEMMA NextNumbered == TypeOK /\ Numbered /\ [Next]_vars => Numbered'
<1> SUFFICES ASSUME TypeOK, Numbered, [Next]_vars PROVE Numbered'
  OBVIOUS
<1> USE DEF buffer, history
<1>1. Len(taken) \in Nat /\ Len(socket) \in Nat
  BY LenProperties DEF TypeOK
<1>2. ASSUME NEW d \in Datagrams, Arrives(d) PROVE Numbered'
  <2>1. /\ Len(socket') = Len(socket) + 1
        /\ \A i \in 1..Len(socket) : socket'[i] = socket[i]
        /\ socket'[Len(socket) + 1] = d
    BY <1>2, Appended DEF Arrives, TypeOK
  <2>2. taken' = taken /\ arrivals' = arrivals + 1 /\ d.n = arrivals + 1
    BY <1>2 DEF Arrives
  <2>3. ASSUME NEW i \in 1..Len(socket') PROVE socket'[i].n = Len(taken') + i
    <3>1. CASE i \in 1..Len(socket)
      BY <2>1, <2>2, <3>1 DEF Numbered
    <3>2. CASE i = Len(socket) + 1
      BY <1>1, <2>1, <2>2, <3>2 DEF Numbered
    <3> QED BY <1>1, <2>1, <3>1, <3>2
  <2> QED BY <1>1, <2>1, <2>2, <2>3 DEF Numbered
<1>3. CASE Taking
  <2>1. socket # <<>> /\ taken' = Append(taken, Head(socket))
        /\ socket' = Tail(socket) /\ arrivals' = arrivals
    BY <1>3, TakingMoves
  <2>2. /\ Head(socket) = socket[1] /\ Head(socket) \in Datagrams
        /\ 1 \in 1..Len(socket) /\ Len(socket') = Len(socket) - 1
        /\ \A i \in 1..Len(socket') : socket'[i] = socket[i + 1]
    BY <2>1, HeadAndTail DEF TypeOK
  <2>3. /\ Len(taken') = Len(taken) + 1
        /\ \A i \in 1..Len(taken) : taken'[i] = taken[i]
        /\ taken'[Len(taken) + 1] = Head(socket)
    BY <2>1, <2>2, Appended DEF TypeOK
  <2>4. Head(socket).n = Len(taken) + 1
    BY <2>2 DEF Numbered
  <2>5. ASSUME NEW i \in 1..Len(taken') PROVE taken'[i].n = i
    <3>1. CASE i \in 1..Len(taken)
      BY <2>3, <3>1 DEF Numbered
    <3>2. CASE i = Len(taken) + 1
      BY <2>3, <2>4, <3>2
    <3> QED BY <1>1, <2>3, <3>1, <3>2
  <2>6. ASSUME NEW i \in 1..Len(socket') PROVE socket'[i].n = Len(taken') + i
    <3>1. i + 1 \in 1..Len(socket)
      BY <1>1, <2>2
    <3> QED BY <1>1, <2>2, <2>3, <3>1 DEF Numbered
  <2> QED BY <1>1, <2>1, <2>2, <2>3, <2>5, <2>6 DEF Numbered
<1>4. CASE Idle \/ SendBuffered \/ CopyPacket \/ Handling \/ UNCHANGED vars
  <2>1. UNCHANGED <<socket, taken, arrivals>>
    BY <1>4, IdleMoves DEF SendBuffered, CopyPacket, Handling, HandleMessage,
                           HandlerThrows, vars
  <2> QED BY <2>1 DEF Numbered
<1> QED BY <1>2, <1>3, <1>4, NextCases

LEMMA InitNumbered == Init => Numbered
<1> SUFFICES ASSUME Init PROVE Numbered
  OBVIOUS
<1>1. Len(taken) = 0 /\ Len(socket) = 0 /\ arrivals = 0
  BY EmptySeq DEF Init
<1> QED BY <1>1 DEF Numbered

\* What SendBuffered does when there is something to send.
LEMMA SendingMoves ==
    ASSUME TypeOK, SendBuffered, dest # "none"
    PROVE  /\ buffered \in Datagrams
           /\ Len(sent) \in Nat
           /\ Len(sent') = Len(sent) + 1
           /\ \A i \in 1..Len(sent) : sent'[i] = sent[i]
           /\ sent'[Len(sent) + 1].packet = buffered
           /\ sent'[Len(sent) + 1].to = AddressOf(buffered)
           /\ pc = "send" /\ pc' = "select" /\ dest' = "none"
           /\ UNCHANGED <<socket, clients, msg, arrivals, taken, handled>>
<1>1. buffered \in Datagrams
  BY DEF TypeOK
<1> DEFINE e == [packet |-> buffered, bytes |-> length,
                 to |-> AddressOf(buffered)]
           E == [packet : Datagrams, bytes : Nat, to : Clients \cup {Server, NoAddr}]
<1>2. AddressOf(buffered) \in Clients \cup {Server, NoAddr}
  BY <1>1, DatagramFields DEF AddressOf, TypeOK
<1>3. e \in E /\ sent' = Append(sent, e) /\ sent \in Seq(E)
  BY <1>1, <1>2 DEF SendBuffered, SendOut, TypeOK
<1>4. e.packet = buffered /\ e.to = AddressOf(buffered)
  OBVIOUS
<1>5. /\ Len(sent) \in Nat
      /\ Len(sent') = Len(sent) + 1
      /\ \A i \in 1..Len(sent) : sent'[i] = sent[i]
      /\ sent'[Len(sent) + 1] = e
  <2> HIDE DEF e, E
  <2> QED BY <1>3, Appended
<1> HIDE DEF e
<1> QED BY <1>1, <1>4, <1>5 DEF SendBuffered, SendOut, FreeBuffer, At

\* What CopyPacket does to the buffer.
LEMMA CopyingMoves ==
    ASSUME TypeOK, HoldsHead, CopyPacket
    PROVE  /\ pc = "copy" /\ pc' = "recv" /\ dest = "none"
           /\ Head(socket) = socket[1] /\ 1 \in 1..Len(socket)
           /\ Head(socket) \in Datagrams
           /\ \/ /\ ~Copied(Head(socket))
                 /\ UNCHANGED <<buffer, clients>>
              \/ /\ Copied(Head(socket))
                 /\ buffered' = Head(socket)
                 /\ dest' = IF Head(socket).src = Server THEN "client" ELSE "server"
                 /\ Remember(Head(socket))
           /\ UNCHANGED <<socket, msg, history>>
<1>1. pc = "copy" /\ socket # <<>>
  BY DEF CopyPacket, At, TypeOK
<1>2. /\ Head(socket) = socket[1] /\ 1 \in 1..Len(socket)
      /\ Head(socket) \in Datagrams
  BY <1>1, HeadOfSocket
<1>3. CopiedLength(Head(socket).shape) \in Nat
  BY <1>2, DatagramFields, CopiedLengthType
<1>4. Copied(Head(socket)) <=> CopiedLength(Head(socket).shape) # 0
  BY <1>3 DEF Copied
<1> QED BY <1>1, <1>2, <1>4 DEF CopyPacket, HoldsHead

InSent(d)  == \E i \in 1..Len(sent) : sent[i].packet = d
InTaken(d) == \E i \in 1..Len(taken) : taken[i] = d

\* Steps that touch neither sent, taken nor buffer, nor the oldest datagram of
\* a loop that is about to take it.
LEMMA ForwardKept ==
    ASSUME ForwardedInOrder, UNCHANGED <<sent, taken, buffer>>,
           pc' = "recv" <=> pc = "recv",
           pc = "recv" => Head(socket') = Head(socket)
    PROVE  ForwardedInOrder'
BY DEF ForwardedInOrder, Passed, Seen, Copied, buffer

LEMMA NextForward ==
    TypeOK /\ HoldsHead /\ Numbered /\ ForwardedInOrder /\ [Next]_vars
        => ForwardedInOrder'
<1> SUFFICES ASSUME TypeOK, HoldsHead, Numbered, ForwardedInOrder, [Next]_vars
             PROVE  ForwardedInOrder'
  OBVIOUS
<1>1. ASSUME NEW d \in Datagrams, Arrives(d) PROVE ForwardedInOrder'
  <2>1. pc = "recv" => Head(socket') = Head(socket)
    BY <1>1, Appended, HeadAndTail DEF Arrives, TypeOK
  <2> QED BY <1>1, <2>1, ForwardKept DEF Arrives
<1>2. CASE Idle
  BY <1>2, IdleMoves, ForwardKept DEF history
<1>3. CASE SendBuffered
  <2>1. CASE dest = "none"
    BY <1>3, <2>1, ForwardKept DEF SendBuffered, SendOut, At
  <2>2. CASE dest # "none"
    <3>1. \A i, j \in 1..Len(sent') : i < j => sent'[i].packet.n < sent'[j].packet.n
      <4> SUFFICES ASSUME NEW i \in 1..Len(sent'), NEW j \in 1..Len(sent'), i < j
                   PROVE  sent'[i].packet.n < sent'[j].packet.n
        OBVIOUS
      <4>1. i \in 1..Len(sent)
        BY <1>3, <2>2, SendingMoves
      <4>2. CASE j \in 1..Len(sent)
        BY <1>3, <2>2, <4>1, <4>2, SendingMoves DEF ForwardedInOrder
      <4>3. CASE j = Len(sent) + 1
        BY <1>3, <2>2, <4>1, <4>3, SendingMoves DEF ForwardedInOrder
      <4> QED BY <1>3, <2>2, <4>2, <4>3, SendingMoves
    <3>2. ASSUME NEW d \in Datagrams PROVE InSent(d)' <=> InSent(d) \/ buffered = d
      BY <1>3, <2>2, SendingMoves DEF InSent
    <3>3. ASSUME NEW d \in Datagrams PROVE Passed(d)' <=> Seen(d)' /\ Copied(d)'
      <4>1. Passed(d)' <=> Passed(d)
        BY <1>3, <2>2, <3>2, SendingMoves DEF Passed, InSent
      <4>2. Seen(d)' <=> Seen(d)
        BY <1>3, <2>2, SendingMoves DEF Seen
      <4> QED BY <4>1, <4>2 DEF ForwardedInOrder, Copied
    <3> QED BY <1>3, <2>2, <3>1, <3>3, SendingMoves DEF ForwardedInOrder
  <2> QED BY <2>1, <2>2
<1>4. CASE CopyPacket
  <2>1. /\ dest = "none" /\ pc = "copy" /\ pc' = "recv"
        /\ UNCHANGED <<socket, taken, sent>>
        /\ Head(socket) \in Datagrams
    BY <1>4, CopyingMoves DEF history
  <2>2. ASSUME NEW d \in Datagrams
        PROVE  Seen(d)' <=> InTaken(d) \/ d = Head(socket)
    BY <2>1 DEF Seen, InTaken
  <2>3. ASSUME NEW d \in Datagrams PROVE InSent(d) <=> InTaken(d) /\ Copied(d)
    BY <2>1 DEF ForwardedInOrder, Passed, Seen, InSent, InTaken
  <2>4. CASE ~Copied(Head(socket))
    <3>1. buffered' = buffered /\ dest' = "none"
      BY <1>4, <2>1, <2>4, CopyingMoves DEF buffer
    <3>2. ASSUME NEW d \in Datagrams PROVE Passed(d)' <=> Seen(d)' /\ Copied(d)'
      BY <2>1, <2>2, <2>3, <2>4, <3>1 DEF Passed, InSent, Copied
    <3> QED BY <2>1, <3>1, <3>2 DEF ForwardedInOrder
  <2>5. CASE Copied(Head(socket))
    <3>1. buffered' = Head(socket) /\ dest' # "none"
      BY <1>4, <2>5, CopyingMoves
    <3>2. ASSUME NEW d \in Datagrams PROVE Passed(d)' <=> Seen(d)' /\ Copied(d)'
      BY <2>1, <2>2, <2>3, <2>5, <3>1 DEF Passed, InSent, Copied
    <3>3. ASSUME NEW i \in 1..Len(sent') PROVE sent'[i].packet.n < buffered'.n
      <4>1. sent[i].packet \in Datagrams /\ InSent(sent[i].packet)
        <5>1. i \in 1..Len(sent)
          BY <2>1, <3>3
        <5>2. sent[i] \in [packet : Datagrams, bytes : Nat,
                           to : Clients \cup {Server, NoAddr}]
          BY <5>1, ElementOfSeq DEF TypeOK
        <5> QED BY <5>1, <5>2 DEF InSent
      <4>2. PICK k \in 1..Len(taken) : taken[k] = sent[i].packet
        BY <2>3, <4>1 DEF InTaken
      <4>3. sent[i].packet.n = k /\ Head(socket).n = Len(taken) + 1
        BY <1>4, <4>2, CopyingMoves DEF Numbered
      <4>4. Len(taken) \in Nat /\ k < Len(taken) + 1
        BY <4>2, LenProperties DEF TypeOK
      <4> QED BY <2>1, <3>1, <4>3, <4>4
    <3> QED BY <2>1, <3>1, <3>2, <3>3 DEF ForwardedInOrder
  <2> QED BY <2>4, <2>5
<1>5. CASE Taking
  <2>1. /\ pc = "recv" /\ pc' # "recv" /\ taken' = Append(taken, Head(socket))
        /\ UNCHANGED <<buffer, sent>> /\ socket # <<>>
    BY <1>5, TakingMoves
  <2>2. /\ Len(taken) \in Nat
        /\ Len(taken') = Len(taken) + 1
        /\ \A i \in 1..Len(taken) : taken'[i] = taken[i]
        /\ taken'[Len(taken) + 1] = Head(socket)
    BY <2>1, HeadOfSocket, Appended DEF TypeOK
  <2>3. ASSUME NEW d \in Datagrams PROVE Seen(d)' <=> Seen(d)
    BY <2>1, <2>2 DEF Seen
  <2> QED BY <2>1, <2>3 DEF ForwardedInOrder, Passed, Copied, buffer
<1>6. CASE Handling \/ UNCHANGED vars
  <2>1. /\ UNCHANGED <<sent, taken, buffer, socket>>
        /\ pc' = "recv" <=> pc = "recv"
    BY <1>6 DEF Handling, HandleMessage, HandlerThrows, At, vars, buffer
  <2> QED BY <2>1, ForwardKept
<1> QED BY <1>1, <1>2, <1>3, <1>4, <1>5, <1>6, NextCases

LEMMA InitForward == Init => ForwardedInOrder
<1> SUFFICES ASSUME Init PROVE ForwardedInOrder
  OBVIOUS
<1>1. Len(taken) = 0 /\ Len(sent) = 0 /\ dest = "none" /\ pc = "init"
  BY EmptySeq DEF Init
<1> QED BY <1>1 DEF ForwardedInOrder, Passed, Seen

(***************************************************************************)
(* Every datagram that could be copied is forwarded once, in the order of  *)
(* arrival, before the next one is taken off the socket.                   *)
(***************************************************************************)
THEOREM ForwardsInOrder == Spec => []ForwardedInOrder
BY InitType, InitHoldsHead, InitNumbered, InitForward,
   NextType, NextHoldsHead, NextNumbered, NextForward, PTL DEF Spec

-----------------------------------------------------------------------------
(* Requests come first *)

\* What was handled or sent remains so.
LEMMA RequestsStay ==
    ASSUME TypeOK, HoldsHead, [Next]_vars
    PROVE  /\ \A id : HandledRequest(id) => HandledRequest(id)'
           /\ \A id : SentRequest(id) => SentRequest(id)'
<1>1. \/ handled' = handled
      \/ /\ Len(handled') = Len(handled) + 1 /\ Len(handled) \in Nat
         /\ \A i \in 1..Len(handled) : handled'[i] = handled[i]
  <2>1. CASE Handling
    <3>1. msg \in Datagrams /\ handled' = Append(handled, msg)
      BY <2>1 DEF Handling, HandleMessage, HandlerThrows, HoldsHead, At
    <3> QED BY <3>1, Appended DEF TypeOK
  <2>2. CASE ~Handling
    BY <2>2, NextCases, IdleMoves, TakingMoves
       DEF Arrives, SendBuffered, CopyPacket, vars, history
  <2> QED BY <2>1, <2>2
<1>2. \/ sent' = sent
      \/ /\ Len(sent') = Len(sent) + 1 /\ Len(sent) \in Nat
         /\ \A i \in 1..Len(sent) : sent'[i] = sent[i]
  <2>1. CASE SendBuffered /\ dest # "none"
    BY <2>1, SendingMoves
  <2>2. CASE ~(SendBuffered /\ dest # "none")
    BY <2>2, NextCases, IdleMoves, TakingMoves
       DEF Arrives, SendBuffered, SendOut, CopyPacket, Handling, HandleMessage,
           HandlerThrows, vars, history
  <2> QED BY <2>1, <2>2
<1>3. \A id : HandledRequest(id) => HandledRequest(id)'
  BY <1>1 DEF HandledRequest, FromClient
<1>4. \A id : SentRequest(id) => SentRequest(id)'
  BY <1>2 DEF SentRequest, FromClient
<1> QED BY <1>3, <1>4

\* The server answers only what has been handled and sent.
LEMMA AskedExpected ==
    ASSUME AskedFirst, NEW id, Asked(id)
    PROVE  HandledRequest(id) /\ SentRequest(id)
BY DEF AskedFirst, Asked, Reached, SentRequest

\* Steps that bring no datagram nearer to its answer.
LEMMA AskedKept ==
    ASSUME AskedFirst, UNCHANGED <<sent, buffered, dest>>,
           \A id : HandledRequest(id) => HandledRequest(id)',
           \A id : SentRequest(id) => SentRequest(id)',
           \A i \in 1..Len(socket') : Expected(socket'[i]),
           pc' = "handle" => Expected(msg'),
           pc' = "send" /\ dest = "server" /\ Whole(buffered.shape)
              => HandledRequest(buffered.id)'
    PROVE  AskedFirst'
<1>1. \A d : Expected(d) => Expected(d)'
  BY DEF Expected
<1>2. \A i \in 1..Len(socket') : Expected(socket[i])'
  BY <1>1
<1>3. pc' = "handle" => Expected(msg)'
  BY <1>1
<1>4. dest' # "none" => Expected(buffered)'
  BY <1>1 DEF AskedFirst
<1> QED BY <1>2, <1>3, <1>4 DEF AskedFirst, FromClient, Whole

LEMMA NextAsked ==
    TypeOK /\ HoldsHead /\ AskedFirst /\ [Next]_vars => AskedFirst'
<1> SUFFICES ASSUME TypeOK, HoldsHead, AskedFirst, [Next]_vars
             PROVE  AskedFirst'
  OBVIOUS
<1>0. /\ \A id : HandledRequest(id) => HandledRequest(id)'
      /\ \A id : SentRequest(id) => SentRequest(id)'
  BY RequestsStay
<1>1. ASSUME NEW d \in Datagrams, Arrives(d) PROVE AskedFirst'
  <2>1. /\ Len(socket') = Len(socket) + 1 /\ Len(socket) \in Nat
        /\ \A i \in 1..Len(socket) : socket'[i] = socket[i]
        /\ socket'[Len(socket) + 1] = d
    BY <1>1, Appended DEF Arrives, TypeOK
  <2>2. Expected(d)
    <3> SUFFICES ASSUME d.src = Server
                 PROVE  HandledRequest(d.id) /\ SentRequest(d.id)
      BY DEF Expected
    <3>1. Asked(d.id)
      BY <1>1 DEF Arrives
    <3> QED BY <3>1, AskedExpected
  <2>3. \A i \in 1..Len(socket') : Expected(socket'[i])
    BY <2>1, <2>2 DEF AskedFirst
  <2>4. /\ UNCHANGED <<sent, buffered, dest>>
        /\ pc' = "handle" => Expected(msg')
        /\ pc' = "send" /\ dest = "server" /\ Whole(buffered.shape)
              => HandledRequest(buffered.id)'
    BY <1>0, <1>1 DEF Arrives, buffer, AskedFirst
  <2> QED BY <1>0, <2>3, <2>4, AskedKept
<1>2. CASE Idle
  <2>1. /\ UNCHANGED <<sent, buffered, dest, socket>>
        /\ pc' # "handle" /\ (pc' = "send" => dest = "none")
    BY <1>2, IdleMoves DEF buffer, history, HoldsHead
  <2>2. \A i \in 1..Len(socket') : Expected(socket'[i])
    BY <2>1 DEF AskedFirst
  <2> QED BY <1>0, <2>1, <2>2, AskedKept
<1>3. CASE SendBuffered
  <2>1. CASE dest = "none"
    <3>1. /\ UNCHANGED <<sent, buffered, dest, socket>>
          /\ pc' # "handle" /\ pc' # "send"
      BY <1>3, <2>1 DEF SendBuffered, SendOut, buffer
    <3>2. \A i \in 1..Len(socket') : Expected(socket'[i])
      BY <3>1 DEF AskedFirst
    <3> QED BY <1>0, <3>1, <3>2, AskedKept
  <2>2. CASE dest # "none"
    <3>1. /\ pc = "send" /\ pc' = "select" /\ dest' = "none"
          /\ UNCHANGED <<socket, clients, handled>>
          /\ Len(sent') = Len(sent) + 1 /\ Len(sent) \in Nat
          /\ \A i \in 1..Len(sent) : sent'[i] = sent[i]
          /\ sent'[Len(sent) + 1].packet = buffered
          /\ sent'[Len(sent) + 1].to = AddressOf(buffered)
          /\ buffered \in Datagrams
      BY <1>3, <2>2, SendingMoves
    <3>2. AddressOf(buffered) = Server => dest = "server"
      <4>1. buffered.id \in Ids /\ clients \in [Ids -> Clients \cup {NoAddr}]
        BY <3>1, DatagramFields DEF TypeOK
      <4> QED BY <4>1, <2>2, ProxyAssumption DEF AddressOf, TypeOK
    <3>3. ASSUME NEW i \in 1..Len(sent'), sent'[i].to = Server
          PROVE  /\ FromClient(sent'[i].packet)
                 /\ Whole(sent'[i].packet.shape)
                       => HandledRequest(sent'[i].packet.id)
      <4>1. CASE i \in 1..Len(sent)
        BY <3>1, <3>3, <4>1 DEF AskedFirst
      <4>2. CASE i = Len(sent) + 1
        BY <3>1, <3>2, <3>3, <4>2 DEF AskedFirst, HoldsHead
      <4> QED BY <3>1, <4>1, <4>2
    <3>4. \A i \in 1..Len(sent') :
             sent'[i].to = Server =>
                 /\ FromClient(sent[i].packet)'
                 /\ Whole(sent[i].packet.shape)'
                       => HandledRequest(sent[i].packet.id)'
      BY <3>1, <3>3 DEF FromClient, Whole, HandledRequest
    <3>5. \A i \in 1..Len(socket') : Expected(socket[i])'
      BY <1>0, <3>1 DEF AskedFirst, Expected
    <3> QED BY <3>1, <3>4, <3>5 DEF AskedFirst
  <2> QED BY <2>1, <2>2
<1>4. CASE CopyPacket
  <2>1. /\ pc' = "recv" /\ UNCHANGED <<socket, sent, handled>>
        /\ Head(socket) = socket[1] /\ 1 \in 1..Len(socket)
        /\ \/ dest' = "none" \/ buffered' = Head(socket)
    BY <1>4, CopyingMoves DEF history, buffer
  <2>2. Expected(Head(socket))
    BY <2>1 DEF AskedFirst
  <2>3. dest' # "none" => Expected(buffered)'
    BY <1>0, <2>1, <2>2 DEF Expected
  <2>4. \A i \in 1..Len(socket') : Expected(socket[i])'
    BY <1>0, <2>1 DEF AskedFirst, Expected
  <2>5. \A i \in 1..Len(sent') :
           sent'[i].to = Server =>
               /\ FromClient(sent[i].packet)'
               /\ Whole(sent[i].packet.shape)'
                     => HandledRequest(sent[i].packet.id)'
    BY <2>1 DEF AskedFirst, FromClient, Whole, HandledRequest
  <2> QED BY <2>1, <2>3, <2>4, <2>5 DEF AskedFirst
<1>5. CASE Taking
  <2>1. /\ pc = "recv" /\ socket # <<>> /\ socket' = Tail(socket)
        /\ \/ pc' = "send" /\ ~Whole(Head(socket).shape)
           \/ pc' = "handle" /\ msg' = Head(socket)
        /\ UNCHANGED <<sent, buffered, dest>>
    BY <1>5, TakingMoves DEF buffer
  <2>2. /\ Head(socket) = socket[1] /\ 1 \in 1..Len(socket)
        /\ Len(socket') = Len(socket) - 1 /\ Len(socket) \in Nat
        /\ \A i \in 1..Len(socket') : socket'[i] = socket[i + 1]
    BY <2>1, HeadAndTail DEF TypeOK
  <2>3. \A i \in 1..Len(socket') : Expected(socket'[i])
    <3> SUFFICES ASSUME NEW i \in 1..Len(socket') PROVE Expected(socket'[i])
      OBVIOUS
    <3>1. i + 1 \in 1..Len(socket)
      BY <2>2
    <3> QED BY <2>2, <3>1 DEF AskedFirst
  <2>4. pc' = "handle" => Expected(msg')
    BY <2>1, <2>2 DEF AskedFirst
  <2>5. ~(pc' = "send" /\ dest = "server" /\ Whole(buffered.shape))
    BY <2>1 DEF HoldsHead
  <2> QED BY <1>0, <2>1, <2>3, <2>4, <2>5, AskedKept
<1>6. CASE Handling
  <2>1. /\ pc = "handle" /\ pc' # "handle" /\ msg \in Datagrams
        /\ handled' = Append(handled, msg)
        /\ UNCHANGED <<sent, buffered, dest, socket>>
    BY <1>6 DEF Handling, HandleMessage, HandlerThrows, At, HoldsHead, buffer
  <2>2. /\ Len(handled) \in Nat /\ Len(handled') = Len(handled) + 1
        /\ handled'[Len(handled) + 1] = msg
    BY <2>1, Appended DEF TypeOK
  <2>3. dest = "server" => HandledRequest(buffered.id)'
    BY <2>1, <2>2 DEF HoldsHead, HandledRequest, FromClient
  <2>4. \A i \in 1..Len(socket') : Expected(socket'[i])
    BY <2>1 DEF AskedFirst
  <2> QED BY <1>0, <2>1, <2>3, <2>4, AskedKept
<1>7. CASE UNCHANGED vars
  <2>1. UNCHANGED <<pc, sent, buffered, dest, socket, msg>>
    BY <1>7 DEF vars
  <2>2. /\ \A i \in 1..Len(socket') : Expected(socket'[i])
        /\ pc' = "handle" => Expected(msg')
        /\ pc' = "send" /\ dest = "server" /\ Whole(buffered.shape)
              => HandledRequest(buffered.id)'
    BY <1>0, <2>1 DEF AskedFirst
  <2> QED BY <1>0, <2>1, <2>2, AskedKept
<1> QED BY <1>1, <1>2, <1>3, <1>4, <1>5, <1>6, <1>7, NextCases

LEMMA InitAsked == Init => AskedFirst /\ RequestFirst
<1> SUFFICES ASSUME Init PROVE AskedFirst /\ RequestFirst
  OBVIOUS
<1>1. /\ Len(sent) = 0 /\ Len(socket) = 0 /\ Len(handled) = 0
      /\ pc = "init" /\ dest = "none"
  BY EmptySeq DEF Init
<1> QED BY <1>1 DEF AskedFirst, RequestFirst

LEMMA NextRequestFirst ==
    TypeOK /\ HoldsHead /\ AskedFirst /\ RequestFirst /\ [Next]_vars
        => RequestFirst'
<1> SUFFICES ASSUME TypeOK, HoldsHead, AskedFirst, RequestFirst, [Next]_vars
             PROVE  RequestFirst'
  OBVIOUS
<1>1. CASE Handling
  <2>1. /\ pc = "handle" /\ msg \in Datagrams /\ Expected(msg)
        /\ handled' = Append(handled, msg)
    BY <1>1 DEF Handling, HandleMessage, HandlerThrows, At, HoldsHead, AskedFirst
  <2>2. /\ Len(handled) \in Nat /\ Len(handled') = Len(handled) + 1
        /\ \A i \in 1..Len(handled) : handled'[i] = handled[i]
        /\ handled'[Len(handled) + 1] = msg
    BY <2>1, Appended DEF TypeOK
  <2>3. SUFFICES ASSUME NEW i \in 1..Len(handled'), handled'[i].src = Server
                 PROVE  \E j \in 1..i-1 : /\ FromClient(handled'[j])
                                          /\ handled'[j].id = handled'[i].id
    BY DEF RequestFirst, FromClient
  <2>4. CASE i \in 1..Len(handled)
    <3>1. PICK j \in 1..i-1 : /\ FromClient(handled[j])
                               /\ handled[j].id = handled[i].id
      BY <2>2, <2>3, <2>4 DEF RequestFirst
    <3> QED BY <2>2, <2>4, <3>1
  <2>5. CASE i = Len(handled) + 1
    <3>1. PICK j \in 1..Len(handled) : /\ FromClient(handled[j])
                                        /\ handled[j].id = msg.id
      BY <2>1, <2>2, <2>3, <2>5 DEF Expected, HandledRequest
    <3> QED BY <2>2, <2>5, <3>1
  <2> QED BY <2>2, <2>4, <2>5
<1>2. CASE ~Handling
  <2>1. handled' = handled
    BY <1>2, NextCases, IdleMoves, TakingMoves
       DEF Arrives, SendBuffered, CopyPacket, vars, history
  <2> QED BY <2>1 DEF RequestFirst, FromClient
<1> QED BY <1>1, <1>2

(***************************************************************************)
(* A request has been handled before its answer is.                        *)
(***************************************************************************)
THEOREM RequestsComeFirst == Spec => []RequestFirst
BY InitType, InitHoldsHead, InitAsked,
   NextType, NextHoldsHead, NextAsked, NextRequestFirst, PTL DEF Spec

-----------------------------------------------------------------------------
(* The address under an id *)

\* Steps that change neither sent, buffer nor addresses.
LEMMA RememberedKept ==
    ASSUME Remembered, UNCHANGED <<sent, buffered, dest, clients>>
    PROVE  Remembered'
<1>1. \A id \in Ids : SentRequest(id)' => SentRequest(id)
  BY DEF SentRequest, FromClient
<1>2. \A id \in Ids : LastAsker(id, clients[id]) => LastAsker(id, clients[id])'
  BY DEF LastAsker, FromClient
<1> QED BY <1>1, <1>2 DEF Remembered

LEMMA NextRemembered ==
    TypeOK /\ HoldsHead /\ Remembered /\ [Next]_vars => Remembered'
<1> SUFFICES ASSUME TypeOK, HoldsHead, Remembered, [Next]_vars
             PROVE  Remembered'
  OBVIOUS
<1>1. CASE SendBuffered /\ dest # "none"
  <2>1. /\ dest' = "none" /\ clients' = clients
        /\ Len(sent') = Len(sent) + 1 /\ Len(sent) \in Nat
        /\ \A i \in 1..Len(sent) : sent'[i] = sent[i]
        /\ sent'[Len(sent) + 1].packet = buffered
        /\ buffered \in Datagrams
    BY <1>1, SendingMoves
  <2>2. SUFFICES ASSUME NEW id \in Ids, SentRequest(id)'
                 PROVE  LastAsker(id, clients[id])'
    BY <2>1 DEF Remembered
  <2>3. CASE dest = "server" /\ buffered.id = id
    <3>1. clients[id] = buffered.src
      BY <2>3 DEF Remembered
    <3>2. /\ Len(sent) + 1 \in 1..Len(sent')
          /\ sent'[Len(sent) + 1].packet.src = clients'[id]
          /\ sent'[Len(sent) + 1].packet.id = id
          /\ (Len(sent) + 1) + 1..Len(sent') = {}
      BY <2>1, <2>3, <3>1
    <3> QED BY <3>2 DEF LastAsker
  <2>4. CASE ~(dest = "server" /\ buffered.id = id)
    <3>1. ~(FromClient(buffered) /\ buffered.id = id)
      BY <1>1, <2>4, ProxyAssumption DEF HoldsHead, FromClient, TypeOK
    <3>2. SentRequest(id)
      BY <2>1, <2>2, <3>1 DEF SentRequest, FromClient
    <3>3. PICK j \in 1..Len(sent) :
             /\ sent[j].packet.src = clients[id]
             /\ sent[j].packet.id = id
             /\ \A k \in j+1..Len(sent) : FromClient(sent[k].packet) =>
                                          sent[k].packet.id # id
      BY <2>4, <3>2 DEF Remembered, LastAsker
    <3>4. \A k \in j+1..Len(sent') : FromClient(sent'[k].packet) =>
                                     sent'[k].packet.id # id
      <4> SUFFICES ASSUME NEW k \in j+1..Len(sent')
                   PROVE  FromClient(sent'[k].packet) => sent'[k].packet.id # id
        OBVIOUS
      <4>1. CASE k \in j+1..Len(sent)
        BY <2>1, <3>3, <4>1
      <4>2. CASE k = Len(sent) + 1
        BY <2>1, <3>1, <4>2
      <4> QED BY <2>1, <4>1, <4>2
    <3>5. j \in 1..Len(sent') /\ sent'[j] = sent[j]
      BY <2>1
    <3> QED BY <2>1, <3>3, <3>4, <3>5 DEF LastAsker, FromClient
  <2> QED BY <2>3, <2>4
<1>2. CASE CopyPacket
  <2>1. /\ sent' = sent /\ dest = "none" /\ Head(socket) \in Datagrams
        /\ \/ UNCHANGED <<buffered, dest, clients>>
           \/ /\ buffered' = Head(socket)
              /\ dest' = IF Head(socket).src = Server THEN "client" ELSE "server"
              /\ Remember(Head(socket))
    BY <1>2, CopyingMoves DEF buffer, history
  <2>2. CASE UNCHANGED <<buffered, dest, clients>>
    BY <2>1, <2>2, RememberedKept
  <2>3. CASE /\ buffered' = Head(socket)
             /\ dest' = IF Head(socket).src = Server THEN "client" ELSE "server"
             /\ Remember(Head(socket))
    <3>1. Head(socket).id \in Ids
      BY <2>1, DatagramFields
    <3> SUFFICES ASSUME NEW id \in Ids
                 PROVE  IF dest' = "server" /\ buffered'.id = id
                        THEN clients'[id] = buffered'.src
                        ELSE SentRequest(id)' => LastAsker(id, clients[id])'
      BY DEF Remembered
    <3>2. CASE dest' = "server" /\ buffered'.id = id
      <4>1. clients' = [clients EXCEPT ![Head(socket).id] = Head(socket).src]
        BY <2>3, <3>2 DEF Remember
      <4> QED BY <2>3, <3>1, <3>2, <4>1 DEF TypeOK
    <3>3. CASE ~(dest' = "server" /\ buffered'.id = id)
      <4>1. clients'[id] = clients[id]
        BY <2>3, <3>1, <3>3 DEF Remember, TypeOK
      <4>2. SentRequest(id) => LastAsker(id, clients[id])
        BY <2>1 DEF Remembered
      <4> QED BY <2>1, <3>3, <4>1, <4>2 DEF SentRequest, LastAsker, FromClient
    <3> QED BY <3>2, <3>3
  <2> QED BY <2>1, <2>2, <2>3
<1>3. CASE ~(SendBuffered /\ dest # "none") /\ ~CopyPacket
  <2>1. UNCHANGED <<sent, buffered, dest, clients>>
    BY <1>3, NextCases, IdleMoves, TakingMoves
       DEF Arrives, SendBuffered, SendOut, Handling, HandleMessage,
           HandlerThrows, vars, history, buffer
  <2> QED BY <2>1, RememberedKept
<1> QED BY <1>1, <1>2, <1>3

LEMMA NextAnswers ==
    TypeOK /\ HoldsHead /\ AskedFirst /\ Remembered /\ AnswersToAsker
        /\ [Next]_vars => AnswersToAsker'
<1> SUFFICES ASSUME TypeOK, HoldsHead, AskedFirst, Remembered, AnswersToAsker,
                    [Next]_vars
             PROVE  AnswersToAsker'
  OBVIOUS
<1> DEFINE Asker(s, i) ==
      \E j \in 1..i-1 :
          /\ s[j].packet.src = s[i].to
          /\ s[j].packet.id = s[i].packet.id
          /\ \A k \in j+1..i-1 : FromClient(s[k].packet) =>
                                  s[k].packet.id # s[i].packet.id
<1>1. CASE SendBuffered /\ dest # "none"
  <2>1. /\ Len(sent') = Len(sent) + 1 /\ Len(sent) \in Nat
        /\ \A i \in 1..Len(sent) : sent'[i] = sent[i]
        /\ sent'[Len(sent) + 1].packet = buffered
        /\ sent'[Len(sent) + 1].to = AddressOf(buffered)
        /\ buffered \in Datagrams
    BY <1>1, SendingMoves
  <2>2. ASSUME NEW i \in 1..Len(sent') , sent'[i].packet.src = Server
        PROVE  Asker(sent', i)
    <3>1. CASE i \in 1..Len(sent)
      <4>1. PICK j \in 1..i-1 :
               /\ sent[j].packet.src = sent[i].to
               /\ sent[j].packet.id = sent[i].packet.id
               /\ \A k \in j+1..i-1 : FromClient(sent[k].packet) =>
                                       sent[k].packet.id # sent[i].packet.id
        BY <2>1, <2>2, <3>1 DEF AnswersToAsker
      <4>2. \A k \in 1..i : sent'[k] = sent[k]
        BY <2>1, <3>1
      <4>3. /\ sent'[j] = sent[j] /\ sent'[i] = sent[i]
            /\ \A k \in j+1..i-1 : sent'[k] = sent[k]
        BY <3>1, <4>1, <4>2
      <4> QED BY <4>1, <4>3
    <3>2. CASE i = Len(sent) + 1
      <4>1. dest = "client" /\ buffered.id \in Ids
        BY <1>1, <2>1, <2>2, <3>2, DatagramFields, ProxyAssumption
           DEF HoldsHead, FromClient, TypeOK
      <4>2. SentRequest(buffered.id)
        BY <1>1, <2>1, <2>2, <3>2 DEF AskedFirst, Expected
      <4>3. LastAsker(buffered.id, clients[buffered.id])
        BY <4>1, <4>2 DEF Remembered
      <4>4. sent'[i].to = clients[buffered.id] /\ sent'[i].packet = buffered
        BY <2>1, <3>2, <4>1 DEF AddressOf
      <4>5. i - 1 = Len(sent)
        BY <2>1, <3>2
      <4> QED BY <2>1, <4>3, <4>4, <4>5 DEF LastAsker
    <3> QED BY <2>1, <3>1, <3>2
  <2> QED BY <2>2 DEF AnswersToAsker, FromClient
<1>2. CASE ~(SendBuffered /\ dest # "none")
  <2>1. sent' = sent
    BY <1>2, NextCases, IdleMoves, TakingMoves
       DEF Arrives, SendBuffered, SendOut, CopyPacket, Handling, HandleMessage,
           HandlerThrows, vars, history
  <2> QED BY <2>1 DEF AnswersToAsker, FromClient
<1> QED BY <1>1, <1>2

LEMMA InitRemembered == Init => Remembered /\ AnswersToAsker
<1> SUFFICES ASSUME Init PROVE Remembered /\ AnswersToAsker
  OBVIOUS
<1>1. Len(sent) = 0 /\ dest = "none"
  BY EmptySeq DEF Init
<1> QED BY <1>1 DEF Remembered, SentRequest, AnswersToAsker

(***************************************************************************)
(* An answer goes to the client that asked last with its id.               *)
(***************************************************************************)
THEOREM AnswersFindAsker == Spec => []AnswersToAsker
BY InitType, InitHoldsHead, InitAsked, InitRemembered,
   NextType, NextHoldsHead, NextAsked, NextRemembered, NextAnswers, PTL DEF Spec
=============================================================================
