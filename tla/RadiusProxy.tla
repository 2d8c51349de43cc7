---------------------------- MODULE RadiusProxy ----------------------------
(***************************************************************************)
(* The receiver's main loop (RadiusMessageReceiver::start) with the proxy  *)
(* mode of RadiusProxyMsgReceiver: a datagram is peeked at and copied,     *)
(* then taken off the socket and handled, and forwarded when the loop      *)
(* comes back to waitForRadiusPacket.                                      *)
(*                                                                         *)
(* Around it: clients that send requests, also the same one again, and a   *)
(* server that answers, once or more often, the requests that reach it     *)
(* whole. The network may lose and reorder datagrams: what arrives is any  *)
(* sequence of them.                                                       *)
(***************************************************************************)
EXTENDS Integers, FiniteSets, SequencesExt

CONSTANTS Clients,      \* addresses of the clients
          Server,       \* server_addr_
          NoAddr,       \* the zero address
          Ids,          \* packet identifiers, one byte
          Shapes,       \* records of a datagram's size and its length field
          MaxArrivals   \* bound: datagrams that arrive

ASSUME ProxyAssumption ==
    /\ Server \notin Clients
    /\ NoAddr \notin Clients \cup {Server}
    /\ Shapes \subseteq [size : Nat, len : Nat]
    /\ \A s \in Shapes : s.size <= 65507 /\ s.len <= 65535
    /\ MaxArrivals \in Nat

\* A datagram, the n-th that arrives. The code does not know n.
Datagrams == [n : 1..MaxArrivals, id : Ids, src : Clients \cup {Server},
              shape : Shapes]
Nothing == [n |-> 0, id |-> NoAddr, src |-> NoAddr, shape |-> NoAddr]

VARIABLES
    socket,     \* datagrams received by the kernel, oldest first
    pc,         \* the step of the loop; "exited": main has returned,
                \*   "terminated": by a signal, or by an exception that
                \*   nothing catches
    buffered,   \* bufferedPacket: the datagram it was copied from
    length,     \* bufferedPacketLen
    dest,       \* bufferedPacketDestination
    clients,    \* client_addrs_
    msg,        \* the datagram from which msg was built
    arrivals,   \* history: how many datagrams arrived
    taken,      \* history: datagrams that rad_recv took off the socket
    handled,    \* history: those for which handleMessage was called
    sent        \* history: calls of sendto: datagram, bytes, address

vars == <<socket, pc, buffered, length, dest, clients, msg,
          arrivals, taken, handled, sent>>

buffer  == <<buffered, length, dest>>
history == <<arrivals, taken, handled, sent>>

At(step) == pc = step
FromClient(d) == d.src \in Clients

-----------------------------------------------------------------------------
(* Lengths *)

HeaderSize == 4      \* bytes peeked at
MinPacket == 20      \* a RADIUS header; rad_recv rejects anything shorter

\* A byte read through char, which is signed where the project is built.
SignedChar(b) == IF b < 128 THEN b ELSE b - 256

\* (header[2] * 256) + header[3], before it becomes a uint32_t
ReadLength(s) == SignedChar(s.len \div 256) * 256 + SignedChar(s.len % 256)

\* What copyReceivedRadiusPacket returns in len: 0 when the header or the
\* packet is not all there. A negative length becomes a very large one.
CopiedLength(s) ==
    IF s.size < HeaderSize \/ ReadLength(s) < 0 \/ s.size < ReadLength(s)
    THEN 0 ELSE ReadLength(s)

\* rad_recv accepts the datagram, as does the server.
Whole(s) == MinPacket <= s.len /\ s.len <= s.size

-----------------------------------------------------------------------------
Init == /\ socket = <<>>
        /\ pc = "init"
        /\ buffered = Nothing /\ length = 0 /\ dest = "none"
        /\ clients = [id \in Ids |-> NoAddr]
        /\ msg = Nothing
        /\ arrivals = 0 /\ taken = <<>> /\ handled = <<>> /\ sent = <<>>

-----------------------------------------------------------------------------
(* The network *)

Arrive(id, a, s) ==
    /\ pc \notin {"init", "exited", "terminated"}
    /\ arrivals < MaxArrivals
    /\ arrivals' = arrivals + 1
    /\ socket' = Append(socket, [n |-> arrivals + 1, id |-> id, src |-> a,
                                 shape |-> s])
    /\ UNCHANGED <<pc, buffer, clients, msg, taken, handled, sent>>

Request(c, id, s) == Arrive(id, c, s)

\* All of a request has reached the server.
Reached(e) == /\ e.to = Server
              /\ Whole(e.packet.shape)
              /\ e.bytes >= e.packet.shape.len

Asked(id) == \E i \in 1..Len(sent) : Reached(sent[i]) /\ sent[i].packet.id = id

Answer(id, s) == /\ Asked(id)
                 /\ Whole(s)
                 /\ Arrive(id, Server, s)

-----------------------------------------------------------------------------
(* RadiusMessageReceiver::start *)

\* The dictionary is read, the socket created and bound.
Startup == /\ At("init")
           /\ pc' = "send"
           /\ UNCHANGED <<socket, buffer, clients, msg, history>>

\* No dictionary: start() returns, and so does main.
NoDictionary == /\ At("init")
                /\ pc' = "exited"
                /\ UNCHANGED <<socket, buffer, clients, msg, history>>

\* socket() or bind() fails: what is thrown is a pointer, which main does not
\* catch.
NoSocket == /\ At("init")
            /\ pc' = "terminated"
            /\ UNCHANGED <<socket, buffer, clients, msg, history>>

TakeHead == /\ taken' = Append(taken, Head(socket))
            /\ socket' = Tail(socket)

\* Bug for comparison: rad_recv may drop a whole packet.
ReceiveFails ==
    /\ At("recv")
    /\ TakeHead
    /\ pc' = "send"
    /\ UNCHANGED <<buffer, clients, msg, arrivals, handled, sent>>

\* rad_recv finds the datagram unacceptable and drops it.
ReceiveNothing ==
    /\ At("recv")
    /\ ~Whole(Head(socket).shape)
    /\ TakeHead
    /\ pc' = "send"
    /\ UNCHANGED <<buffer, clients, msg, arrivals, handled, sent>>

\* rad_recv returns a packet, from which the message is built.
ReceivePacket ==
    /\ At("recv")
    /\ Whole(Head(socket).shape)
    /\ TakeHead
    /\ msg' = Head(socket)
    /\ pc' = "handle"
    /\ UNCHANGED <<buffer, clients, arrivals, handled, sent>>

\* handler->handleMessage(msg) ...
HandleMessage ==
    /\ At("handle")
    /\ handled' = Append(handled, msg)
    /\ msg' = Nothing
    /\ pc' = "send"
    /\ UNCHANGED <<socket, buffer, clients, arrivals, taken, sent>>

\* ... which throws when the reporter does; main catches it and returns.
HandlerThrows ==
    /\ At("handle")
    /\ handled' = Append(handled, msg)
    /\ msg' = Nothing
    /\ pc' = "exited"
    /\ UNCHANGED <<socket, buffer, clients, arrivals, taken, sent>>

\* ... or reads through a null pair: the process ends within the call.
HandlerCrashes ==
    /\ At("handle")
    /\ pc' = "terminated"
    /\ UNCHANGED <<socket, buffer, clients, msg, history>>

-----------------------------------------------------------------------------
(* waitForRadiusPacket *)

AddressOf(d) == IF dest = "client" THEN clients[d.id] ELSE Server

\* Bug for comparison: the buffer is freed and its destination kept.
FreeBytes == buffered' = Nothing /\ length' = 0 /\ UNCHANGED dest

FreeBuffer == buffered' = Nothing /\ length' = 0 /\ dest' = "none"

SendOut == IF dest = "none"
           THEN UNCHANGED <<sent, buffer>>
           ELSE /\ sent' = Append(sent, [packet |-> buffered, bytes |-> length,
                                         to |-> AddressOf(buffered)])
                /\ FreeBuffer

\* Bug for comparison: the next datagram is waited for before the buffered
\* one is sent.
SendWithNext ==
    /\ At("send")
    /\ socket # <<>>
    /\ SendOut
    /\ pc' = "select"
    /\ UNCHANGED <<socket, clients, msg, arrivals, taken, handled>>

\* A buffered packet is sent: a request to the server, an answer to the
\* address stored under its id.
SendBuffered ==
    /\ At("send")
    /\ SendOut
    /\ pc' = "select"
    /\ UNCHANGED <<socket, clients, msg, arrivals, taken, handled>>

\* select() says that there is a datagram.
Select == /\ At("select")
          /\ socket # <<>>
          /\ pc' = "copy"
          /\ UNCHANGED <<socket, buffer, clients, msg, history>>

\* The descriptor sets were never cleared: select() may fail, or count other
\* descriptors. The exception is caught by start(), which tries again.
SelectFails == /\ At("select")
               /\ pc' = "send"
               /\ UNCHANGED <<socket, buffer, clients, msg, history>>

\* Bug for comparison: the first client that uses an id keeps it.
RememberFirst(d) ==
    clients' = IF d.src = Server \/ clients[d.id] # NoAddr THEN clients
               ELSE [clients EXCEPT ![d.id] = d.src]

Remember(d) == clients' = IF d.src = Server THEN clients
                          ELSE [clients EXCEPT ![d.id] = d.src]

\* The datagram is copied, and left on the socket for rad_recv.
CopyPacket ==
    /\ At("copy")
    /\ LET d == Head(socket)
       IN IF CopiedLength(d.shape) = 0
          THEN UNCHANGED <<buffer, clients>>
          ELSE /\ buffered' = d
               /\ length' = CopiedLength(d.shape)
               /\ dest' = IF d.src = Server THEN "client" ELSE "server"
               /\ Remember(d)
    /\ pc' = "recv"
    /\ UNCHANGED <<socket, msg, history>>

-----------------------------------------------------------------------------
Network == \/ \E c \in Clients, id \in Ids, s \in Shapes : Request(c, id, s)
           \/ \E id \in Ids, s \in Shapes : Answer(id, s)

Receiver == \/ Startup \/ NoDictionary \/ NoSocket
            \/ SendBuffered \/ Select \/ SelectFails \/ CopyPacket
            \/ ReceiveNothing \/ ReceivePacket
            \/ HandleMessage \/ HandlerThrows \/ HandlerCrashes

Next == Network \/ Receiver

\* The process runs. Nothing makes a datagram arrive.
Spec == Init /\ [][Next]_vars /\ WF_vars(Receiver)

-----------------------------------------------------------------------------
(* Properties *)

Steps == {"init", "send", "select", "copy", "recv", "handle", "exited",
          "terminated"}

TypeOK == /\ socket \in Seq(Datagrams)
          /\ pc \in Steps
          /\ pc \in {"copy", "recv"} => socket # <<>>
          /\ dest \in {"none", "server", "client"}
          /\ buffered \in Datagrams \cup {Nothing}
          /\ length \in Nat
          /\ dest = "none" <=> buffered = Nothing
          /\ clients \in [Ids -> Clients \cup {NoAddr}]
          /\ msg \in Datagrams \cup {Nothing}
          /\ arrivals \in 0..MaxArrivals
          /\ taken \in Seq(Datagrams)
          /\ handled \in Seq(Datagrams)
          /\ sent \in Seq([packet : Datagrams, bytes : Nat,
                           to : Clients \cup {Server, NoAddr}])

(***************************************************************************)
(* Every datagram that could be copied is forwarded once, in the order of  *)
(* arrival and before the next is taken, whether or not rad_recv accepts   *)
(* it (RadiusProxyMsgReceiver.cpp:89-110,137).                             *)
(***************************************************************************)
Seen(d) == \/ \E i \in 1..Len(taken) : taken[i] = d
           \/ pc = "recv" /\ Head(socket) = d
Copied(d) == CopiedLength(d.shape) > 0
Passed(d) == \/ \E i \in 1..Len(sent) : sent[i].packet = d
             \/ dest # "none" /\ buffered = d

ForwardedInOrder ==
    /\ \A d \in Datagrams : Passed(d) <=> Seen(d) /\ Copied(d)
    /\ \A i, j \in 1..Len(sent) : i < j => sent[i].packet.n < sent[j].packet.n
    /\ \A i \in 1..Len(sent) :
          dest # "none" => sent[i].packet.n < buffered.n

(***************************************************************************)
(* A packet is proxied "after it is processed by Pairer"                   *)
(* (RadiusProxyMsgReceiver.h:13), so that an answer is never handled       *)
(* before a request with its id was: pairing relies on it to tell the one  *)
(* from the other.                                                         *)
(***************************************************************************)
RequestFirst ==
    \A i \in 1..Len(handled) :
        handled[i].src = Server =>
            \E j \in 1..i-1 : /\ FromClient(handled[j])
                              /\ handled[j].id = handled[i].id

(***************************************************************************)
(* An answer goes to a client that has asked with this id, never to the    *)
(* zero address with which client_addrs_ begins, and to the client that    *)
(* asked last when several did (RadiusProxyMsgReceiver.cpp:95,134).        *)
(***************************************************************************)
AnswersToAsker ==
    \A i \in 1..Len(sent) :
        sent[i].packet.src = Server =>
            \E j \in 1..i-1 :
                /\ sent[j].packet.src = sent[i].to
                /\ sent[j].packet.id = sent[i].packet.id
                /\ \A k \in j+1..i-1 : FromClient(sent[k].packet) =>
                                       sent[k].packet.id # sent[i].packet.id

(***************************************************************************)
(* A packet in the buffer is sent at last, unless the process ends first.  *)
(***************************************************************************)
BufferedIsSent == (dest # "none") ~> (dest = "none" \/ pc \in {"exited", "terminated"})

-----------------------------------------------------------------------------
(* What a comment says, and the code does not keep *)

(***************************************************************************)
(* "it may be used as transparent proxy between client and server"         *)
(* (RadiusProxyMsgReceiver.h:17): the loop does not wait for the next      *)
(* datagram before it has forwarded the packets it took, all their bytes.  *)
(***************************************************************************)
Transparent ==
    pc = "select" =>
        \A i \in 1..Len(taken) :
            Whole(taken[i].shape) =>
                \E j \in 1..Len(sent) : /\ sent[j].packet = taken[i]
                                        /\ sent[j].bytes = taken[i].shape.len
=============================================================================
