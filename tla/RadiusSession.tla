--------------------------- MODULE RadiusSession ---------------------------
(***************************************************************************)
(* Pairer between RADIUS clients and their server: the proxy's loop        *)
(* (RadiusProxy) hands each message to the pairing core, of which only the *)
(* promise is used here (PairMonitor, which Pairing implements).           *)
(*                                                                         *)
(* Added to the network is what the packet ids stand for. A client starts  *)
(* a transaction under some id, perhaps one that is still in use, and may  *)
(* send its request again; the server answers a request it has been sent,  *)
(* perhaps twice. Pairer sees none of this: it compares packet ids.        *)
(***************************************************************************)
EXTENDS RadiusProxy

VARIABLES
    waiting,    \* as in PairMonitor: the cache
    matched,    \* ... the pairs made
    dropped,    \* ... the messages whose timer expired
    log,        \* history: the datagrams in the order of arrival, each with
                \*   its transaction, named by the number of its first request
    calm        \* history: ids with one transaction after another, each with
                \*   one request and one answer

monitor     == <<waiting, matched, dropped>>
labels      == <<log, calm>>
sessionVars == <<vars, monitor, labels>>

Pairs == INSTANCE PairMonitor WITH Messages <- Datagrams, Keys <- Ids,
                                   KeyOf <- [d \in Datagrams |-> d.id],
                                   NoMsg <- Nothing

-----------------------------------------------------------------------------
SessionInit == /\ Init
               /\ Pairs!Init
               /\ log = <<>>
               /\ calm = [id \in Ids |-> TRUE]

-----------------------------------------------------------------------------
(* Clients and server *)

\* What arrives is of this transaction.
Label(t) == log' = Append(log, [packet |-> Last(socket'), trans |-> t])

IsAnswer(n) == log[n].packet.src = Server
AnswerSent(t) == \E n \in 1..Len(log) : IsAnswer(n) /\ log[n].trans = t

\* The client of the transaction has got all of an answer.
Concluded(t) ==
    \E j \in 1..Len(sent) :
        /\ IsAnswer(sent[j].packet.n)
        /\ log[sent[j].packet.n].trans = t
        /\ sent[j].bytes >= sent[j].packet.shape.len

InUse(id) == \E n \in 1..Len(log) : /\ log[n].packet.id = id
                                    /\ ~Concluded(log[n].trans)

NewTransaction(c, id, s) ==
    /\ Request(c, id, s)
    /\ Label(arrivals + 1)
    /\ calm' = [calm EXCEPT ![id] = @ /\ ~InUse(id)]
    /\ UNCHANGED monitor

\* The n-th datagram was a request, and arrives again.
Retransmit(n) ==
    /\ ~IsAnswer(n)
    /\ LET d == log[n].packet
       IN /\ Request(d.src, d.id, d.shape)
          /\ calm' = [calm EXCEPT ![d.id] = FALSE]
    /\ Label(log[n].trans)
    /\ UNCHANGED monitor

\* The server answers the j-th packet that was forwarded.
ServerAnswers(j, s) ==
    /\ Reached(sent[j])
    /\ LET d == sent[j].packet
           t == log[d.n].trans
       IN /\ Answer(d.id, s)
          /\ Label(t)
          /\ calm' = [calm EXCEPT ![d.id] = @ /\ ~AnswerSent(t)]
    /\ UNCHANGED monitor

-----------------------------------------------------------------------------
(* Pairer *)

\* Everything the loop does between two calls of handleMessage.
Loop == /\ \/ Startup \/ NoDictionary \/ NoSocket
           \/ SendBuffered \/ Select \/ SelectFails \/ CopyPacket
           \/ ReceiveNothing \/ ReceivePacket
        /\ UNCHANGED <<monitor, labels>>

\* handleMessage pairs the message with the one that waits, or caches it.
Handle == /\ HandleMessage
          /\ Pairs!Hold(msg) \/ Pairs!Match(msg)
          /\ UNCHANGED labels

\* The pair is made, and the reporter throws.
ReporterThrows == /\ HandlerThrows
                  /\ Pairs!Match(msg)
                  /\ UNCHANGED labels

\* The request is dropped between lookup and pop_object: a null pair is read.
PairIsGone == /\ HandlerCrashes
              /\ \E d \in dropped : d.id = msg.id
              /\ UNCHANGED <<monitor, labels>>

\* A timer expires.
Expire(id) == /\ pc \notin {"exited", "terminated"}
              /\ Pairs!Drop(id)
              /\ UNCHANGED <<vars, labels>>

-----------------------------------------------------------------------------
SessionNext ==
    \/ \E c \in Clients, id \in Ids, s \in Shapes : NewTransaction(c, id, s)
    \/ \E n \in 1..Len(log) : Retransmit(n)
    \/ \E j \in 1..Len(sent), s \in Shapes : ServerAnswers(j, s)
    \/ Loop \/ Handle \/ ReporterThrows \/ PairIsGone
    \/ \E id \in Ids : Expire(id)

SessionSpec == SessionInit /\ [][SessionNext]_sessionVars

-----------------------------------------------------------------------------
(* Properties *)

\* A request, and an answer to it.
Right(p) == /\ ~IsAnswer(p[1].n)
            /\ IsAnswer(p[2].n)
            /\ log[p[1].n].trans = log[p[2].n].trans

DroppedOf(id) == {d \in dropped : d.id = id}

\* The calls of handleMessage with this id whose message was not dropped ...
Kept(id) == {n \in 1..Len(handled) : /\ handled[n].id = id
                                     /\ handled[n] \notin dropped}

\* ... counted from the first; and the first with the second, the third with
\* the fourth, and so on.
Rank(K, n) == Cardinality({k \in K : k <= n})
Neighbours(K) == {e \in K \X K : /\ Rank(K, e[1]) % 2 = 1
                                 /\ Rank(K, e[2]) = Rank(K, e[1]) + 1}

(***************************************************************************)
(* What pairer pairs: under each id the messages that were handled and not *)
(* dropped, the first with the second, the third with the fourth, and so   *)
(* on, of which the last may still wait. Nothing tells a request from a    *)
(* response, so a request that is sent again before it is answered makes a *)
(* pair with itself, and the answer waits                                  *)
(* (SimpleSyncReceivedMessageHandler.cpp:18-35).                           *)
(***************************************************************************)
PairsAreNeighbours ==
    \A id \in Ids :
        /\ {p \in matched : p[1].id = id}
             = {<<handled[e[1]], handled[e[2]]>> : e \in Neighbours(Kept(id))}
        /\ IF Cardinality(Kept(id)) % 2 = 0
           THEN waiting[id] = Nothing
           ELSE \E n \in Kept(id) : /\ Rank(Kept(id), n) = Cardinality(Kept(id))
                                    /\ waiting[id] = handled[n]

(***************************************************************************)
(* Which pairs are right: on an id that is used for one transaction after  *)
(* another, each with one request and one answer, a request and its own    *)
(* answer make a pair exactly as long as an even number of its messages    *)
(* was dropped. After a request was dropped, its late answer waits to be   *)
(* paired with the next request, and so on, until another drop sets this   *)
(* right (SimpleSyncReceivedMessageHandler.cpp:18,30-34).                  *)
(***************************************************************************)
PairsRightAfterEvenDrops ==
    [][\A p \in matched' \ matched :
          calm[p[1].id] =>
              (Right(p) <=> Cardinality(DroppedOf(p[1].id)) % 2 = 0)]_sessionVars

(***************************************************************************)
(* A packet goes on to its "destination after it is processed by Pairer"   *)
(* (RadiusProxyMsgReceiver.h:13): an answer that was forwarded has been    *)
(* paired with its request, on an id as above with nothing dropped, though *)
(* the packet is copied for the client before it is handled.               *)
(***************************************************************************)
ForwardedIsPaired ==
    \A j \in 1..Len(sent) :
        LET d == sent[j].packet
        IN /\ IsAnswer(d.n)
           /\ calm[d.id]
           /\ DroppedOf(d.id) = {}
           => \E p \in matched : p[2] = d /\ Right(p)
=============================================================================
