----------------------------- MODULE Reporting -----------------------------
(***************************************************************************)
(* How a pair gets into the log: ThriftResultLogger on pairer's side, the  *)
(* connection, and the sample log server, each of which may go down and    *)
(* be started again.                                                       *)
(*                                                                         *)
(* reportPair is called by the receiver's thread alone. logRequest is a    *)
(* oneway call over a buffered transport: it writes, in pieces if it is    *)
(* long, and returns without an answer. The server (TSimpleServer) serves  *)
(* one connection after another; more connections wait in its backlog.     *)
(***************************************************************************)
EXTENDS RadiusAttributes, SequencesExt

CONSTANTS Requests,    \* packets of requests: sequences of attributes
          Responses,   \* packets of responses
          AppId,       \* app_id_, which fits the signed number it is sent as
          MaxReports,  \* bound: calls of reportPair that return
          MaxStarts,   \* bound: how often pairer is started
          MaxCrashes   \* bound: how often the server goes down

ASSUME ReportingAssumption == /\ Requests \subseteq Seq(Avps)
                              /\ Responses \subseteq Seq(Avps)
                              /\ AppId \in 0..2^30 + (2^30 - 1)
                              /\ MaxReports \in Nat
                              /\ MaxStarts \in Nat
                              /\ MaxCrashes \in Nat

VARIABLES
    pairer,     \* "down", "idle", or "writing" a report
    call,       \* the arguments of reportPair while it runs
    linked,     \* pairer's connection still leads to the server
    server,     \* "down" or "up"
    conns,      \* the server's connections in the order it serves them, each
                \*   with the messages not yet read; pairer's is the last
    file,       \* the log: the printed entries, each with the report it is of
    reported,   \* history: the calls of reportPair that have returned
    starts,     \* history: how often pairer was started
    crashes     \* history: how often the server went down

vars == <<pairer, call, linked, server, conns, file, reported, starts, crashes>>

Pairs == [req : Requests, rsp : Responses]
NoCall == <<>>

\* Replaces the last message of pairer's connection, and its connection.
LastStream == Last(conns).stream
OnStream(s) == conns' = [conns EXCEPT ![Len(conns)].stream = s]
Hangup == conns' = IF linked THEN [conns EXCEPT ![Len(conns)].open = FALSE]
                             ELSE conns

-----------------------------------------------------------------------------
Init == /\ pairer = "down" /\ call = NoCall /\ linked = FALSE
        /\ server = "down" /\ conns = <<>> /\ file = <<>>
        /\ reported = <<>> /\ starts = 0 /\ crashes = 0

-----------------------------------------------------------------------------
(* pairer *)

\* The constructor opens the connection.
Connect ==
    /\ pairer = "down" /\ starts < MaxStarts
    /\ server = "up"
    /\ pairer' = "idle"
    /\ linked' = TRUE
    /\ conns' = Append(conns, [open |-> TRUE, stream |-> <<>>])
    /\ starts' = starts + 1
    /\ UNCHANGED <<call, server, file, reported, crashes>>

\* ... or throws ThriftServerConnectionError: main prints it and returns.
ConnectFails ==
    /\ pairer = "down" /\ starts < MaxStarts
    /\ server = "down"
    /\ starts' = starts + 1
    /\ UNCHANGED <<pairer, call, linked, server, conns, file, reported, crashes>>

\* reportPair(req, rsp): the request is made and its first bytes are written.
ReportPair(req, rsp) ==
    /\ pairer = "idle"
    /\ Len(reported) < MaxReports
    /\ pairer' = "writing"
    /\ call' = <<[req |-> req, rsp |-> rsp]>>
    /\ IF linked
       THEN OnStream(Append(LastStream,
                            [n      |-> Len(reported) + 1,
                             fields |-> Write(MakeRequest(AppId, req, rsp)),
                             whole  |-> FALSE]))
       ELSE UNCHANGED conns
    /\ UNCHANGED <<linked, server, file, reported, starts, crashes>>

\* The last bytes are written, and reportPair returns. If the server has gone,
\* they are lost when the kernel does not know yet that it has.
ReportReturns ==
    /\ pairer = "writing"
    /\ IF linked
       THEN OnStream([LastStream EXCEPT ![Len(LastStream)].whole = TRUE])
       ELSE UNCHANGED conns
    /\ reported' = reported \o call
    /\ call' = NoCall
    /\ pairer' = "idle"
    /\ UNCHANGED <<linked, server, file, starts, crashes>>

\* Otherwise ThriftServerCommunicationError is thrown, which ends main.
ReportFails ==
    /\ pairer = "writing" /\ ~linked
    /\ pairer' = "down"
    /\ call' = NoCall
    /\ UNCHANGED <<linked, server, conns, file, reported, starts, crashes>>

\* The process ends for a reason of its own; its connection is closed, what
\* was written stays readable.
PairerEnds ==
    /\ pairer # "down"
    /\ pairer' = "down"
    /\ call' = NoCall
    /\ linked' = FALSE
    /\ Hangup
    /\ UNCHANGED <<server, file, reported, starts, crashes>>

-----------------------------------------------------------------------------
(* The log server *)

\* The file is opened, and with that emptied.
ServerStarts ==
    /\ server = "down"
    /\ server' = "up"
    /\ file' = <<>>
    /\ UNCHANGED <<pairer, call, linked, conns, reported, starts, crashes>>

\* Bug for comparison: pairer is not cut off.
ServerVanishes ==
    /\ server = "up" /\ crashes < MaxCrashes
    /\ server' = "down"
    /\ conns' = <<>>
    /\ crashes' = crashes + 1
    /\ UNCHANGED <<pairer, call, linked, file, reported, starts>>

ServerCrashes ==
    /\ server = "up" /\ crashes < MaxCrashes
    /\ server' = "down"
    /\ conns' = <<>>
    /\ linked' = FALSE
    /\ crashes' = crashes + 1
    /\ UNCHANGED <<pairer, call, file, reported, starts>>

\* Bug for comparison: a message is logged before all of it was read.
ProcessEarly ==
    /\ server = "up" /\ conns # <<>>
    /\ LET s == Head(conns).stream
       IN /\ s # <<>>
          /\ file' = Append(file, [n    |-> Head(s).n,
                                   text |-> PrintTo(Read(Head(s).fields))])
          /\ conns' = IF Head(s).whole
                      THEN [conns EXCEPT ![1].stream = Tail(s)]
                      ELSE conns
    /\ Len(file) < MaxReports
    /\ UNCHANGED <<pairer, call, linked, server, reported, starts, crashes>>

\* process_logRequest: a whole message is read and printed.
ProcessLogRequest ==
    /\ server = "up" /\ conns # <<>>
    /\ LET s == Head(conns).stream
       IN /\ s # <<>> /\ Head(s).whole
          /\ file' = Append(file, [n    |-> Head(s).n,
                                   text |-> PrintTo(Read(Head(s).fields))])
          /\ conns' = [conns EXCEPT ![1].stream = Tail(s)]
    /\ UNCHANGED <<pairer, call, linked, server, reported, starts, crashes>>

\* Bug for comparison: a closed connection is given up with what is in it.
GiveUpConnection ==
    /\ server = "up" /\ conns # <<>>
    /\ ~Head(conns).open
    /\ conns' = Tail(conns)
    /\ UNCHANGED <<pairer, call, linked, server, file, reported, starts, crashes>>

\* Bug for comparison: the rest of a message is waited for.
AwaitRest ==
    /\ server = "up" /\ conns # <<>>
    /\ ~Head(conns).open
    /\ Head(conns).stream = <<>>
    /\ conns' = Tail(conns)
    /\ UNCHANGED <<pairer, call, linked, server, file, reported, starts, crashes>>

\* The end of a connection is read, perhaps in the middle of a message: the
\* next one is served.
EndConnection ==
    /\ server = "up" /\ conns # <<>>
    /\ ~Head(conns).open
    /\ \A i \in 1..Len(Head(conns).stream) : ~Head(conns).stream[i].whole
    /\ conns' = Tail(conns)
    /\ UNCHANGED <<pairer, call, linked, server, file, reported, starts, crashes>>

-----------------------------------------------------------------------------
Pairer == \/ Connect \/ ConnectFails
          \/ \E req \in Requests, rsp \in Responses : ReportPair(req, rsp)
          \/ ReportReturns \/ ReportFails \/ PairerEnds

Serve == ProcessLogRequest \/ EndConnection

Next == Pairer \/ Serve \/ ServerStarts \/ ServerCrashes

\* A server that is up serves. Nobody need start it, or pairer; no pair need
\* be reported.
Spec == Init /\ [][Next]_vars /\ WF_vars(Serve)

-----------------------------------------------------------------------------
(* Properties *)

Message(m) == /\ m.n \in 1..MaxReports
              /\ "sourceId" \in DOMAIN m.fields
              /\ m.whole \in BOOLEAN

TypeOK == /\ pairer \in {"down", "idle", "writing"}
          /\ call \in {NoCall} \cup {<<p>> : p \in Pairs}
          /\ pairer = "writing" <=> call # NoCall
          /\ linked => /\ pairer # "down" /\ server = "up" /\ conns # <<>>
                       /\ Last(conns).open
          /\ server \in {"down", "up"}
          /\ \A c \in ToSet(conns) : /\ c.open \in BOOLEAN
                                     /\ \A m \in ToSet(c.stream) : Message(m)
          /\ \A e \in ToSet(file) : e.n \in 1..MaxReports
          /\ reported \in Seq(Pairs) /\ Len(reported) <= MaxReports
          /\ starts \in 0..MaxStarts
          /\ crashes \in 0..MaxCrashes

\* The i-th message of the c-th connection can be logged, and its report.
Place(c, i) == /\ c \in 1..Len(conns)
               /\ i \in 1..Len(conns[c].stream)
               /\ conns[c].stream[i].whole
Num(c, i) == conns[c].stream[i].n
Before(c, i, d, j) == c < d \/ (c = d /\ i < j)

(***************************************************************************)
(* The log has the reports in the order in which they were made, each once *)
(* and none that was broken off, and those that wait to be read come after *)
(* it in the same order, although pairer may have been started again with  *)
(* reports of its last life still unread, and reports may have been lost   *)
(* with the server (ThriftResultLogger.cpp:60, LoggerServer.cpp:31-35).    *)
(***************************************************************************)
LogInOrder ==
    /\ \A i \in 1..Len(file) : file[i].n <= Len(reported)
    /\ \A i, j \in 1..Len(file) : i < j => file[i].n < file[j].n
    /\ \A c \in 1..Len(conns) : \A i \in 1..Len(conns[c].stream) :
          Place(c, i) =>
              /\ Num(c, i) <= Len(reported)
              /\ \A k \in 1..Len(file) : file[k].n < Num(c, i)
              /\ \A d \in 1..Len(conns) : \A j \in 1..Len(conns[d].stream) :
                    Place(d, j) /\ Before(c, i, d, j) => Num(c, i) < Num(d, j)

(***************************************************************************)
(* As long as the server stays up, no report that returned is lost,        *)
(* although none is answered and pairer may end right after one: it is in  *)
(* the log or waits to be read (ThriftResultLogger.cpp:60).                *)
(***************************************************************************)
Logged(n) == \E k \in 1..Len(file) : file[k].n = n
Waits(n)  == \E c \in 1..Len(conns) : \E i \in 1..Len(conns[c].stream) :
                Place(c, i) /\ Num(c, i) = n

NoneLost == crashes = 0 => \A n \in 1..Len(reported) : Logged(n) \/ Waits(n)

(***************************************************************************)
(* An entry tells the pair that was reported, the request as the request   *)
(* and the response as the response: one line for each attribute number,   *)
(* and for each number up to 127 the last value that had it                *)
(* (RadiusMessage.cpp:50-73, ThriftResultLogger.cpp:31-57).                *)
(***************************************************************************)
Numbers(packet) == {packet[i].attr % 65536 : i \in 1..Len(packet)}

Tells(list, packet) ==
    /\ Len(list) = 1
    /\ Len(list[1]) = Cardinality(Numbers(packet))
    /\ \A i \in 1..Len(packet) :
         LET c == packet[i].attr % 65536
             Later == {j \in i+1..Len(packet) : packet[j].attr % 65536 = c}
         IN c < 128 /\ Later = {} =>
              \E line \in ToSet(list[1]) :
                 /\ line.type = c
                 /\ line.value = AttrToString(packet[i].bytes, TypeOf(packet[i]))

EntriesTellPairs ==
    \A e \in ToSet(file) : /\ e.text.source = AppId
                           /\ Tells(e.text.request, reported[e.n].req)
                           /\ Tells(e.text.response, reported[e.n].rsp)

(***************************************************************************)
(* A report that returned is in the log at last, unless the server goes    *)
(* down: a connection broken off in the middle of a message does not keep  *)
(* the server from the next one.                                           *)
(***************************************************************************)
ReportedIsLogged ==
    \A n \in 1..MaxReports :
        (Len(reported) >= n) ~> (crashes > 0 \/ \E e \in ToSet(file) : e.n = n)

-----------------------------------------------------------------------------
(* What a comment says, and the code does not keep *)

(***************************************************************************)
(* "transforms message data to thrift specific structures"                 *)
(* (ThriftResultLogger.h:61): the numbers of the attributes are still the  *)
(* same in the log.                                                        *)
(***************************************************************************)
NumbersKept ==
    \A e \in ToSet(file) :
        {line.type : line \in ToSet(e.text.request[1])}
            = Numbers(reported[e.n].req)
=============================================================================
