-------------------------- MODULE ReportingProofs --------------------------
(***************************************************************************)
(* Proofs about Reporting, for every set of packets and any number of      *)
(* reports, starts and crashes: the types, the order of the log, that      *)
(* nothing is lost, and last, what an entry tells.                         *)
(*                                                                         *)
(* Up to there what is in a report is of no account: it is one of the      *)
(* packets written by the program, and one of the texts that are printed.  *)
(***************************************************************************)
EXTENDS Reporting, DequeLemmas, FiniteSetTheorems, WellFoundedInduction

Fields   == {Write(MakeRequest(AppId, p.req, p.rsp)) : p \in Pairs}
Texts    == {PrintTo(Read(f)) : f \in Fields}
Reports  == [n : 1..MaxReports, fields : Fields, whole : BOOLEAN]
Conns    == [open : BOOLEAN, stream : Seq(Reports)]
Entries  == [n : 1..MaxReports, text : Texts]

(***************************************************************************)
(* What TypeOK needs to be inductive: the streams are typed; pairer, while *)
(* its connection leads to the server, has an open one, the last; and the  *)
(* report that it writes is the last there, and counts as the next.        *)
(***************************************************************************)
Linked == linked => /\ pairer # "down" /\ server = "up"
                    /\ conns # <<>>
                    /\ conns[Len(conns)].open

Writing == pairer = "writing" =>
              /\ Len(reported) < MaxReports
              /\ linked => /\ LastStream # <<>>
                           /\ LastStream[Len(LastStream)].n = Len(reported) + 1
                           /\ ~LastStream[Len(LastStream)].whole

Typed == /\ pairer \in {"down", "idle", "writing"}
         /\ call \in {NoCall} \cup {<<p>> : p \in Pairs}
         /\ pairer = "writing" <=> call # NoCall
         /\ linked \in BOOLEAN
         /\ server \in {"down", "up"}
         /\ conns \in Seq(Conns)
         /\ file \in Seq(Entries)
         /\ reported \in Seq(Pairs)
         /\ Len(reported) <= MaxReports
         /\ starts \in 0..MaxStarts
         /\ crashes \in 0..MaxCrashes

StateInv == Typed /\ Linked /\ Writing

\* A report has the field by which the type invariant knows it.
LEMMA FieldsHaveSource == \A f \in Fields : "sourceId" \in DOMAIN f
BY DEF Fields, Write

\* The inductive invariant is stronger than the type invariant.
LEMMA StateIsTyped == StateInv => TypeOK
<1> SUFFICES ASSUME StateInv PROVE TypeOK
  OBVIOUS
<1>1. \A c \in ToSet(conns) : /\ c.open \in BOOLEAN
                              /\ \A m \in ToSet(c.stream) : Message(m)
  <2> SUFFICES ASSUME NEW c \in ToSet(conns)
               PROVE  /\ c.open \in BOOLEAN
                      /\ \A m \in ToSet(c.stream) : Message(m)
    OBVIOUS
  <2>1. c \in Conns
    BY DEF StateInv, Typed, ToSet
  <2>2. ASSUME NEW m \in ToSet(c.stream) PROVE Message(m)
    <3>1. m \in Reports
      BY <2>1 DEF Conns, ToSet
    <3> QED BY <3>1, FieldsHaveSource DEF Reports, Message
  <2> QED BY <2>1, <2>2 DEF Conns
<1>2. ASSUME NEW e \in ToSet(file) PROVE e.n \in 1..MaxReports
  <2>1. e \in Entries
    BY DEF StateInv, Typed, ToSet
  <2> QED BY <2>1 DEF Entries
<1>3. linked => /\ pairer # "down" /\ server = "up" /\ conns # <<>>
                /\ Last(conns).open
  BY DEF StateInv, Linked, Last
<1> QED BY <1>1, <1>2, <1>3 DEF StateInv, Typed, TypeOK

-----------------------------------------------------------------------------
(* Streams *)

\* The last connection, and its stream.
LEMMA LastConn ==
    ASSUME Typed, conns # <<>>
    PROVE  /\ Len(conns) \in 1..Len(conns)
           /\ conns[Len(conns)] \in Conns
           /\ LastStream = conns[Len(conns)].stream
           /\ LastStream \in Seq(Reports)
<1>1. Len(conns) \in 1..Len(conns)
  BY EmptySeq, LenProperties DEF Typed
<1>2. conns[Len(conns)] \in Conns
  BY <1>1 DEF Typed
<1>3. LastStream = conns[Len(conns)].stream
  BY DEF LastStream, Last
<1> QED BY <1>1, <1>2, <1>3 DEF Conns

\* One connection is replaced.
LEMMA Replaced ==
    ASSUME Typed, NEW k \in 1..Len(conns), NEW e \in Conns,
           conns' = [conns EXCEPT ![k] = e]
    PROVE  /\ conns' \in Seq(Conns)
           /\ Len(conns') = Len(conns)
           /\ conns' # <<>>
           /\ conns'[k] = e
           /\ \A c \in 1..Len(conns) : c # k => conns'[c] = conns[c]
<1>1. /\ conns' \in Seq(Conns)
      /\ Len(conns') = Len(conns)
      /\ \A c \in 1..Len(conns) : conns'[c] = IF c = k THEN e ELSE conns[c]
  BY ExceptSeq DEF Typed
<1>2. conns' # <<>>
  BY <1>1, EmptySeq
<1> QED BY <1>1, <1>2

\* The stream of the last connection is replaced.
LEMMA OnStreamType ==
    ASSUME Typed, conns # <<>>, NEW s \in Seq(Reports), OnStream(s)
    PROVE  /\ conns' \in Seq(Conns)
           /\ conns' # <<>>
           /\ Len(conns') = Len(conns)
           /\ \A c \in 1..Len(conns) : c # Len(conns) => conns'[c] = conns[c]
           /\ conns'[Len(conns)].stream = s
           /\ conns'[Len(conns)].open = conns[Len(conns)].open
           /\ LastStream' = s
<1> DEFINE last == [conns[Len(conns)] EXCEPT !.stream = s]
<1>1. conns' = [conns EXCEPT ![Len(conns)] = last]
  BY DEF OnStream
<1>2. Len(conns) \in 1..Len(conns) /\ conns[Len(conns)] \in Conns
  BY LastConn
<1>3. last \in Conns /\ last.stream = s /\ last.open = conns[Len(conns)].open
  BY <1>2 DEF Conns
<1> HIDE DEF last
<1>4. /\ conns' \in Seq(Conns)
      /\ Len(conns') = Len(conns)
      /\ conns' # <<>>
      /\ conns'[Len(conns)] = last
      /\ \A c \in 1..Len(conns) : c # Len(conns) => conns'[c] = conns[c]
  BY <1>1, <1>2, <1>3, Replaced
<1>5. LastStream' = s
  BY <1>3, <1>4 DEF LastStream, Last
<1> QED BY <1>3, <1>4, <1>5

\* The last connection is closed; the streams are as they were.
LEMMA Closed ==
    ASSUME Typed, conns # <<>>,
           conns' = [conns EXCEPT ![Len(conns)].open = FALSE]
    PROVE  /\ conns' \in Seq(Conns)
           /\ Len(conns') = Len(conns)
           /\ \A c \in 1..Len(conns) : conns'[c].stream = conns[c].stream
<1> DEFINE last == [conns[Len(conns)] EXCEPT !.open = FALSE]
<1>1. conns' = [conns EXCEPT ![Len(conns)] = last]
  OBVIOUS
<1>2. Len(conns) \in 1..Len(conns) /\ conns[Len(conns)] \in Conns
  BY LastConn
<1>3. last \in Conns /\ last.stream = conns[Len(conns)].stream
  BY <1>2 DEF Conns
<1> HIDE DEF last
<1> QED BY <1>1, <1>2, <1>3, Replaced

(***************************************************************************)
(* The server takes the first message off the first stream: a new stream   *)
(* has one message less, and its last message is still the last unless     *)
(* none is left.                                                           *)
(***************************************************************************)
LEMMA Taken ==
    ASSUME Typed, conns # <<>>, Head(conns).stream # <<>>,
           conns' = [conns EXCEPT ![1].stream = Tail(Head(conns).stream)]
    PROVE  /\ conns' \in Seq(Conns)
           /\ Len(conns') = Len(conns)
           /\ 1 \in 1..Len(conns)
           /\ conns'[1].open = conns[1].open
           /\ conns'[1].stream = Tail(conns[1].stream)
           /\ conns[1].stream \in Seq(Reports)
           /\ conns[1].stream # <<>>
           /\ \A c \in 1..Len(conns) : c # 1 => conns'[c] = conns[c]
<1> DEFINE first == [conns[1] EXCEPT !.stream = Tail(conns[1].stream)]
<1>1. 1 \in 1..Len(conns) /\ Head(conns) = conns[1] /\ conns[1] \in Conns
  BY HeadAndTail DEF Typed
<1>2. conns' = [conns EXCEPT ![1] = first]
  BY <1>1
<1>3. conns[1].stream \in Seq(Reports) /\ conns[1].stream # <<>>
  BY <1>1 DEF Conns
<1>4. Tail(conns[1].stream) \in Seq(Reports)
  BY <1>3, HeadAndTail
<1>5. /\ first \in Conns
      /\ first.stream = Tail(conns[1].stream)
      /\ first.open = conns[1].open
  BY <1>1, <1>4 DEF Conns
<1> HIDE DEF first
<1> QED BY <1>1, <1>2, <1>3, <1>5, Replaced

-----------------------------------------------------------------------------
(* The state *)

\* Nothing runs at first.
LEMMA InitState == Init => StateInv
<1> SUFFICES ASSUME Init PROVE StateInv
  OBVIOUS
<1>1. /\ conns \in Seq(Conns) /\ file \in Seq(Entries)
      /\ reported \in Seq(Pairs) /\ Len(reported) = 0
  BY EmptySeq DEF Init
<1>2. Len(reported) <= MaxReports /\ starts \in 0..MaxStarts /\ crashes \in 0..MaxCrashes
  BY <1>1, ReportingAssumption DEF Init
<1>3. linked = FALSE /\ pairer = "down" /\ server = "down" /\ call = NoCall
  BY DEF Init
<1> QED BY <1>1, <1>2, <1>3 DEF StateInv, Typed, Linked, Writing

\* A report is begun.
LEMMA ReportPairKeepsState ==
    ASSUME StateInv, NEW req \in Requests, NEW rsp \in Responses,
           ReportPair(req, rsp)
    PROVE  StateInv'
<1> DEFINE p == [req |-> req, rsp |-> rsp]
           report == [n      |-> Len(reported) + 1,
                      fields |-> Write(MakeRequest(AppId, req, rsp)),
                      whole  |-> FALSE]
<1>1. p \in Pairs /\ p.req = req /\ p.rsp = rsp
  BY DEF Pairs
<1>2. Write(MakeRequest(AppId, req, rsp)) \in Fields
  BY <1>1 DEF Fields
<1>3. /\ Len(reported) \in Nat /\ Len(reported) < MaxReports
      /\ Len(reported) + 1 \in 1..MaxReports
  BY ReportingAssumption, LenProperties DEF ReportPair, StateInv, Typed
<1>4. report \in Reports /\ report.n = Len(reported) + 1 /\ ~report.whole
  BY <1>2, <1>3 DEF Reports
<1>5. /\ pairer' = "writing" /\ call' = <<p>>
      /\ UNCHANGED <<linked, server, file, reported, starts, crashes>>
  BY DEF ReportPair
<1>6. call' \in {NoCall} \cup {<<q>> : q \in Pairs} /\ call' # NoCall
  BY <1>1, <1>5 DEF NoCall
<1>7. /\ conns' \in Seq(Conns)
      /\ linked => /\ conns' # <<>>
                   /\ conns'[Len(conns')].open
                   /\ LastStream' # <<>>
                   /\ LastStream'[Len(LastStream')] = report
  <2>1. CASE linked
    <3>1. /\ conns # <<>> /\ conns[Len(conns)].open
          /\ LastStream \in Seq(Reports)
      BY <2>1, LastConn DEF StateInv, Linked
    <3>2. OnStream(Append(LastStream, report))
      BY <2>1 DEF ReportPair
    <3> HIDE DEF report
    <3>3. /\ Append(LastStream, report) \in Seq(Reports)
          /\ Append(LastStream, report) # <<>>
          /\ Len(Append(LastStream, report)) = Len(LastStream) + 1
          /\ Append(LastStream, report)[Len(LastStream) + 1] = report
      BY <1>4, <3>1, Appended
    <3>4. /\ conns' \in Seq(Conns) /\ conns' # <<>>
          /\ Len(conns') = Len(conns)
          /\ conns'[Len(conns)].open = conns[Len(conns)].open
          /\ LastStream' = Append(LastStream, report)
      BY <3>1, <3>2, <3>3, OnStreamType DEF StateInv
    <3> QED BY <3>1, <3>3, <3>4
  <2>2. CASE ~linked
    BY <2>2 DEF ReportPair, StateInv, Typed
  <2> QED BY <2>1, <2>2
<1> HIDE DEF report, p
<1>8. Typed'
  BY <1>5, <1>6, <1>7 DEF StateInv, Typed
<1>9. Linked'
  BY <1>5, <1>7 DEF StateInv, Linked
<1>10. Writing'
  BY <1>3, <1>4, <1>5, <1>7 DEF Writing
<1> QED BY <1>8, <1>9, <1>10 DEF StateInv

(***************************************************************************)
(* A report is complete: the last of its connection becomes whole, and it  *)
(* is counted.                                                             *)
(***************************************************************************)
LEMMA Completed ==
    ASSUME StateInv, ReportReturns
    PROVE  /\ reported' \in Seq(Pairs)
           /\ Len(reported') = Len(reported) + 1
           /\ Len(reported') <= MaxReports
           /\ conns' \in Seq(Conns)
           /\ Len(conns') = Len(conns)
           /\ linked => /\ conns # <<>>
                        /\ \A c \in 1..Len(conns) : c # Len(conns) => conns'[c] = conns[c]
                        /\ conns'[Len(conns)].open = conns[Len(conns)].open
                        /\ LastStream \in Seq(Reports) /\ LastStream # <<>>
                        /\ conns'[Len(conns)].stream
                             = [LastStream EXCEPT ![Len(LastStream)].whole = TRUE]
           /\ ~linked => conns' = conns
<1>1. PICK p \in Pairs : call = <<p>>
  BY DEF ReportReturns, StateInv, Typed
<1>2. /\ reported' = reported \o <<p>>
      /\ reported \in Seq(Pairs) /\ Len(reported) < MaxReports
  BY <1>1 DEF ReportReturns, StateInv, Typed, Writing
<1>3. <<p>> \in Seq(Pairs) /\ Len(<<p>>) = 1
  OBVIOUS
<1>4. reported' \in Seq(Pairs) /\ Len(reported') = Len(reported) + 1
  BY <1>2, <1>3, ConcatProperties
<1>5. Len(reported') <= MaxReports
  BY <1>2, <1>4, ReportingAssumption, LenProperties
<1>6. CASE linked
  <2>1. /\ conns # <<>> /\ LastStream \in Seq(Reports) /\ LastStream # <<>>
    BY <1>6, LastConn DEF ReportReturns, StateInv, Linked, Writing
  <2> DEFINE L == Len(LastStream)
             last == [LastStream[L] EXCEPT !.whole = TRUE]
             t == [LastStream EXCEPT ![L].whole = TRUE]
  <2>2. L \in 1..Len(LastStream)
    BY <2>1, EmptySeq, LenProperties
  <2>3. LastStream[L] \in Reports
    BY <2>1, <2>2
  <2>4. last \in Reports
    BY <2>3 DEF Reports
  <2>5. t = [LastStream EXCEPT ![L] = last]
    OBVIOUS
  <2> HIDE DEF last
  <2>6. t \in Seq(Reports)
    BY <2>1, <2>2, <2>4, <2>5, ExceptSeq
  <2>7. OnStream(t)
    BY <1>6 DEF ReportReturns
  <2> HIDE DEF t
  <2>8. /\ conns' \in Seq(Conns)
        /\ Len(conns') = Len(conns)
        /\ \A c \in 1..Len(conns) : c # Len(conns) => conns'[c] = conns[c]
        /\ conns'[Len(conns)].stream = t
        /\ conns'[Len(conns)].open = conns[Len(conns)].open
    BY <2>1, <2>6, <2>7, OnStreamType DEF StateInv
  <2> QED BY <1>4, <1>5, <1>6, <2>1, <2>8 DEF t
<1>7. CASE ~linked
  BY <1>4, <1>5, <1>7 DEF ReportReturns, StateInv, Typed
<1> QED BY <1>6, <1>7

LEMMA ReportReturnsKeepsState ==
    ASSUME StateInv, ReportReturns
    PROVE  StateInv'
<1>1. /\ pairer' = "idle" /\ call' = NoCall
      /\ UNCHANGED <<linked, server, file, starts, crashes>>
  BY DEF ReportReturns
<1>2. Typed'
  BY <1>1, Completed DEF StateInv, Typed
<1>3. Linked'
  <2>1. Len(conns) \in Nat
    BY LenProperties DEF StateInv, Typed
  <2>2. linked => conns' # <<>> /\ conns'[Len(conns')].open
    <3> SUFFICES ASSUME linked PROVE conns' # <<>> /\ conns'[Len(conns')].open
      OBVIOUS
    <3>1. /\ conns # <<>> /\ conns[Len(conns)].open
          /\ conns' \in Seq(Conns) /\ Len(conns') = Len(conns)
          /\ conns'[Len(conns)].open = conns[Len(conns)].open
      BY Completed DEF StateInv, Linked
    <3>2. Len(conns) # 0
      BY <3>1, EmptySeq DEF StateInv, Typed
    <3>3. conns' # <<>>
      BY <3>1, <3>2, EmptySeq
    <3> QED BY <3>1, <3>3
  <2> QED BY <1>1, <2>2 DEF StateInv, Linked
<1>4. Writing'
  BY <1>1 DEF Writing
<1> QED BY <1>2, <1>3, <1>4 DEF StateInv

\* What is taken off a stream is not the report that is being written: this
\* one is still the last of its stream.
LEMMA ProcessKeepsLast ==
    ASSUME StateInv, ProcessLogRequest, pairer = "writing", linked
    PROVE  LastStream' # <<>> /\ LastStream'[Len(LastStream')] = LastStream[Len(LastStream)]
<1>1. /\ conns # <<>> /\ Head(conns).stream # <<>>
      /\ Head(Head(conns).stream).whole
      /\ conns' = [conns EXCEPT ![1].stream = Tail(Head(conns).stream)]
      /\ UNCHANGED <<pairer, call, linked, server, reported, starts, crashes>>
  BY DEF ProcessLogRequest
<1>2. /\ conns' \in Seq(Conns) /\ Len(conns') = Len(conns)
      /\ 1 \in 1..Len(conns)
      /\ conns'[1].stream = Tail(conns[1].stream)
      /\ conns[1].stream \in Seq(Reports) /\ conns[1].stream # <<>>
      /\ \A c \in 1..Len(conns) : c # 1 => conns'[c] = conns[c]
  BY <1>1, Taken DEF StateInv
<1>3. Head(conns) = conns[1] /\ Len(conns) \in 1..Len(conns)
  BY <1>1, <1>2, HeadAndTail, LenProperties DEF StateInv, Typed
<1> DEFINE s == conns[1].stream
           t == Tail(s)
<1>4. /\ Head(s) = s[1] /\ s[1].whole
      /\ t \in Seq(Reports) /\ Len(t) = Len(s) - 1 /\ Len(s) \in Nat
      /\ 1 <= Len(s)
      /\ \A i \in 1..Len(t) : t[i] = s[i + 1]
  BY <1>1, <1>2, <1>3, HeadAndTail
<1>5. LastStream # <<>> /\ ~LastStream[Len(LastStream)].whole
  BY DEF StateInv, Writing
<1>6. LastStream = conns[Len(conns)].stream
  BY <1>1, LastConn DEF StateInv
<1>7. LastStream' = conns'[Len(conns)].stream
  BY <1>2 DEF LastStream, Last
<1>8. CASE Len(conns) # 1
  BY <1>2, <1>3, <1>5, <1>6, <1>7, <1>8
<1>9. CASE Len(conns) = 1
  <2>1. Len(s) # 1
    BY <1>4, <1>5, <1>6, <1>9
  <2> HIDE DEF s, t
  <2>2. Len(t) \in 1..Len(t) /\ Len(t) + 1 = Len(s)
    BY <1>4, <2>1
  <2>3. t[Len(t)] = s[Len(s)] /\ t # <<>>
    BY <1>4, <2>2, EmptySeq
  <2> USE DEF s, t
  <2> QED BY <1>2, <1>6, <1>7, <1>9, <2>3
<1> QED BY <1>8, <1>9

LEMMA ProcessKeepsState ==
    ASSUME StateInv, ProcessLogRequest
    PROVE  StateInv'
<1>1. /\ conns # <<>> /\ Head(conns).stream # <<>>
      /\ Head(Head(conns).stream).whole
      /\ conns' = [conns EXCEPT ![1].stream = Tail(Head(conns).stream)]
      /\ UNCHANGED <<pairer, call, linked, server, reported, starts, crashes>>
  BY DEF ProcessLogRequest
<1>2. /\ conns' \in Seq(Conns) /\ Len(conns') = Len(conns)
      /\ 1 \in 1..Len(conns)
      /\ conns'[1].open = conns[1].open
      /\ conns'[1].stream = Tail(conns[1].stream)
      /\ conns[1].stream \in Seq(Reports) /\ conns[1].stream # <<>>
      /\ \A c \in 1..Len(conns) : c # 1 => conns'[c] = conns[c]
  BY <1>1, Taken DEF StateInv
<1>3. Head(conns) = conns[1] /\ Len(conns) \in 1..Len(conns)
  BY <1>1, <1>2, HeadAndTail, LenProperties DEF StateInv, Typed
<1> DEFINE s == conns[1].stream
<1>4. /\ Head(s) = s[1] /\ s[1] \in Reports /\ s[1].whole
      /\ Tail(s) \in Seq(Reports) /\ Len(Tail(s)) = Len(s) - 1 /\ Len(s) \in Nat
      /\ 1 \in 1..Len(s)
      /\ \A i \in 1..Len(Tail(s)) : Tail(s)[i] = s[i + 1]
  BY <1>1, <1>2, <1>3, HeadAndTail
<1>5. file' \in Seq(Entries)
  <2> DEFINE e == [n |-> s[1].n, text |-> PrintTo(Read(s[1].fields))]
  <2>1. file' = Append(file, e)
    BY <1>3, <1>4 DEF ProcessLogRequest
  <2>2. s[1].n \in 1..MaxReports /\ s[1].fields \in Fields
    BY <1>4 DEF Reports
  <2>3. PrintTo(Read(s[1].fields)) \in Texts
    BY <2>2 DEF Texts
  <2>4. e \in Entries
    BY <2>2, <2>3 DEF Entries
  <2> HIDE DEF e
  <2> QED BY <2>1, <2>4, Appended DEF StateInv, Typed
<1>6. Typed'
  BY <1>1, <1>2, <1>5 DEF StateInv, Typed
<1>7. conns'[Len(conns)].open = conns[Len(conns)].open /\ conns' # <<>>
  BY <1>2, <1>3, EmptySeq
<1>8. Linked'
  BY <1>1, <1>2, <1>7 DEF StateInv, Linked
<1>9. Writing'
  <2> SUFFICES ASSUME pairer = "writing"
               PROVE  /\ Len(reported) < MaxReports
                      /\ linked => /\ LastStream' # <<>>
                                   /\ LastStream'[Len(LastStream')].n
                                        = Len(reported) + 1
                                   /\ ~LastStream'[Len(LastStream')].whole
    BY <1>1 DEF Writing
  <2> QED BY ProcessKeepsLast DEF StateInv, Writing
<1> QED BY <1>6, <1>8, <1>9 DEF StateInv

\* The connection given up is a closed one, not pairer's.
LEMMA EndKeepsState ==
    ASSUME StateInv, EndConnection
    PROVE  StateInv'
<1>1. /\ conns # <<>> /\ ~Head(conns).open /\ conns' = Tail(conns)
      /\ UNCHANGED <<pairer, call, linked, server, file, reported, starts,
                     crashes>>
  BY DEF EndConnection
<1>2. /\ 1 \in 1..Len(conns) /\ Head(conns) = conns[1] /\ Len(conns) \in Nat
      /\ conns' \in Seq(Conns)
      /\ Len(conns') = Len(conns) - 1
      /\ \A c \in 1..Len(conns') : conns'[c] = conns[c + 1]
  BY <1>1, HeadAndTail DEF StateInv, Typed
<1>3. Typed'
  BY <1>1, <1>2 DEF StateInv, Typed
<1>4. linked => conns' # <<>> /\ conns'[Len(conns')] = conns[Len(conns)]
  <2> SUFFICES ASSUME linked
               PROVE  conns' # <<>> /\ conns'[Len(conns')] = conns[Len(conns)]
    OBVIOUS
  <2>1. Len(conns) # 1
    BY <1>1, <1>2 DEF StateInv, Linked
  <2>2. Len(conns') \in 1..Len(conns') /\ Len(conns') + 1 = Len(conns)
    BY <1>2, <2>1
  <2>3. conns' # <<>>
    BY <1>2, <2>2, EmptySeq
  <2> QED BY <1>2, <2>2, <2>3
<1>5. Linked'
  BY <1>1, <1>4 DEF StateInv, Linked
<1>6. Writing'
  BY <1>1, <1>4 DEF StateInv, Writing, LastStream, Last
<1> QED BY <1>3, <1>5, <1>6 DEF StateInv

(***************************************************************************)
(* Every action keeps the inductive invariant.                             *)
(***************************************************************************)
LEMMA NextState == StateInv /\ [Next]_vars => StateInv'
<1> SUFFICES ASSUME StateInv, [Next]_vars PROVE StateInv'
  OBVIOUS
<1>1. CASE Connect
  <2> DEFINE c == [open |-> TRUE, stream |-> <<>>]
  <2>1. c \in Conns /\ c.open
    BY EmptySeq DEF Conns
  <2>2. /\ conns' = Append(conns, c)
        /\ pairer' = "idle" /\ linked' = TRUE /\ server = "up"
        /\ starts' \in 0..MaxStarts
        /\ UNCHANGED <<call, server, file, reported, crashes>>
        /\ pairer = "down"
    BY <1>1, ReportingAssumption DEF Connect, StateInv, Typed
  <2> HIDE DEF c
  <2>3. conns' \in Seq(Conns) /\ conns' # <<>> /\ conns'[Len(conns')] = c
    BY <2>1, <2>2, Appended DEF StateInv, Typed
  <2>4. call' = NoCall
    BY <2>2 DEF StateInv, Typed
  <2> QED BY <2>1, <2>2, <2>3, <2>4 DEF StateInv, Typed, Linked, Writing
<1>2. CASE ConnectFails
  <2>1. /\ starts' \in 0..MaxStarts
        /\ UNCHANGED <<pairer, call, linked, server, conns, file, reported, crashes>>
    BY <1>2, ReportingAssumption DEF ConnectFails, StateInv, Typed
  <2> QED BY <2>1 DEF StateInv, Typed, Linked, Writing, LastStream, Last
<1>3. ASSUME NEW req \in Requests, NEW rsp \in Responses, ReportPair(req, rsp)
      PROVE  StateInv'
  BY <1>3, ReportPairKeepsState
<1>4. CASE ReportReturns
  BY <1>4, ReportReturnsKeepsState
<1>5. CASE ReportFails
  BY <1>5 DEF ReportFails, StateInv, Typed, Linked, Writing
<1>6. CASE PairerEnds
  <2>1. /\ pairer' = "down" /\ call' = NoCall /\ linked' = FALSE
        /\ UNCHANGED <<server, file, reported, starts, crashes>>
    BY <1>6 DEF PairerEnds
  <2>2. conns' \in Seq(Conns)
    <3>1. CASE linked
      BY <1>6, <3>1, Closed DEF PairerEnds, Hangup, StateInv, Linked
    <3>2. CASE ~linked
      BY <1>6, <3>2 DEF PairerEnds, Hangup, StateInv, Typed
    <3> QED BY <3>1, <3>2
  <2> QED BY <2>1, <2>2 DEF StateInv, Typed, Linked, Writing
<1>7. CASE ServerStarts
  <2>1. file' \in Seq(Entries)
    BY <1>7, EmptySeq DEF ServerStarts
  <2>2. /\ server' = "up"
        /\ UNCHANGED <<pairer, call, linked, conns, reported, starts, crashes>>
    BY <1>7 DEF ServerStarts
  <2> QED BY <2>1, <2>2 DEF StateInv, Typed, Linked, Writing, LastStream, Last
<1>8. CASE ServerCrashes
  <2>1. conns' \in Seq(Conns) /\ crashes' \in 0..MaxCrashes
    BY <1>8, EmptySeq, ReportingAssumption DEF ServerCrashes, StateInv, Typed
  <2>2. /\ server' = "down" /\ linked' = FALSE
        /\ UNCHANGED <<pairer, call, file, reported, starts>>
    BY <1>8 DEF ServerCrashes
  <2> QED BY <2>1, <2>2 DEF StateInv, Typed, Linked, Writing
<1>9. CASE ProcessLogRequest
  BY <1>9, ProcessKeepsState
<1>10. CASE EndConnection
  BY <1>10, EndKeepsState
<1>11. CASE UNCHANGED vars
  BY <1>11 DEF vars, StateInv, Typed, Linked, Writing, LastStream, Last
<1> QED BY <1>1, <1>2, <1>3, <1>4, <1>5, <1>6, <1>7, <1>8, <1>9, <1>10, <1>11
        DEF Next, Pairer, Serve

(***************************************************************************)
(* The variables of pairer, the connections and the log keep their types;  *)
(* the connection that pairer writes to is open and the server's last.     *)
(***************************************************************************)
THEOREM ReportingTypeCorrect == Spec => []TypeOK
BY InitState, NextState, StateIsTyped, PTL DEF Spec

-----------------------------------------------------------------------------
(* The order of the log *)

(***************************************************************************)
(* Why the log is in order: the whole messages are in order along all the  *)
(* streams, one connection after another; they are reports that returned;  *)
(* and what was logged came before them.                                   *)
(***************************************************************************)
StreamsInOrder ==
    \A c, i, d, j \in Nat :
        Place(c, i) /\ Place(d, j) /\ Before(c, i, d, j)
            => Num(c, i) < Num(d, j)

WholeIsReported == \A c, i \in Nat : Place(c, i) => Num(c, i) <= Len(reported)

FileInOrder ==
    /\ \A i \in 1..Len(file) : file[i].n <= Len(reported)
    /\ \A i, j \in 1..Len(file) : i < j => file[i].n < file[j].n

LoggedFirst ==
    \A e \in 1..Len(file), c, i \in Nat : Place(c, i) => file[e].n < Num(c, i)

OrderInv == StreamsInOrder /\ WholeIsReported /\ LoggedFirst /\ FileInOrder

\* A place has a message with a number.
LEMMA PlaceIsTyped ==
    ASSUME Typed, NEW c \in Nat, NEW i \in Nat, Place(c, i)
    PROVE  /\ conns[c] \in Conns
           /\ conns[c].stream \in Seq(Reports)
           /\ conns[c].stream[i] \in Reports
           /\ Num(c, i) \in Nat
<1>1. conns[c] \in Conns
  BY DEF Typed, Place
<1>2. conns[c].stream \in Seq(Reports)
  BY <1>1 DEF Conns
<1>3. conns[c].stream[i] \in Reports
  BY <1>2 DEF Place
<1> QED BY <1>1, <1>2, <1>3 DEF Reports, Num

(***************************************************************************)
(* When the streams lose messages from the front and get no whole one, the *)
(* order along them stays. The message at a place was dc connections and,  *)
(* in the first connection, di messages further back.                      *)
(***************************************************************************)
From(c, i, dc, di) == <<c + dc, IF c = 1 THEN i + di ELSE i>>

Moved(dc, di) ==
    \A c, i \in Nat :
        Place(c, i)' => LET f == From(c, i, dc, di)
                        IN /\ Place(f[1], f[2])
                           /\ Num(f[1], f[2]) \in Nat
                           /\ Num(c, i)' = Num(f[1], f[2])

LEMMA MovedUp ==
    ASSUME StreamsInOrder, WholeIsReported, Len(reported) \in Nat,
           NEW dc \in Nat, NEW di \in Nat,
           Len(reported') \in Nat, Len(reported) <= Len(reported'),
           Moved(dc, di)
    PROVE  StreamsInOrder' /\ WholeIsReported'
<1>1. ASSUME NEW c \in Nat, NEW i \in Nat, NEW d \in Nat, NEW j \in Nat,
             Place(c, i)', Place(d, j)', Before(c, i, d, j)
      PROVE  Num(c, i)' < Num(d, j)'
  <2> DEFINE ci == IF c = 1 THEN i + di ELSE i
             dj == IF d = 1 THEN j + di ELSE j
  <2>0. /\ From(c, i, dc, di)[1] = c + dc /\ From(c, i, dc, di)[2] = ci
        /\ From(d, j, dc, di)[1] = d + dc /\ From(d, j, dc, di)[2] = dj
    BY DEF From
  <2>1. /\ Place(c + dc, ci) /\ Num(c, i)' = Num(c + dc, ci)
        /\ Place(d + dc, dj) /\ Num(d, j)' = Num(d + dc, dj)
    BY <1>1, <2>0 DEF Moved
  <2>2. /\ c + dc \in Nat /\ d + dc \in Nat /\ ci \in Nat /\ dj \in Nat
        /\ Before(c + dc, ci, d + dc, dj)
    BY <1>1 DEF Before
  <2> HIDE DEF ci, dj
  <2> QED BY <2>1, <2>2 DEF StreamsInOrder
<1>2. ASSUME NEW c \in Nat, NEW i \in Nat, Place(c, i)'
      PROVE  Num(c, i)' <= Len(reported')
  <2> DEFINE ci == IF c = 1 THEN i + di ELSE i
  <2>1. /\ Place(c + dc, ci) /\ Num(c, i)' = Num(c + dc, ci)
        /\ Num(c + dc, ci) \in Nat
    BY <1>2 DEF From, Moved
  <2>2. c + dc \in Nat /\ ci \in Nat
    OBVIOUS
  <2> HIDE DEF ci
  <2>3. Num(c + dc, ci) <= Len(reported)
    BY <2>1, <2>2 DEF WholeIsReported
  <2> QED BY <2>1, <2>3
<1> QED BY <1>1, <1>2 DEF StreamsInOrder, WholeIsReported

(***************************************************************************)
(* ... and if the log gets no entry, the whole order stays.                *)
(***************************************************************************)
LEMMA NothingNew ==
    ASSUME Typed, OrderInv,
           file' = file \/ file' = <<>>,
           UNCHANGED reported,
           NEW dc \in Nat,
           \A c, i \in Nat :
              Place(c, i)' => Place(c + dc, i) /\ Num(c, i)' = Num(c + dc, i)
    PROVE  OrderInv'
<1>1. Len(reported) \in Nat /\ Len(file) \in Nat
  BY LenProperties DEF Typed
<1>2. \A c, i \in Nat : Place(c, i)' => /\ Place(c + dc, i)
                                       /\ Num(c + dc, i) \in Nat
                                       /\ Num(c, i)' = Num(c + dc, i)
  <2> SUFFICES ASSUME NEW c \in Nat, NEW i \in Nat, Place(c, i)'
               PROVE  /\ Place(c + dc, i)
                      /\ Num(c + dc, i) \in Nat
                      /\ Num(c, i)' = Num(c + dc, i)
    OBVIOUS
  <2>1. c + dc \in Nat /\ Place(c + dc, i) /\ Num(c, i)' = Num(c + dc, i)
    OBVIOUS
  <2>2. Num(c + dc, i) \in Nat
    BY <2>1, PlaceIsTyped
  <2> QED BY <2>1, <2>2
<1>3. StreamsInOrder' /\ WholeIsReported'
  <2>1. Moved(dc, 0)
    <3> SUFFICES ASSUME NEW c \in Nat, NEW i \in Nat, Place(c, i)'
                 PROVE  LET f == From(c, i, dc, 0)
                        IN /\ Place(f[1], f[2])
                           /\ Num(f[1], f[2]) \in Nat
                           /\ Num(c, i)' = Num(f[1], f[2])
      BY DEF Moved
    <3>1. From(c, i, dc, 0)[1] = c + dc /\ From(c, i, dc, 0)[2] = i
      BY DEF From
    <3> QED BY <1>2, <3>1
  <2> QED BY <1>1, <2>1, MovedUp DEF OrderInv
<1>4. LoggedFirst' /\ FileInOrder'
  <2>1. CASE file' = file
    <3>1. LoggedFirst'
      <4> SUFFICES ASSUME NEW e \in 1..Len(file), NEW c \in Nat, NEW i \in Nat,
                          Place(c, i)'
                   PROVE  file[e].n < Num(c, i)'
        BY <2>1 DEF LoggedFirst
      <4>1. /\ c + dc \in Nat /\ Place(c + dc, i)
            /\ Num(c, i)' = Num(c + dc, i)
        OBVIOUS
      <4> QED BY <4>1 DEF OrderInv, LoggedFirst
    <3> QED BY <2>1, <3>1 DEF OrderInv, FileInOrder
  <2>2. CASE file' = <<>>
    <3>1. Len(file') = 0
      BY <2>2
    <3> QED BY <3>1 DEF LoggedFirst, FileInOrder
  <2> QED BY <2>1, <2>2
<1> QED BY <1>3, <1>4 DEF OrderInv

\* Nothing is in a stream at first.
LEMMA InitOrder == Init => OrderInv
<1> SUFFICES ASSUME Init PROVE OrderInv
  OBVIOUS
<1>1. Len(conns) = 0 /\ Len(file) = 0
  BY DEF Init
<1>2. ASSUME NEW c, NEW i PROVE ~Place(c, i)
  BY <1>1 DEF Place
<1> QED BY <1>1, <1>2
        DEF OrderInv, StreamsInOrder, WholeIsReported, LoggedFirst, FileInOrder

(***************************************************************************)
(* A report that has become whole is the last of all, and has the highest  *)
(* number.                                                                 *)
(***************************************************************************)
LEMMA ReportReturnsKeepsOrder ==
    ASSUME StateInv, OrderInv, ReportReturns
    PROVE  OrderInv'
<1> DEFINE C == Len(conns)
           L == Len(LastStream)
           R == Len(reported)
<1>1. /\ R \in Nat /\ Len(reported') = R + 1 /\ file' = file
      /\ Len(conns') = C /\ C \in Nat
  BY Completed, LenProperties DEF ReportReturns, StateInv, Typed
<1>2. ASSUME NEW e \in 1..Len(file) PROVE file[e].n \in Nat
  <2>1. file[e] \in Entries
    BY DEF StateInv, Typed
  <2> QED BY <2>1 DEF Entries
<1>3. \A c, i \in Nat :
         Place(c, i)' => /\ Num(c, i)' \in Nat
                         /\ \/ Place(c, i) /\ Num(c, i)' = Num(c, i)
                            \/ c = C /\ i = L /\ Num(c, i)' = R + 1
                         /\ c <= C /\ (c = C /\ linked => i <= L)
  <2> SUFFICES ASSUME NEW c \in Nat, NEW i \in Nat, Place(c, i)'
               PROVE  /\ Num(c, i)' \in Nat
                      /\ \/ Place(c, i) /\ Num(c, i)' = Num(c, i)
                         \/ c = C /\ i = L /\ Num(c, i)' = R + 1
                      /\ c <= C /\ (c = C /\ linked => i <= L)
    OBVIOUS
  <2>1. c \in 1..C
    BY <1>1 DEF Place
  <2>2. CASE linked /\ c = C
    <3>1. /\ LastStream \in Seq(Reports) /\ LastStream # <<>>
          /\ conns'[C].stream = [LastStream EXCEPT ![L].whole = TRUE]
          /\ LastStream = conns[C].stream
      BY <2>2, Completed, LastConn DEF StateInv
    <3>2. i \in 1..L /\ LastStream[i] \in Reports
      BY <2>2, <3>1 DEF Place
    <3>3. Num(c, i)' = LastStream[i].n
      BY <2>2, <3>1, <3>2 DEF Num, Reports
    <3>4. CASE i = L
      <4>1. LastStream[L].n = R + 1
        BY <2>2 DEF ReportReturns, StateInv, Writing
      <4> QED BY <1>1, <2>1, <2>2, <3>2, <3>3, <3>4, <4>1
    <3>5. CASE i # L
      <4>1. conns'[C].stream[i] = LastStream[i]
        BY <3>1, <3>2, <3>5
      <4>2. Place(c, i) /\ Num(c, i)' = Num(c, i)
        BY <2>1, <2>2, <3>1, <3>2, <3>3, <4>1 DEF Place, Num
      <4>3. LastStream[i].n \in Nat
        BY <3>2 DEF Reports
      <4>4. c <= C /\ i <= L
        BY <1>1, <2>1, <3>2
      <4> QED BY <3>3, <4>2, <4>3, <4>4
    <3> QED BY <3>4, <3>5
  <2>3. CASE ~(linked /\ c = C)
    <3>1. conns'[c] = conns[c]
      BY <2>1, <2>3, Completed
    <3>2. Place(c, i) /\ Num(c, i)' = Num(c, i)
      BY <1>1, <2>1, <3>1 DEF Place, Num
    <3>3. Num(c, i) \in Nat
      BY <3>2, PlaceIsTyped DEF StateInv
    <3> QED BY <2>1, <2>3, <3>2, <3>3
  <2> QED BY <2>2, <2>3
<1>4. ASSUME NEW c \in Nat, NEW i \in Nat, Place(c, i)'
      PROVE  c = C /\ i = L /\ Num(c, i)' = R + 1 => linked \/ Place(c, i)
  BY <1>4, Completed DEF Place, StateInv, Typed
<1> HIDE DEF C, L, R
<1>5. ASSUME NEW c \in Nat, NEW i \in Nat, NEW d \in Nat, NEW j \in Nat,
             Place(c, i)', Place(d, j)', Before(c, i, d, j)
      PROVE  Num(c, i)' < Num(d, j)'
  <2>1. CASE Place(c, i) /\ Num(c, i)' = Num(c, i)
    <3>1. Num(c, i) <= R /\ Num(c, i) \in Nat
      BY <1>3, <1>5, <2>1 DEF OrderInv, WholeIsReported, R
    <3>2. CASE Place(d, j) /\ Num(d, j)' = Num(d, j)
      BY <1>5, <2>1, <3>2 DEF OrderInv, StreamsInOrder
    <3>3. CASE Num(d, j)' = R + 1
      BY <1>1, <2>1, <3>1, <3>3
    <3> QED BY <1>3, <1>5, <3>2, <3>3
  <2>2. CASE ~(Place(c, i) /\ Num(c, i)' = Num(c, i))
    <3>1. c = C /\ i = L /\ d <= C /\ (d = C /\ linked => j <= L)
      BY <1>3, <1>5, <2>2
    <3>2. linked
      BY <1>5, <2>2, Completed DEF Place, Num, StateInv, Typed
    <3>3. L \in Nat /\ d = C /\ i < j /\ j <= L
      BY <1>1, <1>5, <3>1, <3>2 DEF Before
    <3> QED BY <3>1, <3>3
  <2> QED BY <2>1, <2>2
<1>6. ASSUME NEW c \in Nat, NEW i \in Nat, Place(c, i)'
      PROVE  Num(c, i)' <= Len(reported')
  BY <1>1, <1>3, <1>6 DEF OrderInv, WholeIsReported, R
<1>7. ASSUME NEW e \in 1..Len(file'), NEW c \in Nat, NEW i \in Nat, Place(c, i)'
      PROVE  file'[e].n < Num(c, i)'
  <2>1. file'[e].n \in Nat /\ file'[e].n <= R
    BY <1>1, <1>2 DEF OrderInv, FileInOrder, R
  <2>2. CASE Place(c, i) /\ Num(c, i)' = Num(c, i)
    BY <1>1, <2>2 DEF OrderInv, LoggedFirst
  <2>3. CASE Num(c, i)' = R + 1
    BY <1>1, <2>1, <2>3
  <2> QED BY <1>3, <1>7, <2>2, <2>3
<1>8. FileInOrder'
  BY <1>1, <1>2 DEF OrderInv, FileInOrder, R
<1> QED BY <1>5, <1>6, <1>7, <1>8
        DEF OrderInv, StreamsInOrder, WholeIsReported, LoggedFirst

(***************************************************************************)
(* What the server logs came before all that is left.                      *)
(***************************************************************************)
LEMMA ProcessKeepsOrder ==
    ASSUME StateInv, OrderInv, ProcessLogRequest
    PROVE  OrderInv'
<1>1. /\ conns # <<>> /\ Head(conns).stream # <<>>
      /\ Head(Head(conns).stream).whole
      /\ conns' = [conns EXCEPT ![1].stream = Tail(Head(conns).stream)]
      /\ UNCHANGED reported
  BY DEF ProcessLogRequest
<1>2. /\ Len(conns') = Len(conns) /\ 1 \in 1..Len(conns)
      /\ conns'[1].stream = Tail(conns[1].stream)
      /\ conns[1].stream \in Seq(Reports) /\ conns[1].stream # <<>>
      /\ \A c \in 1..Len(conns) : c # 1 => conns'[c] = conns[c]
  BY <1>1, Taken DEF StateInv
<1> DEFINE s == conns[1].stream
           e == [n |-> s[1].n, text |-> PrintTo(Read(s[1].fields))]
           F == Len(file)
<1>3. /\ Head(conns) = conns[1]
      /\ Head(s) = s[1] /\ s[1].whole /\ 1 \in 1..Len(s) /\ s[1] \in Reports
      /\ Len(Tail(s)) = Len(s) - 1 /\ Len(s) \in Nat
      /\ \A i \in 1..Len(Tail(s)) : Tail(s)[i] = s[i + 1]
  BY <1>1, <1>2, HeadAndTail DEF StateInv, Typed
<1>4. Place(1, 1) /\ Num(1, 1) = s[1].n /\ Num(1, 1) \in Nat
  BY <1>2, <1>3 DEF Place, Num, Reports
<1>5. /\ F \in Nat /\ Len(file') = F + 1
      /\ \A k \in 1..F : file'[k] = file[k]
      /\ file'[F + 1].n = Num(1, 1)
  <2>1. file' = Append(file, e) /\ e.n = Num(1, 1)
    BY <1>3, <1>4 DEF ProcessLogRequest
  <2>2. e \in Entries
    <3>1. s[1].n \in 1..MaxReports /\ PrintTo(Read(s[1].fields)) \in Texts
      BY <1>3 DEF Reports, Texts
    <3> QED BY <3>1 DEF Entries
  <2> HIDE DEF e
  <2>3. file \in Seq(Entries)
    BY DEF StateInv, Typed
  <2> QED BY <2>1, <2>2, <2>3, Appended
<1>6. Moved(0, 1)
  <2> SUFFICES ASSUME NEW c \in Nat, NEW i \in Nat, Place(c, i)'
               PROVE  LET f == From(c, i, 0, 1)
                      IN /\ Place(f[1], f[2])
                         /\ Num(f[1], f[2]) \in Nat
                         /\ Num(c, i)' = Num(f[1], f[2])
    BY DEF Moved
  <2>1. c \in 1..Len(conns)
    BY <1>2 DEF Place
  <2>2. CASE c = 1
    <3>1. From(c, i, 0, 1)[1] = 1 /\ From(c, i, 0, 1)[2] = i + 1
      BY <2>2 DEF From
    <3>2. i \in 1..Len(Tail(s)) /\ Tail(s)[i].whole /\ Num(c, i)' = Tail(s)[i].n
      BY <1>2, <2>2 DEF Place, Num
    <3>3. i + 1 \in 1..Len(s) /\ Tail(s)[i] = s[i + 1]
      BY <1>3, <3>2
    <3>4. Place(1, i + 1) /\ Num(c, i)' = Num(1, i + 1)
      BY <1>2, <3>2, <3>3 DEF Place, Num
    <3>5. Num(1, i + 1) \in Nat
      BY <3>4, PlaceIsTyped DEF StateInv
    <3> QED BY <3>1, <3>4, <3>5
  <2>3. CASE c # 1
    <3>1. From(c, i, 0, 1)[1] = c /\ From(c, i, 0, 1)[2] = i
      BY <2>3 DEF From
    <3>2. Place(c, i) /\ Num(c, i)' = Num(c, i)
      BY <1>2, <2>1, <2>3 DEF Place, Num
    <3>3. Num(c, i) \in Nat
      BY <3>2, PlaceIsTyped DEF StateInv
    <3> QED BY <3>1, <3>2, <3>3
  <2> QED BY <2>2, <2>3
<1> HIDE DEF s, e, F
<1>7. StreamsInOrder' /\ WholeIsReported'
  <2>1. /\ Len(reported) \in Nat /\ Len(reported') \in Nat
        /\ Len(reported) <= Len(reported')
    BY <1>1, LenProperties DEF StateInv, Typed
  <2>2. StreamsInOrder /\ WholeIsReported
    BY DEF OrderInv
  <2>3. 0 \in Nat /\ 1 \in Nat
    OBVIOUS
  <2> QED BY <1>6, <2>1, <2>2, <2>3, MovedUp
<1>8. ASSUME NEW k \in 1..Len(file'), NEW c \in Nat, NEW i \in Nat, Place(c, i)'
      PROVE  file'[k].n < Num(c, i)'
  <2> DEFINE ci == IF c = 1 THEN i + 1 ELSE i
  <2>1. From(c, i, 0, 1)[1] = c /\ From(c, i, 0, 1)[2] = ci
    BY DEF From
  <2>2. Place(c, ci) /\ Num(c, i)' = Num(c, ci) /\ ci \in Nat
    BY <1>6, <1>8, <2>1 DEF Moved
  <2>3. Before(1, 1, c, ci)
    <3>1. c >= 1 /\ i >= 1
      BY <1>2, <1>8 DEF Place
    <3> QED BY <3>1 DEF Before
  <2> HIDE DEF ci
  <2>4. CASE k = F + 1
    <3>1. Num(1, 1) < Num(c, ci)
      BY <1>4, <2>2, <2>3 DEF OrderInv, StreamsInOrder
    <3> QED BY <1>5, <2>2, <2>4, <3>1
  <2>5. CASE k \in 1..F
    BY <1>5, <2>2, <2>5 DEF OrderInv, LoggedFirst, F
  <2> QED BY <1>5, <2>4, <2>5
<1>9. FileInOrder'
  <2>1. ASSUME NEW k \in 1..Len(file') PROVE file'[k].n <= Len(reported')
    <3>1. CASE k = F + 1
      BY <1>1, <1>4, <1>5, <3>1 DEF OrderInv, WholeIsReported
    <3>2. CASE k \in 1..F
      BY <1>1, <1>5, <3>2 DEF OrderInv, FileInOrder, F
    <3> QED BY <1>5, <3>1, <3>2
  <2>2. ASSUME NEW j \in 1..Len(file'), NEW k \in 1..Len(file'), j < k
        PROVE  file'[j].n < file'[k].n
    <3>1. j \in 1..F
      BY <1>5, <2>2
    <3>2. CASE k = F + 1
      BY <1>4, <1>5, <3>1, <3>2 DEF OrderInv, LoggedFirst, F
    <3>3. CASE k \in 1..F
      BY <1>5, <2>2, <3>1, <3>3 DEF OrderInv, FileInOrder, F
    <3> QED BY <1>5, <3>2, <3>3
  <2> QED BY <2>1, <2>2 DEF FileInOrder
<1> QED BY <1>7, <1>8, <1>9 DEF OrderInv, LoggedFirst

(***************************************************************************)
(* Every action keeps the order.                                           *)
(***************************************************************************)
LEMMA NextOrder == StateInv /\ OrderInv /\ [Next]_vars => OrderInv'
<1> SUFFICES ASSUME StateInv, OrderInv, [Next]_vars PROVE OrderInv'
  OBVIOUS
<1> DEFINE Same(c, i) == Place(c, i)' => Place(c + 0, i) /\ Num(c, i)' = Num(c + 0, i)
<1>0. ASSUME UNCHANGED reported, file' = file \/ file' = <<>>,
             \A c, i \in Nat : Same(c, i)
      PROVE  OrderInv'
  BY <1>0, NothingNew DEF StateInv
<1>1. ASSUME UNCHANGED <<conns, reported>>, file' = file \/ file' = <<>>
      PROVE  OrderInv'
  <2>1. ASSUME NEW c \in Nat, NEW i \in Nat PROVE Same(c, i)
    BY <1>1 DEF Place, Num
  <2> QED BY <1>0, <1>1, <2>1
<1>2. CASE Connect
  <2> DEFINE new == [open |-> TRUE, stream |-> <<>>]
  <2>1. new \in Conns /\ Len(new.stream) = 0
    BY EmptySeq DEF Conns
  <2>2. conns' = Append(conns, new) /\ UNCHANGED <<file, reported>>
    BY <1>2 DEF Connect
  <2> HIDE DEF new
  <2>3. /\ Len(conns') = Len(conns) + 1 /\ Len(conns) \in Nat
        /\ conns'[Len(conns) + 1] = new
        /\ \A c \in 1..Len(conns) : conns'[c] = conns[c]
    BY <2>1, <2>2, Appended, LenProperties DEF StateInv, Typed
  <2>4. ASSUME NEW c \in Nat, NEW i \in Nat PROVE Same(c, i)
    BY <2>1, <2>3 DEF Place, Num
  <2> QED BY <1>0, <2>2, <2>4
<1>3. CASE ConnectFails \/ ReportFails
  BY <1>1, <1>3 DEF ConnectFails, ReportFails
<1>4. ASSUME NEW req \in Requests, NEW rsp \in Responses, ReportPair(req, rsp)
      PROVE  OrderInv'
  <2> DEFINE report == [n      |-> Len(reported) + 1,
                        fields |-> Write(MakeRequest(AppId, req, rsp)),
                        whole  |-> FALSE]
             p == [req |-> req, rsp |-> rsp]
  <2>1. UNCHANGED <<file, reported>>
    BY <1>4 DEF ReportPair
  <2>2. CASE ~linked
    BY <1>1, <1>4, <2>1, <2>2 DEF ReportPair
  <2>3. CASE linked
    <3>1. /\ conns # <<>> /\ LastStream \in Seq(Reports)
          /\ LastStream = conns[Len(conns)].stream
      BY <2>3, LastConn DEF StateInv, Linked
    <3>2. report \in Reports /\ ~report.whole
      <4>1. p \in Pairs /\ p.req = req /\ p.rsp = rsp
        BY DEF Pairs
      <4>2. Write(MakeRequest(AppId, req, rsp)) \in Fields
        BY <4>1 DEF Fields
      <4>3. Len(reported) + 1 \in 1..MaxReports
        BY <1>4, ReportingAssumption, LenProperties
           DEF ReportPair, StateInv, Typed
      <4> QED BY <4>2, <4>3 DEF Reports
    <3>3. OnStream(Append(LastStream, report))
      BY <1>4, <2>3 DEF ReportPair
    <3> HIDE DEF report
    <3>4. /\ Append(LastStream, report) \in Seq(Reports)
          /\ Len(Append(LastStream, report)) = Len(LastStream) + 1
          /\ Append(LastStream, report)[Len(LastStream) + 1] = report
          /\ \A i \in 1..Len(LastStream) :
                Append(LastStream, report)[i] = LastStream[i]
          /\ Len(LastStream) \in Nat
      BY <3>1, <3>2, Appended, LenProperties
    <3>5. /\ Len(conns') = Len(conns)
          /\ \A c \in 1..Len(conns) : c # Len(conns) => conns'[c] = conns[c]
          /\ conns'[Len(conns)].stream = Append(LastStream, report)
      BY <3>1, <3>3, <3>4, OnStreamType DEF StateInv
    <3>6. ASSUME NEW c \in Nat, NEW i \in Nat PROVE Same(c, i)
      <4>1. CASE c # Len(conns)
        BY <3>5, <4>1 DEF Place, Num
      <4>2. CASE c = Len(conns)
        <5> DEFINE t == Append(LastStream, report)
        <5> SUFFICES ASSUME Place(c, i)'
                     PROVE  Place(c, i) /\ Num(c, i)' = Num(c, i)
          OBVIOUS
        <5>1. /\ c \in 1..Len(conns) /\ i \in 1..Len(t) /\ t[i].whole
              /\ Num(c, i)' = t[i].n
          BY <3>5, <4>2 DEF Place, Num
        <5>2. i \in 1..Len(LastStream) /\ t[i] = LastStream[i]
          BY <3>2, <3>4, <5>1
        <5> HIDE DEF t
        <5> QED BY <3>1, <4>2, <5>1, <5>2 DEF Place, Num
      <4> QED BY <4>1, <4>2
    <3> QED BY <1>0, <2>1, <3>6
  <2> QED BY <2>2, <2>3
<1>5. CASE ReportReturns
  BY <1>5, ReportReturnsKeepsOrder
<1>6. CASE PairerEnds
  <2>1. UNCHANGED <<file, reported>>
    BY <1>6 DEF PairerEnds
  <2>2. CASE ~linked
    BY <1>1, <1>6, <2>1, <2>2 DEF PairerEnds, Hangup
  <2>3. CASE linked
    <3>1. /\ Len(conns') = Len(conns)
          /\ \A c \in 1..Len(conns) : conns'[c].stream = conns[c].stream
      BY <1>6, <2>3, Closed DEF PairerEnds, Hangup, StateInv, Linked
    <3>2. ASSUME NEW c \in Nat, NEW i \in Nat PROVE Same(c, i)
      BY <3>1 DEF Place, Num
    <3> QED BY <1>0, <2>1, <3>2
  <2> QED BY <2>2, <2>3
<1>7. CASE ServerStarts
  BY <1>1, <1>7 DEF ServerStarts
<1>8. CASE ServerCrashes
  <2>1. Len(conns') = 0 /\ UNCHANGED <<file, reported>>
    BY <1>8 DEF ServerCrashes
  <2>2. ASSUME NEW c \in Nat, NEW i \in Nat PROVE Same(c, i)
    BY <2>1 DEF Place
  <2> QED BY <1>0, <2>1, <2>2
<1>9. CASE ProcessLogRequest
  BY <1>9, ProcessKeepsOrder
<1>10. CASE EndConnection
  <2>1. conns # <<>> /\ conns' = Tail(conns) /\ UNCHANGED <<file, reported>>
    BY <1>10 DEF EndConnection
  <2>2. /\ Len(conns) \in Nat /\ Len(conns') = Len(conns) - 1
        /\ \A c \in 1..Len(conns') : conns'[c] = conns[c + 1]
    BY <2>1, HeadAndTail, LenProperties DEF StateInv, Typed
  <2>3. \A c, i \in Nat :
           Place(c, i)' => Place(c + 1, i) /\ Num(c, i)' = Num(c + 1, i)
    BY <2>2 DEF Place, Num
  <2> QED BY <2>1, <2>3, NothingNew DEF StateInv
<1>11. CASE UNCHANGED vars
  BY <1>1, <1>11 DEF vars
<1> QED BY <1>2, <1>3, <1>4, <1>5, <1>6, <1>7, <1>8, <1>9, <1>10, <1>11
        DEF Next, Pairer, Serve

(***************************************************************************)
(* The log has the reports in the order in which they were made, each at   *)
(* most once and none that was broken off, and those that wait to be read  *)
(* come after it in this order, however often pairer and the server go     *)
(* down and are started again.                                             *)
(***************************************************************************)
THEOREM LogKeepsOrder == Spec => []LogInOrder
<1>1. StateInv /\ OrderInv => LogInOrder
  <2> SUFFICES ASSUME StateInv, OrderInv PROVE LogInOrder
    OBVIOUS
  <2>1. FileInOrder
    BY DEF OrderInv
  <2>2. ASSUME NEW c \in 1..Len(conns), NEW i \in 1..Len(conns[c].stream),
               Place(c, i)
        PROVE  /\ Num(c, i) <= Len(reported)
               /\ \A k \in 1..Len(file) : file[k].n < Num(c, i)
               /\ \A d \in 1..Len(conns) : \A j \in 1..Len(conns[d].stream) :
                     Place(d, j) /\ Before(c, i, d, j) => Num(c, i) < Num(d, j)
    BY <2>2 DEF OrderInv, StreamsInOrder, WholeIsReported, LoggedFirst
  <2> QED BY <2>1, <2>2 DEF LogInOrder, FileInOrder
<1> QED BY InitState, NextState, InitOrder, NextOrder, <1>1, PTL DEF Spec

-----------------------------------------------------------------------------
(* Nothing is lost *)

(***************************************************************************)
(* As long as the server has not gone down: before it is up nothing runs,  *)
(* pairer while it runs is connected, and a report is in the log or at a   *)
(* place in some stream.                                                   *)
(***************************************************************************)
AtPlace(n) == \E c, i \in Nat : Place(c, i) /\ Num(c, i) = n

KeptInv ==
    crashes = 0 =>
        /\ server = "down" => pairer = "down" /\ Len(reported) = 0
        /\ pairer # "down" => linked
        /\ \A n \in 1..Len(reported) : Logged(n) \/ AtPlace(n)

LEMMA PlacesWait ==
    ASSUME Typed, NEW n, AtPlace(n)
    PROVE  Waits(n)
BY DEF AtPlace, Place, Waits

\* A step that adds to no log and to no count.
LEMMA PlacesKept ==
    ASSUME KeptInv, UNCHANGED <<file, reported>>, crashes' = 0 => crashes = 0,
           NEW dc \in Int,
           \A c, i \in Nat : Place(c, i) =>
               c + dc \in Nat /\ Place(c + dc, i)' /\ Num(c + dc, i)' = Num(c, i)
    PROVE  crashes' = 0 => \A n \in 1..Len(reported') : Logged(n)' \/ AtPlace(n)'
<1> SUFFICES ASSUME crashes' = 0, NEW n \in 1..Len(reported)
             PROVE  Logged(n)' \/ AtPlace(n)'
  OBVIOUS
<1>1. CASE Logged(n)
  BY <1>1 DEF Logged
<1>2. CASE AtPlace(n)
  <2>1. PICK c \in Nat, i \in Nat : Place(c, i) /\ Num(c, i) = n
    BY <1>2 DEF AtPlace
  <2>2. PICK d \in Nat : Place(d, i)' /\ Num(d, i)' = n
    BY <2>1
  <2> QED BY <2>2 DEF AtPlace
<1> QED BY <1>1, <1>2 DEF KeptInv

\* The streams as they are.
LEMMA StreamsSame ==
    ASSUME Len(conns') = Len(conns), Len(conns) \in Nat,
           \A c \in 1..Len(conns) : conns'[c].stream = conns[c].stream
    PROVE  \A c, i \in Nat : Place(c, i) =>
              c + 0 \in Nat /\ Place(c + 0, i)' /\ Num(c + 0, i)' = Num(c, i)
BY DEF Place, Num

LEMMA ReportReturnsKeepsAll ==
    ASSUME StateInv, KeptInv, ReportReturns
    PROVE  KeptInv'
<1> SUFFICES ASSUME crashes = 0
             PROVE  /\ server' = "down" => pairer' = "down" /\ Len(reported') = 0
                    /\ pairer' # "down" => linked'
                    /\ \A n \in 1..Len(reported') : Logged(n)' \/ AtPlace(n)'
  BY DEF KeptInv, ReportReturns
<1> DEFINE C == Len(conns)
           L == Len(LastStream)
           R == Len(reported)
<1>1. /\ linked /\ server = "up" /\ pairer = "writing"
      /\ UNCHANGED <<linked, server, file, crashes>>
  BY DEF ReportReturns, KeptInv, StateInv, Linked
<1>2. /\ R \in Nat /\ Len(reported') = R + 1
      /\ conns # <<>> /\ Len(conns') = C
      /\ \A c \in 1..C : c # C => conns'[c] = conns[c]
      /\ LastStream \in Seq(Reports) /\ LastStream # <<>>
      /\ conns'[C].stream = [LastStream EXCEPT ![L].whole = TRUE]
  BY <1>1, Completed, LenProperties DEF StateInv, Typed
<1>3. C \in 1..C /\ C \in Nat /\ LastStream = conns[C].stream
  BY <1>2, LastConn, LenProperties DEF StateInv, Typed
<1>4. L \in 1..L /\ L \in Nat /\ LastStream[L].n = R + 1
  BY <1>1, <1>2, EmptySeq, LenProperties DEF StateInv, Writing
<1>5. ASSUME NEW i \in 1..L
      PROVE  /\ i \in 1..Len(conns'[C].stream)
             /\ conns'[C].stream[i].n = LastStream[i].n
             /\ conns'[C].stream[i].whole <=> LastStream[i].whole \/ i = L
  <2>1. LastStream[i] \in Reports
    BY <1>2
  <2> QED BY <1>2, <1>4, <2>1 DEF Reports
<1>6. PICK c \in Nat, i \in Nat, m \in Nat : c = C /\ i = L /\ m = R + 1
  BY <1>2, <1>3, <1>4
<1>7. AtPlace(m)'
  <2>1. /\ i \in 1..Len(conns'[c].stream)
        /\ conns'[c].stream[i].n = m /\ conns'[c].stream[i].whole
        /\ c \in 1..Len(conns')
    BY <1>2, <1>3, <1>4, <1>5, <1>6
  <2>2. Place(c, i)' /\ Num(c, i)' = m
    BY ONLY <2>1 DEF Place, Num
  <2> QED BY <2>2 DEF AtPlace
<1>8. ASSUME NEW n \in 1..R PROVE Logged(n)' \/ AtPlace(n)'
  <2>1. CASE Logged(n)
    BY <1>1, <2>1 DEF Logged
  <2>2. CASE AtPlace(n)
    <3>1. PICK d \in Nat, j \in Nat : Place(d, j) /\ Num(d, j) = n
      BY <2>2 DEF AtPlace
    <3>2. Place(d, j)' /\ Num(d, j)' = n
      BY <1>2, <1>3, <1>5, <3>1 DEF Place, Num
    <3> QED BY <3>2 DEF AtPlace
  <2> QED BY <2>1, <2>2 DEF KeptInv
<1>9. \A n \in 1..Len(reported') : Logged(n)' \/ AtPlace(n)'
  <2> SUFFICES ASSUME NEW n \in 1..Len(reported')
               PROVE  Logged(n)' \/ AtPlace(n)'
    OBVIOUS
  <2>1. n \in 1..R \/ n = m
    BY <1>2, <1>6
  <2>2. CASE n = m
    BY <1>7, <2>2 DEF AtPlace, Place, Num
  <2> QED BY <1>8, <2>1, <2>2
<1> QED BY <1>1, <1>9

LEMMA ProcessKeepsAll ==
    ASSUME StateInv, KeptInv, ProcessLogRequest
    PROVE  KeptInv'
<1>1. /\ conns # <<>> /\ Head(conns).stream # <<>>
      /\ conns' = [conns EXCEPT ![1].stream = Tail(Head(conns).stream)]
      /\ UNCHANGED <<pairer, linked, server, reported, crashes>>
  BY DEF ProcessLogRequest
<1>2. /\ Len(conns') = Len(conns) /\ 1 \in 1..Len(conns)
      /\ conns'[1].stream = Tail(conns[1].stream)
      /\ conns[1].stream \in Seq(Reports) /\ conns[1].stream # <<>>
      /\ \A c \in 1..Len(conns) : c # 1 => conns'[c] = conns[c]
  BY <1>1, Taken DEF StateInv
<1> DEFINE s == conns[1].stream
           e == [n |-> s[1].n, text |-> PrintTo(Read(s[1].fields))]
<1>3. /\ Head(conns) = conns[1] /\ Head(s) = s[1] /\ s[1] \in Reports
      /\ Len(Tail(s)) = Len(s) - 1 /\ Len(s) \in Nat
      /\ \A i \in 1..Len(Tail(s)) : Tail(s)[i] = s[i + 1]
  BY <1>1, <1>2, HeadAndTail DEF StateInv, Typed
<1>4. /\ Len(file) \in Nat /\ Len(file') = Len(file) + 1
      /\ \A k \in 1..Len(file) : file'[k] = file[k]
      /\ file'[Len(file) + 1].n = s[1].n
  <2>1. file' = Append(file, e) /\ e.n = s[1].n
    BY <1>3 DEF ProcessLogRequest
  <2>2. e \in Entries
    <3>1. s[1].n \in 1..MaxReports /\ PrintTo(Read(s[1].fields)) \in Texts
      BY <1>3 DEF Reports, Texts
    <3> QED BY <3>1 DEF Entries
  <2> HIDE DEF e
  <2> QED BY <2>1, <2>2, Appended DEF StateInv, Typed
<1> HIDE DEF e
<1>5. ASSUME NEW n, Logged(n) PROVE Logged(n)'
  BY <1>4, <1>5 DEF Logged
<1>6. ASSUME NEW n, AtPlace(n) PROVE Logged(n)' \/ AtPlace(n)'
  <2>1. PICK c \in Nat, i \in Nat : Place(c, i) /\ Num(c, i) = n
    BY <1>6 DEF AtPlace
  <2>2. CASE c = 1 /\ i = 1
    <3>1. n = s[1].n
      BY <2>1, <2>2 DEF Num
    <3> QED BY <1>4, <3>1 DEF Logged
  <2>3. CASE c = 1 /\ i # 1
    <3>1. i \in 1..Len(s) /\ s[i].whole /\ s[i].n = n
      BY <2>1, <2>3 DEF Place, Num
    <3>2. PICK j \in Nat : i = j + 1 /\ j \in 1..Len(Tail(s))
      BY <1>3, <2>3, <3>1
    <3>3. Tail(s)[j] = s[i]
      BY <1>3, <3>2
    <3>4. Place(c, j)' /\ Num(c, j)' = n
      BY <1>2, <2>3, <3>1, <3>2, <3>3 DEF Place, Num
    <3> QED BY <3>4 DEF AtPlace
  <2>4. CASE c # 1
    <3>1. Place(c, i)' /\ Num(c, i)' = n
      BY <1>2, <2>1, <2>4 DEF Place, Num
    <3> QED BY <3>1 DEF AtPlace
  <2> QED BY <2>2, <2>3, <2>4
<1> QED BY <1>1, <1>5, <1>6 DEF KeptInv

LEMMA NextKept == StateInv /\ KeptInv /\ [Next]_vars => KeptInv'
<1> SUFFICES ASSUME StateInv, KeptInv, [Next]_vars PROVE KeptInv'
  OBVIOUS
<1> DEFINE Stay == \A n \in 1..Len(reported') : Logged(n)' \/ AtPlace(n)'
<1>0. Len(conns) \in Nat
  BY LenProperties DEF StateInv, Typed
<1>1. ASSUME UNCHANGED <<conns, file, reported, crashes>>, crashes = 0 PROVE Stay
  BY <1>0, <1>1, StreamsSame, PlacesKept
<1>2. CASE Connect
  <2>1. /\ server = "up" /\ linked' = TRUE
        /\ UNCHANGED <<server, file, reported, crashes>>
        /\ conns' = Append(conns, [open |-> TRUE, stream |-> <<>>])
    BY <1>2 DEF Connect
  <2>2. [open |-> TRUE, stream |-> <<>>] \in Conns
    BY EmptySeq DEF Conns
  <2>3. /\ Len(conns') = Len(conns) + 1
        /\ \A c \in 1..Len(conns) : conns'[c] = conns[c]
    BY <2>1, <2>2, Appended DEF StateInv, Typed
  <2>4. \A c, i \in Nat : Place(c, i) =>
           c + 0 \in Nat /\ Place(c + 0, i)' /\ Num(c + 0, i)' = Num(c, i)
    <3> SUFFICES ASSUME NEW c \in Nat, NEW i \in Nat, NEW d \in Nat, d = c + 0,
                        Place(c, i)
                 PROVE  Place(d, i)' /\ Num(d, i)' = Num(c, i)
      OBVIOUS
    <3>1. c \in 1..Len(conns) /\ d = c
      BY DEF Place
    <3>2. d \in 1..Len(conns') /\ conns'[d] = conns[c]
      BY <1>0, <2>3, <3>1
    <3> QED BY <3>1, <3>2 DEF Place, Num
  <2>5. /\ 0 \in Int /\ UNCHANGED <<file, reported>>
        /\ crashes' = 0 => crashes = 0
    BY <2>1
  <2>6. crashes' = 0 => Stay
    <3> HIDE DEF Stay
    <3>1. (\A c, i \in Nat : Place(c, i) =>
              c + 0 \in Nat /\ Place(c + 0, i)' /\ Num(c + 0, i)' = Num(c, i))
          => (crashes' = 0 => Stay)
      BY ONLY <2>5, KeptInv, PlacesKept DEF Stay
    <3> QED BY <2>4, <3>1
  <2> QED BY <2>1, <2>6 DEF KeptInv
<1>3. CASE ConnectFails
  BY <1>1, <1>3 DEF ConnectFails, KeptInv
<1>4. ASSUME NEW req \in Requests, NEW rsp \in Responses, ReportPair(req, rsp)
      PROVE  KeptInv'
  <2> DEFINE p == [req |-> req, rsp |-> rsp]
             report == [n      |-> Len(reported) + 1,
                        fields |-> Write(MakeRequest(AppId, req, rsp)),
                        whole  |-> FALSE]
  <2>1. /\ pairer = "idle" /\ UNCHANGED <<linked, server, file, reported, crashes>>
    BY <1>4 DEF ReportPair
  <2>2. CASE ~linked
    <3>1. crashes # 0
      BY <2>1, <2>2 DEF KeptInv
    <3> QED BY <2>1, <3>1 DEF KeptInv
  <2>3. CASE linked
    <3>1. /\ conns # <<>> /\ server = "up" /\ LastStream \in Seq(Reports)
          /\ LastStream = conns[Len(conns)].stream
      BY <2>3, LastConn DEF StateInv, Linked
    <3>2. report \in Reports
      <4>1. p \in Pairs /\ p.req = req /\ p.rsp = rsp
        BY DEF Pairs
      <4>2. Write(MakeRequest(AppId, req, rsp)) \in Fields
        BY <4>1 DEF Fields
      <4>3. Len(reported) + 1 \in 1..MaxReports
        BY <1>4, ReportingAssumption, LenProperties
           DEF ReportPair, StateInv, Typed
      <4> QED BY <4>2, <4>3 DEF Reports
    <3>3. OnStream(Append(LastStream, report))
      BY <1>4, <2>3 DEF ReportPair
    <3> HIDE DEF report
    <3>4. /\ Append(LastStream, report) \in Seq(Reports)
          /\ Len(Append(LastStream, report)) = Len(LastStream) + 1
          /\ \A i \in 1..Len(LastStream) :
                Append(LastStream, report)[i] = LastStream[i]
          /\ Len(LastStream) \in Nat
      BY <3>1, <3>2, Appended, LenProperties
    <3>5. /\ Len(conns') = Len(conns)
          /\ \A c \in 1..Len(conns) : c # Len(conns) => conns'[c] = conns[c]
          /\ conns'[Len(conns)].stream = Append(LastStream, report)
      BY <3>1, <3>3, <3>4, OnStreamType DEF StateInv
    <3>6. \A c, i \in Nat : Place(c, i) =>
             c + 0 \in Nat /\ Place(c + 0, i)' /\ Num(c + 0, i)' = Num(c, i)
      <4> SUFFICES ASSUME NEW c \in Nat, NEW i \in Nat, Place(c, i)
                   PROVE  Place(c, i)' /\ Num(c, i)' = Num(c, i)
        OBVIOUS
      <4>1. CASE c # Len(conns)
        BY <3>5, <4>1 DEF Place, Num
      <4>2. CASE c = Len(conns)
        <5>1. i \in 1..Len(LastStream) /\ LastStream[i].whole
          BY <3>1, <4>2 DEF Place
        <5>2. /\ i \in 1..Len(conns'[c].stream)
              /\ conns'[c].stream[i] = LastStream[i]
          BY <3>4, <3>5, <4>2, <5>1
        <5> QED BY <3>1, <3>5, <4>2, <5>1, <5>2 DEF Place, Num
      <4> QED BY <4>1, <4>2
    <3>7. crashes' = 0 => Stay
      BY <2>1, <3>6, PlacesKept
    <3> QED BY <2>1, <2>3, <3>1, <3>7 DEF KeptInv
  <2> QED BY <2>2, <2>3
<1>5. CASE ReportReturns
  BY <1>5, ReportReturnsKeepsAll
<1>6. CASE ReportFails
  BY <1>6 DEF ReportFails, KeptInv
<1>7. CASE PairerEnds
  <2>1. pairer' = "down" /\ pairer # "down"
        /\ UNCHANGED <<server, file, reported, crashes>>
    BY <1>7 DEF PairerEnds
  <2>2. /\ Len(conns') = Len(conns)
        /\ \A c \in 1..Len(conns) : conns'[c].stream = conns[c].stream
    <3>1. CASE linked
      BY <1>7, <3>1, Closed DEF PairerEnds, Hangup, StateInv, Linked
    <3>2. CASE ~linked
      BY <1>7, <3>2 DEF PairerEnds, Hangup
    <3> QED BY <3>1, <3>2
  <2>3. crashes' = 0 => Stay
    BY <1>0, <2>1, <2>2, StreamsSame, PlacesKept
  <2> QED BY <2>1, <2>3 DEF KeptInv
<1>8. CASE ServerStarts
  BY <1>8 DEF ServerStarts, KeptInv
<1>9. CASE ServerCrashes
  <2>1. crashes' # 0
    BY <1>9 DEF ServerCrashes, StateInv, Typed
  <2> QED BY <2>1 DEF KeptInv
<1>10. CASE ProcessLogRequest
  BY <1>10, ProcessKeepsAll
<1>11. CASE EndConnection
  <2>1. /\ conns # <<>> /\ conns' = Tail(conns)
        /\ \A i \in 1..Len(Head(conns).stream) : ~Head(conns).stream[i].whole
        /\ UNCHANGED <<pairer, linked, server, file, reported, crashes>>
    BY <1>11 DEF EndConnection
  <2>2. /\ Head(conns) = conns[1] /\ Len(conns') = Len(conns) - 1
        /\ \A c \in 1..Len(conns') : conns'[c] = conns[c + 1]
    BY <2>1, HeadAndTail DEF StateInv, Typed
  <2>3. \A c, i \in Nat : Place(c, i) =>
           c + (-1) \in Nat /\ Place(c + (-1), i)' /\ Num(c + (-1), i)' = Num(c, i)
    <3> SUFFICES ASSUME NEW c \in Nat, NEW i \in Nat, Place(c, i)
                 PROVE  c + (-1) \in Nat /\ Place(c + (-1), i)'
                        /\ Num(c + (-1), i)' = Num(c, i)
      OBVIOUS
    <3>1. c # 1 /\ c \in 1..Len(conns)
      BY <2>1, <2>2 DEF Place
    <3>2. PICK d \in Nat : d = c + (-1) /\ d \in 1..Len(conns') /\ c = d + 1
      BY <1>0, <2>2, <3>1
    <3>3. conns'[d] = conns[c]
      BY <2>2, <3>2
    <3>4. Place(d, i)' /\ Num(d, i)' = Num(c, i)
      BY <3>2, <3>3 DEF Place, Num
    <3> QED BY <3>2, <3>4
  <2>4. crashes' = 0 => Stay
    <3>1. -1 \in Int
      OBVIOUS
    <3> QED BY <2>1, <2>3, <3>1, PlacesKept
  <2> QED BY <2>1, <2>4 DEF KeptInv
<1>12. CASE UNCHANGED vars
  BY <1>1, <1>12 DEF vars, KeptInv
<1> QED BY <1>2, <1>3, <1>4, <1>5, <1>6, <1>7, <1>8, <1>9, <1>10, <1>11, <1>12
        DEF Next, Pairer, Serve

LEMMA InitKept == Init => KeptInv
<1> SUFFICES ASSUME Init PROVE KeptInv
  OBVIOUS
<1>1. Len(reported) = 0 /\ pairer = "down"
  BY DEF Init
<1> QED BY <1>1 DEF KeptInv

(***************************************************************************)
(* As long as the server has not gone down, each report that returned is   *)
(* in the log or waits to be read, whatever becomes of pairer.             *)
(***************************************************************************)
THEOREM NoReportLost == Spec => []NoneLost
<1>1. StateInv /\ KeptInv => NoneLost
  BY PlacesWait DEF StateInv, KeptInv, NoneLost
<1> QED BY InitState, NextState, InitKept, NextKept, <1>1, PTL DEF Spec

-----------------------------------------------------------------------------
(* Induction along a packet *)

\* A set of natural numbers has a least one.
Less == {ss \in Nat \X Nat : ss[1] < ss[2]}

LEMMA LeastNat ==
    ASSUME NEW T, T \subseteq Nat, T # {}
    PROVE  \E x \in T : \A y \in T : x <= y
<1>1. IsWellFoundedOn(Less, Nat)
  BY NatLessThanWellFounded DEF Less, OpToRel
<1>2. PICK x \in T : \A y \in T : ~(<<y, x>> \in Less)
  BY ONLY <1>1, T \subseteq Nat, T # {}, WFMin
<1>3. ASSUME NEW y \in T PROVE x <= y
  <2>1. x \in Nat /\ y \in Nat /\ <<y, x>> \notin Less
    BY <1>2
  <2> QED BY ONLY <2>1 DEF Less
<1> QED BY <1>3

\* A set that has 0, and with a number the next, has all up to n.
LEMMA PrefixInduction ==
    ASSUME NEW n \in Nat, NEW S, 0 \in S,
           \A i \in 0..n-1 : i \in S => i + 1 \in S
    PROVE  0..n \subseteq S
<1>1. SUFFICES ASSUME ~(0..n \subseteq S) PROVE FALSE
  OBVIOUS
<1> DEFINE T == (0..n) \ S
<1>2. T \subseteq Nat /\ T # {}
  BY <1>1
<1> HIDE DEF T
<1>3. PICK x \in T : \A y \in T : x <= y
  BY <1>2, LeastNat
<1>4. x \in 1..n /\ x \notin S
  BY <1>3 DEF T
<1>5. x - 1 \in 0..n-1 /\ x - 1 + 1 = x
  BY <1>4
<1>6. x - 1 \in S
  <2>1. x - 1 \notin T
    BY <1>3, <1>4, <1>5
  <2> QED BY <1>5, <2>1 DEF T
<1> QED BY <1>4, <1>5, <1>6

\* The loop over the first k attributes, as the values of attrs_.
Runs(f, packet, k) ==
    f = [i \in 0..k |-> IF i = 0 THEN NoAttrs ELSE SetAttr(f[i - 1], packet[i])]

\* The loop comes to an end: there are such values.
LEMMA LoopEnds ==
    ASSUME NEW packet \in Seq(Avps)
    PROVE  \E f : Runs(f, packet, Len(packet))
<1> DEFINE n == Len(packet)
           S == {k \in 0..n : \E f : Runs(f, packet, k)}
<1>1. n \in Nat
  BY LenProperties
<1>2. 0 \in S
  <2>1. Runs([i \in 0..0 |-> NoAttrs], packet, 0)
    BY DEF Runs
  <2> QED BY <1>1, <2>1
<1>3. ASSUME NEW k \in 0..n-1, k \in S PROVE k + 1 \in S
  <2>1. PICK f : Runs(f, packet, k)
    BY <1>3
  <2> DEFINE g == [i \in 0..k+1 |-> IF i = k + 1 THEN SetAttr(f[k], packet[k + 1])
                                                 ELSE f[i]]
  <2>2. ASSUME NEW i \in 0..k+1
        PROVE  g[i] = IF i = 0 THEN NoAttrs ELSE SetAttr(g[i - 1], packet[i])
    <3>1. CASE i = 0
      BY <1>1, <2>1, <3>1 DEF Runs
    <3>2. CASE i \in 1..k
      <4>1. i - 1 \in 0..k /\ i \in 0..k /\ i # k + 1 /\ i - 1 # k + 1
            /\ i - 1 \in 0..k+1 /\ i # 0
        BY <1>1, <3>2
      <4>2. f[i] = SetAttr(f[i - 1], packet[i])
        BY <2>1, <4>1 DEF Runs
      <4>3. g[i] = f[i] /\ g[i - 1] = f[i - 1]
        BY <4>1
      <4> QED BY ONLY <4>1, <4>2, <4>3
    <3>3. CASE i = k + 1
      <4>1. i - 1 = k /\ k \in 0..k+1 /\ k # k + 1 /\ i # 0
        BY <1>1, <3>3
      <4>2. g[i - 1] = f[k] /\ g[i] = SetAttr(f[k], packet[k + 1])
        BY <3>3, <4>1
      <4> QED BY ONLY <3>3, <4>1, <4>2
    <3> QED BY <1>1, <3>1, <3>2, <3>3
  <2>3. g = [i \in 0..k+1 |-> IF i = 0 THEN NoAttrs ELSE SetAttr(g[i - 1], packet[i])]
    <3>1. g = [i \in 0..k+1 |-> g[i]]
      OBVIOUS
    <3> HIDE DEF g
    <3> QED BY <2>2, <3>1
  <2> HIDE DEF g
  <2>4. Runs(g, packet, k + 1) /\ k + 1 \in 0..n
    BY <1>1, <2>3 DEF Runs
  <2> QED BY <2>4
<1>4. 0..n \subseteq S
  <2> HIDE DEF S
  <2> QED BY <1>1, <1>2, <1>3, PrefixInduction
<1> QED BY <1>1, <1>4

\* BuildAttrs is the last of these values.
LEMMA BuildAttrsRuns ==
    ASSUME NEW packet \in Seq(Avps)
    PROVE  \E f : Runs(f, packet, Len(packet)) /\ BuildAttrs(packet) = f[Len(packet)]
<1> DEFINE a == CHOOSE f : f = [i \in 0..Len(packet) |->
                   IF i = 0 THEN NoAttrs ELSE SetAttr(f[i - 1], packet[i])]
<1>1. Runs(a, packet, Len(packet))
  BY LoopEnds DEF Runs
<1>2. BuildAttrs(packet) = a[Len(packet)]
  BY DEF BuildAttrs
<1> QED BY <1>1, <1>2

\* What attrs_ is after k attributes: it has their numbers, and under each the
\* text of the last attribute with the number.
Code(packet, i) == Short(packet[i].attr)
LastWith(packet, i, k) == \A j \in i+1..k : Code(packet, j) # Code(packet, i)

Built(attrs, packet, k) ==
    /\ DOMAIN attrs = {Code(packet, i) : i \in 1..k}
    /\ \A i \in 1..k : LastWith(packet, i, k) =>
          attrs[Code(packet, i)] = AttrToString(packet[i].bytes, TypeOf(packet[i]))

LEMMA AttrsBuilt ==
    ASSUME NEW packet \in Seq(Avps)
    PROVE  Built(BuildAttrs(packet), packet, Len(packet))
<1> DEFINE n == Len(packet)
<1>1. n \in Nat
  BY LenProperties
<1>2. PICK f : Runs(f, packet, n) /\ BuildAttrs(packet) = f[n]
  BY BuildAttrsRuns
<1> DEFINE S == {k \in 0..n : Built(f[k], packet, k)}
<1>3. 0 \in S
  <2>1. f[0] = NoAttrs
    BY <1>1, <1>2 DEF Runs
  <2> QED BY <1>1, <2>1 DEF Built, NoAttrs
<1>4. ASSUME NEW k \in 0..n-1, k \in S PROVE k + 1 \in S
  <2> DEFINE c == Code(packet, k + 1)
             text == AttrToString(packet[k + 1].bytes, TypeOf(packet[k + 1]))
  <2>1. k + 1 \in 0..n /\ k + 1 # 0 /\ k + 1 - 1 = k /\ k \in Nat
    BY <1>1
  <2>6. f[k + 1] = SetAttr(f[k], packet[k + 1])
    <3>1. PICK i \in 0..n : i = k + 1
      BY <2>1
    <3>2. f[i] = IF i = 0 THEN NoAttrs ELSE SetAttr(f[i - 1], packet[i])
      BY <1>2 DEF Runs
    <3> QED BY ONLY <2>1, <3>1, <3>2
  <2>2. f[k + 1] = [d \in DOMAIN f[k] \cup {c} |-> IF d = c THEN text ELSE f[k][d]]
    BY <2>6 DEF SetAttr, Code
  <2>3. Built(f[k], packet, k)
    BY <1>4
  <2> HIDE DEF c, text
  <2>4. DOMAIN f[k + 1] = {Code(packet, i) : i \in 1..k+1}
    <3>1. DOMAIN f[k + 1] = {Code(packet, i) : i \in 1..k} \cup {c}
      BY <2>2, <2>3 DEF Built
    <3>2. {Code(packet, i) : i \in 1..k+1} = {Code(packet, i) : i \in 1..k} \cup {Code(packet, k + 1)}
      <4>1. 1..k+1 = (1..k) \cup {k + 1}
        BY <2>1
      <4> QED BY <4>1
    <3> QED BY <3>1, <3>2 DEF c
  <2>5. ASSUME NEW i \in 1..k+1, LastWith(packet, i, k + 1)
        PROVE  f[k + 1][Code(packet, i)]
                  = AttrToString(packet[i].bytes, TypeOf(packet[i]))
    <3>1. CASE i = k + 1
      BY <2>2, <3>1 DEF c, text
    <3>2. CASE i \in 1..k
      <4>1. k + 1 \in i+1..k+1 /\ \A j \in i+1..k : j \in i+1..k+1
        BY <2>1, <3>2
      <4>2. Code(packet, i) # c /\ LastWith(packet, i, k)
        BY <2>5, <4>1 DEF LastWith, c
      <4>3. /\ Code(packet, i) \in DOMAIN f[k]
            /\ f[k][Code(packet, i)] = AttrToString(packet[i].bytes, TypeOf(packet[i]))
        BY <2>3, <3>2, <4>2 DEF Built
      <4> QED BY ONLY <2>2, <4>2, <4>3
    <3> QED BY <2>1, <3>1, <3>2
  <2> QED BY <2>1, <2>4, <2>5 DEF Built
<1>5. 0..n \subseteq S
  <2> HIDE DEF S
  <2> QED BY <1>1, <1>3, <1>4, PrefixInduction
<1> QED BY <1>1, <1>2, <1>5

-----------------------------------------------------------------------------
(* The list that is made of the map *)

\* A number is the one that its position in the order says.
LEMMA NthIsThere ==
    ASSUME NEW D, D \subseteq Int, IsFiniteSet(D), NEW c \in D
    PROVE  \E k \in 1..Cardinality(D) : Nth(D, k) = c
<1> DEFINE Below(d) == {e \in D : e <= d}
           k == Cardinality(Below(c))
<1>1. /\ IsFiniteSet(Below(c)) /\ k \in Nat /\ k <= Cardinality(D)
      /\ Cardinality(D) \in Nat
  BY FS_Subset, FS_CardinalityType
<1>2. k # 0
  <2>1. c \in Below(c)
    OBVIOUS
  <2> HIDE DEF Below
  <2> QED BY <1>1, <2>1, FS_EmptySet
<1>3. ASSUME NEW d \in D, Cardinality(Below(d)) = k PROVE d = c
  <2>1. IsFiniteSet(Below(d)) /\ c \in Below(c) /\ d \in Below(d)
    BY FS_Subset
  <2>2. CASE d < c
    <3>1. Below(d) \in SUBSET Below(c) /\ c \notin Below(d)
      <4>1. \A e \in D : e <= d => e <= c
        BY <2>2
      <4>2. ~(c <= d)
        BY <2>2
      <4> QED BY <4>1, <4>2
    <3>2. Below(d) = Below(c)
      <4> HIDE DEF Below
      <4> QED BY ONLY <1>1, <1>3, <3>1, FS_Subset DEF k
    <3> QED BY ONLY <2>1, <3>1, <3>2
  <2>3. CASE c < d
    <3>1. Below(c) \in SUBSET Below(d) /\ d \notin Below(c)
      <4>1. \A e \in D : e <= c => e <= d
        BY <2>3
      <4>2. ~(d <= c)
        BY <2>3
      <4> QED BY <4>1, <4>2
    <3>2. Below(d) = Below(c)
      <4> HIDE DEF Below
      <4> QED BY ONLY <1>3, <2>1, <3>1, FS_Subset DEF k
    <3> QED BY ONLY <2>1, <3>1, <3>2
  <2> QED BY <2>2, <2>3
<1>4. Nth(D, k) = c
  BY <1>3 DEF Nth
<1> QED BY <1>1, <1>2, <1>4

\* A number and its remainder, in 16 bits.
Rem(x) == x % 65536

LEMMA ShortOf ==
    ASSUME NEW x \in Nat
    PROVE  /\ Rem(x) \in Nat /\ Rem(x) < 65536
           /\ Rem(x) < 32768 => Short(x) = Rem(x)
           /\ ~(Rem(x) < 32768) => Short(x) = Rem(x) - 65536
<1>1. Rem(x) \in Nat /\ Rem(x) < 65536
  BY SMTT(30) DEF Rem
<1>2. 65536 \div 2 = 32768
  OBVIOUS
<1>3. Rem(x) < 32768 => Short(x) = Rem(x)
  BY <1>2 DEF Short, Signed, Rem
<1>4. ~(Rem(x) < 32768) => Short(x) = Rem(x) - 65536
  BY <1>2 DEF Short, Signed, Rem
<1> QED BY ONLY <1>1, <1>3, <1>4

LEMMA RemBounded == \E top \in Nat : \A x \in Nat : Rem(x) \in Nat /\ Rem(x) <= top
<1>1. PICK top \in Nat : top = 65536
  OBVIOUS
<1>2. ASSUME NEW x \in Nat PROVE Rem(x) \in Nat /\ Rem(x) <= top
  <2>1. PICK a \in Nat : a = Rem(x) /\ a < 65536
    BY ShortOf
  <2> QED BY ONLY <1>1, <2>1
<1> QED BY <1>2

LEMMA ShortBijects ==
    ASSUME NEW x \in Nat, NEW y \in Nat
    PROVE  /\ Short(x) \in Int
           /\ Short(x) = Short(y) <=> Rem(x) = Rem(y)
           /\ Rem(x) < 128 => Short(x) = Rem(x)
<1>1. PICK a \in Nat : a = Rem(x) /\ a < 65536
  BY ShortOf
<1>2. PICK b \in Nat : b = Rem(y) /\ b < 65536
  BY ShortOf
<1>3. /\ a < 32768 => Short(x) = a
      /\ ~(a < 32768) => Short(x) = a - 65536
      /\ b < 32768 => Short(y) = b
      /\ ~(b < 32768) => Short(y) = b - 65536
  BY <1>1, <1>2, ShortOf
<1> QED BY ONLY <1>1, <1>2, <1>3

\* A small number is the same in one byte, and when it is printed.
LEMMA SmallStays ==
    ASSUME NEW c \in 0..127
    PROVE  Rem(Int8(c)) = c
<1>1. c % 256 = c /\ 256 \div 2 = 128
  OBVIOUS
<1>2. Int8(c) = c
  BY <1>1 DEF Int8, Signed
<1>3. c % 65536 = c
  OBVIOUS
<1> QED BY <1>2, <1>3 DEF Rem

\* The numbers in the map are as many as the numbers in the packet.
LEMMA CodesAreNumbers ==
    ASSUME NEW packet \in Seq(Avps)
    PROVE  LET D == {Code(packet, i) : i \in 1..Len(packet)}
           IN /\ D \subseteq Int
              /\ IsFiniteSet(D)
              /\ Cardinality(D) = Cardinality(Numbers(packet))
<1> DEFINE n == Len(packet)
           D == {Code(packet, i) : i \in 1..n}
           f == [i \in 1..n |-> Code(packet, i)]
           g == [r \in Numbers(packet) |-> Short(CHOOSE x \in Nat : Rem(x) = r)]
<1>1. n \in Nat /\ \A i \in 1..n : packet[i].attr \in Nat
  <2>1. \A i \in 1..n : packet[i] \in Avps
    OBVIOUS
  <2> QED BY <2>1, LenProperties DEF Avps
<1>2. Numbers(packet) = {Rem(packet[i].attr) : i \in 1..n}
  BY DEF Numbers, Rem
<1>3. D \subseteq Int
  BY <1>1, ShortBijects DEF Code
<1>4. IsFiniteSet(Numbers(packet))
  <2>1. PICK top \in Nat : \A r \in Numbers(packet) : r \in Nat /\ r <= top
    BY <1>1, <1>2, RemBounded
  <2>2. Numbers(packet) \in SUBSET Nat
    BY <2>1
  <2> QED BY ONLY <2>1, <2>2, FS_BoundedSetOfNaturals
<1>5. ASSUME NEW i \in 1..n
      PROVE  /\ Rem(packet[i].attr) \in Numbers(packet)
             /\ g[Rem(packet[i].attr)] = Code(packet, i)
  <2> DEFINE x == packet[i].attr
             y == CHOOSE z \in Nat : Rem(z) = Rem(x)
  <2>1. y \in Nat /\ Rem(y) = Rem(x)
    BY <1>1
  <2>2. Rem(x) \in Numbers(packet) /\ g[Rem(x)] = Short(y)
    BY <1>2
  <2>3. Short(y) = Short(x)
    <3> HIDE DEF y
    <3> QED BY <1>1, <2>1, ShortBijects
  <2> QED BY <2>2, <2>3 DEF Code
<1>6. g \in Bijection(Numbers(packet), D)
  <2>1. \A r \in Numbers(packet) : \E i \in 1..n : r = Rem(packet[i].attr)
    BY <1>2
  <2>2. g \in [Numbers(packet) -> D]
    <3>1. \A r \in Numbers(packet) : g[r] \in D
      BY <1>5, <2>1
    <3>2. g = [r \in Numbers(packet) |-> g[r]]
      OBVIOUS
    <3> HIDE DEF g, D
    <3> QED BY <3>1, <3>2
  <2>3. ASSUME NEW r \in Numbers(packet), NEW q \in Numbers(packet), g[r] = g[q]
        PROVE  r = q
    <3>1. PICK i \in 1..n, j \in 1..n : r = Rem(packet[i].attr) /\ q = Rem(packet[j].attr)
      BY <2>1
    <3>2. Code(packet, i) = Code(packet, j)
      BY <1>5, <2>3, <3>1
    <3> QED BY <1>1, <3>1, <3>2, ShortBijects DEF Code
  <2>4. ASSUME NEW d \in D PROVE \E r \in Numbers(packet) : g[r] = d
    <3>1. PICK i \in 1..n : d = Code(packet, i)
      OBVIOUS
    <3> HIDE DEF g
    <3> QED BY <1>5, <3>1
  <2> HIDE DEF g, D
  <2> QED BY <2>2, <2>3, <2>4 DEF Bijection, Injection, Surjection, IsInjective
<1>7. IsFiniteSet(D) /\ Cardinality(D) = Cardinality(Numbers(packet))
  <2> HIDE DEF g, D
  <2> QED BY <1>4, <1>6, FS_Bijection DEF ExistsBijection
<1> QED BY <1>3, <1>7

(***************************************************************************)
(* What is printed of a packet tells it.                                   *)
(***************************************************************************)
LEMMA ListTells ==
    ASSUME NEW packet \in Seq(Avps)
    PROVE  Tells(<<PrintAvps(MapToAvpList(BuildAttrs(packet)))>>, packet)
<1> DEFINE attrs == BuildAttrs(packet)
           D == DOMAIN attrs
           L == MapToAvpList(attrs)
           P == PrintAvps(L)
           n == Len(packet)
<1>1. /\ n \in Nat
      /\ \A i \in 1..n : packet[i].attr \in Nat
  <2>1. \A i \in 1..n : packet[i] \in Avps
    OBVIOUS
  <2> QED BY <2>1, LenProperties DEF Avps
<1>2. Built(attrs, packet, n)
  BY AttrsBuilt
<1>3. /\ D \subseteq Int /\ IsFiniteSet(D)
      /\ Cardinality(D) = Cardinality(Numbers(packet))
      /\ Cardinality(D) \in Nat
  BY <1>2, CodesAreNumbers, FS_CardinalityType DEF Built
<1> HIDE DEF attrs
<1>4. /\ Len(L) = Cardinality(D)
      /\ \A k \in 1..Cardinality(D) :
            L[k] = [type |-> Int8(Nth(D, k)), value |-> attrs[Nth(D, k)]]
  BY <1>3 DEF MapToAvpList
<1> HIDE DEF L
<1>5. /\ Len(P) = Cardinality(D)
      /\ \A k \in 1..Cardinality(D) :
            /\ P[k] = [type |-> Rem(L[k].type), value |-> L[k].value]
            /\ P[k] \in ToSet(P)
  BY <1>3, <1>4 DEF PrintAvps, ToSet, Rem
<1> HIDE DEF P
<1>6. ASSUME NEW i \in 1..n, Rem(packet[i].attr) < 128,
             \A j \in i+1..n : Rem(packet[j].attr) # Rem(packet[i].attr)
      PROVE  \E line \in ToSet(P) :
                /\ line.type = Rem(packet[i].attr)
                /\ line.value = AttrToString(packet[i].bytes, TypeOf(packet[i]))
  <2> DEFINE c == Rem(packet[i].attr)
  <2>1. Code(packet, i) = c /\ c \in 0..127
    <3>1. packet[i].attr \in Nat
      BY <1>1
    <3>2. Rem(packet[i].attr) \in Nat
      BY ONLY <3>1, RemBounded
    <3> HIDE DEF c
    <3>3. c \in Nat /\ c < 128
      BY <1>6, <3>2 DEF c
    <3>4. Short(packet[i].attr) = c
      <4>1. PICK x \in Nat : x = packet[i].attr /\ Rem(x) < 128
        BY <1>6, <3>1
      <4> QED BY ONLY <4>1, ShortBijects DEF c
    <3>5. c \in 0..127
      BY ONLY <3>3
    <3> QED BY ONLY <3>4, <3>5 DEF c, Code
  <2>2. LastWith(packet, i, n)
    <3> SUFFICES ASSUME NEW j \in i+1..n PROVE Code(packet, j) # Code(packet, i)
      BY DEF LastWith
    <3>1. j \in 1..n
      BY <1>1
    <3> QED BY <1>1, <1>6, <3>1, ShortBijects DEF Code
  <2>3. c \in D /\ attrs[c] = AttrToString(packet[i].bytes, TypeOf(packet[i]))
    BY <1>2, <2>1, <2>2 DEF Built
  <2> HIDE DEF c
  <2>4. PICK k \in 1..Cardinality(D) : Nth(D, k) = c
    BY <1>3, <2>3, NthIsThere
  <2>5. P[k].type = c /\ P[k].value = attrs[c] /\ P[k] \in ToSet(P)
    <3>1. L[k].type = Int8(c) /\ L[k].value = attrs[c]
      BY <1>4, <2>4
    <3>2. P[k].type = Rem(L[k].type) /\ P[k].value = L[k].value
      BY <1>5
    <3>3. Rem(Int8(c)) = c
      BY <2>1, SmallStays
    <3>4. P[k] \in ToSet(P)
      BY <1>5
    <3> QED BY ONLY <3>1, <3>2, <3>3, <3>4
  <2> QED BY <2>3, <2>5 DEF c
<1>7. Len(<<P>>) = 1 /\ <<P>>[1] = P
  OBVIOUS
<1>8. Tells(<<P>>, packet)
  <2> SUFFICES ASSUME NEW i \in 1..n, packet[i].attr % 65536 < 128,
                      {j \in i+1..n : packet[j].attr % 65536 = packet[i].attr % 65536} = {}
               PROVE  \E line \in ToSet(P) :
                         /\ line.type = packet[i].attr % 65536
                         /\ line.value = AttrToString(packet[i].bytes, TypeOf(packet[i]))
    BY <1>3, <1>5, <1>7 DEF Tells
  <2>1. \A x : Rem(x) = x % 65536
    BY DEF Rem
  <2>2. \A j \in i+1..n : Rem(packet[j].attr) # Rem(packet[i].attr)
    BY <2>1
  <2>3. Rem(packet[i].attr) < 128 /\ Rem(packet[i].attr) = packet[i].attr % 65536
    BY <2>1
  <2> QED BY <1>6, <2>2, <2>3
<1> QED BY <1>8 DEF P, L, attrs

-----------------------------------------------------------------------------
\* What is in the log of a pair.
Text(req, rsp) == PrintTo(Read(Write(MakeRequest(AppId, req, rsp))))

LEMMA TextTells ==
    ASSUME NEW req \in Seq(Avps), NEW rsp \in Seq(Avps)
    PROVE  /\ Text(req, rsp).source = AppId
           /\ Tells(Text(req, rsp).request, req)
           /\ Tells(Text(req, rsp).response, rsp)
<1> DEFINE reqs == MapToAvpList(BuildAttrs(req))
           rsps == MapToAvpList(BuildAttrs(rsp))
           r == [sourceId |-> AppId, avpRequestList |-> reqs,
                 avpResponseList |-> rsps,
                 isset |-> {"avpRequestList", "avpResponseList"}]
           w == Write(r)
<1>1. MakeRequest(AppId, req, rsp) = r
  BY DEF MakeRequest
<1> HIDE DEF reqs, rsps
<1>2. /\ DOMAIN w = {"sourceId", "avpRequestList", "avpResponseList"}
      /\ w["sourceId"] = AppId /\ w["avpRequestList"] = reqs
      /\ w["avpResponseList"] = rsps
  BY DEF Write
<1> HIDE DEF w
<1>3. /\ Read(w).sourceId = AppId
      /\ Read(w).avpRequestList = reqs
      /\ Read(w).avpResponseList = rsps
      /\ Read(w).isset = {"avpRequestList", "avpResponseList"}
  BY <1>2 DEF Read, NewRequest
<1>4. /\ Text(req, rsp).source = AppId
      /\ Text(req, rsp).request = <<PrintAvps(reqs)>>
      /\ Text(req, rsp).response = <<PrintAvps(rsps)>>
  <2>1. Text(req, rsp) = PrintTo(Read(w))
    BY <1>1 DEF Text, w
  <2> QED BY <1>3, <2>1 DEF PrintTo, PrintList
<1> QED BY <1>4, ListTells DEF reqs, rsps

-----------------------------------------------------------------------------
(* Every entry tells its pair *)

FieldsOf(p) == Write(MakeRequest(AppId, p.req, p.rsp))

\* A message carries the report that has its number, ...
Right(m) == m.n \in 1..Len(reported) /\ m.fields = FieldsOf(reported[m.n])

\* ... when it is whole; the one being written is the call in progress;
WaitRight == \A c \in 1..Len(conns) : \A i \in 1..Len(conns[c].stream) :
                conns[c].stream[i].whole => Right(conns[c].stream[i])

WriteRight == pairer = "writing" /\ linked =>
                 LastStream[Len(LastStream)].fields = FieldsOf(call[1])

\* and what was logged is the text of such a message.
FileRight == \A k \in 1..Len(file) :
                /\ file[k].n \in 1..Len(reported)
                /\ file[k].text = PrintTo(Read(FieldsOf(reported[file[k].n])))

ContentInv == WaitRight /\ WriteRight /\ FileRight

\* Reports are only added.
Extended == /\ Len(reported) \in Nat /\ Len(reported') \in Nat
            /\ Len(reported) <= Len(reported')
            /\ \A n \in 1..Len(reported) : reported'[n] = reported[n]

LEMMA FileStaysRight ==
    ASSUME FileRight, Extended, file' = file \/ file' = <<>>
    PROVE  FileRight'
<1>1. CASE file' = file
  <2> SUFFICES ASSUME NEW k \in 1..Len(file)
               PROVE  /\ file[k].n \in 1..Len(reported')
                      /\ file[k].text = PrintTo(Read(FieldsOf(reported'[file[k].n])))
    BY <1>1 DEF FileRight, FieldsOf
  <2>1. /\ file[k].n \in 1..Len(reported)
        /\ file[k].text = PrintTo(Read(FieldsOf(reported[file[k].n])))
    BY DEF FileRight
  <2>2. file[k].n \in 1..Len(reported') /\ reported'[file[k].n] = reported[file[k].n]
    BY <2>1 DEF Extended
  <2> QED BY <2>1, <2>2
<1>2. CASE file' = <<>>
  <2>1. Len(file') = 0
    BY <1>2
  <2> QED BY <2>1 DEF FileRight
<1> QED BY <1>1, <1>2

\* The whole messages are all from before, or carry what they should.
LEMMA WaitStaysRight ==
    ASSUME WaitRight, Extended,
           \A c \in 1..Len(conns') : \A i \in 1..Len(conns'[c].stream) :
              conns'[c].stream[i].whole =>
                 \/ \E d \in 1..Len(conns) : \E j \in 1..Len(conns[d].stream) :
                       conns'[c].stream[i] = conns[d].stream[j]
                 \/ /\ conns'[c].stream[i].n \in 1..Len(reported')
                    /\ conns'[c].stream[i].fields
                          = FieldsOf(reported'[conns'[c].stream[i].n])
    PROVE  WaitRight'
<1> SUFFICES ASSUME NEW c \in 1..Len(conns'), NEW i \in 1..Len(conns'[c].stream),
                    conns'[c].stream[i].whole, NEW m, m = conns'[c].stream[i]
             PROVE  m.n \in 1..Len(reported') /\ m.fields = FieldsOf(reported'[m.n])
  BY DEF WaitRight, Right, FieldsOf
<1>1. ASSUME NEW d \in 1..Len(conns), NEW j \in 1..Len(conns[d].stream),
             m = conns[d].stream[j]
      PROVE  m.n \in 1..Len(reported') /\ m.fields = FieldsOf(reported'[m.n])
  <2>1. m.n \in 1..Len(reported) /\ m.fields = FieldsOf(reported[m.n])
    BY <1>1 DEF WaitRight, Right
  <2>2. m.n \in 1..Len(reported') /\ reported'[m.n] = reported[m.n]
    BY <2>1 DEF Extended
  <2> QED BY <2>1, <2>2
<1> QED BY <1>1

\* Nothing was reported.
LEMMA NoneReported ==
    ASSUME Typed, UNCHANGED reported
    PROVE  Extended
BY LenProperties DEF Typed, Extended

LEMMA ReportPairKeepsContent ==
    ASSUME StateInv, ContentInv, NEW req \in Requests, NEW rsp \in Responses,
           ReportPair(req, rsp)
    PROVE  ContentInv'
<1> DEFINE p == [req |-> req, rsp |-> rsp]
           report == [n      |-> Len(reported) + 1,
                      fields |-> Write(MakeRequest(AppId, req, rsp)),
                      whole  |-> FALSE]
<1>1. /\ call' = <<p>> /\ p.req = req /\ p.rsp = rsp /\ p \in Pairs
      /\ UNCHANGED <<linked, file, reported>>
  BY DEF ReportPair, Pairs
<1>2. Extended
  BY <1>1, NoneReported DEF StateInv
<1>3. FileRight'
  BY <1>1, <1>2, FileStaysRight DEF ContentInv
<1>4. CASE ~linked
  <2>1. conns' = conns
    BY <1>4 DEF ReportPair
  <2>2. WaitRight'
    BY <1>1, <2>1 DEF ContentInv, WaitRight, Right
  <2> QED BY <1>1, <1>3, <1>4, <2>2 DEF ContentInv, WriteRight
<1>5. CASE linked
  <2> DEFINE t == Append(LastStream, report)
             C == Len(conns)
  <2>1. /\ conns # <<>> /\ LastStream \in Seq(Reports)
        /\ LastStream = conns[C].stream /\ C \in 1..C
    BY <1>5, LastConn DEF StateInv, Linked
  <2>2. report \in Reports
    <3>1. Write(MakeRequest(AppId, req, rsp)) \in Fields
      BY <1>1 DEF Fields
    <3>2. Len(reported) + 1 \in 1..MaxReports
      BY ReportingAssumption, LenProperties DEF ReportPair, StateInv, Typed
    <3> QED BY <3>1, <3>2 DEF Reports
  <2>3. OnStream(t)
    BY <1>5 DEF ReportPair
  <2>4. ~report.whole /\ report.fields = FieldsOf(p)
    BY <1>1 DEF FieldsOf
  <2> HIDE DEF report
  <2>5. /\ t \in Seq(Reports) /\ Len(LastStream) \in Nat
        /\ Len(t) = Len(LastStream) + 1 /\ t[Len(LastStream) + 1] = report
        /\ \A i \in 1..Len(LastStream) : t[i] = LastStream[i]
    BY <2>1, <2>2, Appended
  <2> HIDE DEF t
  <2>6. /\ Len(conns') = C
        /\ \A c \in 1..C : c # C => conns'[c] = conns[c]
        /\ conns'[C].stream = t /\ LastStream' = t
    BY <2>1, <2>3, <2>5, OnStreamType DEF StateInv
  <2>7. WaitRight'
    <3> SUFFICES ASSUME NEW c \in 1..C, NEW i \in 1..Len(conns'[c].stream),
                        conns'[c].stream[i].whole
                 PROVE  \E d \in 1..C : \E j \in 1..Len(conns[d].stream) :
                           conns'[c].stream[i] = conns[d].stream[j]
      BY <1>2, <2>6, WaitStaysRight DEF ContentInv
    <3>1. CASE c # C
      BY <2>6, <3>1
    <3>2. CASE c = C
      <4>1. i \in 1..Len(LastStream) /\ conns'[c].stream[i] = LastStream[i]
        BY <2>4, <2>5, <2>6, <3>2
      <4> QED BY <2>1, <4>1
    <3> QED BY <3>1, <3>2
  <2>8. LastStream'[Len(LastStream')].fields = FieldsOf(call'[1])
    BY <1>1, <2>4, <2>5, <2>6
  <2>9. WriteRight'
    BY <2>8 DEF WriteRight, FieldsOf
  <2> QED BY <1>3, <2>7, <2>9 DEF ContentInv
<1> QED BY <1>4, <1>5

LEMMA ReportReturnsKeepsContent ==
    ASSUME StateInv, ContentInv, ReportReturns
    PROVE  ContentInv'
<1> DEFINE C == Len(conns)
           L == Len(LastStream)
           R == Len(reported)
<1>1. PICK p \in Pairs : call = <<p>>
  BY DEF ReportReturns, StateInv, Typed
<1>2. /\ reported' = reported \o <<p>> /\ file' = file /\ pairer' = "idle"
      /\ pairer = "writing"
  BY <1>1 DEF ReportReturns
<1>3. /\ R \in Nat /\ Len(reported') = R + 1
      /\ \A n \in 1..R : reported'[n] = reported[n]
      /\ reported'[R + 1] = p
  <2>1. reported \in Seq(Pairs) /\ <<p>> \in Seq(Pairs) /\ Len(<<p>>) = 1
    BY DEF StateInv, Typed
  <2> QED BY <1>2, <2>1, ConcatProperties, LenProperties
<1>4. Extended
  BY <1>3 DEF Extended
<1>5. FileRight'
  BY <1>2, <1>4, FileStaysRight DEF ContentInv
<1>6. WriteRight'
  BY <1>2 DEF WriteRight
<1>7. CASE ~linked
  <2>1. conns' = conns
    BY <1>7, Completed
  <2>2. WaitRight'
    BY <1>4, <2>1, WaitStaysRight DEF ContentInv
  <2> QED BY <1>5, <1>6, <2>2 DEF ContentInv
<1>8. CASE linked
  <2>1. /\ conns # <<>> /\ Len(conns') = C
        /\ \A c \in 1..C : c # C => conns'[c] = conns[c]
        /\ LastStream \in Seq(Reports) /\ LastStream # <<>>
        /\ conns'[C].stream = [LastStream EXCEPT ![L].whole = TRUE]
    BY <1>8, Completed
  <2>2. C \in 1..C /\ LastStream = conns[C].stream
    BY <2>1, LastConn DEF StateInv
  <2>3. LastStream[L].n = R + 1 /\ LastStream[L].fields = FieldsOf(p)
    BY <1>1, <1>2, <1>8 DEF StateInv, Writing, ContentInv, WriteRight
  <2>4. ASSUME NEW i \in 1..L
        PROVE  /\ i # L => conns'[C].stream[i] = LastStream[i]
               /\ conns'[C].stream[i].n = LastStream[i].n
               /\ conns'[C].stream[i].fields = LastStream[i].fields
    <3>1. LastStream[i] \in Reports
      BY <2>1
    <3> QED BY <2>1, <3>1 DEF Reports
  <2>5. Len(conns'[C].stream) = L
    BY <2>1
  <2>6. WaitRight'
    <3> SUFFICES ASSUME NEW c \in 1..C, NEW i \in 1..Len(conns'[c].stream)
                 PROVE  \/ \E d \in 1..C : \E j \in 1..Len(conns[d].stream) :
                              conns'[c].stream[i] = conns[d].stream[j]
                        \/ /\ conns'[c].stream[i].n \in 1..Len(reported')
                           /\ conns'[c].stream[i].fields
                                 = FieldsOf(reported'[conns'[c].stream[i].n])
      BY <1>4, <2>1, WaitStaysRight DEF ContentInv
    <3>1. CASE c # C
      BY <2>1, <3>1
    <3>2. CASE c = C /\ i # L
      BY <2>2, <2>4, <2>5, <3>2
    <3>3. CASE c = C /\ i = L
      <4>1. R + 1 \in 1..Len(reported') /\ FieldsOf(reported'[R + 1]) = FieldsOf(p)
        BY <1>3
      <4>2. i \in 1..L
        BY <2>5, <3>3
      <4> QED BY <2>3, <2>4, <3>3, <4>1, <4>2
    <3> QED BY <3>1, <3>2, <3>3
  <2> QED BY <1>5, <1>6, <2>6 DEF ContentInv
<1> QED BY <1>7, <1>8

LEMMA ProcessKeepsContent ==
    ASSUME StateInv, ContentInv, ProcessLogRequest
    PROVE  ContentInv'
<1>1. /\ conns # <<>> /\ Head(conns).stream # <<>>
      /\ Head(Head(conns).stream).whole
      /\ conns' = [conns EXCEPT ![1].stream = Tail(Head(conns).stream)]
      /\ UNCHANGED <<pairer, call, linked, reported>>
  BY DEF ProcessLogRequest
<1>2. /\ Len(conns') = Len(conns) /\ 1 \in 1..Len(conns)
      /\ conns'[1].stream = Tail(conns[1].stream)
      /\ conns[1].stream \in Seq(Reports) /\ conns[1].stream # <<>>
      /\ \A c \in 1..Len(conns) : c # 1 => conns'[c] = conns[c]
  BY <1>1, Taken DEF StateInv
<1> DEFINE s == conns[1].stream
           e == [n |-> s[1].n, text |-> PrintTo(Read(s[1].fields))]
           F == Len(file)
<1>3. /\ Head(conns) = conns[1] /\ Head(s) = s[1] /\ s[1].whole
      /\ s[1] \in Reports /\ 1 \in 1..Len(s)
      /\ Len(Tail(s)) = Len(s) - 1 /\ Len(s) \in Nat
      /\ \A i \in 1..Len(Tail(s)) : Tail(s)[i] = s[i + 1]
  BY <1>1, <1>2, HeadAndTail DEF StateInv, Typed
<1>4. s[1].n \in 1..Len(reported) /\ s[1].fields = FieldsOf(reported[s[1].n])
  BY <1>2, <1>3 DEF ContentInv, WaitRight, Right
<1>5. /\ F \in Nat /\ Len(file') = F + 1
      /\ \A k \in 1..F : file'[k] = file[k]
      /\ file'[F + 1].n = s[1].n
      /\ file'[F + 1].text = PrintTo(Read(FieldsOf(reported[s[1].n])))
  <2>1. /\ file' = Append(file, e) /\ e.n = s[1].n
        /\ e.text = PrintTo(Read(FieldsOf(reported[s[1].n])))
    BY <1>3, <1>4 DEF ProcessLogRequest
  <2>2. e \in Entries
    <3>1. s[1].n \in 1..MaxReports /\ PrintTo(Read(s[1].fields)) \in Texts
      BY <1>3 DEF Reports, Texts
    <3> QED BY <3>1 DEF Entries
  <2> HIDE DEF e
  <2> QED BY <2>1, <2>2, Appended DEF StateInv, Typed
<1> HIDE DEF e
<1>6. FileRight'
  <2> SUFFICES ASSUME NEW k \in 1..Len(file')
               PROVE  /\ file'[k].n \in 1..Len(reported)
                      /\ file'[k].text
                            = PrintTo(Read(FieldsOf(reported[file'[k].n])))
    BY <1>1 DEF FileRight, FieldsOf
  <2>1. CASE k = F + 1
    BY <1>4, <1>5, <2>1
  <2>2. CASE k \in 1..F
    BY <1>5, <2>2 DEF ContentInv, FileRight
  <2> QED BY <1>5, <2>1, <2>2
<1>7. WaitRight'
  <2> SUFFICES ASSUME NEW c \in 1..Len(conns), NEW i \in 1..Len(conns'[c].stream)
               PROVE  \E d \in 1..Len(conns) : \E j \in 1..Len(conns[d].stream) :
                         conns'[c].stream[i] = conns[d].stream[j]
    BY <1>1, <1>2, NoneReported, WaitStaysRight DEF ContentInv, StateInv
  <2>1. CASE c # 1
    BY <1>2, <2>1
  <2>2. CASE c = 1
    <3>1. i \in 1..Len(Tail(s)) /\ conns'[c].stream[i] = Tail(s)[i]
      BY <1>2, <2>2
    <3>2. i + 1 \in 1..Len(s) /\ Tail(s)[i] = s[i + 1]
      BY <1>3, <3>1
    <3> QED BY <1>2, <3>1, <3>2
  <2> QED BY <2>1, <2>2
<1>8. WriteRight'
  <2> SUFFICES ASSUME pairer = "writing", linked
               PROVE  LastStream'[Len(LastStream')].fields = FieldsOf(call[1])
    BY <1>1 DEF WriteRight, FieldsOf
  <2> QED BY ProcessKeepsLast DEF ContentInv, WriteRight
<1> QED BY <1>6, <1>7, <1>8 DEF ContentInv

LEMMA NextContent == StateInv /\ ContentInv /\ [Next]_vars => ContentInv'
<1> SUFFICES ASSUME StateInv, ContentInv, [Next]_vars PROVE ContentInv'
  OBVIOUS
<1>0. ASSUME UNCHANGED reported, file' = file \/ file' = <<>>,
             \A c \in 1..Len(conns') : \A i \in 1..Len(conns'[c].stream) :
                \E d \in 1..Len(conns) : \E j \in 1..Len(conns[d].stream) :
                   conns'[c].stream[i] = conns[d].stream[j]
      PROVE  FileRight' /\ WaitRight'
  <2>1. Extended
    BY <1>0, NoneReported DEF StateInv
  <2> QED BY <1>0, <2>1, FileStaysRight, WaitStaysRight DEF ContentInv
<1>1. CASE Connect
  <2> DEFINE new == [open |-> TRUE, stream |-> <<>>]
  <2>1. new \in Conns /\ Len(new.stream) = 0
    BY EmptySeq DEF Conns
  <2>2. /\ conns' = Append(conns, new) /\ pairer' = "idle"
        /\ UNCHANGED <<file, reported>>
    BY <1>1 DEF Connect
  <2> HIDE DEF new
  <2>3. /\ Len(conns') = Len(conns) + 1 /\ Len(conns) \in Nat
        /\ conns'[Len(conns) + 1] = new
        /\ \A c \in 1..Len(conns) : conns'[c] = conns[c]
    BY <2>1, <2>2, Appended DEF StateInv, Typed
  <2>4. ASSUME NEW c \in 1..Len(conns'), NEW i \in 1..Len(conns'[c].stream)
        PROVE  \E d \in 1..Len(conns) : \E j \in 1..Len(conns[d].stream) :
                  conns'[c].stream[i] = conns[d].stream[j]
    <3>1. c \in 1..Len(conns)
      BY <2>1, <2>3
    <3> QED BY <2>3, <3>1
  <2> QED BY <1>0, <2>2, <2>4 DEF ContentInv, WriteRight
<1>2. CASE ConnectFails
  <2>1. UNCHANGED <<pairer, call, linked, conns, file, reported>>
    BY <1>2 DEF ConnectFails
  <2> QED BY <2>1 DEF ContentInv, WaitRight, WriteRight, FileRight, Right,
                      LastStream, Last, FieldsOf
<1>3. ASSUME NEW req \in Requests, NEW rsp \in Responses, ReportPair(req, rsp)
      PROVE  ContentInv'
  BY <1>3, ReportPairKeepsContent
<1>4. CASE ReportReturns
  BY <1>4, ReportReturnsKeepsContent
<1>5. CASE ReportFails
  <2>1. UNCHANGED <<conns, file, reported>> /\ pairer' = "down"
    BY <1>5 DEF ReportFails
  <2> QED BY <2>1 DEF ContentInv, WaitRight, WriteRight, FileRight, Right, FieldsOf
<1>6. CASE PairerEnds
  <2>1. UNCHANGED <<file, reported>> /\ pairer' = "down"
    BY <1>6 DEF PairerEnds
  <2>2. /\ Len(conns') = Len(conns)
        /\ \A c \in 1..Len(conns) : conns'[c].stream = conns[c].stream
    <3>1. CASE linked
      BY <1>6, <3>1, Closed DEF PairerEnds, Hangup, StateInv, Linked
    <3>2. CASE ~linked
      BY <1>6, <3>2 DEF PairerEnds, Hangup
    <3> QED BY <3>1, <3>2
  <2> QED BY <1>0, <2>1, <2>2 DEF ContentInv, WriteRight
<1>7. CASE ServerStarts
  <2>1. UNCHANGED <<pairer, call, linked, conns, reported>> /\ file' = <<>>
    BY <1>7 DEF ServerStarts
  <2>2. FileRight' /\ WaitRight'
    BY <1>0, <2>1
  <2> QED BY <2>1, <2>2 DEF ContentInv, WriteRight, LastStream, Last, FieldsOf
<1>8. CASE ServerCrashes
  <2>1. UNCHANGED <<file, reported>> /\ Len(conns') = 0 /\ linked' = FALSE
    BY <1>8 DEF ServerCrashes
  <2> QED BY <1>0, <2>1 DEF ContentInv, WriteRight
<1>9. CASE ProcessLogRequest
  BY <1>9, ProcessKeepsContent
<1>10. CASE EndConnection
  <2>1. /\ conns # <<>> /\ conns' = Tail(conns) /\ ~Head(conns).open
        /\ UNCHANGED <<pairer, call, linked, file, reported>>
    BY <1>10 DEF EndConnection
  <2>2. /\ 1 \in 1..Len(conns) /\ Len(conns) \in Nat /\ Head(conns) = conns[1]
        /\ Len(conns') = Len(conns) - 1
        /\ \A c \in 1..Len(conns') : conns'[c] = conns[c + 1]
    BY <2>1, HeadAndTail DEF StateInv, Typed
  <2>3. FileRight' /\ WaitRight'
    <3>1. \A c \in 1..Len(conns') : c + 1 \in 1..Len(conns) /\ conns'[c] = conns[c + 1]
      BY <2>2
    <3> QED BY <1>0, <2>1, <3>1
  <2>4. linked => LastStream' = LastStream
    <3> SUFFICES ASSUME linked PROVE LastStream' = LastStream
      OBVIOUS
    <3>1. Len(conns) # 1
      BY <2>1, <2>2 DEF StateInv, Linked
    <3>2. conns'[Len(conns')] = conns[Len(conns)]
      BY <2>2, <3>1
    <3> QED BY <3>2 DEF LastStream, Last
  <2>5. WriteRight'
    BY <2>1, <2>4 DEF ContentInv, WriteRight, FieldsOf
  <2> QED BY <2>3, <2>5 DEF ContentInv
<1>11. CASE UNCHANGED vars
  BY <1>11 DEF vars, ContentInv, WaitRight, WriteRight, FileRight, Right,
               LastStream, Last, FieldsOf
<1> QED BY <1>1, <1>2, <1>3, <1>4, <1>5, <1>6, <1>7, <1>8, <1>9, <1>10, <1>11
        DEF Next, Pairer, Serve

LEMMA InitContent == Init => ContentInv
<1> SUFFICES ASSUME Init PROVE ContentInv
  OBVIOUS
<1>1. Len(conns) = 0 /\ Len(file) = 0 /\ pairer = "down"
  BY DEF Init
<1> QED BY <1>1 DEF ContentInv, WaitRight, WriteRight, FileRight

(***************************************************************************)
(* An entry of the log tells the pair that was reported under its number,  *)
(* whatever the attributes are, and whichever side goes down between.      *)
(***************************************************************************)
THEOREM LogTellsPairs == Spec => []EntriesTellPairs
<1>1. StateInv /\ ContentInv => EntriesTellPairs
  <2> SUFFICES ASSUME StateInv, ContentInv, NEW e \in ToSet(file)
               PROVE  /\ e.text.source = AppId
                      /\ Tells(e.text.request, reported[e.n].req)
                      /\ Tells(e.text.response, reported[e.n].rsp)
    BY DEF EntriesTellPairs
  <2>1. PICK p : p = reported[e.n]
    OBVIOUS
  <2>2. e.n \in 1..Len(reported) /\ e.text = PrintTo(Read(FieldsOf(p)))
    BY <2>1 DEF ContentInv, FileRight, ToSet
  <2>3. p \in Pairs
    BY <2>1, <2>2 DEF StateInv, Typed
  <2>4. p.req \in Seq(Avps) /\ p.rsp \in Seq(Avps)
    BY <2>3, ReportingAssumption DEF Pairs
  <2>5. e.text = Text(p.req, p.rsp)
    BY <2>2 DEF Text, FieldsOf
  <2> QED BY <2>1, <2>4, <2>5, TextTells
<1> QED BY InitState, NextState, InitContent, NextContent, <1>1, PTL DEF Spec
=============================================================================
