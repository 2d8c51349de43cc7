------------------------- MODULE PairMonitorProofs -------------------------
(***************************************************************************)
(* What follows from the promise of PairMonitor: a message has one fate.   *)
(***************************************************************************)
EXTENDS PairMonitor, TLAPS

\* Nothing is held, matched or dropped at first.
LEMMA InitInv == Init => Inv
BY DEF Init, Inv, TypeOK, WaitsAtItsKey, PairsShareKey, OneFate, MsgOrNull,
       Waiting, Asked, Answered

(***************************************************************************)
(* A message that starts to wait was nowhere before.                       *)
(***************************************************************************)
LEMMA HoldInv == ASSUME Inv, NEW m \in Messages, Hold(m) PROVE Inv'
<1> USE KeyAssumption
<1>1. TypeOK' /\ WaitsAtItsKey' /\ PairsShareKey'
  BY DEF Hold, Inv, TypeOK, WaitsAtItsKey, PairsShareKey, MsgOrNull
<1>2. \A n \in Messages : Waiting(n)' => Waiting(n) \/ n = m
  BY DEF Hold, Inv, TypeOK, Waiting
<1>3. OneFate'
  BY <1>2 DEF Hold, Fresh, Inv, OneFate, Asked, Answered
<1> QED BY <1>1, <1>3 DEF Inv

(***************************************************************************)
(* The message that waited and the one that came leave as a pair.          *)
(***************************************************************************)
LEMMA MatchInv == ASSUME Inv, NEW m \in Messages, Match(m) PROVE Inv'
<1> USE KeyAssumption
<1> DEFINE q == waiting[KeyOf[m]]
<1>1. /\ KeyOf[m] \in Keys /\ q \in Messages /\ KeyOf[q] = KeyOf[m]
      /\ Waiting(q) /\ Fresh(m) /\ q # m
      /\ matched' = matched \cup {<<q, m>>}
      /\ waiting' = [waiting EXCEPT ![KeyOf[m]] = NoMsg]
      /\ dropped' = dropped
  BY DEF Match, Inv, TypeOK, WaitsAtItsKey, MsgOrNull, Waiting, Fresh
<1>2. ~Asked(q) /\ ~Answered(q) /\ q \notin dropped
  BY <1>1 DEF Inv, OneFate
<1> HIDE DEF q
<1>3. TypeOK'
  BY <1>1 DEF Inv, TypeOK, MsgOrNull
<1>4. WaitsAtItsKey' /\ PairsShareKey'
  BY <1>1 DEF Inv, WaitsAtItsKey, PairsShareKey, TypeOK
<1>5. ASSUME NEW n \in Messages
      PROVE  /\ Waiting(n)' => Waiting(n) /\ n # q
             /\ Asked(n)' => Asked(n) \/ n = q
             /\ Answered(n)' => Answered(n) \/ n = m
  <2>1. Waiting(n)' => Waiting(n) /\ n # q
    <3>1. SUFFICES ASSUME NEW k \in Keys, waiting'[k] = n
                   PROVE  Waiting(n) /\ n # q
      BY DEF Waiting
    <3>2. k # KeyOf[m] /\ waiting[k] = n
      BY <1>1, <3>1 DEF Inv, TypeOK
    <3>3. KeyOf[n] = k
      BY <3>2 DEF Inv, WaitsAtItsKey
    <3> QED BY <1>1, <3>2, <3>3 DEF Waiting
  <2>2. Asked(n)' => Asked(n) \/ n = q
    BY <1>1 DEF Asked
  <2>3. Answered(n)' => Answered(n) \/ n = m
    BY <1>1 DEF Answered
  <2> QED BY <2>1, <2>2, <2>3
<1>6. ASSUME NEW n \in Messages
      PROVE  /\ ~(Waiting(n)' /\ (Asked(n)' \/ Answered(n)' \/ n \in dropped'))
             /\ ~(Asked(n)' /\ (Answered(n)' \/ n \in dropped'))
             /\ ~(Answered(n)' /\ n \in dropped')
  BY <1>1, <1>2, <1>5 DEF Inv, OneFate, Fresh
<1>7. ASSUME NEW p \in matched', NEW r \in matched',
             p[1] = r[1] \/ p[2] = r[2]
      PROVE  p = r
  <2>1. \A s \in matched : s[1] # q /\ s[2] # m
    <3>1. SUFFICES ASSUME NEW s \in matched PROVE s[1] # q /\ s[2] # m
      OBVIOUS
    <3>2. s[1] \in Messages /\ s[2] \in Messages /\ s = <<s[1], s[2]>>
      BY DEF Inv, TypeOK
    <3>3. Asked(s[1]) /\ Answered(s[2])
      BY <3>2 DEF Asked, Answered
    <3> QED BY <1>1, <1>2, <3>3 DEF Fresh
  <2>2. <<q, m>>[1] = q /\ <<q, m>>[2] = m
    OBVIOUS
  <2>3. CASE p \in matched /\ r \in matched
    BY <1>7, <2>3 DEF Inv, OneFate
  <2>4. CASE p = <<q, m>> \/ r = <<q, m>>
    BY <1>1, <1>7, <2>1, <2>2, <2>4
  <2> QED BY <1>1, <2>3, <2>4
<1>8. OneFate'
  BY <1>6, <1>7 DEF OneFate
<1> QED BY <1>3, <1>4, <1>8 DEF Inv

\* Dropping a held message keeps every conjunct: it moves to the dropped ones.
LEMMA DropInv == ASSUME Inv, NEW k \in Keys, Drop(k) PROVE Inv'
<1> USE KeyAssumption
<1> DEFINE q == waiting[k]
<1>1. /\ q \in Messages /\ KeyOf[q] = k /\ Waiting(q)
      /\ dropped' = dropped \cup {q}
      /\ waiting' = [waiting EXCEPT ![k] = NoMsg]
      /\ matched' = matched
  BY DEF Drop, Inv, TypeOK, WaitsAtItsKey, MsgOrNull, Waiting
<1>2. ~Asked(q) /\ ~Answered(q)
  BY <1>1 DEF Inv, OneFate
<1> HIDE DEF q
<1>3. TypeOK' /\ WaitsAtItsKey' /\ PairsShareKey'
  BY <1>1 DEF Inv, TypeOK, MsgOrNull, WaitsAtItsKey, PairsShareKey
<1>4. \A n \in Messages : Waiting(n)' => Waiting(n) /\ n # q
  <2>1. SUFFICES ASSUME NEW n \in Messages,
                        NEW j \in Keys, waiting'[j] = n
                 PROVE  Waiting(n) /\ n # q
    BY DEF Waiting
  <2>2. j # k /\ waiting[j] = n
    BY <1>1, <2>1 DEF Inv, TypeOK
  <2>3. KeyOf[n] = j
    BY <2>2 DEF Inv, WaitsAtItsKey
  <2> QED BY <1>1, <2>2, <2>3 DEF Waiting
<1>5. OneFate'
  BY <1>1, <1>2, <1>4 DEF Inv, OneFate, Asked, Answered
<1> QED BY <1>3, <1>5 DEF Inv

\* Every step of the monitor keeps the invariant.
LEMMA NextInv == Inv /\ [Next]_monitorVars => Inv'
<1> SUFFICES ASSUME Inv, [Next]_monitorVars PROVE Inv'
  OBVIOUS
<1>1. CASE UNCHANGED monitorVars
  BY <1>1 DEF monitorVars, Inv, TypeOK, WaitsAtItsKey, PairsShareKey, OneFate,
              Waiting, Asked, Answered
<1> QED BY <1>1, HoldInv, MatchInv, DropInv DEF Next

(***************************************************************************)
(* Every message has one fate, and the messages of a pair share their id.  *)
(***************************************************************************)
THEOREM OneFateEach == Spec => []Inv
BY InitInv, NextInv, PTL DEF Spec
=============================================================================
