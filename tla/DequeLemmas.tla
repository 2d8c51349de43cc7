---------------------------- MODULE DequeLemmas ----------------------------
(***************************************************************************)
(* Facts about sequences as BlockingDequeue and the sockets use them.      *)
(***************************************************************************)
EXTENDS Integers, SequencesExt, SequenceTheorems, TLAPS

(***************************************************************************)
(* Erasing one element of a sequence: the later elements move down by one. *)
(***************************************************************************)
LEMMA RemoveAtProperties ==
    ASSUME NEW S, NEW s \in Seq(S), NEW i \in 1..Len(s)
    PROVE  /\ RemoveAt(s, i) \in Seq(S)
           /\ Len(RemoveAt(s, i)) = Len(s) - 1
           /\ \A j \in 1..Len(s) - 1 :
                RemoveAt(s, i)[j] = IF j < i THEN s[j] ELSE s[j + 1]
<1> DEFINE l == SubSeq(s, 1, i - 1)
           r == SubSeq(s, i + 1, Len(s))
<1>1. /\ l \in Seq(S) /\ Len(l) = i - 1
      /\ \A j \in 1..i - 1 : l[j] = s[j]
  BY SubSeqProperties
<1>2. /\ r \in Seq(S) /\ Len(r) = Len(s) - i
      /\ \A j \in 1..Len(s) - i : r[j] = s[j + i]
  BY SubSeqProperties
<1> HIDE DEF l, r
<1>3. /\ l \o r \in Seq(S)
      /\ Len(l \o r) = Len(l) + Len(r)
      /\ \A j \in 1..Len(l) + Len(r) :
           (l \o r)[j] = IF j <= Len(l) THEN l[j] ELSE r[j - Len(l)]
  <2>1. l \in Seq(S) /\ r \in Seq(S)
    BY <1>1, <1>2
  <2> QED BY ONLY <2>1, ConcatProperties
<1>4. RemoveAt(s, i) = l \o r
  BY DEF RemoveAt, l, r
<1>5. Len(l) + Len(r) = Len(s) - 1
  BY <1>1, <1>2
<1>6. ASSUME NEW j \in 1..Len(s) - 1
      PROVE  (l \o r)[j] = IF j < i THEN s[j] ELSE s[j + 1]
  <2>1. CASE j < i
    BY <1>1, <1>3, <1>5, <2>1
  <2>2. CASE ~(j < i)
    <3>1. /\ j - (i - 1) \in 1..Len(s) - i
          /\ j - (i - 1) + i = j + 1
          /\ ~(j <= Len(l))
          /\ j - Len(l) = j - (i - 1)
      BY <1>1, <2>2
    <3>2. (l \o r)[j] = r[j - (i - 1)]
      BY <1>3, <1>5, <3>1
    <3>3. r[j - (i - 1)] = s[j + 1]
      BY <1>2, <3>1
    <3> QED BY <2>2, <3>2, <3>3
  <2> QED BY <2>1, <2>2
<1> QED BY <1>3, <1>4, <1>5, <1>6

(***************************************************************************)
(* Every other element is still there.                                     *)
(***************************************************************************)
LEMMA RemoveAtKeeps ==
    ASSUME NEW S, NEW s \in Seq(S), NEW i \in 1..Len(s),
           NEW j \in 1..Len(s), j # i
    PROVE  \E n \in 1..Len(RemoveAt(s, i)) : RemoveAt(s, i)[n] = s[j]
<1> DEFINE t == RemoveAt(s, i)
<1>1. /\ Len(t) = Len(s) - 1
      /\ \A n \in 1..Len(s) - 1 : t[n] = IF n < i THEN s[n] ELSE s[n + 1]
  BY RemoveAtProperties
<1> HIDE DEF t
<1>2. CASE j < i
  <2>1. j \in 1..Len(s) - 1
    BY <1>2
  <2>2. t[j] = s[j]
    BY <1>1, <1>2, <2>1
  <2> QED BY <1>1, <2>1, <2>2 DEF t
<1>3. CASE j > i
  <2>1. j - 1 \in 1..Len(s) - 1 /\ ~(j - 1 < i) /\ (j - 1) + 1 = j
    BY <1>3
  <2>2. t[j - 1] = s[j]
    BY <1>1, <2>1
  <2> QED BY <1>1, <2>1, <2>2 DEF t
<1> QED BY <1>2, <1>3

(***************************************************************************)
(* No element is new.                                                      *)
(***************************************************************************)
LEMMA RemoveAtAddsNone ==
    ASSUME NEW S, NEW s \in Seq(S), NEW i \in 1..Len(s)
    PROVE  \A n \in 1..Len(RemoveAt(s, i)) :
              \E j \in 1..Len(s) : RemoveAt(s, i)[n] = s[j]
<1> DEFINE t == RemoveAt(s, i)
<1>1. /\ Len(t) = Len(s) - 1
      /\ \A n \in 1..Len(s) - 1 : t[n] = IF n < i THEN s[n] ELSE s[n + 1]
  BY RemoveAtProperties
<1> HIDE DEF t
<1>2. \A n \in 1..Len(t) : \E j \in 1..Len(s) : t[n] = s[j]
  BY <1>1
<1> QED BY <1>2 DEF t

(***************************************************************************)
(* Appending keeps what was there.                                         *)
(***************************************************************************)
LEMMA Appended ==
    ASSUME NEW S, NEW s \in Seq(S), NEW e \in S
    PROVE  /\ Append(s, e) \in Seq(S)
           /\ Append(s, e) # <<>>
           /\ Len(s) \in Nat
           /\ Len(Append(s, e)) = Len(s) + 1
           /\ \A i \in 1..Len(s) : Append(s, e)[i] = s[i]
           /\ Append(s, e)[Len(s) + 1] = e
<1>1. /\ Append(s, e) \in Seq(S)
      /\ Len(Append(s, e)) = Len(s) + 1
      /\ \A i \in 1..Len(s) : Append(s, e)[i] = s[i]
      /\ Append(s, e)[Len(s) + 1] = e
      /\ Len(s) \in Nat
  BY AppendProperties, LenProperties
<1>2. Append(s, e) # <<>>
  BY <1>1, EmptySeq
<1> QED BY <1>1, <1>2

(***************************************************************************)
(* The first element, and the others.                                      *)
(***************************************************************************)
LEMMA HeadAndTail ==
    ASSUME NEW S, NEW s \in Seq(S), s # <<>>
    PROVE  /\ 1 \in 1..Len(s)
           /\ Len(s) \in Nat
           /\ Head(s) = s[1]
           /\ Head(s) \in S
           /\ Tail(s) \in Seq(S)
           /\ Len(Tail(s)) = Len(s) - 1
           /\ \A i \in 1..Len(Tail(s)) : Tail(s)[i] = s[i + 1]
<1>1. Len(s) \in Nat \ {0}
  BY EmptySeq, LenProperties
<1> QED BY <1>1, HeadTailProperties
=============================================================================
