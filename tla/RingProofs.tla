---------------------------- MODULE RingProofs ------------------------------
(***************************************************************************)
(* What putting a byte into the ring and taking one out do to its          *)
(* contents, for every size.                                               *)
(***************************************************************************)
EXTENDS Ring, TLAPS

LEMMA SuccIndex == \A i \in Index : Succ(i) \in Index
BY RingAssumption DEF Index, Succ

LEMMA SuccInjective == \A i, j \in Index : Succ(i) = Succ(j) => i = j
BY RingAssumption DEF Index, Succ

\* The low bit of an index, which is one side of the handshake, changes with it.
LEMMA SuccParity ==
  ASSUME Size % 2 = 0
  PROVE  \A i \in Index : Succ(i) % 2 = 1 - (i % 2)
BY RingAssumption DEF Index, Succ

LEMMA Wrap == \A x \in 0 .. 2 * Size - 1 : x % Size = IF x < Size THEN x ELSE x - Size
BY RingAssumption

LEMMA CountRange == \A h, t \in Index : Count(h, t) \in 0 .. Size - 1
BY RingAssumption DEF Index, Count

LEMMA CountEmpty == \A h, t \in Index : Count(h, t) = 0 <=> h = t
BY RingAssumption DEF Index, Count

LEMMA CountRoom == \A h, t \in Index : Succ(h) # t <=> Count(h, t) <= Size - 2
BY RingAssumption DEF Index, Count, Succ

LEMMA CountPut ==
  \A h, t \in Index : Succ(h) # t => Count(Succ(h), t) = Count(h, t) + 1
BY RingAssumption DEF Index, Count, Succ

LEMMA CountTake == \A h, t \in Index : h # t => Count(h, Succ(t)) = Count(h, t) - 1
BY RingAssumption DEF Index, Count, Succ

\* The place of the k-th byte.
LEMMA PlaceIndex ==
  \A h, t \in Index : \A k \in 1 .. Count(h, t) :
     /\ (t + k - 1) % Size \in Index
     /\ (t + k - 1) % Size = IF t + k - 1 < Size THEN t + k - 1 ELSE t + k - 1 - Size
<1> TAKE h, t \in Index
<1> TAKE k \in 1 .. Count(h, t)
<1>1. k \in 1 .. Size - 1
  BY CountRange, RingAssumption DEF Index
<1>2. t + k - 1 \in 0 .. 2 * Size - 1
  BY <1>1, RingAssumption DEF Index
<1> QED BY <1>1, <1>2, Wrap, RingAssumption DEF Index

LEMMA ContentsSeq ==
  ASSUME NEW buf \in [Index -> Byte], NEW h \in Index, NEW t \in Index
  PROVE  /\ Contents(buf, h, t) \in Seq(Byte)
         /\ Len(Contents(buf, h, t)) = Count(h, t)
<1>1. Count(h, t) \in Nat
  BY CountRange, RingAssumption
<1>2. \A k \in 1 .. Count(h, t) : buf[(t + k - 1) % Size] \in Byte
  BY PlaceIndex
<1> QED BY <1>1, <1>2 DEF Contents

LEMMA ContentsEntry ==
  ASSUME NEW buf, NEW h \in Index, NEW t \in Index, NEW k \in 1 .. Count(h, t)
  PROVE  Contents(buf, h, t)[k] =
           buf[IF t + k - 1 < Size THEN t + k - 1 ELSE t + k - 1 - Size]
BY PlaceIndex DEF Contents

(***************************************************************************)
(* A byte put in at the head is the newest.                                *)
(***************************************************************************)
LEMMA Put ==
  ASSUME NEW buf \in [Index -> Byte], NEW h \in Index, NEW t \in Index,
         NEW b \in Byte, Succ(h) # t
  PROVE  Contents([buf EXCEPT ![h] = b], Succ(h), t) = Append(Contents(buf, h, t), b)
<1> DEFINE n == Count(h, t)
           new == [buf EXCEPT ![h] = b]
           old == Contents(buf, h, t)
<1>1. n \in Nat /\ Count(Succ(h), t) = n + 1
  BY CountRange, CountPut, RingAssumption
<1>2. /\ new \in [Index -> Byte] /\ Succ(h) \in Index
      /\ new[h] = b /\ \A i \in Index \ {h} : new[i] = buf[i]
  BY SuccIndex
<1> HIDE DEF new
<1>3. Contents(new, Succ(h), t) \in Seq(Byte) /\ Len(Contents(new, Succ(h), t)) = n + 1
  BY <1>1, <1>2, ContentsSeq
<1>4. old \in Seq(Byte) /\ Len(old) = n
  BY ContentsSeq
<1>5. ASSUME NEW k \in 1 .. n + 1
      PROVE  Contents(new, Succ(h), t)[k] = Append(old, b)[k]
  <2> DEFINE at == IF t + k - 1 < Size THEN t + k - 1 ELSE t + k - 1 - Size
  <2>1. Contents(new, Succ(h), t)[k] = new[at]
    <3>1. k \in 1 .. Count(Succ(h), t)
      BY <1>1
    <3> QED BY <1>2, <3>1, ContentsEntry
  <2>2. CASE k = n + 1
    <3>1. at = h
      BY <1>1, <2>2, RingAssumption DEF Index, Count
    <3> QED BY <1>2, <1>4, <2>1, <2>2, <3>1
  <2>3. CASE k # n + 1
    <3>1. k \in 1 .. n /\ at # h /\ at \in Index
      BY <1>1, <2>3, CountRange, RingAssumption DEF Index, Count
    <3>2. old[k] = buf[at]
      BY <3>1, ContentsEntry
    <3> QED BY <1>2, <1>4, <2>1, <3>1, <3>2
  <2> QED BY <2>2, <2>3
<1>6. Contents(new, Succ(h), t) = Append(old, b)
  <2>1. /\ Append(old, b) \in Seq(Byte) /\ Len(Append(old, b)) = n + 1
    BY <1>1, <1>4
  <2> HIDE DEF old
  <2> QED BY <1>1, <1>3, <1>5, <2>1
<1> QED BY <1>6 DEF new

\* The place at the head is not part of the contents.
LEMMA Overwrite ==
  ASSUME NEW buf \in [Index -> Byte], NEW h \in Index, NEW t \in Index, NEW b \in Byte
  PROVE  Contents([buf EXCEPT ![h] = b], h, t) = Contents(buf, h, t)
<1> DEFINE new == [buf EXCEPT ![h] = b]
<1>1. /\ new \in [Index -> Byte] /\ \A i \in Index \ {h} : new[i] = buf[i]
  OBVIOUS
<1> HIDE DEF new
<1>2. ASSUME NEW k \in 1 .. Count(h, t)
      PROVE  new[(t + k - 1) % Size] = buf[(t + k - 1) % Size]
  <2>1. (t + k - 1) % Size \in Index /\ (t + k - 1) % Size # h
    BY PlaceIndex, CountRange, RingAssumption DEF Index, Count
  <2> QED BY <1>1, <2>1
<1>3. Contents(new, h, t) = Contents(buf, h, t)
  BY <1>2 DEF Contents
<1> QED BY <1>3 DEF new

(***************************************************************************)
(* The byte at the tail is the oldest, and the one behind it comes next.   *)
(***************************************************************************)
LEMMA Take ==
  ASSUME NEW buf \in [Index -> Byte], NEW h \in Index, NEW t \in Index, h # t
  PROVE  /\ Contents(buf, h, t) # <<>>
         /\ Head(Contents(buf, h, t)) = buf[t]
         /\ Contents(buf, h, Succ(t)) = Tail(Contents(buf, h, t))
<1> DEFINE n == Count(h, t)
           old == Contents(buf, h, t)
           new == Contents(buf, h, Succ(t))
<1>1. n \in 1 .. Size - 1 /\ Count(h, Succ(t)) = n - 1
  BY CountRange, CountEmpty, CountTake, RingAssumption
<1>2. old \in Seq(Byte) /\ Len(old) = n
  BY ContentsSeq
<1>3. new \in Seq(Byte) /\ Len(new) = n - 1
  BY <1>1, SuccIndex, ContentsSeq
<1>4. old[1] = buf[t]
  <2>1. 1 \in 1 .. n /\ t + 1 - 1 = t /\ t < Size
    BY <1>1, RingAssumption DEF Index
  <2> QED BY <2>1, ContentsEntry
<1>5. ASSUME NEW k \in 1 .. n - 1
      PROVE  new[k] = Tail(old)[k]
  <2>1. new[k] = buf[IF Succ(t) + k - 1 < Size THEN Succ(t) + k - 1 ELSE Succ(t) + k - 1 - Size]
    BY <1>1, SuccIndex, ContentsEntry
  <2>2. old[k + 1] = buf[IF t + k < Size THEN t + k ELSE t + k - Size]
    <3>1. k + 1 \in 1 .. n /\ t + (k + 1) - 1 = t + k
      BY <1>1 DEF Index
    <3> QED BY <3>1, ContentsEntry
  <2>3. new[k] = old[k + 1]
    <3>1. k - 1 \in 0 .. Size - 1
      BY <1>1, RingAssumption
    <3>2. CASE t = Size - 1
      <4>1. Succ(t) = 0 /\ t + k - Size = k - 1 /\ ~(t + k < Size)
        BY <1>1, <3>2, RingAssumption DEF Succ
      <4>2. Succ(t) + k - 1 = k - 1 /\ k - 1 < Size
        BY <3>1, <4>1, RingAssumption
      <4> QED BY <2>1, <2>2, <4>1, <4>2
    <3>3. CASE t # Size - 1
      <4>1. Succ(t) = t + 1
        BY <3>3, RingAssumption DEF Succ
      <4>2. t + 1 + k - 1 = t + k /\ t + 1 + k - 1 - Size = t + k - Size
        BY RingAssumption DEF Index
      <4> QED BY <2>1, <2>2, <4>1, <4>2
    <3> QED BY <3>2, <3>3
  <2> QED BY <1>1, <1>2, <2>3
<1> QED BY <1>1, <1>2, <1>3, <1>4, <1>5
=============================================================================
