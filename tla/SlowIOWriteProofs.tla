------------------------- MODULE SlowIOWriteProofs --------------------------
(***************************************************************************)
(* The transmit half of slowIO_buffer.sv for every ring size: its          *)
(* registers keep their range, its answers are not stale, and it is a byte *)
(* queue.                                                                  *)
(***************************************************************************)
EXTENDS SlowIOWriteBuffer, RingProofs

LEMMA InitType == Init => TypeOK
<1>1. 0 \in Index
  BY RingAssumption DEF Index
<1> QED BY <1>1, WriteBufferAssumption DEF Init, TypeOK

\* The buffer's clock, for the registers of the ring and of the bus.
LEMMA BufferType ==
  ASSUME TypeOK, Buffer
  PROVE  /\ write_buf' \in [Index -> Byte]
         /\ write_head' \in Index
         /\ write_tail' \in Index
         /\ write_ready' \in BOOLEAN
         /\ io_data_write' \in Byte
<1>1. write_buf' \in [Index -> Byte] /\ write_head' \in Index
  BY SuccIndex DEF TypeOK, Buffer, Accept
<1>2. write_tail' \in Index /\ io_data_write' \in Byte
  BY SuccIndex DEF TypeOK, Buffer, Offer
<1>3. write_ready' \in BOOLEAN
  BY DEF Buffer, Request, NoRequest
<1> QED BY <1>1, <1>2, <1>3

LEMMA StepType == TypeOK /\ [Next]_vars => TypeOK'
<1> SUFFICES ASSUME TypeOK, [Next]_vars PROVE TypeOK'
  OBVIOUS
<1>1. CASE TakeClock
  <2>1. write_odd' \in {0, 1} /\ sent' \in {<<b>> : b \in Byte}
    BY <1>1 DEF TypeOK, TakeClock, DeviceTake
  <2> QED BY <1>1, <2>1, BufferType DEF TypeOK, TakeClock
<1>2. CASE WaitClock
  <2>1. write_odd' \in {0, 1} /\ sent' = <<>>
    BY <1>2 DEF TypeOK, WaitClock, DeviceWait
  <2> QED BY <1>2, <2>1, BufferType DEF TypeOK, WaitClock
<1>3. CASE Reset
  <2>1. write_head' \in Index /\ write_tail' \in Index
    BY <1>3, RingAssumption DEF Reset, Index
  <2>2. write_ready' \in BOOLEAN
    BY <1>3 DEF Reset
  <2> QED BY <1>3, <2>1, <2>2 DEF TypeOK, Reset
<1>4. CASE UNCHANGED vars
  BY <1>4 DEF TypeOK, vars, bufferVars, deviceVars
<1> QED BY <1>1, <1>2, <1>3, <1>4 DEF Next

(***************************************************************************)
(* The indices stay inside the ring and every register keeps its range.    *)
(***************************************************************************)
THEOREM WriteBufferTypeCorrect == Spec => []TypeOK
BY InitType, StepType, PTL DEF Spec

-----------------------------------------------------------------------------
(* While an answer is outstanding nothing is added to the ring, and taking *)
(* a byte out of it does not fill it.                                      *)

LEMMA BufferRoom ==
  ASSUME TypeOK, SpacedWrites, ReadyMeansRoom, Buffer
  PROVE  ReadyMeansRoom'
<1> SUFFICES ASSUME write_ready' PROVE ~Full'
  BY DEF ReadyMeansRoom
<1>1. Request /\ ~write_ready /\ ~Full
  BY DEF Buffer, Request, NoRequest
<1>2. write_head' = write_head
  BY <1>1 DEF Buffer, Accept
<1>3. CASE write_tail' = write_tail
  BY <1>1, <1>2, <1>3 DEF Full
<1>4. CASE write_head # write_tail /\ write_tail' = Succ(write_tail)
  BY <1>2, <1>4, SuccInjective DEF Full, TypeOK
<1> QED BY <1>3, <1>4 DEF Buffer, Offer

LEMMA StepRoom ==
  SpacedWrites /\ TypeOK /\ ReadyMeansRoom /\ [Next]_vars => ReadyMeansRoom'
<1> SUFFICES ASSUME SpacedWrites, TypeOK, ReadyMeansRoom, [Next]_vars
             PROVE  ReadyMeansRoom'
  OBVIOUS
<1>1. CASE TakeClock \/ WaitClock
  BY <1>1, BufferRoom DEF TakeClock, WaitClock
<1>2. CASE Reset
  BY <1>2 DEF Reset, ReadyMeansRoom
<1>3. CASE UNCHANGED vars
  BY <1>3 DEF ReadyMeansRoom, Full, vars, bufferVars
<1> QED BY <1>1, <1>2, <1>3 DEF Next

(***************************************************************************)
(* For a program that leaves a clock after an OUT that succeeded, "ready"  *)
(* is never stale: the data clock finds room, whatever the size.           *)
(***************************************************************************)
THEOREM WriteReadyMeansRoom ==
  ASSUME SpacedWrites
  PROVE  Spec => []ReadyMeansRoom
<1>1. Init => ReadyMeansRoom
  BY DEF Init, ReadyMeansRoom
<1>2. TypeOK /\ ReadyMeansRoom /\ [Next]_vars => ReadyMeansRoom'
  BY StepRoom
<1> QED BY <1>1, <1>2, WriteBufferTypeCorrect, PTL DEF Spec

-----------------------------------------------------------------------------
AtMostOneByte == {<<>>} \cup {<<b>> : b \in Byte}

LEMMA OneByteSeq == \A in \in AtMostOneByte : in \in Seq(Byte)
<1> TAKE in \in AtMostOneByte
<1>1. CASE in = <<>>
  BY <1>1
<1>2. ASSUME NEW b \in Byte, in = <<b>> PROVE in \in Seq(Byte)
  BY <1>2
<1> QED BY <1>1, <1>2 DEF AtMostOneByte

WithinCapacity == Unsent \in Seq(Byte) /\ Len(Unsent) <= Size

LEMMA UnsentType == TypeOK => WithinCapacity
<1> SUFFICES ASSUME TypeOK PROVE WithinCapacity
  OBVIOUS
<1>1. /\ StoredBytes \in Seq(Byte)
      /\ Len(StoredBytes) = Count(write_head, write_tail)
  BY ContentsSeq DEF TypeOK, StoredBytes
<1>2. Count(write_head, write_tail) \in 0 .. Size - 1
  BY CountRange DEF TypeOK
<1>3. CASE Offered
  <2>1. Unsent = <<io_data_write>> \o StoredBytes /\ io_data_write \in Byte
    BY <1>3 DEF Unsent, TypeOK
  <2>2. Unsent \in Seq(Byte) /\ Len(Unsent) = 1 + Count(write_head, write_tail)
    BY <1>1, <2>1
  <2> QED BY <1>2, <2>2, RingAssumption DEF WithinCapacity
<1>4. CASE ~Offered
  <2>1. Unsent = StoredBytes
    BY <1>1, <1>4 DEF Unsent
  <2> QED BY <1>1, <1>2, <2>1, RingAssumption DEF WithinCapacity
<1> QED BY <1>3, <1>4

\* The byte of an OUT, if it is taken, goes behind the ones in the ring.
LEMMA AcceptAppends ==
  ASSUME TypeOK, NEW b \in Byte, Accept(b)
  PROVE  \E in \in AtMostOneByte :
           Contents(write_buf', write_head', write_tail) = StoredBytes \o in
<1>1. /\ write_buf \in [Index -> Byte] /\ write_head \in Index /\ write_tail \in Index
      /\ StoredBytes \in Seq(Byte)
  BY ContentsSeq DEF TypeOK, StoredBytes
<1>2. CASE write_ready /\ ~Full
  <2>1. Contents(write_buf', write_head', write_tail) = Append(StoredBytes, b)
    <3>1. Contents([write_buf EXCEPT ![write_head] = b], Succ(write_head), write_tail)
            = Append(StoredBytes, b)
      BY <1>1, <1>2, Put DEF Full, StoredBytes
    <3> QED BY <1>2, <3>1 DEF Accept
  <2>2. Append(StoredBytes, b) = StoredBytes \o <<b>>
    BY <1>1
  <2> QED BY <2>1, <2>2 DEF AtMostOneByte
<1>3. CASE ~(write_ready /\ ~Full)
  <2>1. Contents(write_buf', write_head', write_tail) = StoredBytes
    BY <1>1, <1>3, Overwrite DEF Accept, StoredBytes
  <2>2. StoredBytes = StoredBytes \o <<>>
    BY <1>1
  <2> QED BY <2>1, <2>2 DEF AtMostOneByte
<1> QED BY <1>2, <1>3

LEMMA ParityChanges ==
  \A i \in Index : i % 2 \in {0, 1} /\ Succ(i) % 2 # i % 2
<1> TAKE i \in Index
<1>1. i % 2 \in {0, 1}
  BY RingAssumption DEF Index
<1>2. Succ(i) % 2 = 1 - (i % 2)
  BY SuccParity, WriteBufferAssumption
<1> QED BY <1>1, <1>2

\* A clock in which the device takes the offered byte.
LEMMA TakeIsHandOver ==
  ASSUME TypeOK, TakeClock
  PROVE  Fifo!HandOver
<1>1. Offered /\ UNCHANGED <<write_tail, io_data_write>>
  BY DEF TakeClock, Buffer, DeviceTake, Offer, Offered
<1>2. ~Offered'
  <2>1. write_tail % 2 \in {0, 1} /\ write_odd \in {0, 1}
    BY ParityChanges DEF TypeOK
  <2> QED BY <1>1, <2>1 DEF TakeClock, DeviceTake, Offered, write_odd_request
<1>3. PICK in \in AtMostOneByte :
        Contents(write_buf', write_head', write_tail) = StoredBytes \o in
  BY AcceptAppends DEF TakeClock, Buffer
<1>4. StoredBytes \in Seq(Byte) /\ in \in Seq(Byte)
  BY ContentsSeq, OneByteSeq DEF TypeOK, StoredBytes
<1>5. Unsent = <<io_data_write>> \o StoredBytes
  BY <1>1 DEF Unsent
<1>6. Unsent # <<>> /\ Head(Unsent) = io_data_write /\ Tail(Unsent) = StoredBytes
  BY <1>4, <1>5 DEF TypeOK
<1>7. Unsent' = Tail(Unsent) \o in
  BY <1>1, <1>2, <1>3, <1>4, <1>6 DEF Unsent, StoredBytes
<1> QED BY <1>3, <1>6, <1>7 DEF Fifo!HandOver, Fifo!AtMostOneByte, AtMostOneByte,
                                TakeClock, DeviceTake

\* A clock in which it does not; the buffer may offer it the next byte.
LEMMA WaitIsHold ==
  ASSUME TypeOK, TypeOK', WaitClock
  PROVE  Fifo!Hold
<1>1. PICK in \in AtMostOneByte :
        Contents(write_buf', write_head', write_tail) = StoredBytes \o in
  BY AcceptAppends DEF WaitClock, Buffer
<1>2. StoredBytes \in Seq(Byte) /\ in \in Seq(Byte)
  BY ContentsSeq, OneByteSeq DEF TypeOK, StoredBytes
<1>3. write_odd' = write_odd
  BY DEF WaitClock, DeviceWait
<1>4. CASE ~Offered /\ write_head # write_tail
  <2>1. write_tail' = Succ(write_tail) /\ io_data_write' = write_buf[write_tail]
    BY <1>4 DEF WaitClock, Buffer, Offer, Offered
  <2>2. Offered'
    <3>1. Succ(write_tail) % 2 # write_tail % 2
      BY ParityChanges DEF TypeOK
    <3> QED BY <1>3, <1>4, <2>1, <3>1 DEF Offered, write_odd_request
  <2>3. write_head' # write_tail /\ write_buf'[write_tail] = write_buf[write_tail]
    BY <1>4 DEF WaitClock, Buffer, Accept, Full, TypeOK
  <2> DEFINE ring == Contents(write_buf', write_head', write_tail)
  <2>4. /\ ring # <<>> /\ Head(ring) = io_data_write'
        /\ StoredBytes' = Tail(ring)
    BY <2>1, <2>3, Take DEF TypeOK, StoredBytes
  <2>5. ring \in Seq(Byte)
    BY <1>1, <1>2
  <2>6. Unsent' = <<io_data_write'>> \o StoredBytes'
    BY <2>2 DEF Unsent
  <2>7. ring = <<Head(ring)>> \o Tail(ring)
    <3> HIDE DEF ring
    <3> QED BY <2>4, <2>5
  <2>8. Unsent = StoredBytes
    BY <1>2, <1>4 DEF Unsent
  <2>9. Unsent' = Unsent \o in
    BY <1>1, <2>4, <2>6, <2>7, <2>8
  <2> QED BY <1>1, <2>9 DEF Fifo!Hold, Fifo!AtMostOneByte, AtMostOneByte, WaitClock, DeviceWait
<1>5. CASE ~(~Offered /\ write_head # write_tail)
  <2>1. UNCHANGED <<write_tail, io_data_write>>
    BY <1>5 DEF WaitClock, Buffer, Offer, Offered
  <2>2. StoredBytes' = StoredBytes \o in /\ Offered' = Offered
    BY <1>1, <1>3, <2>1 DEF StoredBytes, Offered, write_odd_request
  <2>3. Unsent' = Unsent \o in
    <3>1. CASE Offered
      <4>1. /\ Unsent' = <<io_data_write>> \o (StoredBytes \o in)
            /\ Unsent = <<io_data_write>> \o StoredBytes
        BY <2>1, <2>2, <3>1 DEF Unsent
      <4> QED BY <1>2, <4>1 DEF TypeOK
    <3>2. CASE ~Offered
      <4>1. Unsent' = <<>> \o (StoredBytes \o in) /\ Unsent = <<>> \o StoredBytes
        BY <2>2, <3>2 DEF Unsent
      <4> QED BY <1>2, <4>1
    <3> QED BY <3>1, <3>2
  <2> QED BY <1>1, <2>3 DEF Fifo!Hold, Fifo!AtMostOneByte, AtMostOneByte, WaitClock, DeviceWait
<1> QED BY <1>4, <1>5

LEMMA ResetEmpties ==
  ASSUME TypeOK, TypeOK', Reset
  PROVE  Fifo!Reset
<1>1. ~Offered' /\ Count(write_head', write_tail') = 0
  BY CountEmpty, RingAssumption DEF Reset, Offered, write_odd_request, TypeOK
<1>2. Len(StoredBytes') = 0 /\ StoredBytes' \in Seq(Byte)
  BY <1>1, ContentsSeq DEF TypeOK, StoredBytes
<1>3. Unsent' = <<>>
  BY <1>1, <1>2 DEF Unsent
<1> QED BY <1>3 DEF Reset, Fifo!Reset

LEMMA StepIsQueueStep ==
  TypeOK /\ TypeOK' /\ [Next]_vars => [Fifo!Next]_(Fifo!vars)
<1> SUFFICES ASSUME TypeOK, TypeOK', [Next]_vars
             PROVE  [Fifo!Next]_(Fifo!vars)
  OBVIOUS
<1>1. Len(Unsent') <= Size
  <2>1. WithinCapacity'
    BY UnsentType, PTL
  <2> QED BY <2>1 DEF WithinCapacity
<1>2. CASE Next
  BY <1>1, <1>2, TakeIsHandOver, WaitIsHold, ResetEmpties DEF Next, Fifo!Next
<1>3. CASE UNCHANGED vars
  BY <1>3 DEF vars, bufferVars, deviceVars, Fifo!vars, Unsent, StoredBytes, Offered,
              write_odd_request
<1> QED BY <1>2, <1>3

LEMMA InitIsEmptyQueue == Init => Fifo!Init
<1> SUFFICES ASSUME Init PROVE Fifo!Init
  OBVIOUS
<1>1. TypeOK /\ ~Offered /\ Count(write_head, write_tail) = 0
  BY InitType, CountEmpty, RingAssumption DEF Init, Offered, write_odd_request, TypeOK
<1>2. Len(StoredBytes) = 0 /\ StoredBytes \in Seq(Byte)
  BY <1>1, ContentsSeq DEF TypeOK, StoredBytes
<1> QED BY <1>1, <1>2 DEF Init, Fifo!Init, Unsent

(***************************************************************************)
(* The transmit half is a queue for every size of the ring, whether or not *)
(* the program spaces its OUTs: a byte that enters the ring is taken by    *)
(* the transmitter once, in its turn.                                      *)
(***************************************************************************)
THEOREM WriteBufferIsQueue == Spec => FifoSpec
BY InitIsEmptyQueue, StepIsQueueStep, WriteBufferTypeCorrect, PTL
   DEF Spec, FifoSpec, Fifo!Spec
=============================================================================
