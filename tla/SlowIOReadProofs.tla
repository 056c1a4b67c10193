-------------------------- MODULE SlowIOReadProofs --------------------------
(***************************************************************************)
(* The receive half of slowIO_buffer.sv for every ring size: its registers *)
(* keep their range, and with a sender that stops when it is told to it is *)
(* a byte queue.                                                           *)
(***************************************************************************)
EXTENDS SlowIOReadBuffer, RingProofs

LEMMA InitType == Init => TypeOK
<1>1. 0 \in Index
  BY RingAssumption DEF Index
<1> QED BY <1>1, ReadBufferAssumption DEF Init, TypeOK

LEMMA StepType == TypeOK /\ [Next]_vars => TypeOK'
<1> SUFFICES ASSUME TypeOK, [Next]_vars PROVE TypeOK'
  OBVIOUS
<1>1. ASSUME Store, Device, BusRead \/ BusIdle PROVE TypeOK'
  <2>1. read_buf' \in [Index -> Byte] /\ read_head' \in Index
    BY <1>1, SuccIndex DEF TypeOK, Store
  <2>2. read_tail' \in Index /\ data_read' \in Byte /\ read_ready' \in BOOLEAN
    BY <1>1, SuccIndex, ReadBufferAssumption DEF TypeOK, BusRead, BusIdle
  <2>3. read_odd' \in {0, 1} /\ io_data_read' \in Byte
    BY <1>1 DEF TypeOK, Device, DeviceReceive, DeviceIdle, deviceVars
  <2> QED BY <2>1, <2>2, <2>3 DEF TypeOK
<1>2. CASE ReadClock \/ IdleClock
  BY <1>1, <1>2 DEF ReadClock, IdleClock
<1>3. CASE Reset
  <2>1. 0 \in Index
    BY RingAssumption DEF Index
  <2> QED BY <1>3, <2>1 DEF TypeOK, Reset
<1>4. CASE UNCHANGED vars
  BY <1>4 DEF TypeOK, vars, bufferVars, deviceVars
<1> QED BY <1>2, <1>3, <1>4 DEF Next

(***************************************************************************)
(* The indices stay inside the ring and every register keeps its range.    *)
(***************************************************************************)
THEOREM ReadBufferTypeCorrect == Spec => []TypeOK
BY InitType, StepType, PTL DEF Spec

-----------------------------------------------------------------------------
(* A byte that is announced finds room: the sender began it while the stop *)
(* line was low, and until the buffer takes it only INs happen.            *)
Room == Announced => Succ(read_head) # read_tail

LEMMA InitRoom == Init => Room
BY DEF Init, Room, Announced

LEMMA StepRoom == HonoursStop /\ TypeOK /\ Room /\ [Next]_vars => Room'
<1> SUFFICES ASSUME HonoursStop, TypeOK, Room, [Next]_vars, Announced'
             PROVE  Succ(read_head') # read_tail'
  BY DEF Room
<1>1. ASSUME Store, Device, BusRead \/ BusIdle
      PROVE  Succ(read_head') # read_tail'
  <2>1. CASE Announced
    <3>1. UNCHANGED deviceVars
      BY <1>1, <2>1 DEF Device, DeviceReceive, DeviceIdle
    <3>2. read_head' = Succ(read_head) /\ read_odd' = read_odd
      BY <1>1, <2>1, <3>1 DEF Store, deviceVars
    <3>3. read_head % 2 \in {0, 1}
      BY RingAssumption DEF TypeOK, Index
    <3>4. read_odd' = read_head' % 2
      <4>1. read_odd = 1 - (read_head % 2)
        BY <2>1, <3>3 DEF Announced, TypeOK
      <4>2. Succ(read_head) % 2 = 1 - (read_head % 2)
        BY SuccParity, ReadBufferAssumption DEF TypeOK
      <4> QED BY <3>2, <4>1, <4>2
    <3> QED BY <3>4 DEF Announced
  <2>2. CASE ~Announced
    <3>1. read_head' = read_head
      BY <1>1, <2>2 DEF Store
    <3>2. Succ(read_head) # read_tail
      BY <1>1, <2>2, <3>1 DEF Announced, Device, DeviceReceive, DeviceIdle, deviceVars,
                              try_stop_reading
    <3>3. CASE read_tail' = read_tail
      BY <3>1, <3>2, <3>3
    <3>4. CASE read_tail # read_head /\ read_tail' = Succ(read_tail)
      BY <3>1, <3>4, SuccInjective DEF TypeOK
    <3> QED BY <1>1, <3>3, <3>4 DEF BusRead, BusIdle
  <2> QED BY <2>1, <2>2
<1>2. CASE ReadClock \/ IdleClock
  BY <1>1, <1>2 DEF ReadClock, IdleClock
<1>3. CASE Reset
  BY <1>3 DEF Reset, Announced
<1>4. CASE UNCHANGED vars
  BY <1>4 DEF Room, Announced, vars, bufferVars, deviceVars
<1> QED BY <1>2, <1>3, <1>4 DEF Next

-----------------------------------------------------------------------------
AtMostRoom == Unread \in Seq(Byte) /\ Len(Unread) <= Size - 1

LEMMA UnreadType == TypeOK /\ Room => AtMostRoom
<1> SUFFICES ASSUME TypeOK, Room PROVE AtMostRoom
  OBVIOUS
<1> USE DEF AtMostRoom
<1>1. /\ StoredBytes \in Seq(Byte)
      /\ Len(StoredBytes) = Count(read_head, read_tail)
  BY ContentsSeq DEF TypeOK, StoredBytes
<1>2. Count(read_head, read_tail) \in 0 .. Size - 1
  BY CountRange DEF TypeOK
<1>3. CASE Announced
  <2>1. Count(read_head, read_tail) <= Size - 2
    BY <1>3, CountRoom DEF TypeOK, Room
  <2>2. Unread = StoredBytes \o <<io_data_read>> /\ io_data_read \in Byte
    BY <1>3 DEF Unread, TypeOK
  <2>3. Unread \in Seq(Byte) /\ Len(Unread) = Count(read_head, read_tail) + 1
    BY <1>1, <2>2
  <2> QED BY <1>2, <2>1, <2>3, RingAssumption
<1>4. CASE ~Announced
  <2>1. Unread = StoredBytes
    BY <1>1, <1>4 DEF Unread
  <2> QED BY <1>1, <1>2, <2>1
<1> QED BY <1>3, <1>4

\* A clock of the buffer alone: what was announced is now in the ring, and
\* nothing has been announced since.
LEMMA StoreKeepsBytes ==
  ASSUME TypeOK, Room, Store
  PROVE  Contents(read_buf', read_head', read_tail) = Unread
<1>1. StoredBytes \in Seq(Byte)
  BY ContentsSeq DEF TypeOK, StoredBytes
<1>2. CASE Announced
  <2>1. Unread = StoredBytes \o <<io_data_read>>
    BY <1>2 DEF Unread
  <2>2. Unread = Append(StoredBytes, io_data_read)
    BY <1>1, <2>1 DEF TypeOK
  <2>3. Contents([read_buf EXCEPT ![read_head] = io_data_read], Succ(read_head), read_tail)
          = Append(StoredBytes, io_data_read)
    BY <1>2, Put DEF TypeOK, Room, StoredBytes
  <2> QED BY <1>2, <2>2, <2>3 DEF Store
<1>3. CASE ~Announced
  <2>1. Unread = StoredBytes
    BY <1>1, <1>3 DEF Unread
  <2> QED BY <1>3, <2>1 DEF Store, StoredBytes
<1> QED BY <1>2, <1>3

\* The device announces at most one byte, and only when none was pending.
LEMMA DeviceAdds ==
  ASSUME TypeOK, Store, Device
  PROVE  \E in \in {<<>>} \cup {<<b>> : b \in Byte} : Unread' = StoredBytes' \o in
<1>1. io_data_read' \in Byte
  BY DEF TypeOK, Device, DeviceReceive, DeviceIdle, deviceVars
<1> QED BY <1>1 DEF Unread

\* What a clock does to the two ends of the queue.
LEMMA ClockIsQueueStep ==
  ASSUME TypeOK, Room, TypeOK', Room', Store, Device, BusRead \/ BusIdle
  PROVE  Fifo!Next
<1>1. /\ Contents(read_buf', read_head', read_tail) = Unread
      /\ Unread \in Seq(Byte) /\ Unread' \in Seq(Byte) /\ Len(Unread') <= Size - 1
  <2>1. AtMostRoom'
    BY UnreadType, PTL
  <2> QED BY <2>1, StoreKeepsBytes, UnreadType DEF AtMostRoom
<1>2. PICK in \in {<<>>} \cup {<<b>> : b \in Byte} : Unread' = StoredBytes' \o in
  BY DeviceAdds
<1>3. /\ read_buf \in [Index -> Byte] /\ read_head \in Index /\ read_tail \in Index
      /\ read_buf' \in [Index -> Byte] /\ read_head' \in Index
  BY DEF TypeOK
<1>4. CASE read_tail' = read_tail /\ read_ready' = FALSE
  <2>1. StoredBytes' = Unread
    BY <1>1, <1>4 DEF StoredBytes
  <2>2. Fifo!Hold
    BY <1>2, <1>4, <2>1 DEF Fifo!Hold, Fifo!AtMostOneByte
  <2> QED BY <1>1, <2>2 DEF Fifo!Next
<1>5. CASE /\ BusRead /\ read_tail # read_head
  <2>1. read_head' # read_tail /\ read_buf'[read_tail] = read_buf[read_tail]
    BY <1>3, <1>5 DEF Store, Room
  <2>2. /\ Unread # <<>> /\ Head(Unread) = read_buf[read_tail]
        /\ Contents(read_buf', read_head', Succ(read_tail)) = Tail(Unread)
    BY <1>1, <1>3, <2>1, Take
  <2>3. StoredBytes' = Tail(Unread)
    BY <1>5, <2>2 DEF BusRead, StoredBytes
  <2>4. read_ready' /\ data_read' = Head(Unread)
    BY <1>5, <2>2 DEF BusRead
  <2>5. Fifo!HandOver
    BY <1>2, <2>2, <2>3, <2>4 DEF Fifo!HandOver, Fifo!AtMostOneByte
  <2> QED BY <1>1, <2>5 DEF Fifo!Next
<1> QED BY <1>4, <1>5 DEF BusRead, BusIdle

LEMMA StepIsQueueStep ==
  TypeOK /\ Room /\ TypeOK' /\ Room' /\ [Next]_vars => [Fifo!Next]_(Fifo!vars)
<1> SUFFICES ASSUME TypeOK, Room, TypeOK', Room', [Next]_vars
             PROVE  [Fifo!Next]_(Fifo!vars)
  OBVIOUS
<1>1. CASE ReadClock \/ IdleClock
  BY <1>1, ClockIsQueueStep DEF ReadClock, IdleClock
<1>2. CASE Reset
  <2>1. ~Announced' /\ Count(read_head', read_tail') = 0
    BY <1>2, CountEmpty, RingAssumption DEF Reset, Announced, TypeOK
  <2>2. Unread' = <<>>
    <3>1. Len(StoredBytes') = 0 /\ StoredBytes' \in Seq(Byte)
      BY <2>1, ContentsSeq DEF TypeOK, StoredBytes
    <3> QED BY <2>1, <3>1 DEF Unread
  <2>3. Fifo!Reset
    BY <1>2, <2>2 DEF Reset, Fifo!Reset
  <2>4. Len(Unread') <= Size - 1
    BY <2>2, RingAssumption
  <2> QED BY <2>3, <2>4 DEF Fifo!Next
<1>3. CASE UNCHANGED vars
  BY <1>3 DEF vars, bufferVars, deviceVars, Fifo!vars, Unread, StoredBytes, Announced
<1> QED BY <1>1, <1>2, <1>3 DEF Next

LEMMA InitIsEmptyQueue == Init => Fifo!Init
<1> SUFFICES ASSUME Init PROVE Fifo!Init
  OBVIOUS
<1>1. TypeOK /\ ~Announced /\ Count(read_head, read_tail) = 0
  BY InitType, CountEmpty, RingAssumption DEF Init, Announced, TypeOK
<1>2. Len(StoredBytes) = 0 /\ StoredBytes \in Seq(Byte)
  BY <1>1, ContentsSeq DEF TypeOK, StoredBytes
<1> QED BY <1>1, <1>2 DEF Init, Fifo!Init, Unread

(***************************************************************************)
(* For a sender that stops when the stop line is raised, the receive half  *)
(* is a queue: every IN that succeeds gets the oldest byte received and    *)
(* not yet read, and none is lost, whatever the size of the ring.          *)
(***************************************************************************)
THEOREM ReadBufferIsQueue ==
  ASSUME HonoursStop
  PROVE  Spec => FifoSpec
<1>1. Init => Room
  BY InitRoom
<1>2. TypeOK /\ Room /\ [Next]_vars => Room'
  BY StepRoom
<1>3. Spec => []Room
  BY <1>1, <1>2, ReadBufferTypeCorrect, PTL DEF Spec
<1> QED BY <1>3, InitIsEmptyQueue, StepIsQueueStep, ReadBufferTypeCorrect, PTL
        DEF Spec, FifoSpec, Fifo!Spec
=============================================================================
