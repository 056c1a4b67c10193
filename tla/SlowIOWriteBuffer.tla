------------------------- MODULE SlowIOWriteBuffer --------------------------
(***************************************************************************)
(* The transmit half of slowIO_buffer.sv (WRITE_BUF_SIZE > 0), with the    *)
(* CPU's OUT instructions on one side and the transmitter of               *)
(* serial_controller.sv on the other.                                      *)
(*                                                                         *)
(* An OUT raises write_request for one clock and supplies the byte in the  *)
(* next; write_ready, computed in the request clock, is the answer the     *)
(* instruction puts in the N flag.  The buffer hands a byte to the device  *)
(* by advancing write_tail, whose low bit is write_odd_request; the device *)
(* acknowledges by flipping write_odd.                                     *)
(***************************************************************************)
EXTENDS Ring

CONSTANTS Zero,          \* the byte 0
          SpacedWrites   \* the program leaves a clock after an OUT that succeeded

ASSUME WriteBufferAssumption ==
  Size % 2 = 0 /\ Zero \in Byte /\ SpacedWrites \in BOOLEAN

VARIABLES write_buf, write_head, write_tail,   \* the ring
          write_ready,                         \* register of the peripheral bus
          io_data_write,                       \* byte offered to the device
          write_odd,                           \* acknowledge of the device
          sent                                 \* <<b>> when the device takes b

bufferVars == <<write_buf, write_head, write_tail, write_ready, io_data_write>>
deviceVars == <<write_odd, sent>>
vars == <<bufferVars, deviceVars>>

TypeOK == /\ write_buf \in [Index -> Byte]
          /\ write_head \in Index
          /\ write_tail \in Index
          /\ write_ready \in BOOLEAN
          /\ io_data_write \in Byte
          /\ write_odd \in {0, 1}
          /\ sent \in {<<>>} \cup {<<b>> : b \in Byte}

write_odd_request == write_tail % 2

Full == Succ(write_head) = write_tail

Init == /\ write_buf = [i \in Index |-> Zero]
        /\ write_head = 0
        /\ write_tail = 0
        /\ write_ready = FALSE
        /\ io_data_write = Zero
        /\ write_odd = 0
        /\ sent = <<>>

-----------------------------------------------------------------------------
\* Mutant: offers only while the device has not taken the last byte.
OfferInverted == IF write_odd # write_odd_request /\ write_head # write_tail
                 THEN /\ write_tail' = Succ(write_tail)
                      /\ io_data_write' = write_buf[write_tail]
                 ELSE UNCHANGED <<write_tail, io_data_write>>

\* The oldest byte moves to the device's input once the previous one was taken.
Offer == IF write_odd = write_odd_request /\ write_head # write_tail
         THEN /\ write_tail' = Succ(write_tail)
              /\ io_data_write' = write_buf[write_tail]
         ELSE UNCHANGED <<write_tail, io_data_write>>

\* Mutant: the answer does not look at the ring.
RequestUnchecked == (SpacedWrites => ~write_ready) /\ write_ready' = TRUE

\* Request clock of an OUT (or no OUT): the answer looks at the ring as it is.
Request == /\ SpacedWrites => ~write_ready
           /\ write_ready' = ~Full

NoRequest == write_ready' = FALSE

\* Data clock of an OUT that was answered with write_ready.
Accept(b) == IF write_ready
             THEN /\ write_head' = IF Full THEN write_head ELSE Succ(write_head)
                  /\ write_buf' = [write_buf EXCEPT ![write_head] = b]
             ELSE UNCHANGED <<write_head, write_buf>>

\* The transmitter is idle, the line is clear to send and a byte is offered.
DeviceTake == /\ write_odd_request # write_odd
              /\ sent' = <<io_data_write>>
              /\ write_odd' = 1 - write_odd

DeviceWait == sent' = <<>> /\ UNCHANGED write_odd

Buffer == /\ Offer
          /\ Request \/ NoRequest
          /\ \E b \in Byte : Accept(b)

TakeClock == Buffer /\ DeviceTake
WaitClock == Buffer /\ DeviceWait

\* Mutant: the device keeps its acknowledge through a reset.
ResetKeepingOdd == /\ write_tail' = 0
                   /\ write_head' = 0
                   /\ write_ready' = FALSE
                   /\ sent' = <<>>
                   /\ UNCHANGED <<write_buf, io_data_write, write_odd>>

Reset == /\ write_tail' = 0
         /\ write_head' = 0
         /\ write_ready' = FALSE
         /\ write_odd' = 0
         /\ sent' = <<>>
         /\ UNCHANGED <<write_buf, io_data_write>>

Next == TakeClock \/ WaitClock \/ Reset

Spec == Init /\ [][Next]_vars

\* The clock never stops, and the transmitter, which needs a bounded number of
\* clocks per character while CTS# is low, does not wait for ever.
FairSpec == Spec /\ WF_vars(TakeClock) /\ WF_vars(WaitClock)

-----------------------------------------------------------------------------
StoredBytes == Contents(write_buf, write_head, write_tail)

Offered == write_odd # write_odd_request

Unsent == (IF Offered THEN <<io_data_write>> ELSE <<>>) \o StoredBytes

(***************************************************************************)
(* The transmit side is a byte queue: what the OUTs put in is what the     *)
(* transmitter takes, in order, nothing lost and nothing repeated.  The    *)
(* ring keeps Size - 1 bytes and io_data_write one more.                   *)
(***************************************************************************)
Fifo == INSTANCE ByteFifo WITH queue <- Unsent, out <- sent, Capacity <- Size

FifoSpec == Fifo!Spec

(***************************************************************************)
(* An OUT that was told "ready" finds room in its data clock: the answer,  *)
(* computed one clock earlier, is not stale.                               *)
(***************************************************************************)
ReadyMeansRoom == write_ready => ~Full

(***************************************************************************)
(* A byte in the ring leaves it: the offer and the acknowledge never wait  *)
(* for each other.  (A reset also empties the ring.)                       *)
(***************************************************************************)
RingDrains == (write_head # write_tail) ~> (sent # <<>> \/ write_head = write_tail)
=============================================================================
