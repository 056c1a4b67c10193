-------------------------- MODULE SlowIOReadBuffer --------------------------
(***************************************************************************)
(* The receive half of slowIO_buffer.sv (READ_BUF_SIZE > 0) together with  *)
(* the end of a slow device that hands it bytes (serial_controller.sv,     *)
(* ps2_controller.sv) and the CPU end of the peripheral bus.               *)
(*                                                                         *)
(* The device announces a byte by flipping read_odd; the buffer compares   *)
(* it with the low bit of read_head, so the index parity is the            *)
(* acknowledge.  One step is one rising edge of the system clock: the      *)
(* buffer, the device and the bus registers all take their new value.      *)
(***************************************************************************)
EXTENDS Ring

CONSTANTS Zero,         \* the byte 0, which the bus shows when it is not read
          HonoursStop   \* the sender stops when try_stop_reading is raised
                        \* (the serial port's RTS); a PS/2 device does not

ASSUME ReadBufferAssumption ==
  Size % 2 = 0 /\ Zero \in Byte /\ HonoursStop \in BOOLEAN

VARIABLES read_buf, read_head, read_tail,   \* the ring
          data_read, read_ready,            \* registers of the peripheral bus
          read_odd, io_data_read            \* registers of the device

bufferVars == <<read_buf, read_head, read_tail, data_read, read_ready>>
deviceVars == <<read_odd, io_data_read>>
vars == <<bufferVars, deviceVars>>

TypeOK == /\ read_buf \in [Index -> Byte]
          /\ read_head \in Index
          /\ read_tail \in Index
          /\ data_read \in Byte
          /\ read_ready \in BOOLEAN
          /\ read_odd \in {0, 1}
          /\ io_data_read \in Byte

try_stop_reading == Succ(read_head) = read_tail

\* The device has flipped read_odd and the buffer has not taken the byte yet.
Announced == read_odd # read_head % 2

Init == /\ read_buf = [i \in Index |-> Zero]
        /\ read_head = 0
        /\ read_tail = 0
        /\ data_read = Zero
        /\ read_ready = FALSE
        /\ read_odd = 0
        /\ io_data_read = Zero

-----------------------------------------------------------------------------
\* The buffer takes an announced byte.  There is no test for a full ring.
Store == IF Announced
         THEN /\ read_head' = Succ(read_head)
              /\ read_buf' = [read_buf EXCEPT ![read_head] = io_data_read]
         ELSE UNCHANGED <<read_head, read_buf>>

\* Mutant: the tail moves on although nothing is there.
BusReadUnchecked == /\ data_read' = read_buf[read_tail]
                    /\ read_ready' = (read_tail # read_head)
                    /\ read_tail' = Succ(read_tail)

\* The CPU executes IN: the oldest byte goes to the bus, if there is one.
BusRead == /\ data_read' = read_buf[read_tail]
           /\ read_ready' = (read_tail # read_head)
           /\ read_tail' = IF read_tail # read_head THEN Succ(read_tail)
                                                   ELSE read_tail

BusIdle == /\ data_read' = Zero
           /\ read_ready' = FALSE
           /\ UNCHANGED read_tail

\* A character is complete.  Characters are many clocks apart, so the previous
\* one has been taken; a sender that honours the stop line started this one
\* while the line was low, and only reads have happened since.
DeviceReceive(b) == /\ ~Announced
                    /\ HonoursStop => ~try_stop_reading
                    /\ io_data_read' = b
                    /\ read_odd' = 1 - read_odd

DeviceIdle == UNCHANGED deviceVars

Device == (\E b \in Byte : DeviceReceive(b)) \/ DeviceIdle

ReadClock == Store /\ BusRead /\ Device
IdleClock == Store /\ BusIdle /\ Device

\* protected_reset reaches the buffer and the device in the same clock.
Reset == /\ read_head' = 0
         /\ read_tail' = 0
         /\ read_ready' = FALSE
         /\ read_odd' = 0
         /\ UNCHANGED <<read_buf, data_read, io_data_read>>

Next == ReadClock \/ IdleClock \/ Reset

Spec == Init /\ [][Next]_vars

-----------------------------------------------------------------------------
StoredBytes == Contents(read_buf, read_head, read_tail)

Unread == StoredBytes \o (IF Announced THEN <<io_data_read>> ELSE <<>>)

(***************************************************************************)
(* The receive side is a byte queue: every byte the device received is     *)
(* delivered by an IN exactly once and in order.  A ring of Size entries   *)
(* keeps Size - 1 bytes.                                                   *)
(***************************************************************************)
Fifo == INSTANCE ByteFifo
          WITH queue <- Unread,
               out <- IF read_ready THEN <<data_read>> ELSE <<>>,
               Capacity <- Size - 1

FifoSpec == Fifo!Spec
=============================================================================
