---------------------------- MODULE Ps2Controller ----------------------------
(***************************************************************************)
(* ps2_controller.sv: the controller of one PS/2 port, with the write half *)
(* of its slowIO_buffer.sv, which has no ring (WRITE_BUF_SIZE = 0).        *)
(*                                                                         *)
(* The clock and the data line are open-collector: a line is high unless   *)
(* the controller or the device pulls it low.  The controller looks at     *)
(* both through windows of 2 * Half clocks, takes the majority of a        *)
(* window's samples for the level, and acts at the end of a window only.   *)
(*                                                                         *)
(* Every operator below is a part of one posedge: registers and lines are  *)
(* read unprimed.  The device is in Ps2Link.                               *)
(***************************************************************************)
EXTENDS Integers, FiniteSets

CONSTANTS Half,      \* half a window: 512 clocks (bit 9 of the sums)
          Bits,      \* data bits of a character: 8
          Timeout,   \* values of reset_counter: 32
          Hold,      \* windows for which a write holds the clock line: 10
          SpacedWrites   \* the program leaves a clock after an OUT that succeeded

Window == 2 * Half
Last == Bits + 3     \* bits of a frame, and the highest index of data
Bit == {0, 1}
Byte == [0 .. Bits - 1 -> Bit]

ASSUME ControllerAssumption ==
  /\ Half \in Nat \ {0} /\ Bits \in Nat \ {0} /\ Last < 16
  /\ Timeout \in Nat /\ Hold \in Nat /\ 1 < Hold /\ Hold < Timeout
  /\ SpacedWrites \in BOOLEAN

VARIABLES wr, state, data, clock_out, reset_counter, read_odd, write_odd,
          counter, sum_clock, sum_data, avg_clock, parity_read,
          write_odd_request, data_write, write_ready,   \* slowIO_buffer
          dev_clock, dev_data     \* TRUE: the device pulls the line low

portVars == <<wr, state, data, clock_out, reset_counter, read_odd, write_odd>>
sampleVars == <<counter, sum_clock, sum_data, avg_clock>>
busVars == <<write_odd_request, data_write, write_ready>>

ClockLine == clock_out = 0 /\ ~dev_clock
DataLine == ~(wr /\ data[0] = 0) /\ ~dev_data

Ones(f, S) == Cardinality({i \in S : f[i] = 1})

\* Mutant: the parity bit of an even parity.
OutEven(b) == [i \in 0 .. Last |->
                 IF i \in 2 .. Bits + 1 THEN b[i - 2]
                 ELSE IF i = Bits + 2 THEN Ones(b, 0 .. Bits - 1) % 2
                 ELSE IF i = 1 THEN 0 ELSE 1]

\* What a write shifts out, lowest index first: a released line while the clock
\* is held, the start bit, the byte, its odd parity, the stop bit.
Out(b) == [i \in 0 .. Last |->
             IF i \in 2 .. Bits + 1 THEN b[i - 2]
             ELSE IF i = Bits + 2 THEN 1 - (Ones(b, 0 .. Bits - 1) % 2)
             ELSE IF i = 1 THEN 0 ELSE 1]

data_read == [i \in 0 .. Bits - 1 |-> data[i + 2]]

ControllerTypes ==
  /\ wr \in BOOLEAN /\ state \in 0 .. Last /\ data \in [0 .. Last -> Bit]
  /\ clock_out \in 0 .. Hold /\ reset_counter \in 0 .. Timeout - 1
  /\ read_odd \in Bit /\ write_odd \in Bit
  /\ counter \in 0 .. Window - 1 /\ sum_clock \in 0 .. Window - 1
  /\ sum_data \in 0 .. Window - 1 /\ avg_clock \in BOOLEAN /\ parity_read \in Bit
  /\ write_odd_request \in Bit /\ data_write \in Byte /\ write_ready \in BOOLEAN

ResetRegisters == /\ wr' = FALSE /\ state' = 0 /\ data' = [i \in 0 .. Last |-> 0]
                  /\ clock_out' = 0 /\ reset_counter' = 0
                  /\ read_odd' = 0 /\ write_odd' = 0
                  /\ counter' = 1 /\ sum_clock' = 0 /\ sum_data' = 0
                  /\ avg_clock' = TRUE
                  /\ write_odd_request' = 0 /\ write_ready' = FALSE
                  /\ UNCHANGED <<parity_read, data_write>>

PowerUp == /\ wr = FALSE /\ state = 0 /\ data = [i \in 0 .. Last |-> 0]
           /\ clock_out = 0 /\ reset_counter = 0
           /\ read_odd = 0 /\ write_odd = 0
           /\ counter = 1 /\ sum_clock = 0 /\ sum_data = 0
           /\ avg_clock = TRUE /\ parity_read = 0
           /\ write_odd_request = 0 /\ write_ready = FALSE
           /\ data_write = [i \in 0 .. Bits - 1 |-> 0]

-----------------------------------------------------------------------------
\* A posedge within a window: both lines are sampled.
Sample == /\ counter # 0
          /\ counter' = (counter + 1) % Window
          /\ sum_clock' = IF ClockLine THEN (sum_clock + 1) % Window ELSE sum_clock
          /\ sum_data' = IF DataLine THEN (sum_data + 1) % Window ELSE sum_data
          /\ UNCHANGED <<portVars, avg_clock, parity_read>>

High == sum_clock >= Half                  \* the majority of this window
DataHigh == sum_data >= Half

Released == IF clock_out = 0 THEN 0 ELSE clock_out - 1

MayStart == write_odd # write_odd_request /\ state = 0 /\ ~wr /\ High

\* A byte waits, and the line is quiet: hold the clock and load the frame.
StartWrite == /\ MayStart
              /\ write_odd' = 1 - write_odd
              /\ clock_out' = Hold
              /\ wr' = TRUE
              /\ data' = Out(data_write)
              /\ reset_counter' = 0
              /\ UNCHANGED <<state, read_odd, parity_read>>

\* Mutant: the parity of the last character goes on.
ParityKept == IF DataHigh THEN 1 - parity_read ELSE parity_read
Parity == IF state = 0 THEN 0
          ELSE IF DataHigh THEN 1 - parity_read ELSE parity_read

\* The level of the clock fell: one bit in at the top, one bit out at the bottom.
\* The character is taken at its stop bit when the parity before it is odd.
FallingEdge ==
  /\ avg_clock /\ ~High
  /\ data' = [i \in 0 .. Last |-> IF i = Last THEN (IF DataHigh THEN 1 ELSE 0)
                                  ELSE data[i + 1]]
  /\ parity_read' = Parity
  /\ \/ /\ state = Last - 1 /\ ~wr
        /\ read_odd' = IF parity_read = 1 THEN 1 - read_odd ELSE read_odd
        /\ state' = 0
        /\ UNCHANGED wr
     \/ /\ state = Last /\ wr
        /\ state' = 0
        /\ wr' = FALSE
        /\ UNCHANGED read_odd
     \/ /\ ~(state = Last - 1 /\ ~wr) /\ ~(state = Last /\ wr)
        /\ state' = (state + 1) % 16
        /\ UNCHANGED <<wr, read_odd>>
  /\ reset_counter' = 0
  /\ clock_out' = Released
  /\ UNCHANGED write_odd

\* Mutants: a write is given up too early, a frame never.
TimedOutEarly == reset_counter >= Hold
TimedOutNever == FALSE
TimedOut == reset_counter = Timeout - 1

\* No edge: after Timeout windows without one the frame is given up.
Quiet == /\ ~MayStart /\ ~(avg_clock /\ ~High)
         /\ reset_counter' = (reset_counter + 1) % Timeout
         /\ IF TimedOut THEN state' = 0 /\ wr' = FALSE ELSE UNCHANGED <<state, wr>>
         /\ clock_out' = Released
         /\ UNCHANGED <<data, read_odd, write_odd, parity_read>>

WindowEnd == /\ counter = 0
             /\ counter' = 1
             /\ sum_clock' = 0 /\ sum_data' = 0
             /\ avg_clock' = High
             /\ StartWrite \/ FallingEdge \/ Quiet

-----------------------------------------------------------------------------
\* An OUT to the port: the answer is computed in the request clock ...
Request == /\ SpacedWrites => ~write_ready
           /\ write_ready' = (write_odd_request = write_odd)

NoRequest == write_ready' = FALSE

\* ... and the byte comes in the next.
Accept == IF write_ready
          THEN /\ write_odd_request' = 1 - write_odd_request
               /\ data_write' \in Byte
          ELSE UNCHANGED <<write_odd_request, data_write>>

Bus == (Request \/ NoRequest) /\ Accept
=============================================================================
