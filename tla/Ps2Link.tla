------------------------------- MODULE Ps2Link -------------------------------
(***************************************************************************)
(* A PS/2 port of system_top.sv with a keyboard or a mouse on it.          *)
(*                                                                         *)
(* The device clocks every frame, its own and the controller's.  Each of   *)
(* its clock levels lasts MinHalf to MaxHalf clocks; it puts a bit of its  *)
(* own on the data line no later than the fall and holds it until the      *)
(* rise, and reads a bit of the controller's at the rise.  When it finds   *)
(* the clock held by the controller it leaves the frame.  It answers a     *)
(* held clock and a low data line by clocking the controller's frame, in   *)
(* time or not, and it may stop in the middle of any frame.                *)
(*                                                                         *)
(* A step is one posedge of the system clock for both of them.             *)
(***************************************************************************)
EXTENDS Ps2Controller

CONSTANTS MinHalf, MaxHalf,   \* shortest and longest level of the device's clock
          Prompt,             \* an answer within so many clocks is in time
          Cap                 \* bound of the model: the device counts no further

\* A window sees each level and the time-out does not cut a frame.  At 108 MHz a
\* keyboard's levels are 3240 to 5400 clocks, and Prompt is at most 23038.
ASSUME LinkAssumption ==
  /\ MinHalf \in Nat /\ MaxHalf \in Nat /\ Prompt \in Nat /\ Cap \in Nat
  /\ 3 * Half <= MinHalf /\ MinHalf <= MaxHalf
  /\ MaxHalf < (Hold - 1) * Window
  /\ (2 * MaxHalf) + Half + 2 < Timeout * Window
  /\ ((Hold - 1) * Window) + Prompt + Half + 1 < Timeout * Window
  /\ (Timeout * Window) + Window < Cap

VARIABLES mode,      \* "idle", "send" its frame, "take" the controller's
          n,         \* falls of this frame so far
          frame,     \* the bits it sends
          steady,    \* clocks since the clock line last changed, up to Cap
          first,     \* no whole window since the reset
          whole,     \* history: the controller was ready for this frame
          odd0,      \* history: read_odd when the frame began
          written    \* history: the byte of the last write

deviceVars == <<dev_clock, dev_data, mode, n, frame>>
vars == <<portVars, sampleVars, parity_read, busVars, deviceVars,
          steady, first, whole, odd0, written>>

Frames == {f \in [1 .. Last -> Bit] : f[1] = 0 /\ f[Last] = 1}
NoFrame == [i \in 1 .. Last |-> 1]

TypeOK == /\ ControllerTypes
          /\ dev_clock \in BOOLEAN /\ dev_data \in BOOLEAN
          /\ mode \in {"idle", "send", "take"} /\ n \in 0 .. Last
          /\ frame \in [1 .. Last -> Bit]
          /\ steady \in 0 .. Cap /\ first \in BOOLEAN /\ whole \in BOOLEAN
          /\ odd0 \in Bit /\ written \in Byte

Init == /\ PowerUp
        /\ dev_clock = FALSE /\ dev_data = FALSE
        /\ mode = "idle" /\ n = 0 /\ frame = NoFrame
        /\ steady = 0 /\ first = TRUE /\ whole = FALSE
        /\ odd0 = 0 /\ written = data_write

-----------------------------------------------------------------------------
\* The device between frames, or in the middle of a level.
Stay == /\ dev_clock => steady < MaxHalf
        /\ mode # "idle" /\ ~dev_clock => ClockLine /\ steady < MaxHalf
        /\ UNCHANGED deviceVars

MayFall == ClockLine /\ steady >= MinHalf

\* The first fall of a frame: the controller's if it asks for one.
BeginSend == /\ mode = "idle" /\ MayFall /\ DataLine
             /\ mode' = "send" /\ n' = 1
             /\ frame' \in Frames
             /\ dev_clock' = TRUE /\ dev_data' = TRUE

BeginTake == /\ mode = "idle" /\ MayFall /\ ~DataLine
             /\ mode' = "take" /\ n' = 1
             /\ dev_clock' = TRUE
             /\ UNCHANGED <<dev_data, frame>>

\* A later fall.  The device pulls the data line for a 0 of its frame, and for
\* its acknowledge at the last fall of the controller's.
Drives(k) == IF mode = "send" THEN frame[k] = 0 ELSE k = Last

Fall == /\ mode # "idle" /\ ~dev_clock /\ MayFall /\ steady <= MaxHalf
        /\ n' = n + 1
        /\ dev_clock' = TRUE /\ dev_data' = Drives(n + 1)
        /\ UNCHANGED <<mode, frame>>

\* A rise: it may already put the next bit on the line.
Rise == /\ dev_clock /\ steady >= MinHalf
        /\ dev_clock' = FALSE
        /\ IF n = Last
           THEN mode' = "idle" /\ n' = 0 /\ frame' = NoFrame /\ dev_data' = FALSE
           ELSE dev_data' \in {dev_data, Drives(n + 1)} /\ UNCHANGED <<mode, n, frame>>

\* It stops between two pulses: the controller holds the clock, or unplugged.
Leave == /\ mode # "idle" /\ ~dev_clock
         /\ mode' = "idle" /\ n' = 0 /\ frame' = NoFrame /\ dev_data' = FALSE
         /\ UNCHANGED dev_clock

Device == Stay \/ BeginSend \/ BeginTake \/ Fall \/ Rise \/ Leave

-----------------------------------------------------------------------------
Measure == steady' = IF ClockLine' # ClockLine THEN 0
                     ELSE IF steady < Cap THEN steady + 1 ELSE Cap

\* The controller listens for a frame of the device, or waits for its answer.
Listening == /\ ~first
             /\ IF DataLine THEN state = 0 /\ ~wr
                ELSE state = 1 /\ wr /\ steady <= Prompt

Watch == /\ whole' = IF mode = "idle" /\ mode' # "idle" THEN Listening
                     ELSE whole
         /\ odd0' = IF mode = "idle" THEN read_odd ELSE odd0
         /\ written' = IF wr' /\ ~wr THEN data_write ELSE written
         /\ first' = (first /\ counter # 0)

Tick == /\ Sample \/ WindowEnd
        /\ Bus /\ Device /\ Measure /\ Watch

\* The reset of the system does not reach the device.
Reset == /\ ResetRegisters
         /\ Device /\ Measure
         /\ whole' = FALSE /\ first' = TRUE
         /\ odd0' = IF mode = "idle" THEN read_odd ELSE odd0
         /\ UNCHANGED written

Next == Tick \/ Reset

Spec == Init /\ [][Next]_vars

\* The clock of the system never stops.
FairSpec == Spec /\ WF_vars(Tick)

-----------------------------------------------------------------------------
\* Falls of this frame the controller has acted on.
Seen == IF dev_clock /\ avg_clock THEN n - 1 ELSE n

ParityHolds == Ones(frame, 2 .. Last - 1) % 2 = 1

(***************************************************************************)
(* A frame that the device sends while the controller listens changes      *)
(* nothing before its stop bit, and at its stop bit the character comes in *)
(* exactly if its parity is odd: data_read is the device's byte, and       *)
(* read_odd has flipped once.  The controller holds the clock for a write  *)
(* of its own only while the frame has not got further than its first      *)
(* fall, so that the device, which then leaves the frame, still has the    *)
(* whole byte to send.                                                     *)
(***************************************************************************)
FrameTaken ==
  mode = "send" /\ whole =>
    /\ clock_out # 0 => n = 1
    /\ IF Seen < Last THEN read_odd = odd0
       ELSE /\ (read_odd # odd0) <=> ParityHolds
            /\ ParityHolds => data_read = [i \in 0 .. Bits - 1 |-> frame[i + 2]]
            /\ state = 0 /\ ~wr

\* The level a device finds at the k-th rise: the byte, its odd parity, a stop bit.
Due(k) == IF k <= Bits THEN written[k - 1] = 1
          ELSE k = Bits + 1 => Ones(written, 0 .. Bits - 1) % 2 = 0

(***************************************************************************)
(* A write that the device answers in time: at each rise of its clock the  *)
(* data line has the bit that is due of the byte that was written.         *)
(***************************************************************************)
DeviceReadsByte ==
  [][mode = "take" /\ whole /\ dev_clock /\ ~dev_clock' /\ n < Last
       => (DataLine <=> Due(n))]_vars

(***************************************************************************)
(* And the write ends at the last fall, not before and not after, and the  *)
(* controller does not hold the clock in the frame.                        *)
(***************************************************************************)
WriteEndsWithFrame ==
  mode = "take" /\ whole => (wr <=> Seen < Last) /\ clock_out = 0

(***************************************************************************)
(* However frames were broken off, by the device, by a reset or by a write *)
(* that nobody answered: once the line was quiet for Timeout windows and   *)
(* a half the controller is between frames again.                          *)
(***************************************************************************)
QuietLineRestores ==
  ClockLine /\ steady > (Timeout * Window) + Half
    => state = 0 /\ ~wr /\ (avg_clock \/ first)

(***************************************************************************)
(* An OUT that was told "ready" finds the last byte taken: it does not     *)
(* write over a byte the controller has still to send.                     *)
(***************************************************************************)
ReadyMeansTaken == write_ready => write_odd = write_odd_request

\* The device breaks a frame off although nobody holds the clock.
BreaksOff == mode # "idle" /\ ~dev_clock /\ mode' = "idle" /\ ClockLine

(***************************************************************************)
(* A byte that was accepted is begun to be sent (or a reset drops it): the *)
(* frames of a device that finishes them do not keep the port for ever.    *)
(* A device that breaks off its frames again and again may, if each next   *)
(* frame begins in the window in which the controller gives up the last.   *)
(***************************************************************************)
WriteBegins == []<><<BreaksOff>>_vars \/ []<>(write_odd = write_odd_request)
=============================================================================
