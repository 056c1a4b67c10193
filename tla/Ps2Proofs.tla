------------------------------ MODULE Ps2Proofs ------------------------------
(***************************************************************************)
(* What module Ps2Link says of a PS/2 port, for every size of window,      *)
(* character, time-out and hold, and every device whose levels keep        *)
(* LinkAssumption.                                                         *)
(*                                                                         *)
(* None of its invariants is inductive: each depends on what the           *)
(* controller can know of a line that it sees through windows.  FrameInv   *)
(* says it in three layers:                                                *)
(*   LineInv   the samples of a window follow from the level of the clock  *)
(*             line and its age, avg_clock is the level from a window's    *)
(*             majority on, and a write holds the clock in two phases,     *)
(*             each as long as clock_out says;                             *)
(*   QuietInv, how long the time-out has run (Elapsed) against how long    *)
(*   Answer    the line has been still;                                    *)
(*   SendInv,  the bits of a frame that the controller has seen (Seen)     *)
(*   TakeInv   against its registers, and that no time-out falls into it.  *)
(* The argument about a step is always the same: a level lasts longer than *)
(* a window and a half, so between two changes of the line the controller  *)
(* acts exactly once on the first (SeenKept, SeenAtEdge).                  *)
(*                                                                         *)
(* Products are kept behind Span(windows), for which SpanNat and SpanUp    *)
(* are all that is used.                                                   *)
(***************************************************************************)
EXTENDS Ps2Link, FiniteSetTheorems, TLAPS

\* Samples taken in this window.
K == IF counter = 0 THEN Window - 1 ELSE counter - 1

Span(windows) == windows * Window

\* Clocks since reset_counter was cleared.
Elapsed == Span(reset_counter) + K

Within(a, b) == IF a < b THEN a ELSE b

StateFits == ~wr => state < Last

DeviceFits ==
  /\ (mode = "idle") <=> (n = 0)
  /\ mode = "idle" => ~dev_clock /\ ~dev_data
  /\ mode # "idle" /\ ~dev_clock => n < Last
  /\ mode = "send" => frame[1] = 0 /\ frame[Last] = 1
  /\ mode = "take" /\ dev_clock => (dev_data <=> n = Last)
  /\ mode = "send" /\ dev_clock => (dev_data <=> frame[n] = 0)

SumFits == sum_clock <= K /\ sum_data <= K

-----------------------------------------------------------------------------
LEMMA Sizes ==
  /\ Half \in Nat /\ Half >= 1 /\ Window \in Nat /\ Window = Half + Half /\ Window >= 2
  /\ Bits \in Nat /\ Bits >= 1 /\ Last \in Nat /\ Last = Bits + 3 /\ Last < 16 /\ Last >= 4
  /\ Timeout \in Nat /\ Hold \in Nat /\ 1 < Hold /\ Hold < Timeout
BY ControllerAssumption DEF Window, Last

LEMMA SpanNat == \A r \in Int : Span(r) \in Int /\ Span(r + 1) = Span(r) + Window
BY Sizes DEF Span

LEMMA SpanUp == \A r, s \in Int : r <= s => Span(r) <= Span(s)
<1> SUFFICES ASSUME NEW r \in Int, NEW s \in Int, r <= s PROVE Span(r) <= Span(s)
  OBVIOUS
<1>1. (s - r) * Window >= 0
  BY Sizes
<1>2. (s - r) * Window = (s * Window) - (r * Window)
  BY Sizes
<1> QED BY <1>1, <1>2, Sizes DEF Span

LEMMA SpanZero == Span(0) = 0 /\ Span(1) = Window
BY Sizes DEF Span

LEMMA Levels ==
  /\ MinHalf \in Nat /\ MaxHalf \in Nat /\ Prompt \in Nat /\ Cap \in Nat
  /\ MinHalf >= Half + Window /\ MinHalf <= MaxHalf
  /\ MaxHalf < Span(Hold - 1)
  /\ MaxHalf + MaxHalf + Half + 2 < Span(Timeout)
  /\ Span(Hold - 1) + Prompt + Half + 1 < Span(Timeout)
  /\ Span(Timeout) + Window < Cap
  /\ \A r \in Int : Span(r) \in Int
<1>1. 2 * MaxHalf = MaxHalf + MaxHalf /\ 3 * Half = Half + Window
  BY Sizes, LinkAssumption
<1> QED BY <1>1, LinkAssumption, SpanNat, Sizes DEF Span

LEMMA KNat == ASSUME TypeOK PROVE K \in 0 .. Window - 1
BY Sizes DEF TypeOK, ControllerTypes, K

LEMMA OutType == ASSUME NEW b \in Byte PROVE Out(b) \in [0 .. Last -> Bit]
<1>1. Cardinality({i \in 0 .. Bits - 1 : b[i] = 1}) \in Nat
  <2>1. IsFiniteSet({i \in 0 .. Bits - 1 : b[i] = 1})
    <3>1. IsFiniteSet(0 .. Bits - 1)
      BY FS_Interval, Sizes
    <3> QED BY <3>1, FS_Subset
  <2> QED BY <2>1, FS_CardinalityType
<1>2. 1 - (Ones(b, 0 .. Bits - 1) % 2) \in Bit
  <2> DEFINE c == Ones(b, 0 .. Bits - 1)
  <2>1. c \in Nat
    BY <1>1 DEF Ones
  <2> HIDE DEF c
  <2>2. c % 2 \in {0, 1}
    BY <2>1
  <2> QED BY <2>2 DEF Bit, c
<1>3. \A i \in 2 .. Bits + 1 : b[i - 2] \in Bit
  BY Sizes DEF Byte
<1> DEFINE p == 1 - (Ones(b, 0 .. Bits - 1) % 2)
<1> HIDE DEF p
<1>4. [i \in 0 .. Last |-> IF i \in 2 .. Bits + 1 THEN b[i - 2]
             ELSE IF i = Bits + 2 THEN p ELSE IF i = 1 THEN 0 ELSE 1] \in [0 .. Last -> Bit]
  BY <1>2, <1>3 DEF Bit, p
<1> QED BY <1>4 DEF Out, p

-----------------------------------------------------------------------------
(* The window: a sample adds one, the end begins a new one.                 *)

LEMMA SampleWindow ==
  ASSUME TypeOK, Sample
  PROVE  K' = K + 1 /\ K + 1 <= Window - 1 /\ counter' \in 0 .. Window - 1 /\ counter # 0
<1>1. CASE counter = Window - 1
  <2>1. (counter + 1) % Window = 0
    BY <1>1, Sizes
  <2> QED BY <1>1, <2>1, Sizes DEF TypeOK, ControllerTypes, Sample, K
<1>2. CASE counter < Window - 1
  <2>1. (counter + 1) % Window = counter + 1
    BY <1>2, Sizes DEF TypeOK, ControllerTypes
  <2> QED BY <1>2, <2>1, Sizes DEF TypeOK, ControllerTypes, Sample, K
<1> QED BY <1>1, <1>2, Sizes DEF TypeOK, ControllerTypes

LEMMA EndWindow ==
  ASSUME WindowEnd
  PROVE  K = Window - 1 /\ K' = 0 /\ counter' = 1 /\ sum_clock' = 0 /\ sum_data' = 0
BY Sizes DEF WindowEnd, K

LEMMA ResetWindow ==
  ASSUME Reset
  PROVE  K' = 0 /\ counter' = 1 /\ sum_clock' = 0 /\ sum_data' = 0
BY Sizes DEF Reset, ResetRegisters, K

-----------------------------------------------------------------------------
(* Types.  The two sums fit because they do not exceed the samples taken,   *)
(* and state because a frame that is received ends one fall earlier.        *)

LEMMA SampleSums ==
  ASSUME TypeOK, SumFits, Sample
  PROVE  /\ sum_clock' = IF ClockLine THEN sum_clock + 1 ELSE sum_clock
         /\ sum_data' = IF DataLine THEN sum_data + 1 ELSE sum_data
         /\ sum_clock' \in 0 .. Window - 1 /\ sum_data' \in 0 .. Window - 1
         /\ SumFits'
<1>1. \A s \in 0 .. Window - 2 : (s + 1) % Window = s + 1
  BY Sizes
<1>2. sum_clock \in 0 .. Window - 2 /\ sum_data \in 0 .. Window - 2
  BY SampleWindow, KNat, Sizes DEF TypeOK, ControllerTypes, SumFits
<1>3. /\ sum_clock' = IF ClockLine THEN sum_clock + 1 ELSE sum_clock
      /\ sum_data' = IF DataLine THEN sum_data + 1 ELSE sum_data
  BY <1>1, <1>2 DEF Sample
<1> QED BY <1>2, <1>3, SampleWindow, KNat, Sizes DEF SumFits

LEMMA SampleKeeps ==
  ASSUME Sample
  PROVE  /\ UNCHANGED <<wr, state, data, clock_out, reset_counter, read_odd, write_odd>>
         /\ UNCHANGED <<avg_clock, parity_read>>
BY DEF Sample, portVars

LEMMA StartTypes ==
  ASSUME TypeOK, StartWrite
  PROVE  /\ wr' = TRUE /\ state' = 0 /\ data' = Out(data_write)
         /\ data' \in [0 .. Last -> Bit] /\ clock_out' = Hold
         /\ reset_counter' = 0 /\ read_odd' = read_odd /\ write_odd' \in Bit
         /\ parity_read' = parity_read
BY OutType, Sizes DEF TypeOK, ControllerTypes, StartWrite, MayStart, Bit

LEMMA ReleasedType ==
  ASSUME TypeOK
  PROVE  Released \in 0 .. Hold
BY Sizes DEF TypeOK, ControllerTypes, Released

LEMMA EdgeTypes ==
  ASSUME TypeOK, StateFits, FallingEdge
  PROVE  /\ wr' \in BOOLEAN /\ state' \in 0 .. Last /\ data' \in [0 .. Last -> Bit]
         /\ clock_out' \in 0 .. Hold /\ reset_counter' = 0 /\ read_odd' \in Bit
         /\ write_odd' = write_odd /\ parity_read' \in Bit /\ StateFits'
<1>1. data' \in [0 .. Last -> Bit]
  BY Sizes DEF TypeOK, ControllerTypes, FallingEdge, Bit
<1>2. parity_read' \in Bit
  BY DEF TypeOK, ControllerTypes, FallingEdge, Parity, Bit
<1>3. CASE state = Last - 1 /\ ~wr
  <2>1. state' = 0 /\ wr' = wr /\ read_odd' = IF parity_read = 1 THEN 1 - read_odd ELSE read_odd
    BY <1>3, Sizes DEF FallingEdge
  <2> QED BY <1>1, <1>2, <1>3, <2>1, ReleasedType, Sizes
          DEF TypeOK, ControllerTypes, FallingEdge, Bit, StateFits
<1>4. CASE state = Last /\ wr
  <2>1. state' = 0 /\ wr' = FALSE /\ read_odd' = read_odd
    BY <1>4, Sizes DEF FallingEdge
  <2>2. wr' \in BOOLEAN
    BY <2>1
  <2>3. state' \in 0 .. Last /\ StateFits' /\ read_odd' \in Bit
    BY <2>1, Sizes DEF TypeOK, ControllerTypes, StateFits
  <2>4. clock_out' \in 0 .. Hold /\ reset_counter' = 0 /\ write_odd' = write_odd
    BY ReleasedType DEF FallingEdge
  <2> QED BY <1>1, <1>2, <2>2, <2>3, <2>4
<1>5. CASE ~(state = Last - 1 /\ ~wr) /\ ~(state = Last /\ wr)
  <2>1. state' = (state + 1) % 16 /\ wr' = wr /\ read_odd' = read_odd
    BY <1>5 DEF FallingEdge
  <2>2. state + 1 \in 0 .. Last /\ (~wr => state + 1 < Last)
    BY <1>5, Sizes DEF TypeOK, ControllerTypes, StateFits
  <2>3. state' = state + 1
    BY <2>1, <2>2, Sizes
  <2> QED BY <1>1, <1>2, <2>1, <2>2, <2>3, ReleasedType
          DEF TypeOK, ControllerTypes, FallingEdge, StateFits
<1> QED BY <1>3, <1>4, <1>5

LEMMA QuietTypes ==
  ASSUME TypeOK, StateFits, Quiet
  PROVE  /\ wr' \in BOOLEAN /\ state' \in 0 .. Last /\ data' = data
         /\ clock_out' \in 0 .. Hold /\ reset_counter' \in 0 .. Timeout - 1
         /\ read_odd' = read_odd /\ write_odd' = write_odd /\ parity_read' = parity_read
         /\ reset_counter < Timeout - 1 => /\ reset_counter' = reset_counter + 1
                                           /\ UNCHANGED <<state, wr>>
         /\ reset_counter = Timeout - 1 => state' = 0 /\ wr' = FALSE /\ reset_counter' = 0
         /\ StateFits'
<1>1. /\ reset_counter < Timeout - 1 => reset_counter' = reset_counter + 1
      /\ reset_counter = Timeout - 1 => reset_counter' = 0
  <2>1. \A r \in 0 .. Timeout - 2 : (r + 1) % Timeout = r + 1
    BY Sizes
  <2>2. (Timeout - 1 + 1) % Timeout = 0
    BY Sizes
  <2> QED BY <2>1, <2>2, Sizes DEF TypeOK, ControllerTypes, Quiet
<1>2. /\ reset_counter < Timeout - 1 => UNCHANGED <<state, wr>>
      /\ reset_counter = Timeout - 1 => state' = 0 /\ wr' = FALSE
  BY Sizes DEF TypeOK, ControllerTypes, Quiet, TimedOut, MayStart
<1>3. reset_counter < Timeout - 1 \/ reset_counter = Timeout - 1
  BY Sizes DEF TypeOK, ControllerTypes
<1>4. wr' \in BOOLEAN
  BY <1>2, <1>3 DEF TypeOK, ControllerTypes
<1>5. state' \in 0 .. Last /\ StateFits' /\ reset_counter' \in 0 .. Timeout - 1
  BY <1>1, <1>2, <1>3, Sizes DEF TypeOK, ControllerTypes, StateFits
<1>6. /\ clock_out' \in 0 .. Hold /\ data' = data
      /\ read_odd' = read_odd /\ write_odd' = write_odd /\ parity_read' = parity_read
  BY ReleasedType DEF Quiet
<1> QED BY <1>1, <1>2, <1>4, <1>5, <1>6

LEMMA ControllerStep ==
  ASSUME TypeOK, StateFits, SumFits, Sample \/ WindowEnd, Bus
  PROVE  ControllerTypes' /\ StateFits' /\ SumFits'
<1>1. write_odd_request' \in Bit /\ data_write' \in Byte /\ write_ready' \in BOOLEAN
  <2>1. write_ready' \in BOOLEAN
    BY DEF Bus, Request, NoRequest
  <2> QED BY <2>1 DEF TypeOK, ControllerTypes, Bus, Accept, Bit
<1>2. CASE Sample
  <2>1. StateFits'
    BY <1>2, SampleKeeps DEF StateFits
  <2>2. ControllerTypes' /\ SumFits'
    BY <1>1, <1>2, SampleKeeps, SampleSums, SampleWindow DEF TypeOK, ControllerTypes
  <2> QED BY <2>1, <2>2
<1>3. CASE WindowEnd
  <2>1. avg_clock' \in BOOLEAN
    BY <1>3 DEF WindowEnd, High
  <2>2. counter' \in 0 .. Window - 1 /\ sum_clock' \in 0 .. Window - 1 /\ sum_data' \in 0 .. Window - 1
        /\ SumFits'
    BY <1>3, EndWindow, Sizes DEF SumFits
  <2>3. CASE StartWrite
    <3>1. wr' \in BOOLEAN
      BY <2>3, StartTypes
    <3>2. StateFits' /\ state' \in 0 .. Last /\ clock_out' \in 0 .. Hold
          /\ reset_counter' \in 0 .. Timeout - 1
      BY <2>3, StartTypes, Sizes DEF StateFits
    <3>3. data' \in [0 .. Last -> Bit] /\ read_odd' \in Bit /\ write_odd' \in Bit
          /\ parity_read' \in Bit
      BY <2>3, StartTypes DEF TypeOK, ControllerTypes
    <3> QED BY <1>1, <2>1, <2>2, <3>1, <3>2, <3>3 DEF ControllerTypes
  <2>4. CASE FallingEdge
    BY <1>1, <2>1, <2>2, <2>4, EdgeTypes, Sizes DEF TypeOK, ControllerTypes
  <2>5. CASE Quiet
    BY <1>1, <2>1, <2>2, <2>5, QuietTypes DEF TypeOK, ControllerTypes
  <2> QED BY <1>3, <2>3, <2>4, <2>5 DEF WindowEnd
<1> QED BY <1>2, <1>3

LEMMA ResetStep ==
  ASSUME TypeOK, Reset
  PROVE  ControllerTypes' /\ StateFits' /\ SumFits'
<1>1. /\ wr' = FALSE /\ state' = 0 /\ data' = [i \in 0 .. Last |-> 0]
      /\ clock_out' = 0 /\ reset_counter' = 0 /\ read_odd' = 0 /\ write_odd' = 0
      /\ avg_clock' = TRUE /\ parity_read' = parity_read
      /\ write_odd_request' = 0 /\ data_write' = data_write /\ write_ready' = FALSE
  BY DEF Reset, ResetRegisters
<1>2. wr' \in BOOLEAN /\ avg_clock' \in BOOLEAN /\ write_ready' \in BOOLEAN
  BY <1>1
<1>3. StateFits' /\ SumFits' /\ counter' \in 0 .. Window - 1
      /\ sum_clock' \in 0 .. Window - 1 /\ sum_data' \in 0 .. Window - 1
      /\ state' \in 0 .. Last /\ clock_out' \in 0 .. Hold
      /\ reset_counter' \in 0 .. Timeout - 1 /\ read_odd' \in Bit
      /\ write_odd' \in Bit /\ write_odd_request' \in Bit
  BY <1>1, ResetWindow, Sizes DEF StateFits, SumFits, Bit
<1>4. data' \in [0 .. Last -> Bit] /\ parity_read' \in Bit /\ data_write' \in Byte
  BY <1>1 DEF TypeOK, ControllerTypes, Bit
<1> QED BY <1>2, <1>3, <1>4 DEF ControllerTypes

-----------------------------------------------------------------------------
(* The device.                                                              *)

DeviceTypes == /\ dev_clock \in BOOLEAN /\ dev_data \in BOOLEAN
               /\ mode \in {"idle", "send", "take"} /\ n \in 0 .. Last
               /\ frame \in [1 .. Last -> Bit]

LEMMA NoFrameType == NoFrame \in [1 .. Last -> Bit]
BY Sizes DEF NoFrame, Bit

LEMMA DeviceStep ==
  ASSUME DeviceTypes, DeviceFits, Device
  PROVE  DeviceTypes' /\ DeviceFits'
<1>1. CASE Stay
  <2>1. UNCHANGED <<dev_clock, dev_data, mode, n, frame>>
    BY <1>1 DEF Stay, deviceVars
  <2> QED BY <2>1 DEF DeviceTypes, DeviceFits
<1>2. CASE BeginSend
  <2>1. /\ mode' = "send" /\ n' = 1 /\ dev_clock' = TRUE /\ dev_data' = TRUE
        /\ frame' \in [1 .. Last -> Bit] /\ frame'[1] = 0 /\ frame'[Last] = 1
    BY <1>2 DEF BeginSend, Frames
  <2>2. DeviceTypes'
    BY <2>1, Sizes DEF DeviceTypes
  <2> QED BY <2>1, <2>2, Sizes DEF DeviceFits
<1>3. CASE BeginTake
  <2>1. /\ mode = "idle" /\ mode' = "take" /\ n' = 1 /\ dev_clock' = TRUE
        /\ dev_data' = dev_data /\ frame' = frame
    BY <1>3 DEF BeginTake
  <2>2. DeviceTypes'
    BY <2>1, Sizes DEF DeviceTypes
  <2> QED BY <2>1, <2>2, Sizes DEF DeviceFits
<1>4. CASE Fall
  <2>1. /\ mode # "idle" /\ ~dev_clock /\ n' = n + 1 /\ dev_clock' = TRUE
        /\ dev_data' = Drives(n + 1) /\ mode' = mode /\ frame' = frame
    BY <1>4 DEF Fall
  <2>2. dev_data' \in BOOLEAN /\ dev_clock' \in BOOLEAN
    BY <2>1 DEF Drives
  <2>3. n \in 1 .. Last - 1 /\ n' \in 2 .. Last
    BY <2>1, Sizes DEF DeviceTypes, DeviceFits
  <2>4. DeviceTypes'
    BY <2>1, <2>2, <2>3, Sizes DEF DeviceTypes
  <2>5. mode = "send" => (dev_data' <=> frame[n'] = 0)
    BY <2>1 DEF Drives
  <2>6. mode = "take" => (dev_data' <=> n' = Last)
    BY <2>1 DEF Drives
  <2>7. mode' = "send" => frame'[1] = 0 /\ frame'[Last] = 1
    BY <2>1 DEF DeviceFits
  <2> QED BY <2>1, <2>3, <2>4, <2>5, <2>6, <2>7, Sizes DEF DeviceFits
<1>5. CASE Rise /\ n = Last
  <2>1. /\ mode' = "idle" /\ n' = 0 /\ frame' = NoFrame /\ dev_data' = FALSE
        /\ dev_clock' = FALSE
    BY <1>5 DEF Rise
  <2>2. DeviceTypes'
    <3>1. dev_data' \in BOOLEAN /\ dev_clock' \in BOOLEAN
      BY <2>1 DEF DeviceTypes
    <3>2. mode' \in {"idle", "send", "take"} /\ n' \in 0 .. Last /\ frame' \in [1 .. Last -> Bit]
      BY <2>1, NoFrameType, Sizes
    <3> QED BY <3>1, <3>2 DEF DeviceTypes
  <2> QED BY <2>1, <2>2 DEF DeviceFits
<1>6. CASE Rise /\ n # Last
  <2>1. /\ dev_clock /\ dev_clock' = FALSE /\ dev_data' \in {dev_data, Drives(n + 1)}
        /\ mode' = mode /\ n' = n /\ frame' = frame
    BY <1>6 DEF Rise
  <2>2. dev_data' \in BOOLEAN /\ dev_clock' \in BOOLEAN
    BY <2>1 DEF Drives, DeviceTypes
  <2>3. DeviceTypes'
    BY <2>1, <2>2 DEF DeviceTypes
  <2>4. mode # "idle" /\ n < Last
    BY <1>6, <2>1, Sizes DEF DeviceFits, DeviceTypes
  <2> QED BY <2>1, <2>3, <2>4 DEF DeviceFits
<1>7. CASE Leave
  <2>1. /\ mode' = "idle" /\ n' = 0 /\ frame' = NoFrame /\ dev_data' = FALSE
        /\ ~dev_clock /\ dev_clock' = dev_clock
    BY <1>7 DEF Leave
  <2>2. DeviceTypes'
    <3>1. dev_data' \in BOOLEAN /\ dev_clock' \in BOOLEAN
      BY <2>1 DEF DeviceTypes
    <3>2. mode' \in {"idle", "send", "take"} /\ n' \in 0 .. Last /\ frame' \in [1 .. Last -> Bit]
      BY <2>1, NoFrameType, Sizes
    <3> QED BY <3>1, <3>2 DEF DeviceTypes
  <2> QED BY <2>1, <2>2 DEF DeviceFits
<1> QED BY <1>1, <1>2, <1>3, <1>4, <1>5, <1>6, <1>7 DEF Device

LEMMA MeasureStep ==
  ASSUME steady \in 0 .. Cap, Measure
  PROVE  /\ steady' \in 0 .. Cap
         /\ ~(ClockLine' <=> ClockLine) => steady' = 0
         /\ (ClockLine' <=> ClockLine) => steady' = Within(steady + 1, Cap)
<1>1. ClockLine \in BOOLEAN /\ ClockLine' \in BOOLEAN
  BY DEF ClockLine
<1>2. CASE ClockLine' # ClockLine
  BY <1>1, <1>2, Levels DEF Measure
<1>3. CASE ClockLine' = ClockLine
  <2>1. steady' = IF steady < Cap THEN steady + 1 ELSE Cap
    BY <1>3 DEF Measure
  <2> QED BY <1>3, <2>1, Levels DEF Within
<1> QED BY <1>2, <1>3

LEMMA WatchTypes ==
  ASSUME TypeOK, Watch
  PROVE  first' \in BOOLEAN /\ whole' \in BOOLEAN /\ odd0' \in Bit /\ written' \in Byte
<1>1. first' \in BOOLEAN
  BY DEF Watch
<1>2. whole' \in BOOLEAN
  BY DEF TypeOK, Watch, Listening
<1>3. odd0' \in Bit /\ written' \in Byte
  BY DEF TypeOK, ControllerTypes, Watch
<1> QED BY <1>1, <1>2, <1>3

TypeInv == TypeOK /\ StateFits /\ SumFits /\ DeviceFits

LEMMA TypeStep == TypeInv /\ [Next]_vars => TypeInv'
<1> SUFFICES ASSUME TypeInv, [Next]_vars PROVE TypeInv'
  OBVIOUS
<1>1. DeviceTypes
  BY DEF TypeInv, TypeOK, DeviceTypes
<1>2. CASE Tick
  <2>1. ControllerTypes' /\ StateFits' /\ SumFits'
    BY <1>2, ControllerStep DEF TypeInv, Tick
  <2>2. DeviceTypes' /\ DeviceFits'
    BY <1>1, <1>2, DeviceStep DEF TypeInv, Tick
  <2>3. steady' \in 0 .. Cap
    BY <1>2, MeasureStep DEF TypeInv, TypeOK, Tick
  <2>4. first' \in BOOLEAN /\ whole' \in BOOLEAN /\ odd0' \in Bit /\ written' \in Byte
    BY <1>2, WatchTypes DEF TypeInv, Tick
  <2> QED BY <2>1, <2>2, <2>3, <2>4 DEF TypeInv, TypeOK, DeviceTypes
<1>3. CASE Reset
  <2>1. ControllerTypes' /\ StateFits' /\ SumFits'
    BY <1>3, ResetStep DEF TypeInv
  <2>2. DeviceTypes' /\ DeviceFits'
    BY <1>1, <1>3, DeviceStep DEF TypeInv, Reset
  <2>3. steady' \in 0 .. Cap
    BY <1>3, MeasureStep DEF TypeInv, TypeOK, Reset
  <2>4. first' \in BOOLEAN /\ whole' \in BOOLEAN
    BY <1>3 DEF Reset
  <2>5. odd0' \in Bit /\ written' \in Byte
    BY <1>3 DEF TypeInv, TypeOK, ControllerTypes, Reset
  <2> QED BY <2>1, <2>2, <2>3, <2>4, <2>5 DEF TypeInv, TypeOK, DeviceTypes
<1>4. CASE UNCHANGED vars
  <2>1. TypeOK' /\ StateFits'
    BY <1>4 DEF TypeInv, TypeOK, ControllerTypes, StateFits, vars, portVars, sampleVars, busVars,
                deviceVars
  <2>2. SumFits' /\ DeviceFits'
    BY <1>4 DEF TypeInv, SumFits, K, DeviceFits, vars, portVars, sampleVars, busVars, deviceVars
  <2> QED BY <2>1, <2>2 DEF TypeInv
<1> QED BY <1>2, <1>3, <1>4 DEF Next

LEMMA TypeInit == Init => TypeInv
<1> SUFFICES ASSUME Init PROVE TypeInv
  OBVIOUS
<1>1. /\ wr = FALSE /\ state = 0 /\ data = [i \in 0 .. Last |-> 0]
      /\ clock_out = 0 /\ reset_counter = 0
      /\ read_odd = 0 /\ write_odd = 0
      /\ counter = 1 /\ sum_clock = 0 /\ sum_data = 0
      /\ avg_clock = TRUE /\ parity_read = 0
      /\ write_odd_request = 0 /\ write_ready = FALSE
      /\ data_write = [i \in 0 .. Bits - 1 |-> 0]
  BY DEF Init, PowerUp
<1>2. /\ dev_clock = FALSE /\ dev_data = FALSE
      /\ mode = "idle" /\ n = 0 /\ frame = NoFrame
      /\ steady = 0 /\ first = TRUE /\ whole = FALSE
      /\ odd0 = 0 /\ written = data_write
  BY DEF Init
<1>3. wr \in BOOLEAN /\ avg_clock \in BOOLEAN /\ write_ready \in BOOLEAN
  BY <1>1
<1>4. /\ state \in 0 .. Last /\ clock_out \in 0 .. Hold /\ reset_counter \in 0 .. Timeout - 1
      /\ read_odd \in Bit /\ write_odd \in Bit /\ counter \in 0 .. Window - 1
      /\ sum_clock \in 0 .. Window - 1 /\ sum_data \in 0 .. Window - 1
      /\ parity_read \in Bit /\ write_odd_request \in Bit
  BY <1>1, Sizes DEF Bit
<1>5. data \in [0 .. Last -> Bit] /\ data_write \in Byte
  BY <1>1 DEF Byte, Bit
<1>6. ControllerTypes /\ StateFits
  BY <1>1, <1>3, <1>4, <1>5, Sizes DEF ControllerTypes, StateFits
<1>7. SumFits
  BY <1>1, Sizes DEF SumFits, K
<1>8. dev_clock \in BOOLEAN /\ dev_data \in BOOLEAN /\ first \in BOOLEAN /\ whole \in BOOLEAN
  BY <1>2
<1>9. n \in 0 .. Last /\ steady \in 0 .. Cap /\ odd0 \in Bit /\ mode \in {"idle", "send", "take"}
  BY <1>2, Sizes, Levels DEF Bit
<1>10. frame \in [1 .. Last -> Bit] /\ written \in Byte
  BY <1>2, <1>5, NoFrameType
<1>11. DeviceFits
  BY <1>2 DEF DeviceFits
<1> QED BY <1>6, <1>7, <1>8, <1>9, <1>10, <1>11 DEF TypeInv, TypeOK

(***************************************************************************)
(* Every register of the controller and of its buffer keeps its width: the *)
(* two sums do not wrap in a window, and state stays within a frame.       *)
(***************************************************************************)
THEOREM Ps2TypeCorrect == Spec => []TypeOK
<1>1. TypeInv => TypeOK
  BY DEF TypeInv
<1> QED BY <1>1, TypeInit, TypeStep, PTL DEF Spec

-----------------------------------------------------------------------------
(* The clock line.  The controller knows the level of the line a window and *)
(* a half after it changed, and the device changes it less often.           *)

\* The samples of this window follow from the level and its age.
LevelSum == sum_clock = IF ClockLine THEN Within(steady, K) ELSE K - Within(steady, K)

\* avg_clock is the level of the line from the window's majority on.
LevelSeen == ~first => ((avg_clock <=> ClockLine) <=> steady > K + Half)

\* A write: the windows in which the clock is held, counted by clock_out.
HoldPhases ==
  /\ wr => ~first
  /\ clock_out # 0 => wr /\ steady >= Span(Hold - clock_out) + K
  /\ clock_out = Hold => state = 0 /\ avg_clock /\ reset_counter = 0
  /\ clock_out \in 1 .. Hold - 1 => /\ state = 1 /\ ~avg_clock
                                    /\ reset_counter + clock_out = Hold - 1
  /\ wr /\ state = 0 => clock_out = Hold

\* The device does not keep a level for longer than MaxHalf in a frame.
LowTime == /\ dev_clock => steady <= MaxHalf
           /\ mode # "idle" /\ ClockLine => steady <= MaxHalf

LineInv == TypeInv /\ LevelSum /\ LevelSeen /\ HoldPhases /\ LowTime

LEMMA DeviceEdges ==
  ASSUME DeviceTypes, DeviceFits, Device
  PROVE  /\ dev_clock' /\ ~dev_clock => ClockLine /\ steady >= MinHalf
         /\ dev_clock /\ ~dev_clock' => steady >= MinHalf
         /\ dev_clock /\ dev_clock' => /\ steady < MaxHalf
                                       /\ UNCHANGED <<dev_data, mode, n, frame>>
         /\ mode' # "idle" /\ ~dev_clock' /\ ~dev_clock =>
               /\ ClockLine /\ steady < MaxHalf
               /\ UNCHANGED <<dev_data, mode, n, frame>>
         /\ mode # "idle" /\ dev_clock' /\ ~dev_clock => /\ steady <= MaxHalf /\ n' = n + 1
                                                         /\ UNCHANGED <<mode, frame>>
<1>1. CASE Stay
  <2>1. UNCHANGED <<dev_clock, dev_data, mode, n, frame>>
    BY <1>1 DEF Stay, deviceVars
  <2>2. /\ dev_clock => steady < MaxHalf
        /\ mode # "idle" /\ ~dev_clock => ClockLine /\ steady < MaxHalf
    BY <1>1 DEF Stay
  <2> QED BY <2>1, <2>2
<1>2. CASE BeginSend
  <2>1. mode = "idle" /\ dev_clock' = TRUE /\ MayFall
    BY <1>2 DEF BeginSend
  <2> QED BY <2>1 DEF DeviceFits, MayFall
<1>3. CASE BeginTake
  <2>1. mode = "idle" /\ dev_clock' = TRUE /\ MayFall
    BY <1>3 DEF BeginTake
  <2> QED BY <2>1 DEF DeviceFits, MayFall
<1>4. CASE Fall
  <2>1. /\ mode # "idle" /\ ~dev_clock /\ MayFall /\ steady <= MaxHalf
        /\ n' = n + 1 /\ dev_clock' = TRUE /\ mode' = mode /\ frame' = frame
    BY <1>4 DEF Fall
  <2> QED BY <2>1 DEF MayFall
<1>5. CASE Rise
  <2>1. dev_clock /\ steady >= MinHalf /\ dev_clock' = FALSE
    BY <1>5 DEF Rise
  <2> QED BY <2>1
<1>6. CASE Leave
  <2>1. mode' = "idle" /\ ~dev_clock /\ dev_clock' = dev_clock
    BY <1>6 DEF Leave
  <2> QED BY <2>1
<1> QED BY <1>1, <1>2, <1>3, <1>4, <1>5, <1>6 DEF Device

\* What a step does to the lines.
LEMMA NextParts ==
  ASSUME TypeInv, Next
  PROVE  /\ DeviceTypes /\ DeviceFits /\ Device
         /\ DeviceTypes' /\ DeviceFits'
         /\ steady \in 0 .. Cap /\ steady' \in 0 .. Cap
         /\ ~(ClockLine' <=> ClockLine) => steady' = 0
         /\ (ClockLine' <=> ClockLine) => steady' = Within(steady + 1, Cap)
<1>1. DeviceTypes /\ DeviceFits /\ steady \in 0 .. Cap
  BY DEF TypeInv, TypeOK, DeviceTypes
<1>2. Device /\ Measure
  BY DEF Next, Tick, Reset
<1> QED BY <1>1, <1>2, DeviceStep, MeasureStep

LEMMA LowTimeStep ==
  ASSUME TypeInv, LowTime, Next
  PROVE  LowTime'
<1>1. MaxHalf \in Nat /\ Cap \in Nat
  BY Levels
<1>2. dev_clock \in BOOLEAN /\ dev_clock' \in BOOLEAN
  BY NextParts DEF DeviceTypes
<1>3. ASSUME dev_clock' PROVE steady' <= MaxHalf
  <2>1. ~ClockLine'
    BY <1>3 DEF ClockLine
  <2>2. CASE dev_clock
    <3>1. steady < MaxHalf /\ steady \in 0 .. Cap
      BY <1>3, <2>2, NextParts, DeviceEdges
    <3>2. steady' = 0 \/ steady' = Within(steady + 1, Cap)
      BY NextParts
    <3> QED BY <1>1, <3>1, <3>2 DEF Within
  <2>3. CASE ~dev_clock
    BY <1>1, <1>3, <2>1, <2>3, NextParts, DeviceEdges
  <2> QED BY <1>2, <2>2, <2>3
<1>4. ASSUME mode' # "idle", ClockLine' PROVE steady' <= MaxHalf
  <2>1. ~dev_clock'
    BY <1>4 DEF ClockLine
  <2>2. CASE dev_clock
    <3>1. ~ClockLine
      BY <2>2 DEF ClockLine
    <3> QED BY <1>1, <1>4, <3>1, NextParts
  <2>3. CASE ~dev_clock
    <3>1. ClockLine /\ steady < MaxHalf
      BY <1>4, <2>1, <2>3, NextParts, DeviceEdges
    <3>2. steady' = 0 \/ steady' = Within(steady + 1, Cap)
      BY NextParts
    <3>3. steady \in 0 .. Cap
      BY NextParts
    <3> QED BY <1>1, <3>1, <3>2, <3>3 DEF Within
  <2> QED BY <1>2, <2>2, <2>3
<1> QED BY <1>3, <1>4 DEF LowTime

LEMMA Large ==
  /\ Cap > Window + Window + Half /\ Span(Timeout) >= Window + Window + Window
  /\ MinHalf >= Half + Window
  /\ \A c \in 1 .. Hold : Span(Hold - c) >= 0 /\ Span(Hold - c) < Span(Timeout)
  /\ Span(Hold - 1) >= Window
<1>1. Span(0) = 0 /\ Span(1) = Window /\ Span(2) = Window + Window
      /\ Span(3) = Window + Window + Window
  BY Sizes DEF Span
<1>2. Span(3) <= Span(Timeout)
  BY SpanUp, Sizes
<1>3. ASSUME NEW c \in 1 .. Hold
      PROVE  Span(Hold - c) >= 0 /\ Span(Hold - c) < Span(Timeout)
  <2>1. Span(0) <= Span(Hold - c)
    BY SpanUp, Sizes
  <2>2. Span(Hold - c + 1) <= Span(Timeout) /\ Span(Hold - c + 1) = Span(Hold - c) + Window
    BY SpanUp, SpanNat, Sizes
  <2>3. Span(Hold - c) \in Int /\ Span(Timeout) \in Int
    BY SpanNat, Sizes
  <2> QED BY <1>1, <2>1, <2>2, <2>3, Sizes
<1>4. Span(1) <= Span(Hold - 1)
  BY SpanUp, Sizes
<1> QED BY <1>1, <1>2, <1>3, <1>4, Levels, Sizes

\* Nobody changes the line before it had its level for half a window.
LEMMA ChangeAge ==
  ASSUME LineInv, Tick, ~(ClockLine' <=> ClockLine)
  PROVE  steady >= Half /\ (counter # 0 => steady >= MinHalf)
<1>1. TypeInv /\ steady \in 0 .. Cap /\ clock_out \in 0 .. Hold /\ sum_clock \in 0 .. Window - 1
  BY DEF LineInv, TypeInv, TypeOK, ControllerTypes
<1>2. MinHalf >= Half
  BY Levels, Sizes
<1>3. dev_clock \in BOOLEAN /\ dev_clock' \in BOOLEAN
  BY <1>1, NextParts DEF DeviceTypes, Next
<1>4. CASE ~(dev_clock' <=> dev_clock)
  <2>1. steady >= MinHalf
    BY <1>1, <1>3, <1>4, NextParts, DeviceEdges DEF Next
  <2> QED BY <1>1, <1>2, <2>1, Levels, Sizes
<1>5. CASE (dev_clock' <=> dev_clock) /\ clock_out' # clock_out
  <2>1. counter = 0 /\ WindowEnd
    BY <1>5, SampleKeeps DEF Tick, WindowEnd
  <2>2. K = Window - 1
    BY <2>1, EndWindow
  <2>3. CASE StartWrite
    <3>1. clock_out' # 0
      BY <1>1, <2>3, StartTypes, Sizes DEF TypeInv
    <3>2. ClockLine /\ sum_clock >= Half
      BY <3>1, <2>3 DEF ClockLine, StartWrite, MayStart, High
    <3> QED BY <1>1, <2>1, <2>2, <3>2, Sizes DEF LineInv, LevelSum, Within
  <2>4. CASE clock_out' = Released
    <3>1. clock_out = 1
      BY <1>1, <1>5, <2>4, Sizes DEF Released, ClockLine
    <3>2. steady >= Span(Hold - 1) + K
      BY <3>1, Sizes DEF LineInv, HoldPhases
    <3> QED BY <1>1, <2>1, <2>2, <3>2, Large, Levels, Sizes
  <2> QED BY <2>1, <2>3, <2>4 DEF WindowEnd, FallingEdge, Quiet
<1>6. CASE (dev_clock' <=> dev_clock) /\ clock_out' = clock_out
  BY <1>6 DEF ClockLine
<1> QED BY <1>4, <1>5, <1>6

LEMMA LevelSumStep ==
  ASSUME LineInv, Next
  PROVE  LevelSum'
<1>1. /\ TypeInv /\ K \in 0 .. Window - 1 /\ sum_clock \in 0 .. Window - 1
      /\ steady \in 0 .. Cap /\ steady' \in 0 .. Cap /\ Cap \in Nat /\ MinHalf \in Nat
  BY KNat, NextParts, Levels DEF LineInv, TypeInv, TypeOK, ControllerTypes
<1>2. CASE Tick /\ Sample
  <2>1. /\ K' = K + 1 /\ K + 1 <= Window - 1 /\ counter # 0
        /\ sum_clock' = IF ClockLine THEN sum_clock + 1 ELSE sum_clock
    BY <1>1, <1>2, SampleWindow, SampleSums DEF TypeInv
  <2>2. sum_clock = IF ClockLine THEN Within(steady, K) ELSE K - Within(steady, K)
    BY DEF LineInv, LevelSum
  <2>3. CASE ClockLine' <=> ClockLine
    <3>1. steady' = Within(steady + 1, Cap)
      BY <1>1, <2>3, NextParts
    <3>2. sum_clock' = IF ClockLine THEN Within(steady', K') ELSE K' - Within(steady', K')
      BY <1>1, <2>1, <2>2, <3>1, Large, Sizes DEF Within
    <3> QED BY <2>3, <3>2 DEF LevelSum
  <2>4. CASE ~(ClockLine' <=> ClockLine)
    <3>1. steady' = 0 /\ steady >= MinHalf
      BY <1>1, <1>2, <2>1, <2>4, NextParts, ChangeAge
    <3>2. Within(steady, K) = K /\ Within(steady', K') = 0
      BY <1>1, <2>1, <3>1, Large, Sizes DEF Within
    <3>3. sum_clock' = IF ClockLine THEN K' ELSE 0
      BY <1>1, <2>1, <2>2, <3>2
    <3> QED BY <1>1, <2>1, <2>4, <3>2, <3>3 DEF LevelSum
  <2> QED BY <2>3, <2>4
<1>3. CASE WindowEnd \/ Reset
  <2>1. K' = 0 /\ sum_clock' = 0
    BY <1>3, EndWindow, ResetWindow
  <2>2. Within(steady', K') = 0
    BY <1>1, <2>1 DEF Within
  <2> QED BY <2>1, <2>2 DEF LevelSum
<1> QED BY <1>2, <1>3 DEF Next, Tick

\* The majority of a whole window is the level for at least half of it.
LEMMA Majority ==
  ASSUME LineInv, WindowEnd
  PROVE  (High <=> ClockLine) <=> steady >= Half
<1>1. /\ K = Window - 1 /\ sum_clock \in 0 .. Window - 1 /\ steady \in 0 .. Cap
      /\ sum_clock = IF ClockLine THEN Within(steady, K) ELSE K - Within(steady, K)
  BY EndWindow DEF LineInv, LevelSum, TypeInv, TypeOK, ControllerTypes
<1>2. ClockLine \in BOOLEAN
  BY DEF ClockLine
<1>3. CASE ClockLine
  BY <1>1, <1>3, Sizes, Levels DEF High, Within
<1>4. CASE ~ClockLine
  BY <1>1, <1>4, Sizes, Levels DEF High, Within
<1> QED BY <1>2, <1>3, <1>4

LEMMA LevelSeenStep ==
  ASSUME LineInv, Next
  PROVE  LevelSeen'
<1>1. /\ TypeInv /\ K \in 0 .. Window - 1 /\ steady \in 0 .. Cap /\ steady' \in 0 .. Cap
      /\ Cap \in Nat /\ MinHalf \in Nat
  BY KNat, NextParts, Levels DEF LineInv, TypeInv
<1>2. CASE Tick /\ Sample
  <2>1. K' = K + 1 /\ K + 1 <= Window - 1 /\ counter # 0 /\ avg_clock' = avg_clock
    BY <1>1, <1>2, SampleWindow, SampleKeeps DEF TypeInv
  <2>2. first' = first
    BY <1>1, <1>2, <2>1 DEF Tick, Watch, TypeInv, TypeOK
  <2> SUFFICES ASSUME ~first
               PROVE  ((avg_clock <=> ClockLine') <=> steady' > K' + Half)
    BY <2>1, <2>2 DEF LevelSeen
  <2>3. (avg_clock <=> ClockLine) <=> steady > K + Half
    BY DEF LineInv, LevelSeen
  <2>4. CASE ClockLine' <=> ClockLine
    <3>1. steady' = Within(steady + 1, Cap)
      BY <1>1, <2>4, NextParts
    <3>2. steady' > K' + Half <=> steady > K + Half
      BY <1>1, <2>1, <3>1, Large, Sizes DEF Within
    <3> QED BY <2>3, <2>4, <3>2
  <2>5. CASE ~(ClockLine' <=> ClockLine)
    <3>1. steady' = 0 /\ steady >= MinHalf
      BY <1>1, <1>2, <2>1, <2>5, NextParts, ChangeAge
    <3>2. steady > K + Half /\ ~(steady' > K' + Half)
      BY <1>1, <2>1, <3>1, Large, Sizes
    <3> QED BY <2>3, <2>5, <3>2 DEF ClockLine
  <2> QED BY <2>4, <2>5
<1>3. CASE Tick /\ WindowEnd
  <2>1. K' = 0 /\ (avg_clock' <=> High)
    BY <1>3, EndWindow DEF WindowEnd
  <2>2. (High <=> ClockLine) <=> steady >= Half
    BY <1>3, Majority
  <2>3. CASE ClockLine' <=> ClockLine
    <3>1. steady' = Within(steady + 1, Cap)
      BY <1>1, <2>3, NextParts
    <3>2. steady' > K' + Half <=> steady >= Half
      BY <1>1, <2>1, <3>1, Large, Sizes DEF Within
    <3> QED BY <2>1, <2>2, <2>3, <3>2 DEF LevelSeen
  <2>4. CASE ~(ClockLine' <=> ClockLine)
    <3>1. steady' = 0 /\ steady >= Half
      BY <1>1, <1>3, <2>4, NextParts, ChangeAge
    <3>2. ~(steady' > K' + Half)
      BY <2>1, <3>1, Sizes
    <3> QED BY <2>1, <2>2, <2>4, <3>1, <3>2 DEF LevelSeen, ClockLine
  <2> QED BY <2>3, <2>4
<1>4. CASE Reset
  <2>1. first' = TRUE
    BY <1>4 DEF Reset
  <2> QED BY <2>1 DEF LevelSeen
<1> QED BY <1>2, <1>3, <1>4 DEF Next, Tick

-----------------------------------------------------------------------------
(* A write holds the clock for Hold windows, and by then the device has let *)
(* go of it.                                                                *)

\* While the clock is held the samples are low and the line stays as it is.
LEMMA Held ==
  ASSUME LineInv, clock_out # 0
  PROVE  ~ClockLine /\ sum_clock = 0 /\ steady >= K /\ ~first /\ wr
<1>1. /\ K \in 0 .. Window - 1 /\ steady \in 0 .. Cap /\ clock_out \in 1 .. Hold
      /\ steady >= Span(Hold - clock_out) + K /\ wr /\ ~first
  BY KNat, Sizes DEF LineInv, TypeInv, TypeOK, ControllerTypes, HoldPhases
<1>2. Span(Hold - clock_out) >= 0 /\ Span(Hold - clock_out) \in Int
  BY <1>1, Large, SpanNat, Sizes
<1>3. ~ClockLine
  BY DEF ClockLine
<1>4. steady >= K
  BY <1>1, <1>2
<1>5. sum_clock = 0
  BY <1>1, <1>3, <1>4, Sizes DEF LineInv, LevelSum, Within
<1> QED BY <1>1, <1>3, <1>4, <1>5

LEMMA HeldLonger ==
  ASSUME LineInv, Tick, clock_out # 0, clock_out' # 0, clock_out' \in 1 .. Hold,
         \/ Sample /\ clock_out' = clock_out
         \/ WindowEnd /\ clock_out' = clock_out - 1
  PROVE  steady' >= Span(Hold - clock_out') + K'
<1>1. /\ K \in 0 .. Window - 1 /\ steady \in 0 .. Cap /\ clock_out \in 1 .. Hold
      /\ steady >= Span(Hold - clock_out) + K
  BY KNat, Sizes DEF LineInv, TypeInv, TypeOK, ControllerTypes, HoldPhases
<1>2. ~ClockLine /\ ~ClockLine'
  BY DEF ClockLine
<1>3. steady' = Within(steady + 1, Cap)
  BY <1>2, NextParts DEF LineInv, Next
<1>4. Span(Hold - clock_out') + K' = Span(Hold - clock_out) + K + 1
  <2>1. CASE Sample /\ clock_out' = clock_out
    BY <1>1, <2>1, SampleWindow, Levels, Sizes DEF LineInv, TypeInv
  <2>2. CASE WindowEnd /\ clock_out' = clock_out - 1
    <3>1. K = Window - 1 /\ K' = 0
      BY <2>2, EndWindow
    <3>2. Hold - clock_out' = Hold - clock_out + 1
      BY <1>1, <2>2, Sizes
    <3>3. Span(Hold - clock_out + 1) = Span(Hold - clock_out) + Window
          /\ Span(Hold - clock_out) \in Int
      BY <1>1, SpanNat, Sizes
    <3> QED BY <3>1, <3>2, <3>3, Sizes
  <2> QED BY <2>1, <2>2
<1>5. Span(Hold - clock_out') + K' < Cap
  <2>1. Span(Hold - clock_out) < Span(Timeout) /\ Span(Hold - clock_out) \in Int
    BY <1>1, Large, Levels, Sizes
  <2> QED BY <1>1, <1>4, <2>1, Levels, Sizes
<1>6. Span(Hold - clock_out) \in Int
  BY <1>1, SpanNat, Sizes
<1> QED BY <1>1, <1>3, <1>4, <1>5, <1>6, Levels DEF Within

LEMMA HoldSample ==
  ASSUME LineInv, Tick, Sample
  PROVE  HoldPhases'
<1>1. counter # 0 /\ first' = first
  BY DEF Sample, Tick, Watch, LineInv, TypeInv, TypeOK
<1>2. clock_out # 0 => steady' >= Span(Hold - clock_out') + K'
  BY HeldLonger, SampleKeeps, Sizes DEF LineInv, TypeInv, TypeOK, ControllerTypes
<1> QED BY <1>1, <1>2, SampleKeeps DEF LineInv, HoldPhases

LEMMA HoldStart ==
  ASSUME LineInv, Tick, WindowEnd, StartWrite
  PROVE  HoldPhases'
<1>1. wr' = TRUE /\ state' = 0 /\ clock_out' = Hold /\ reset_counter' = 0 /\ K' = 0
  BY StartTypes, EndWindow DEF LineInv, TypeInv
<1>2. avg_clock' /\ ~first'
  BY DEF WindowEnd, StartWrite, MayStart, Tick, Watch
<1>3. steady' >= 0 /\ Span(Hold - clock_out') = 0 /\ steady' \in Int
  <2>1. Hold - clock_out' = 0
    BY <1>1, Sizes
  <2> QED BY <2>1, SpanZero, NextParts, Levels DEF LineInv, Next
<1>4. Hold \notin 1 .. Hold - 1
  BY Sizes
<1> QED BY <1>1, <1>2, <1>3, <1>4 DEF HoldPhases

LEMMA HoldEdge ==
  ASSUME LineInv, Tick, WindowEnd, FallingEdge
  PROVE  HoldPhases'
<1>1. /\ TypeInv /\ K' = 0 /\ ~avg_clock' /\ ~first' /\ avg_clock /\ reset_counter' = 0
      /\ clock_out' = Released /\ clock_out \in 0 .. Hold /\ state \in 0 .. Last
  BY EndWindow DEF LineInv, TypeInv, TypeOK, ControllerTypes, WindowEnd, FallingEdge, Tick, Watch
<1>2. ~(wr' /\ state' = 0)
  <2>1. CASE state = Last - 1 /\ ~wr
    BY <2>1, Sizes DEF FallingEdge
  <2>2. CASE state = Last /\ wr
    BY <2>2, Sizes DEF FallingEdge
  <2>3. CASE ~(state = Last - 1 /\ ~wr) /\ ~(state = Last /\ wr)
    <3>1. state' = (state + 1) % 16 /\ (wr' <=> wr)
      BY <2>3 DEF FallingEdge
    <3>2. wr => state < Last
      BY <1>1, <2>3, Sizes
    <3>3. wr => (state + 1) % 16 = state + 1
      BY <1>1, <3>2, Sizes
    <3> QED BY <1>1, <3>1, <3>3
  <2> QED BY <2>1, <2>2, <2>3
<1>3. CASE clock_out = 0
  <2>1. clock_out' = 0
    BY <1>1, <1>3 DEF Released
  <2> QED BY <1>1, <1>2, <2>1, Sizes DEF HoldPhases
<1>4. CASE clock_out # 0
  <2>1. clock_out = Hold /\ state = 0 /\ wr
    BY <1>1, <1>4, Sizes DEF LineInv, HoldPhases
  <2>2. clock_out' = Hold - 1 /\ clock_out' \in 1 .. Hold - 1
    BY <1>1, <1>4, <2>1, Sizes DEF Released
  <2>3. state' = 1 /\ (wr' <=> wr)
    <3>1. 1 % 16 = 1
      OBVIOUS
    <3>2. state # Last - 1 /\ state # Last /\ state + 1 = 1
      BY <2>1, Sizes
    <3>3. state' = (state + 1) % 16 /\ wr' = wr
      BY <3>2 DEF FallingEdge
    <3> QED BY <3>1, <3>2, <3>3
  <2>4. steady' >= Span(Hold - clock_out') + K'
    BY <1>4, <2>1, <2>2, HeldLonger, Sizes
  <2>5. reset_counter' + clock_out' = Hold - 1
    BY <1>1, <2>2, Sizes
  <2> QED BY <1>1, <2>1, <2>2, <2>3, <2>4, <2>5, Sizes DEF HoldPhases
<1> QED BY <1>3, <1>4

LEMMA HoldQuiet ==
  ASSUME LineInv, Tick, WindowEnd, Quiet
  PROVE  HoldPhases'
<1>1. /\ TypeInv /\ K' = 0 /\ ~first' /\ clock_out' = Released /\ clock_out \in 0 .. Hold
      /\ state \in 0 .. Last /\ reset_counter \in 0 .. Timeout - 1 /\ (avg_clock' <=> High)
  BY EndWindow DEF LineInv, TypeInv, TypeOK, ControllerTypes, WindowEnd, Quiet, Tick, Watch
<1>2. \/ wr' = wr /\ state' = state /\ reset_counter' = reset_counter + 1
      \/ ~wr' /\ reset_counter = Timeout - 1
  <2>1. \/ reset_counter < Timeout - 1
        \/ reset_counter = Timeout - 1
    BY <1>1, Sizes
  <2> QED BY <2>1, QuietTypes DEF LineInv, TypeInv
<1>3. CASE clock_out = 0
  <2>1. clock_out' = 0 /\ ~(wr /\ state = 0)
    BY <1>1, <1>3, Sizes DEF Released, LineInv, HoldPhases
  <2> QED BY <1>1, <1>2, <2>1, Sizes DEF HoldPhases
<1>4. CASE clock_out # 0
  <2>1. ~High /\ wr
    BY <1>4, Held, Sizes DEF High
  <2>2. clock_out \in 1 .. Hold - 1 /\ state = 1 /\ reset_counter + clock_out = Hold - 1
    BY <1>1, <1>4, <2>1, Sizes DEF LineInv, HoldPhases, Quiet
  <2>3. wr' = wr /\ state' = 1 /\ reset_counter' = reset_counter + 1 /\ clock_out' = clock_out - 1
    BY <1>1, <1>2, <1>4, <2>2, Sizes DEF Released
  <2>4. clock_out' # 0 => steady' >= Span(Hold - clock_out') + K'
    <3> SUFFICES ASSUME clock_out' # 0 PROVE steady' >= Span(Hold - clock_out') + K'
      OBVIOUS
    <3>1. clock_out' \in 1 .. Hold
      BY <2>2, <2>3, Sizes
    <3> QED BY <1>4, <2>3, <3>1, HeldLonger
  <2>5. clock_out' # Hold /\ (clock_out' \in 1 .. Hold - 1 => reset_counter' + clock_out' = Hold - 1)
    BY <1>1, <2>2, <2>3, Sizes
  <2> QED BY <1>1, <2>1, <2>3, <2>4, <2>5 DEF HoldPhases
<1> QED BY <1>3, <1>4

LEMMA HoldStep ==
  ASSUME LineInv, Next
  PROVE  HoldPhases'
<1>1. CASE Tick
  BY <1>1, HoldSample, HoldStart, HoldEdge, HoldQuiet DEF Tick, WindowEnd
<1>2. CASE Reset
  <2>1. ~wr' /\ clock_out' = 0
    BY <1>2 DEF Reset, ResetRegisters
  <2> QED BY <2>1, Sizes DEF HoldPhases
<1> QED BY <1>1, <1>2 DEF Next

LEMMA LineStep == LineInv /\ [Next]_vars => LineInv'
<1> SUFFICES ASSUME LineInv, [Next]_vars PROVE LineInv'
  OBVIOUS
<1>1. CASE Next
  <2>1. TypeInv' /\ LowTime'
    BY <1>1, TypeStep, LowTimeStep DEF LineInv
  <2> QED BY <1>1, <2>1, LevelSumStep, LevelSeenStep, HoldStep DEF LineInv
<1>2. CASE UNCHANGED vars
  <2>1. TypeInv'
    BY <1>2, TypeStep DEF LineInv
  <2>2. K' = K /\ ClockLine' = ClockLine /\ UNCHANGED <<steady, sum_clock, first, avg_clock>>
    BY <1>2 DEF vars, portVars, sampleVars, deviceVars, K, ClockLine
  <2>3. LevelSum' /\ LevelSeen'
    BY <2>2 DEF LineInv, LevelSum, LevelSeen
  <2>4. LowTime'
    BY <1>2, <2>2 DEF LineInv, LowTime, vars, deviceVars
  <2>5. HoldPhases'
    BY <1>2, <2>2 DEF LineInv, HoldPhases, vars, portVars, sampleVars
  <2> QED BY <2>1, <2>3, <2>4, <2>5 DEF LineInv
<1> QED BY <1>1, <1>2

-----------------------------------------------------------------------------
(* The time-out, and what is left of a frame that was broken off.           *)

LEMMA ElapsedType ==
  ASSUME TypeInv
  PROVE  Elapsed \in Nat /\ Elapsed < Span(Timeout)
<1>1. reset_counter \in 0 .. Timeout - 1 /\ K \in 0 .. Window - 1
  BY KNat DEF TypeInv, TypeOK, ControllerTypes
<1>2. Span(0) <= Span(reset_counter) /\ Span(reset_counter + 1) <= Span(Timeout)
  BY <1>1, SpanUp, Sizes
<1>3. Span(reset_counter) \in Int /\ Span(reset_counter + 1) = Span(reset_counter) + Window
  BY <1>1, SpanNat, Sizes
<1> QED BY <1>1, <1>2, <1>3, SpanZero, Levels, Sizes DEF Elapsed

LEMMA Base ==
  ASSUME LineInv, Next
  PROVE  /\ TypeInv /\ TypeInv' /\ Elapsed \in Nat /\ Elapsed' \in Nat
         /\ Elapsed < Span(Timeout) /\ Span(Timeout) \in Int
         /\ steady \in 0 .. Cap /\ steady' \in 0 .. Cap
         /\ K \in 0 .. Window - 1 /\ K' \in 0 .. Window - 1
         /\ state \in 0 .. Last /\ clock_out \in 0 .. Hold
<1>1. TypeInv /\ TypeInv' /\ steady \in 0 .. Cap /\ steady' \in 0 .. Cap
  BY TypeStep, NextParts DEF LineInv
<1>2. K \in 0 .. Window - 1 /\ state \in 0 .. Last /\ clock_out \in 0 .. Hold
  BY KNat DEF LineInv, TypeInv, TypeOK, ControllerTypes
<1>3. K' \in 0 .. Window - 1 /\ reset_counter' \in 0 .. Timeout - 1
  <2>1. counter' \in 0 .. Window - 1 /\ reset_counter' \in 0 .. Timeout - 1
    BY <1>1 DEF TypeInv, TypeOK, ControllerTypes
  <2>2. K' = IF counter' = 0 THEN Window - 1 ELSE counter' - 1
    BY DEF K
  <2>3. \A c \in 0 .. Window - 1 :
          (IF c = 0 THEN Window - 1 ELSE c - 1) \in 0 .. Window - 1
    BY Sizes
  <2> QED BY <2>1, <2>2, <2>3
<1>4. Span(0) <= Span(reset_counter') /\ Span(0) = 0 /\ Span(reset_counter') \in Int
  BY <1>3, SpanUp, SpanZero, SpanNat, Sizes
<1>5. Elapsed' \in Nat
  BY <1>3, <1>4, Sizes DEF Elapsed
<1> QED BY <1>1, <1>2, <1>3, <1>5, ElapsedType, Levels, Sizes

\* A step without an edge and without a time-out is a clock more.
Passing == Sample \/ (WindowEnd /\ Quiet /\ reset_counter < Timeout - 1)

LEMMA ElapsedStep ==
  ASSUME TypeInv
  PROVE  /\ Passing => Elapsed' = Elapsed + 1 /\ UNCHANGED <<state, wr, data, read_odd, parity_read>>
         /\ WindowEnd /\ (StartWrite \/ FallingEdge) => Elapsed' = 0
<1>1. reset_counter \in 0 .. Timeout - 1 /\ K \in 0 .. Window - 1
  BY KNat DEF TypeInv, TypeOK, ControllerTypes
<1>2. Span(reset_counter) \in Int /\ Span(reset_counter + 1) = Span(reset_counter) + Window
  BY <1>1, SpanNat, Sizes
<1>3. CASE Sample
  <2>1. K' = K + 1 /\ reset_counter' = reset_counter
    BY <1>3, SampleWindow, SampleKeeps DEF TypeInv
  <2>2. UNCHANGED <<state, wr, data, read_odd, parity_read>> /\ counter # 0
    BY <1>3, SampleKeeps DEF Sample
  <2> QED BY <1>1, <1>2, <2>1, <2>2 DEF Elapsed, WindowEnd
<1>4. ASSUME WindowEnd, Quiet, reset_counter < Timeout - 1
      PROVE  Elapsed' = Elapsed + 1 /\ UNCHANGED <<state, wr, data, read_odd, parity_read>>
  <2>1. K = Window - 1 /\ K' = 0
    BY <1>4, EndWindow
  <2>2. reset_counter' = reset_counter + 1 /\ UNCHANGED <<state, wr, data, read_odd, parity_read>>
    BY <1>4, QuietTypes DEF TypeInv
  <2> QED BY <1>1, <1>2, <2>1, <2>2, Sizes DEF Elapsed
<1>5. ASSUME WindowEnd, StartWrite \/ FallingEdge
      PROVE  Elapsed' = 0
  <2>1. K' = 0 /\ reset_counter' = 0
    BY <1>5, EndWindow DEF StartWrite, FallingEdge
  <2> QED BY <2>1, SpanZero DEF Elapsed
<1> QED BY <1>3, <1>4, <1>5 DEF Passing

LEMMA GivesUp ==
  ASSUME TypeInv, WindowEnd, Quiet, ~Passing
  PROVE  state' = 0 /\ ~wr' /\ Elapsed = Span(Timeout) - 1
<1>1. reset_counter = Timeout - 1
  BY Sizes DEF Passing, TypeInv, TypeOK, ControllerTypes
<1>2. state' = 0 /\ ~wr'
  BY <1>1, QuietTypes DEF TypeInv
<1>3. Span(Timeout - 1 + 1) = Span(Timeout - 1) + Window /\ Span(Timeout - 1) \in Int
      /\ Timeout - 1 + 1 = Timeout
  BY SpanNat, Sizes
<1>4. K = Window - 1
  BY EndWindow
<1> QED BY <1>1, <1>2, <1>3, <1>4, Sizes DEF Elapsed

\* The line has not been high for longer than the time-out has run.
QuietInv == ClockLine /\ (state # 0 \/ wr) => steady <= Elapsed + Half

LEMMA QuietStep ==
  ASSUME LineInv, QuietInv, Next
  PROVE  QuietInv'
<1>1. /\ TypeInv /\ TypeInv' /\ Elapsed \in Nat /\ Elapsed' \in Nat
      /\ steady \in 0 .. Cap /\ steady' \in 0 .. Cap
  BY Base
<1> SUFFICES ASSUME ClockLine', state' # 0 \/ wr'
             PROVE  steady' <= Elapsed' + Half
  BY DEF QuietInv
<1>2. CASE ~ClockLine
  <2>1. steady' = 0
    BY <1>1, <1>2, NextParts
  <2>2. \A e \in Nat : 0 <= e + Half
    BY Sizes
  <2> QED BY <1>1, <2>1, <2>2
<1>3. CASE ClockLine
  <2>1. steady' = Within(steady + 1, Cap) /\ Cap \in Nat
    BY <1>1, <1>3, NextParts, Levels
  <2>2. CASE Tick /\ Passing
    <3>1. Elapsed' = Elapsed + 1 /\ UNCHANGED <<state, wr>>
      BY <1>1, <2>2, ElapsedStep
    <3>2. steady <= Elapsed + Half
      BY <1>3, <3>1 DEF QuietInv
    <3> QED BY <1>1, <2>1, <3>1, <3>2, Sizes, Levels DEF Within
  <2>3. CASE WindowEnd /\ StartWrite
    <3>1. clock_out' # 0
      BY <1>1, <2>3, StartTypes, Sizes DEF TypeInv
    <3> QED BY <3>1 DEF ClockLine
  <2>4. CASE WindowEnd /\ FallingEdge
    <3>1. steady < Half
      BY <1>1, <1>3, <2>4, Majority, Sizes, Levels DEF FallingEdge
    <3>2. Elapsed' = 0
      BY <1>1, <2>4, ElapsedStep
    <3> QED BY <1>1, <2>1, <3>1, <3>2, Sizes, Levels DEF Within
  <2>5. CASE WindowEnd /\ Quiet /\ ~Passing
    BY <1>1, <2>5, GivesUp
  <2>6. CASE Reset
    BY <2>6 DEF Reset, ResetRegisters
  <2> QED BY <2>2, <2>3, <2>4, <2>5, <2>6 DEF Next, Tick, WindowEnd, Passing
<1> QED BY <1>2, <1>3

\* A write that the device has not begun to answer: the line is high since the
\* controller let go of it, or low since the first fall, which is not seen yet.
Answer == wr /\ state = 1 /\ clock_out = 0 =>
            IF ClockLine THEN Elapsed <= Span(Hold - 1) + steady ELSE avg_clock

LEMMA AnswerKept ==
  ASSUME LineInv, Answer, Tick, Passing, clock_out = 0
  PROVE  Answer'
<1>1. /\ TypeInv /\ TypeInv' /\ Elapsed \in Nat /\ Elapsed' \in Nat /\ Elapsed < Span(Timeout)
      /\ steady \in 0 .. Cap /\ steady' \in 0 .. Cap /\ K \in 0 .. Window - 1
      /\ Span(Hold - 1) \in Int /\ Span(Hold - 1) >= Window /\ Span(Timeout) \in Int
  BY Base, SpanNat, Large, Sizes DEF Next
<1>2. Elapsed' = Elapsed + 1 /\ UNCHANGED <<state, wr>>
  BY <1>1, ElapsedStep
<1> SUFFICES ASSUME wr, state = 1
             PROVE  IF ClockLine' THEN Elapsed' <= Span(Hold - 1) + steady' ELSE avg_clock'
  BY <1>2 DEF Answer
<1>3. ~first /\ ((avg_clock <=> ClockLine) <=> steady > K + Half)
  BY DEF LineInv, HoldPhases, LevelSeen
<1>4. IF ClockLine THEN Elapsed <= Span(Hold - 1) + steady ELSE avg_clock
  BY DEF Answer
<1>5. CASE ClockLine' <=> ClockLine
  <2>1. CASE ClockLine
    <3>1. steady' = Within(steady + 1, Cap)
      BY <1>1, <1>5, NextParts DEF Next
    <3> QED BY <1>1, <1>2, <1>4, <1>5, <2>1, <3>1, Levels, Sizes DEF Within
  <2>2. CASE ~ClockLine
    <3>1. avg_clock
      BY <1>4, <2>2
    <3>2. avg_clock'
      <4>1. CASE Sample
        BY <3>1, <4>1, SampleKeeps
      <4>2. CASE WindowEnd /\ Quiet
        BY <3>1, <4>2 DEF Quiet, WindowEnd
      <4> QED BY <4>1, <4>2 DEF Passing
    <3> QED BY <1>5, <2>2, <3>2
  <2> QED BY <2>1, <2>2
<1>6. CASE ~(ClockLine' <=> ClockLine)
  <2>1. (Sample /\ (avg_clock <=> ClockLine)) \/ (WindowEnd /\ Quiet /\ (High <=> ClockLine))
    <3>1. CASE Sample
      <4>1. steady >= MinHalf
        BY <1>6, <3>1, ChangeAge DEF Sample
      <4>2. steady > K + Half
        <5>1. MinHalf >= Half + Window /\ MinHalf \in Nat /\ Cap \in Nat
          BY Levels
        <5> QED BY <1>1, <4>1, <5>1, Sizes
      <4>3. avg_clock <=> ClockLine
        BY <1>3, <4>2
      <4> QED BY <3>1, <4>3
    <3>2. CASE WindowEnd /\ Quiet
      BY <1>6, <3>2, ChangeAge, Majority
    <3> QED BY <3>1, <3>2 DEF Passing
  <2>2. ClockLine
    BY <1>4, <2>1 DEF Quiet
  <2>3. avg_clock'
    <3>1. Sample => avg_clock' = avg_clock
      BY SampleKeeps
    <3>2. WindowEnd => avg_clock' = High
      BY DEF WindowEnd
    <3> QED BY <2>1, <2>2, <3>1, <3>2
  <2> QED BY <1>6, <2>2, <2>3
<1> QED BY <1>5, <1>6

LEMMA AnswerStep ==
  ASSUME LineInv, Answer, Next
  PROVE  Answer'
<1>1. /\ TypeInv /\ TypeInv' /\ Elapsed \in Nat /\ Elapsed' \in Nat
      /\ steady \in 0 .. Cap /\ steady' \in 0 .. Cap /\ state \in 0 .. Last
      /\ clock_out \in 0 .. Hold
  BY Base
<1>2. CASE Tick /\ Passing /\ clock_out = 0
  BY <1>2, AnswerKept
<1>3. CASE Tick /\ Passing /\ clock_out # 0 /\ clock_out' = 0
  <2>1. WindowEnd /\ Quiet /\ reset_counter < Timeout - 1 /\ clock_out = 1
    BY <1>1, <1>3, SampleKeeps, Sizes DEF Passing, Quiet, Released
  <2>2. reset_counter' = Hold - 1 /\ K' = 0
    <3>1. reset_counter + 1 = Hold - 1
      BY <2>1, Sizes DEF LineInv, HoldPhases
    <3>2. reset_counter' = reset_counter + 1
      BY <1>1, <2>1, QuietTypes DEF TypeInv
    <3> QED BY <2>1, <3>1, <3>2, EndWindow
  <2>3. ClockLine'
    <3>1. steady > MaxHalf
      BY <2>1, EndWindow, Levels, Sizes, <1>1 DEF LineInv, HoldPhases
    <3>2. ~dev_clock
      BY <1>1, <3>1, Levels DEF LineInv, LowTime
    <3>3. ~ClockLine
      BY <1>3 DEF ClockLine
    <3>4. ~dev_clock'
      BY <1>1, <3>2, <3>3, NextParts, DeviceEdges
    <3> QED BY <1>3, <3>4 DEF ClockLine
  <2>4. Elapsed' = Span(Hold - 1)
    BY <2>2, SpanNat, Sizes DEF Elapsed
  <2> QED BY <1>1, <2>3, <2>4, SpanNat, Sizes DEF Answer
<1>4. CASE clock_out' # 0
  BY <1>4 DEF Answer
<1>5. CASE WindowEnd /\ StartWrite
  <2>1. clock_out' # 0
    BY <1>1, <1>5, StartTypes, Sizes DEF TypeInv
  <2> QED BY <2>1 DEF Answer
<1>6. CASE WindowEnd /\ FallingEdge
  <2> SUFFICES ASSUME wr', state' = 1, clock_out' = 0 PROVE FALSE
    BY DEF Answer
  <2>1. ~(state = Last - 1 /\ ~wr) /\ ~(state = Last /\ wr)
    BY <1>6 DEF FallingEdge
  <2>2. state' = (state + 1) % 16 /\ wr' = wr /\ clock_out' = Released
    BY <1>6, <2>1 DEF FallingEdge
  <2>3. state = 0
    <3>1. state + 1 \in 1 .. 15
      BY <1>1, <2>1, <2>2, Sizes
    <3>2. (state + 1) % 16 = state + 1
      BY <3>1
    <3> QED BY <1>1, <2>2, <3>2
  <2>4. clock_out = Hold
    BY <2>2, <2>3 DEF LineInv, HoldPhases
  <2> QED BY <2>2, <2>4, Sizes DEF Released
<1>7. CASE WindowEnd /\ Quiet /\ ~Passing
  BY <1>1, <1>7, GivesUp DEF Answer
<1>8. CASE Reset
  <2>1. ~wr'
    BY <1>8 DEF Reset, ResetRegisters
  <2> QED BY <2>1 DEF Answer
<1> QED BY <1>2, <1>3, <1>4, <1>5, <1>6, <1>7, <1>8 DEF Next, Tick, WindowEnd, Passing

\* The rest of the frame of a write stands at the bottom of data.
WriteData == wr => \A i \in 0 .. Last : i + state <= Last => data[i] = Out(written)[i + state]

LEMMA WriteDataStep ==
  ASSUME LineInv, WriteData, Next
  PROVE  WriteData'
<1>1. TypeInv /\ state \in 0 .. Last /\ wr \in BOOLEAN
  BY DEF LineInv, TypeInv, TypeOK, ControllerTypes
<1>2. CASE Tick /\ Passing
  <2>1. UNCHANGED <<state, wr, data>>
    BY <1>1, <1>2, ElapsedStep
  <2>2. wr => written' = written
    BY <1>2 DEF Tick, Watch
  <2> QED BY <2>1, <2>2 DEF WriteData
<1>3. CASE Tick /\ WindowEnd /\ StartWrite
  <2>1. state' = 0 /\ data' = Out(data_write) /\ wr' = TRUE /\ ~wr
    BY <1>1, <1>3, StartTypes DEF TypeInv, StartWrite, MayStart
  <2>2. written' = data_write
    BY <1>3, <2>1 DEF Tick, Watch
  <2> QED BY <2>1, <2>2, Sizes DEF WriteData
<1>4. CASE Tick /\ WindowEnd /\ FallingEdge
  <2> SUFFICES ASSUME wr', NEW i \in 0 .. Last, i + state' <= Last
               PROVE  data'[i] = Out(written')[i + state']
    BY DEF WriteData
  <2>1. ~(state = Last /\ wr) /\ wr
    BY <1>4 DEF FallingEdge
  <2>2. state' = (state + 1) % 16
    BY <1>4, <2>1 DEF FallingEdge
  <2>3. state' = state + 1 /\ i < Last
    BY <1>1, <2>1, <2>2, Sizes
  <2>4. data'[i] = data[i + 1]
    BY <1>4, <2>3, Sizes DEF FallingEdge
  <2>5. data[i + 1] = Out(written)[i + 1 + state]
    BY <1>1, <2>1, <2>3, Sizes DEF WriteData
  <2>6. written' = written
    BY <1>4, <2>1 DEF Tick, Watch
  <2>7. i + 1 + state = i + state'
    BY <1>1, <2>3
  <2> QED BY <2>4, <2>5, <2>6, <2>7
<1>5. CASE WindowEnd /\ Quiet /\ ~Passing
  BY <1>1, <1>5, GivesUp DEF WriteData
<1>6. CASE Reset
  <2>1. ~wr'
    BY <1>6 DEF Reset, ResetRegisters
  <2> QED BY <2>1 DEF WriteData
<1> QED BY <1>2, <1>3, <1>4, <1>5, <1>6 DEF Next, Tick, WindowEnd, Passing

-----------------------------------------------------------------------------
(* Frames.  While the device pulls the clock its bit is on the data line,   *)
(* and the window's majority finds it there.                                *)

LevelData == dev_clock => IF dev_data THEN sum_data <= K - Within(steady, K)
                          ELSE ~wr => sum_data >= Within(steady, K)

LEMMA WithinStep ==
  /\ \A s \in 0 .. Cap, k \in 0 .. Window - 1 :
       /\ Within(s, k) \in 0 .. k
       /\ Within(Within(s + 1, Cap), k + 1) = Within(s, k) + 1
  /\ \A k \in 0 .. Window - 1 : Within(0, k) = 0
  /\ \A s \in 0 .. Cap : Within(s, 0) = 0
BY Large, Levels, Sizes DEF Within

LEMMA LevelDataStep ==
  ASSUME LineInv, LevelData, Next
  PROVE  LevelData'
<1>1. /\ TypeInv /\ K \in 0 .. Window - 1 /\ steady \in 0 .. Cap /\ steady' \in 0 .. Cap
      /\ K' \in 0 .. Window - 1 /\ Cap \in Nat
      /\ sum_data \in 0 .. Window - 1 /\ sum_data <= K /\ dev_clock \in BOOLEAN
      /\ sum_data' \in 0 .. Window - 1 /\ sum_data' <= K' /\ dev_data \in BOOLEAN
  <2>1. TypeInv /\ TypeInv'
    BY Base
  <2>2. sum_data \in 0 .. Window - 1 /\ sum_data <= K /\ dev_clock \in BOOLEAN /\ dev_data \in BOOLEAN
    BY <2>1 DEF TypeInv, TypeOK, ControllerTypes, SumFits
  <2>3. sum_data' \in 0 .. Window - 1 /\ sum_data' <= K'
    BY <2>1 DEF TypeInv, TypeOK, ControllerTypes, SumFits
  <2> QED BY <2>1, <2>2, <2>3, Base, Levels
<1> SUFFICES ASSUME dev_clock'
             PROVE  IF dev_data' THEN sum_data' <= K' - Within(steady', K')
                    ELSE ~wr' => sum_data' >= Within(steady', K')
  BY DEF LevelData
<1>2. CASE Within(steady', K') = 0
  <2>1. K' - 0 = K' /\ sum_data' >= 0
    <3>1. \A k \in 0 .. Window - 1 : k - 0 = k /\ k >= 0
      BY Sizes
    <3> QED BY <1>1, <3>1
  <2> QED BY <1>1, <1>2, <2>1
<1>3. CASE Sample /\ dev_clock
  <2>1. K' = K + 1 /\ wr' = wr /\ sum_data' = IF DataLine THEN sum_data + 1 ELSE sum_data
    BY <1>1, <1>3, SampleWindow, SampleKeeps, SampleSums DEF TypeInv
  <2>2. dev_data' = dev_data
    BY <1>3, NextParts, DeviceEdges DEF LineInv
  <2>3. ~ClockLine /\ ~ClockLine'
    BY <1>3 DEF ClockLine
  <2>4. steady' = Within(steady + 1, Cap)
    BY <1>1, <2>3, NextParts
  <2>5. Within(steady', K') = Within(steady, K) + 1 /\ Within(steady, K) \in 0 .. K
    BY <1>1, <2>1, <2>4, WithinStep
  <2>6. CASE dev_data
    <3>1. sum_data' = sum_data /\ sum_data <= K - Within(steady, K)
      BY <1>3, <2>1, <2>6 DEF DataLine, LevelData
    <3>2. \A k, w : k = K + 1 /\ w = Within(steady, K) + 1 => k - w = K - Within(steady, K)
      BY <1>1, <2>5, Sizes
    <3>3. K' - Within(steady', K') = K - Within(steady, K)
      BY <2>1, <2>5, <3>2, Zenon
    <3> QED BY <2>2, <2>6, <3>1, <3>3
  <2>7. CASE ~dev_data
    <3> SUFFICES ASSUME ~wr PROVE sum_data' >= Within(steady', K')
      BY <2>1, <2>2, <2>7
    <3>1. DataLine /\ sum_data >= Within(steady, K)
      BY <1>3, <2>7 DEF DataLine, LevelData
    <3>2. sum_data + 1 >= Within(steady, K) + 1
      BY <1>1, <2>5, <3>1, Sizes
    <3> QED BY <2>1, <2>5, <3>1, <3>2
  <2> QED BY <2>6, <2>7
<1>4. CASE Sample /\ ~dev_clock
  <2>1. ClockLine /\ ~ClockLine'
    BY <1>4, NextParts, DeviceEdges DEF LineInv, ClockLine
  <2>2. steady' = 0
    BY <1>1, <2>1, NextParts
  <2>3. Within(steady', K') = 0
    BY <1>1, <2>2, WithinStep
  <2> QED BY <1>2, <2>3
<1>5. CASE WindowEnd \/ Reset
  <2>1. K' = 0
    BY <1>5, EndWindow, ResetWindow
  <2>2. Within(steady', K') = 0
    BY <1>1, <2>1, WithinStep
  <2> QED BY <1>2, <2>2
<1> QED BY <1>1, <1>3, <1>4, <1>5 DEF Next, Tick

\* The bit a falling edge shifts in is the one the device has on the line.
LEMMA BitSeen ==
  ASSUME LineInv, LevelData, WindowEnd, FallingEdge, dev_clock, ~wr
  PROVE  DataHigh <=> ~dev_data
<1>1. /\ K = Window - 1 /\ steady \in 0 .. Cap /\ Cap \in Nat /\ sum_data \in 0 .. Window - 1
      /\ dev_data \in BOOLEAN
  BY EndWindow, Levels DEF LineInv, TypeInv, TypeOK, ControllerTypes
<1>2. ~ClockLine /\ ~High
  BY DEF ClockLine, FallingEdge
<1>3. steady >= Half
  BY <1>2, Majority
<1>4. Within(steady, K) >= Half
  BY <1>1, <1>3, Sizes DEF Within
<1>5. CASE dev_data
  BY <1>1, <1>4, <1>5, Sizes, WithinStep DEF LevelData, DataHigh
<1>6. CASE ~dev_data
  BY <1>1, <1>4, <1>6, Sizes, WithinStep DEF LevelData, DataHigh
<1> QED BY <1>1, <1>5, <1>6

LEMMA OnesNat ==
  ASSUME NEW f, NEW m \in Int
  PROVE  IsFiniteSet({i \in 2 .. m : f[i] = 1}) /\ Ones(f, 2 .. m) \in Nat
<1>1. IsFiniteSet({i \in 2 .. m : f[i] = 1})
  <2>1. IsFiniteSet(2 .. m)
    BY FS_Interval
  <2> QED BY <2>1, FS_Subset
<1> QED BY <1>1, FS_CardinalityType DEF Ones

LEMMA OnesNone == ASSUME NEW f PROVE Ones(f, 2 .. 1) = 0
<1>1. {i \in 2 .. 1 : f[i] = 1} = {}
  OBVIOUS
<1> QED BY <1>1, FS_EmptySet DEF Ones

LEMMA OnesMore ==
  ASSUME NEW f, NEW m \in Nat, m >= 1
  PROVE  Ones(f, 2 .. m + 1) = Ones(f, 2 .. m) + (IF f[m + 1] = 1 THEN 1 ELSE 0)
<1> DEFINE A == {i \in 2 .. m : f[i] = 1}
           B == {i \in 2 .. m + 1 : f[i] = 1}
<1>1. IsFiniteSet(A) /\ Cardinality(A) \in Nat
  BY OnesNat DEF Ones
<1>2. CASE f[m + 1] = 1
  <2>1. B = A \cup {m + 1} /\ m + 1 \notin A
    BY <1>2
  <2>2. Cardinality(A \cup {m + 1}) = Cardinality(A) + 1
    BY <1>1, <2>1, FS_AddElement
  <2> QED BY <1>2, <2>1, <2>2 DEF Ones
<1>3. CASE f[m + 1] # 1
  <2>1. B = A
    BY <1>3
  <2> QED BY <1>1, <1>3, <2>1 DEF Ones
<1> QED BY <1>2, <1>3

LEMMA ParityMore ==
  ASSUME NEW f, NEW m \in Nat, m >= 1
  PROVE  Ones(f, 2 .. m + 1) % 2 = IF f[m + 1] = 1 THEN 1 - (Ones(f, 2 .. m) % 2)
                                   ELSE Ones(f, 2 .. m) % 2
<1>1. \A c \in Nat : (c + 1) % 2 = 1 - (c % 2)
  OBVIOUS
<1>2. Ones(f, 2 .. m) \in Nat
  <2>1. m \in Int
    OBVIOUS
  <2> QED BY <2>1, OnesNat
<1>3. Ones(f, 2 .. m + 1) = Ones(f, 2 .. m) + (IF f[m + 1] = 1 THEN 1 ELSE 0)
  BY OnesMore
<1> DEFINE c == Ones(f, 2 .. m)
<1>4. Ones(f, 2 .. m + 1) = c + (IF f[m + 1] = 1 THEN 1 ELSE 0) /\ c \in Nat
  BY <1>2, <1>3
<1> HIDE DEF c
<1>5. Ones(f, 2 .. m + 1) % 2 = IF f[m + 1] = 1 THEN 1 - (c % 2) ELSE c % 2
  <2>1. CASE f[m + 1] = 1
    BY <1>1, <1>4, <2>1
  <2>2. CASE f[m + 1] # 1
    BY <1>4, <2>2
  <2> QED BY <2>1, <2>2
<1> QED BY <1>5 DEF c

-----------------------------------------------------------------------------
(* A fall of the device is seen once, by a falling edge of the controller,  *)
(* and before the line rises again.                                         *)

InFrame == mode # "idle" /\ mode' # "idle"

LEMMA FrameKept ==
  ASSUME LineInv, Tick, InFrame
  PROVE  /\ mode' = mode /\ frame' = frame /\ whole' = whole /\ odd0' = odd0
         /\ n \in 1 .. Last /\ n' \in 1 .. Last /\ n' \in {n, n + 1}
         /\ n' = n + 1 => ~dev_clock /\ dev_clock'
         /\ ~dev_clock => n < Last
<1>1. /\ TypeInv /\ TypeInv' /\ DeviceFits /\ DeviceFits' /\ Device
  BY Base, NextParts DEF TypeInv, Next
<1>2. n \in 0 .. Last /\ n # 0 /\ n' \in 0 .. Last /\ n' # 0 /\ (~dev_clock => n < Last)
  BY <1>1 DEF TypeInv, TypeOK, DeviceFits, InFrame
<1>3. n \in 1 .. Last /\ n' \in 1 .. Last
  <2>1. \A m \in 0 .. Last : m # 0 => m \in 1 .. Last
    BY Sizes
  <2> QED BY <1>2, <2>1
<1>4. whole' = whole /\ odd0' = odd0
  BY DEF Tick, Watch, InFrame
<1>5. /\ mode' = mode /\ frame' = frame /\ n' \in {n, n + 1}
      /\ n' = n + 1 => ~dev_clock /\ dev_clock'
  <2>1. CASE Stay
    BY <1>3, <2>1, Sizes DEF Stay, deviceVars
  <2>2. CASE Fall
    BY <2>2 DEF Fall
  <2>3. CASE Rise
    BY <1>3, <2>3, Sizes DEF Rise, InFrame
  <2> QED BY <1>1, <2>1, <2>2, <2>3 DEF Device, BeginSend, BeginTake, Leave, InFrame
<1> QED BY <1>2, <1>3, <1>4, <1>5

LEMMA SeenKept ==
  ASSUME LineInv, Tick, InFrame, ~first, Sample \/ (WindowEnd /\ Quiet)
  PROVE  Seen' = Seen
<1>1. /\ TypeInv /\ K \in 0 .. Window - 1 /\ steady \in 0 .. Cap /\ Cap \in Nat /\ MinHalf \in Nat
      /\ DeviceTypes /\ DeviceFits /\ Device /\ MinHalf >= Half + Window
  BY Base, NextParts, Levels DEF Next
<1>2. /\ n \in 1 .. Last /\ n' \in {n, n + 1} /\ (n' = n + 1 => ~dev_clock /\ dev_clock')
      /\ dev_clock \in BOOLEAN /\ dev_clock' \in BOOLEAN
  BY <1>1, FrameKept, NextParts DEF Next, DeviceTypes
<1>3. (avg_clock <=> ClockLine) <=> steady > K + Half
  BY DEF LineInv, LevelSeen
<1>4. CASE Sample
  <2>1. avg_clock' = avg_clock
    BY <1>4, SampleKeeps
  <2>2. steady >= MinHalf => (avg_clock <=> ClockLine)
    BY <1>1, <1>3, Sizes
  <2>3. CASE dev_clock /\ dev_clock'
    BY <1>2, <2>1, <2>3, Sizes DEF Seen
  <2>4. CASE dev_clock /\ ~dev_clock'
    <3>1. ~avg_clock
      BY <1>1, <2>2, <2>4, DeviceEdges DEF ClockLine
    <3> QED BY <1>2, <2>4, <3>1, Sizes DEF Seen
  <2>5. CASE ~dev_clock /\ dev_clock'
    <3>1. avg_clock /\ mode # "idle"
      BY <1>1, <2>2, <2>5, DeviceEdges DEF InFrame
    <3>2. n' = n + 1
      BY <1>1, <2>5, <3>1, DeviceEdges
    <3> QED BY <1>2, <2>1, <2>5, <3>1, <3>2, Sizes DEF Seen
  <2>6. CASE ~dev_clock /\ ~dev_clock'
    BY <1>2, <2>6, Sizes DEF Seen
  <2> QED BY <1>2, <2>3, <2>4, <2>5, <2>6
<1>5. CASE WindowEnd /\ Quiet
  <2>1. (avg_clock' <=> High) /\ ((High <=> ClockLine) <=> steady >= Half) /\ (avg_clock => High)
    BY <1>5, Majority DEF WindowEnd, Quiet
  <2>2. steady >= MinHalf => (avg_clock <=> ClockLine) /\ (High <=> ClockLine)
    BY <1>1, <1>3, <2>1, Sizes
  <2>3. CASE dev_clock /\ dev_clock'
    <3>1. avg_clock' <=> avg_clock
      <4>1. ~ClockLine
        BY <2>3 DEF ClockLine
      <4>2. ~avg_clock => steady >= Half
        BY <1>1, <1>3, <4>1, Sizes
      <4> QED BY <2>1, <4>1, <4>2
    <3> QED BY <1>2, <2>3, <3>1, Sizes DEF Seen
  <2>4. CASE dev_clock /\ ~dev_clock'
    <3>1. ~avg_clock
      BY <1>1, <2>2, <2>4, DeviceEdges DEF ClockLine
    <3> QED BY <1>2, <2>4, <3>1, Sizes DEF Seen
  <2>5. CASE ~dev_clock /\ dev_clock'
    <3>1. avg_clock' /\ mode # "idle"
      BY <1>1, <2>1, <2>2, <2>5, DeviceEdges DEF InFrame
    <3>2. n' = n + 1
      BY <1>1, <2>5, <3>1, DeviceEdges
    <3> QED BY <1>2, <2>5, <3>1, <3>2, Sizes DEF Seen
  <2>6. CASE ~dev_clock /\ ~dev_clock'
    BY <1>2, <2>6, Sizes DEF Seen
  <2> QED BY <1>2, <2>3, <2>4, <2>5, <2>6
<1> QED BY <1>4, <1>5

LEMMA SeenAtEdge ==
  ASSUME LineInv, Tick, mode # "idle", ~first, WindowEnd, FallingEdge, clock_out = 0
  PROVE  /\ dev_clock /\ dev_clock' /\ mode' # "idle" /\ n' = n /\ Seen = n - 1 /\ Seen' = n
<1>1. /\ TypeInv /\ K \in 0 .. Window - 1 /\ steady \in 0 .. Cap /\ Cap \in Nat /\ MinHalf \in Nat
      /\ DeviceTypes /\ DeviceFits /\ Device /\ MinHalf >= Half + Window
  BY Base, NextParts, Levels DEF Next
<1>2. /\ (avg_clock <=> ClockLine) <=> steady > K + Half
      /\ (High <=> ClockLine) <=> steady >= Half
      /\ avg_clock /\ ~High /\ ~avg_clock'
  BY Majority DEF LineInv, LevelSeen, FallingEdge, WindowEnd
<1>3. ~ClockLine
  BY <1>1, <1>2, Sizes
<1>4. dev_clock
  BY <1>3 DEF ClockLine
<1>5. steady < MinHalf
  BY <1>1, <1>2, <1>3, Sizes
<1>6. dev_clock'
  BY <1>1, <1>4, <1>5, DeviceEdges
<1>7. UNCHANGED <<dev_data, mode, n, frame>>
  BY <1>1, <1>4, <1>6, DeviceEdges
<1> QED BY <1>2, <1>4, <1>6, <1>7 DEF Seen

\* The controller does not begin to hold the clock once it saw the last fall.
LEMMA NoStartAtEnd ==
  ASSUME LineInv, WindowEnd, mode # "idle", ~first, dev_clock \/ n = Last, High
  PROVE  dev_clock /\ avg_clock /\ steady < Half
<1>1. /\ K \in 0 .. Window - 1 /\ steady \in 0 .. Cap /\ Cap \in Nat
      /\ n \in 0 .. Last /\ (~dev_clock => n < Last)
  BY KNat, Levels DEF LineInv, TypeInv, TypeOK, DeviceFits
<1>2. dev_clock /\ ~ClockLine
  BY <1>1, Sizes DEF ClockLine
<1>3. steady < Half
  BY <1>1, <1>2, Majority, Sizes
<1>4. avg_clock
  BY <1>1, <1>2, <1>3, Sizes DEF LineInv, LevelSeen
<1> QED BY <1>2, <1>3, <1>4

\* How long ago the controller saw the last fall, when it saw all or all but one.
LastClear == IF ~dev_clock THEN MaxHalf + 1 + steady
             ELSE IF avg_clock THEN MaxHalf + MaxHalf + 2 + steady ELSE steady

LEMMA ClearKept ==
  ASSUME LineInv, Tick, InFrame, ~first, Passing, clock_out = 0, clock_out' = 0,
         Elapsed <= LastClear
  PROVE  Elapsed' <= LastClear'
<1>1. /\ TypeInv /\ Elapsed \in Nat /\ steady \in 0 .. Cap /\ Cap \in Nat /\ MaxHalf \in Nat
      /\ DeviceTypes /\ DeviceFits /\ Device /\ MaxHalf < Cap
  <2>1. MaxHalf < Cap
    BY Large, Levels, Sizes
  <2> QED BY <2>1, Base, NextParts, Levels DEF Next
<1>2. Elapsed' = Elapsed + 1 /\ Seen' = Seen
  BY <1>1, ElapsedStep, SeenKept DEF Passing
<1>3. /\ n \in 1 .. Last /\ dev_clock \in BOOLEAN /\ dev_clock' \in BOOLEAN
      /\ avg_clock \in BOOLEAN /\ avg_clock' \in BOOLEAN
      /\ ClockLine = ~dev_clock /\ ClockLine' = ~dev_clock'
  <2>1. n \in 1 .. Last
    BY FrameKept
  <2>2. dev_clock \in BOOLEAN /\ dev_clock' \in BOOLEAN /\ avg_clock \in BOOLEAN /\ avg_clock' \in BOOLEAN
    BY Base DEF Next, TypeInv, TypeOK, ControllerTypes
  <2>3. ClockLine = ~dev_clock /\ ClockLine' = ~dev_clock'
    BY DEF ClockLine
  <2> QED BY <2>1, <2>2, <2>3
<1>4. (dev_clock \/ ClockLine) /\ steady <= MaxHalf
  BY <1>3 DEF LineInv, LowTime, InFrame
<1>5. /\ (ClockLine' <=> ClockLine) => steady' = Within(steady + 1, Cap)
      /\ ~(ClockLine' <=> ClockLine) => steady' = 0
  BY NextParts DEF LineInv, Next
<1>6. /\ dev_clock /\ dev_clock' => n' = n /\ steady < MaxHalf
      /\ ~dev_clock /\ ~dev_clock' => steady < MaxHalf
      /\ ~dev_clock /\ dev_clock' => n' = n + 1
  BY <1>1, DeviceEdges DEF InFrame
<1>7. CASE dev_clock <=> dev_clock'
  <2>1. steady' = steady + 1
    BY <1>1, <1>3, <1>4, <1>5, <1>6, <1>7 DEF Within
  <2>2. dev_clock => (avg_clock' <=> avg_clock)
    BY <1>2, <1>3, <1>6, <1>7, Sizes DEF Seen
  <2>3. LastClear' = LastClear + 1
    <3>1. CASE ~dev_clock
      <4>1. LastClear = MaxHalf + 1 + steady /\ LastClear' = MaxHalf + 1 + steady'
        BY <1>7, <3>1 DEF LastClear
      <4> QED BY <1>1, <2>1, <4>1
    <3>2. CASE dev_clock /\ avg_clock
      <4>1. /\ LastClear = MaxHalf + MaxHalf + 2 + steady
            /\ LastClear' = MaxHalf + MaxHalf + 2 + steady'
        BY <1>7, <2>2, <3>2 DEF LastClear
      <4> QED BY <1>1, <2>1, <4>1
    <3>3. CASE dev_clock /\ ~avg_clock
      <4>1. LastClear = steady /\ LastClear' = steady'
        BY <1>7, <2>2, <3>3 DEF LastClear
      <4> QED BY <2>1, <4>1
    <3> QED BY <1>3, <3>1, <3>2, <3>3
  <2>4. LastClear \in Int
    BY <1>1 DEF LastClear
  <2> QED BY <1>1, <1>2, <2>3, <2>4
<1>8. CASE dev_clock /\ ~dev_clock'
  <2>1. ~avg_clock
    <3>1. Seen' = n'
      BY <1>8 DEF Seen
    <3>2. n' \in {n, n + 1} /\ n' # n + 1
      BY <1>8, FrameKept
    <3> QED BY <1>2, <1>3, <1>8, <3>1, <3>2, Sizes DEF Seen
  <2>2. Elapsed <= MaxHalf
    BY <1>1, <1>4, <1>8, <2>1 DEF LastClear
  <2>3. steady' = 0 /\ LastClear' = MaxHalf + 1 + steady'
    BY <1>3, <1>5, <1>8 DEF LastClear
  <2>4. LastClear' = MaxHalf + 1
    BY <1>1, <2>3
  <2> QED BY <1>1, <1>2, <2>2, <2>4
<1>9. CASE ~dev_clock /\ dev_clock'
  <2>1. avg_clock'
    <3>1. n' = n + 1 /\ Seen = n
      BY <1>6, <1>9 DEF Seen
    <3> QED BY <1>2, <1>3, <1>9, <3>1, Sizes DEF Seen
  <2>2. Elapsed <= MaxHalf + 1 + MaxHalf
    BY <1>1, <1>4, <1>9 DEF LastClear
  <2>3. steady' = 0 /\ LastClear' = MaxHalf + MaxHalf + 2 + steady'
    BY <1>3, <1>5, <1>9, <2>1 DEF LastClear
  <2>4. LastClear' = MaxHalf + MaxHalf + 2
    BY <1>1, <2>3
  <2> QED BY <1>1, <1>2, <2>2, <2>4
<1> QED BY <1>3, <1>7, <1>8, <1>9

LEMMA NoTimeOut ==
  ASSUME LineInv, WindowEnd, Quiet, mode # "idle", ~first, clock_out = 0, Elapsed <= LastClear
  PROVE  Passing
<1> SUFFICES ASSUME ~Passing PROVE FALSE
  OBVIOUS
<1>1. /\ Elapsed = Span(Timeout) - 1 /\ steady \in 0 .. Cap /\ Cap \in Nat /\ MaxHalf \in Nat
      /\ MaxHalf + MaxHalf + Half + 2 < Span(Timeout) /\ Span(Timeout) \in Int
  BY GivesUp, Levels, Sizes DEF LineInv, TypeInv, TypeOK
<1>2. steady <= MaxHalf
  BY DEF LineInv, LowTime, ClockLine
<1>3. CASE ~dev_clock
  BY <1>1, <1>2, <1>3, Sizes DEF LastClear
<1>4. CASE dev_clock /\ avg_clock
  <2>1. steady < Half
    BY <1>4, NoStartAtEnd DEF Quiet
  <2> QED BY <1>1, <1>4, <2>1, Sizes DEF LastClear
<1>5. CASE dev_clock /\ ~avg_clock
  BY <1>1, <1>2, <1>5, Sizes DEF LastClear
<1> QED BY <1>3, <1>4, <1>5

-----------------------------------------------------------------------------
(* A frame that the device sends to a controller that listens.              *)

Sending == mode = "send" /\ whole

\* A write may begin at the first fall, before the controller sees it.
SendHeld == wr => n = 1 /\ clock_out # 0

SendState == ~wr => state = IF Seen = Last THEN 0 ELSE Seen

SendOdd == /\ Seen < Last => read_odd = odd0
           /\ Seen = Last => ~wr /\ ((read_odd # odd0) <=> ParityHolds)

SendBits == ~wr => /\ Seen \in 1 .. Last - 1 => parity_read = Ones(frame, 2 .. Seen) % 2
                   /\ \A j \in 1 .. Seen : data[Last - (Seen - j)] = frame[j]

SendTime == ~wr /\ Seen \in 1 .. Last - 1 => Elapsed <= LastClear

SendInv == Sending => /\ SendHeld /\ SendState /\ SendOdd /\ SendBits /\ SendTime
                      /\ ~first

ConvInv == LineInv /\ LevelData

\* The first fall.
LEMMA SendBegins ==
  ASSUME ConvInv, Tick, mode = "idle", mode' = "send", whole'
  PROVE  SendHeld' /\ SendState' /\ SendOdd' /\ SendBits' /\ SendTime' /\ ~first'
<1>1. /\ LineInv /\ TypeInv /\ K \in 0 .. Window - 1 /\ steady \in 0 .. Cap /\ Cap \in Nat
      /\ MinHalf \in Nat /\ MinHalf >= Half + Window /\ DeviceFits
  BY Base, Levels DEF ConvInv, Next, TypeInv
<1>2. BeginSend /\ Listening
  <2>1. Device /\ Watch
    BY DEF Tick
  <2>2. BeginSend
    BY <2>1, <1>1 DEF Device, Stay, BeginTake, Fall, Rise, Leave, deviceVars, DeviceFits
  <2> QED BY <2>1, <2>2 DEF Watch
<1>3. ~first /\ state = 0 /\ ~wr /\ n' = 1 /\ dev_clock' /\ ClockLine /\ steady >= MinHalf
  BY <1>2 DEF BeginSend, Listening, MayFall
<1>4. avg_clock /\ (WindowEnd => High)
  <2>1. steady > K + Half /\ steady >= Half
    BY <1>1, <1>3, Sizes
  <2>2. avg_clock
    BY <1>1, <1>3, <2>1 DEF LineInv, LevelSeen
  <2> QED BY <1>1, <1>3, <2>1, <2>2, Majority
<1>5. avg_clock' /\ (Sample \/ ~FallingEdge)
  <2>1. CASE Sample
    BY <1>4, <2>1, SampleKeeps
  <2>2. CASE WindowEnd
    BY <1>4, <2>2 DEF WindowEnd, FallingEdge
  <2> QED BY <2>1, <2>2 DEF Tick
<1>6. Seen' = 0
  <2>1. Seen' = n' - 1
    BY <1>3, <1>5 DEF Seen
  <2> QED BY <1>3, <2>1
<1>7. state' = 0 /\ read_odd' = read_odd /\ (wr' => clock_out' # 0)
  <2>1. CASE Sample
    BY <1>3, <2>1, SampleKeeps
  <2>2. CASE WindowEnd /\ StartWrite
    BY <1>1, <2>2, StartTypes, Sizes DEF TypeInv
  <2>3. CASE WindowEnd /\ Quiet
    <3>1. reset_counter < Timeout - 1 \/ reset_counter = Timeout - 1
      BY <1>1, Sizes DEF TypeInv, TypeOK, ControllerTypes
    <3>2. state' = 0 /\ ~wr' /\ read_odd' = read_odd
      BY <1>1, <1>3, <2>3, <3>1, QuietTypes DEF TypeInv
    <3> QED BY <3>2
  <2> QED BY <1>5, <2>1, <2>2, <2>3 DEF Tick, WindowEnd, Sample
<1>8. odd0' = read_odd /\ ~first'
  BY <1>3 DEF Tick, Watch
<1>9. 0 < Last /\ 0 \notin 1 .. Last - 1 /\ 1 .. 0 = {} /\ 0 # Last
  BY Sizes
<1>10. SendHeld' /\ SendState' /\ SendOdd'
  BY <1>3, <1>6, <1>7, <1>8, <1>9 DEF SendHeld, SendState, SendOdd
<1>11. SendBits' /\ SendTime'
  BY <1>6, <1>9 DEF SendBits, SendTime
<1> QED BY <1>8, <1>10, <1>11

\* While a write holds the clock the device leaves the frame at its first fall.
LEMMA SendWhileHeld ==
  ASSUME LineInv, Tick, mode = "send", mode' = "send", clock_out # 0, n = 1
  PROVE  n' = 1 /\ clock_out' # 0
<1>1. /\ TypeInv /\ DeviceTypes /\ DeviceFits /\ Device /\ clock_out \in 1 .. Hold
      /\ steady \in 0 .. Cap /\ K \in 0 .. Window - 1
  <2>1. TypeInv /\ clock_out \in 0 .. Hold /\ steady \in 0 .. Cap /\ K \in 0 .. Window - 1
    BY Base DEF Next
  <2> QED BY <2>1, NextParts, Sizes DEF Next
<1>2. ~ClockLine
  BY DEF ClockLine
<1>3. dev_clock
  BY <1>1, <1>2, DeviceEdges
<1>4. n' = 1
  <2>1. n' \in {n, n + 1} /\ (n' = n + 1 => ~dev_clock)
    BY FrameKept DEF InFrame
  <2> QED BY <1>3, <2>1
<1>5. clock_out' # 0
  <2>1. clock_out = 1 => steady > MaxHalf
    <3> SUFFICES ASSUME clock_out = 1 PROVE steady > MaxHalf
      OBVIOUS
    <3>1. steady >= Span(Hold - 1) + K
      BY DEF LineInv, HoldPhases
    <3> QED BY <1>1, <3>1, Levels, Sizes
  <2>2. clock_out # 1
    BY <1>1, <1>3, <2>1, Levels DEF LineInv, LowTime
  <2>3. clock_out' \in {clock_out, Hold, Released}
    BY SampleKeeps DEF Tick, WindowEnd, StartWrite, FallingEdge, Quiet
  <2> QED BY <1>1, <2>2, <2>3, Sizes DEF Released
<1> QED BY <1>4, <1>5

LEMMA SendPasses ==
  ASSUME ConvInv, Tick, Passing, Sending, Sending', SendInv
  PROVE  SendHeld' /\ SendState' /\ SendOdd' /\ SendBits' /\ SendTime'
<1>1. LineInv /\ TypeInv /\ ~first /\ SendHeld /\ SendState /\ SendOdd /\ SendBits /\ SendTime
  BY Base DEF ConvInv, SendInv, Next
<1>2. UNCHANGED <<state, wr, data, read_odd, parity_read>>
  BY <1>1, ElapsedStep
<1>3. InFrame
  BY DEF Sending, InFrame
<1>4. Seen' = Seen /\ frame' = frame /\ odd0' = odd0
  BY <1>1, <1>3, SeenKept, FrameKept DEF Passing
<1>5. SendHeld'
  BY <1>1, <1>2, SendWhileHeld DEF SendHeld, Sending
<1>6. SendState' /\ SendOdd' /\ SendBits'
  BY <1>1, <1>2, <1>4 DEF SendState, SendOdd, SendBits, ParityHolds
<1>7. SendTime'
  <2> SUFFICES ASSUME ~wr, Seen \in 1 .. Last - 1 PROVE Elapsed' <= LastClear'
    BY <1>2, <1>4 DEF SendTime
  <2>1. clock_out = 0 /\ clock_out' = 0
    <3>1. clock_out = 0
      BY <1>1 DEF LineInv, HoldPhases
    <3>2. clock_out' \in {clock_out, Released}
      BY SampleKeeps DEF Passing, Quiet
    <3> QED BY <3>1, <3>2 DEF Released
  <2> QED BY <1>1, <1>3, <2>1, ClearKept DEF SendTime
<1> QED BY <1>5, <1>6, <1>7

LEMMA SendTimesOut ==
  ASSUME ConvInv, Tick, WindowEnd, Quiet, ~Passing, Sending, Sending', SendInv
  PROVE  SendHeld' /\ SendState' /\ SendOdd' /\ SendBits' /\ SendTime'
<1>1. LineInv /\ TypeInv /\ ~first /\ SendHeld /\ SendState /\ SendOdd /\ SendBits /\ SendTime
      /\ n \in 1 .. Last /\ clock_out \in 0 .. Hold
  BY Base, FrameKept DEF ConvInv, SendInv, Next, Sending, InFrame
<1>2. clock_out = 0
  <2> SUFFICES ASSUME clock_out # 0 PROVE FALSE
    OBVIOUS
  <2>1. ~High /\ wr
    BY <1>1, Held, Sizes DEF High
  <2>2. clock_out \in 1 .. Hold - 1 /\ reset_counter + clock_out = Hold - 1
    BY <1>1, <2>1, Sizes DEF LineInv, HoldPhases, Quiet
  <2>3. reset_counter < Timeout - 1
    BY <1>1, <2>2, Sizes DEF TypeInv, TypeOK, ControllerTypes
  <2> QED BY <2>3 DEF Passing
<1>3. ~wr
  BY <1>1, <1>2 DEF SendHeld
<1>4. Seen \notin 1 .. Last - 1
  BY <1>1, <1>2, <1>3, NoTimeOut DEF SendTime, Sending
<1>5. state' = 0 /\ ~wr' /\ data' = data /\ read_odd' = read_odd /\ Seen' = Seen
      /\ frame' = frame /\ odd0' = odd0
  BY <1>1, GivesUp, SeenKept, FrameKept DEF Quiet, Sending, InFrame
<1>6. Seen \in 0 .. Last
  BY <1>1, Sizes DEF Seen
<1>7. Seen = 0 \/ Seen = Last
  BY <1>4, <1>6, Sizes
<1>8. SendHeld' /\ SendState' /\ SendOdd'
  BY <1>1, <1>3, <1>5, <1>7 DEF SendHeld, SendState, SendOdd, ParityHolds
<1>9. SendBits' /\ SendTime'
  BY <1>1, <1>3, <1>4, <1>5 DEF SendBits, SendTime
<1> QED BY <1>8, <1>9

LEMMA SendStarts ==
  ASSUME ConvInv, Tick, WindowEnd, StartWrite, Sending, Sending', SendInv
  PROVE  SendHeld' /\ SendState' /\ SendOdd' /\ SendBits' /\ SendTime'
<1>1. /\ LineInv /\ TypeInv /\ ~first /\ SendState /\ SendOdd
      /\ n \in 1 .. Last /\ DeviceTypes /\ DeviceFits /\ Device /\ InFrame
      /\ steady \in 0 .. Cap /\ Cap \in Nat /\ MinHalf \in Nat /\ MinHalf >= Half + Window
  <2>1. LineInv /\ TypeInv /\ InFrame /\ steady \in 0 .. Cap
    BY Base DEF ConvInv, Next, Sending, InFrame
  <2> QED BY <2>1, NextParts, FrameKept, Levels DEF SendInv, Next
<1>2. ~wr /\ state = 0 /\ High /\ wr' = TRUE /\ clock_out' = Hold /\ read_odd' = read_odd
  BY <1>1, StartTypes DEF StartWrite, MayStart, TypeInv
<1>3. dev_clock \/ n = Last
  <2> SUFFICES ASSUME ~dev_clock, n # Last PROVE FALSE
    OBVIOUS
  <2>1. Seen = n
    BY DEF Seen
  <2> QED BY <1>1, <1>2, <2>1, Sizes DEF SendState
<1>4. dev_clock /\ avg_clock /\ steady < Half
  BY <1>1, <1>2, <1>3, NoStartAtEnd DEF InFrame
<1>5. n = 1
  <2>1. Seen = n - 1
    BY <1>4 DEF Seen
  <2> QED BY <1>1, <1>2, <2>1, Sizes DEF SendState
<1>6. dev_clock' /\ n' = 1
  <2>1. ~(steady >= MinHalf)
    BY <1>1, <1>4, Sizes
  <2>2. dev_clock'
    BY <1>1, <1>4, <2>1, DeviceEdges
  <2> QED BY <1>1, <1>4, <1>5, <2>2, DeviceEdges
<1>7. avg_clock'
  BY <1>2 DEF WindowEnd
<1>8. Seen' = 0 /\ Seen = 0
  <2>1. Seen' = n' - 1 /\ Seen = n - 1
    BY <1>4, <1>6, <1>7 DEF Seen
  <2> QED BY <1>5, <1>6, <2>1
<1>9. 0 < Last /\ Hold # 0 /\ 0 # Last
  BY Sizes
<1>10. odd0' = odd0
  BY <1>1, FrameKept
<1> QED BY <1>1, <1>2, <1>6, <1>8, <1>9, <1>10
        DEF SendHeld, SendState, SendOdd, SendBits, SendTime

LEMMA SendHoldEdge ==
  ASSUME ConvInv, Tick, WindowEnd, FallingEdge, clock_out # 0, Sending, Sending', SendInv
  PROVE  SendHeld' /\ SendState' /\ SendOdd' /\ SendBits' /\ SendTime'
<1>1. LineInv /\ TypeInv /\ SendHeld /\ SendOdd /\ InFrame /\ clock_out \in 0 .. Hold
  BY Base DEF ConvInv, SendInv, Next, Sending, InFrame
<1>2. wr /\ state = 0 /\ n = 1
  <2>1. wr /\ n = 1
    BY <1>1 DEF LineInv, HoldPhases, SendHeld
  <2>2. clock_out = Hold
    BY <1>1, Sizes DEF LineInv, HoldPhases, FallingEdge
  <2> QED BY <1>1, <2>1, <2>2 DEF LineInv, HoldPhases
<1>3. n' = 1 /\ clock_out' # 0
  BY <1>1, <1>2, SendWhileHeld DEF Sending
<1>4. wr' = wr /\ read_odd' = read_odd
  <2>1. state # Last - 1 /\ state # Last
    BY <1>2, Sizes
  <2> QED BY <2>1 DEF FallingEdge
<1>5. Seen < Last /\ Seen' < Last /\ Seen' # Last
  <2>1. Seen \in {0, 1}
    BY <1>2 DEF Seen
  <2>2. Seen' \in {0, 1}
    <3>1. Seen' = n' - 1 \/ Seen' = n'
      BY DEF Seen
    <3> QED BY <1>3, <3>1
  <2> QED BY <2>1, <2>2, Sizes
<1>6. odd0' = odd0
  BY <1>1, FrameKept
<1> QED BY <1>1, <1>2, <1>3, <1>4, <1>5, <1>6
        DEF SendHeld, SendState, SendOdd, SendBits, SendTime

LEMMA SendFalls ==
  ASSUME ConvInv, Tick, WindowEnd, FallingEdge, clock_out = 0, Sending, Sending', SendInv
  PROVE  SendHeld' /\ SendState' /\ SendOdd' /\ SendBits' /\ SendTime'
<1>1. /\ LineInv /\ TypeInv /\ ~first /\ SendHeld /\ SendState /\ SendOdd /\ SendBits
      /\ n \in 1 .. Last /\ InFrame /\ LevelData /\ DeviceFits
  <2>1. LineInv /\ TypeInv /\ InFrame /\ LevelData
    BY Base DEF ConvInv, Next, Sending, InFrame
  <2> QED BY <2>1, FrameKept DEF SendInv, TypeInv
<1>2. ~wr
  BY <1>1 DEF SendHeld
<1>3. dev_clock /\ dev_clock' /\ n' = n /\ Seen = n - 1 /\ Seen' = n
  BY <1>1, SeenAtEdge DEF InFrame
<1>4. frame' = frame /\ odd0' = odd0
  BY <1>1, FrameKept
<1>5. state = n - 1
  BY <1>1, <1>2, <1>3, Sizes DEF SendState
<1>6. (DataHigh <=> frame[n] = 1) /\ frame[n] \in {0, 1}
  <2>1. DataHigh <=> ~dev_data
    BY <1>1, <1>2, <1>3, BitSeen
  <2>2. dev_data <=> frame[n] = 0
    BY <1>1, <1>3 DEF DeviceFits, Sending
  <2>3. frame[n] \in {0, 1}
    BY <1>1 DEF TypeInv, TypeOK, Bit
  <2> QED BY <2>1, <2>2, <2>3
<1>7. \A j \in 1 .. n : data'[Last - (n - j)] = frame[j]
  <2> TAKE j \in 1 .. n
  <2>1. CASE j = n
    <3>1. Last - (n - j) = Last
      BY <1>1, <2>1, Sizes
    <3>2. data'[Last] = IF DataHigh THEN 1 ELSE 0
      BY Sizes DEF FallingEdge
    <3> QED BY <1>6, <2>1, <3>1, <3>2
  <2>2. CASE j # n
    <3>1. /\ Last - (n - j) \in 0 .. Last - 1
          /\ Last - (n - j) + 1 = Last - (n - 1 - j) /\ j \in 1 .. n - 1
      BY <1>1, <2>2, Sizes
    <3>2. data'[Last - (n - j)] = data[Last - (n - j) + 1]
      BY <3>1, Sizes DEF FallingEdge
    <3> QED BY <1>1, <1>2, <1>3, <3>1, <3>2 DEF SendBits
  <2> QED BY <2>1, <2>2
<1>8. CASE n < Last
  <2>1. ~(state = Last - 1 /\ ~wr)
    BY <1>1, <1>5, <1>8, Sizes
  <2>2. state' = (state + 1) % 16 /\ wr' = wr /\ read_odd' = read_odd
    BY <1>2, <2>1 DEF FallingEdge
  <2>3. state' = n
    <3>1. state + 1 = n /\ n % 16 = n
      BY <1>1, <1>5, Sizes
    <3> QED BY <2>2, <3>1
  <2>4. parity_read' = Ones(frame, 2 .. n) % 2
    <3>1. CASE n = 1
      <4>1. parity_read' = 0
        BY <1>5, <3>1 DEF FallingEdge, Parity
      <4> QED BY <3>1, <4>1, OnesNone
    <3>2. CASE n # 1
      <4>1. n - 1 \in Nat /\ n - 1 >= 1 /\ n - 1 + 1 = n /\ n - 1 \in 1 .. Last - 1 /\ n - 1 # 0
        BY <1>1, <3>2, Sizes
      <4>2. parity_read' = IF DataHigh THEN 1 - parity_read ELSE parity_read
        BY <1>5, <4>1 DEF FallingEdge, Parity
      <4>3. parity_read = Ones(frame, 2 .. n - 1) % 2
        BY <1>1, <1>2, <1>3, <4>1 DEF SendBits
      <4>4. Ones(frame, 2 .. n - 1 + 1) % 2 = IF frame[n - 1 + 1] = 1 THEN 1 - (Ones(frame, 2 .. n - 1) % 2)
                                              ELSE Ones(frame, 2 .. n - 1) % 2
        BY <4>1, ParityMore
      <4> QED BY <1>6, <4>1, <4>2, <4>3, <4>4
    <3> QED BY <3>1, <3>2
  <2>5. Elapsed' = 0 /\ LastClear' >= 0
    <3>1. Elapsed' = 0
      BY <1>1, ElapsedStep
    <3>2. ~avg_clock'
      BY DEF FallingEdge, WindowEnd
    <3>3. LastClear' = steady'
      BY <1>3, <3>2 DEF LastClear
    <3>4. steady' \in 0 .. Cap
      BY <1>1, NextParts DEF Next
    <3>5. \A s \in 0 .. Cap : s >= 0
      BY Levels
    <3> QED BY <3>1, <3>3, <3>4, <3>5
  <2>6. n # Last /\ Seen < Last
    BY <1>1, <1>3, <1>8, Sizes
  <2>7. SendHeld' /\ SendState'
    BY <1>2, <1>3, <2>2, <2>3, <2>6 DEF SendHeld, SendState
  <2>8. SendOdd'
    BY <1>1, <1>2, <1>3, <1>4, <2>2, <2>6 DEF SendOdd
  <2>9. SendBits' /\ SendTime'
    BY <1>3, <1>4, <1>7, <2>4, <2>5 DEF SendBits, SendTime
  <2> QED BY <2>7, <2>8, <2>9
<1>9. CASE n = Last
  <2>1. state = Last - 1 /\ Seen < Last /\ Seen = Last - 1 /\ Seen \in 1 .. Last - 1
        /\ Last \notin 1 .. Last - 1 /\ ~(Last < Last)
    BY <1>3, <1>5, <1>9, Sizes
  <2>2. state' = 0 /\ wr' = wr /\ read_odd' = IF parity_read = 1 THEN 1 - read_odd ELSE read_odd
    BY <1>2, <2>1, Sizes DEF FallingEdge
  <2>3. parity_read = 1 <=> ParityHolds
    BY <1>1, <1>2, <2>1 DEF SendBits, ParityHolds
  <2>4. read_odd = odd0 /\ read_odd \in {0, 1}
    BY <1>1, <2>1 DEF SendOdd, TypeInv, TypeOK, ControllerTypes, Bit
  <2>5. (read_odd' # odd0) <=> ParityHolds
    BY <2>2, <2>3, <2>4
  <2>6. ParityHolds' <=> ParityHolds
    BY <1>4 DEF ParityHolds
  <2>7. SendHeld' /\ SendState' /\ SendOdd'
    BY <1>2, <1>3, <1>4, <1>9, <2>1, <2>2, <2>5, <2>6 DEF SendHeld, SendState, SendOdd
  <2>8. SendBits' /\ SendTime'
    BY <1>3, <1>4, <1>7, <1>9, <2>1 DEF SendBits, SendTime
  <2> QED BY <2>7, <2>8
<1> QED BY <1>1, <1>8, <1>9, Sizes

LEMMA SendStep ==
  ASSUME ConvInv, SendInv, Next
  PROVE  SendInv'
<1>1. CASE Reset
  BY <1>1 DEF Reset, SendInv, Sending
<1>2. CASE Tick /\ Sending'
  <2>1. CASE mode = "idle"
    BY <1>2, <2>1, SendBegins DEF SendInv, Sending
  <2>2. CASE mode # "idle"
    <3>1. Sending
      BY <1>2, <2>2, FrameKept DEF Sending, InFrame, ConvInv
    <3>2. ~first'
      BY <1>2, <3>1 DEF SendInv, Tick, Watch
    <3>3. SendHeld' /\ SendState' /\ SendOdd' /\ SendBits' /\ SendTime'
      <4>1. CASE Passing
        BY <1>2, <3>1, <4>1, SendPasses
      <4>2. CASE WindowEnd /\ Quiet /\ ~Passing
        BY <1>2, <3>1, <4>2, SendTimesOut
      <4>3. CASE WindowEnd /\ StartWrite
        BY <1>2, <3>1, <4>3, SendStarts
      <4>4. CASE WindowEnd /\ FallingEdge
        BY <1>2, <3>1, <4>4, SendHoldEdge, SendFalls
      <4> QED BY <1>2, <4>1, <4>2, <4>3, <4>4 DEF Tick, WindowEnd, Passing
    <3> QED BY <3>2, <3>3 DEF SendInv
  <2> QED BY <2>1, <2>2
<1>3. CASE ~Sending'
  BY <1>3 DEF SendInv
<1> QED BY <1>1, <1>2, <1>3 DEF Next

-----------------------------------------------------------------------------
(* A write that the device answers in time.                                 *)

Taking == mode = "take" /\ whole

TakeState == IF Seen = Last THEN ~wr /\ state = 0 ELSE wr /\ state = 1 + Seen

TakeTime == /\ Seen \in 1 .. Last - 1 => Elapsed <= LastClear
            /\ Seen = 0 => Elapsed <= Span(Hold - 1) + Prompt + 1 + steady

TakeInv == Taking => TakeState /\ TakeTime /\ clock_out = 0 /\ ~first

LEMMA TakeBegins ==
  ASSUME LineInv, Answer, Tick, mode = "idle", mode' = "take", whole'
  PROVE  TakeState' /\ TakeTime' /\ clock_out' = 0 /\ ~first'
<1>1. /\ TypeInv /\ K \in 0 .. Window - 1 /\ steady \in 0 .. Cap /\ Cap \in Nat
      /\ MinHalf \in Nat /\ MinHalf >= Half + Window /\ DeviceFits
      /\ Elapsed \in Nat /\ Span(Hold - 1) \in Int /\ Prompt \in Nat /\ Span(Timeout) \in Int
      /\ Span(Hold - 1) + Prompt + Half + 1 < Span(Timeout)
  BY Base, Levels, SpanNat, Sizes DEF Next, TypeInv
<1>2. BeginTake /\ Listening
  <2>1. Device /\ Watch
    BY DEF Tick
  <2>2. BeginTake
    BY <2>1, <1>1 DEF Device, Stay, BeginSend, Fall, Rise, Leave, deviceVars, DeviceFits
  <2> QED BY <2>1, <2>2 DEF Watch
<1>3. /\ ~first /\ state = 1 /\ wr /\ steady <= Prompt /\ n' = 1 /\ dev_clock'
      /\ ClockLine /\ steady >= MinHalf
  BY <1>2 DEF BeginTake, Listening, MayFall
<1>4. avg_clock /\ (WindowEnd => High)
  <2>1. steady > K + Half /\ steady >= Half
    BY <1>1, <1>3, Sizes
  <2>2. avg_clock
    BY <1>1, <1>3, <2>1 DEF LineInv, LevelSeen
  <2> QED BY <1>1, <1>3, <2>1, <2>2, Majority
<1>5. Elapsed <= Span(Hold - 1) + steady /\ clock_out = 0
  BY <1>3 DEF Answer, ClockLine
<1>6. Passing
  <2>1. CASE Sample
    BY <2>1 DEF Passing
  <2>2. CASE WindowEnd
    <3>1. Quiet
      BY <1>3, <1>4, <2>2 DEF WindowEnd, StartWrite, MayStart, FallingEdge, Parity
    <3>2. Elapsed # Span(Timeout) - 1
      BY <1>1, <1>3, <1>5, Sizes
    <3> QED BY <1>1, <2>2, <3>1, <3>2, GivesUp
  <2> QED BY <2>1, <2>2 DEF Tick
<1>7. Elapsed' = Elapsed + 1 /\ state' = 1 /\ wr'
  BY <1>1, <1>3, <1>6, ElapsedStep
<1>8. avg_clock' /\ clock_out' = 0
  <2>1. CASE Sample
    BY <1>4, <1>5, <2>1, SampleKeeps
  <2>2. CASE WindowEnd /\ Quiet
    BY <1>4, <1>5, <2>2 DEF WindowEnd, Quiet, Released
  <2> QED BY <1>6, <2>1, <2>2 DEF Passing
<1>9. Seen' = 0
  <2>1. Seen' = n' - 1
    BY <1>3, <1>8 DEF Seen
  <2> QED BY <1>3, <2>1
<1>10. steady' = 0
  <2>1. ~ClockLine'
    BY <1>3 DEF ClockLine
  <2> QED BY <1>1, <1>3, <2>1, NextParts DEF Next
<1>11. 0 # Last /\ 0 \notin 1 .. Last - 1 /\ 1 + 0 = 1
  BY Sizes
<1>12. Elapsed' <= Span(Hold - 1) + Prompt + 1 + 0
  <2>1. Elapsed + 1 <= Span(Hold - 1) + Prompt + 1 + 0
    BY <1>1, <1>3, <1>5
  <2> QED BY <1>7, <2>1
<1>13. ~first'
  BY <1>3 DEF Tick, Watch
<1>14. TakeState'
  BY <1>7, <1>9, <1>11 DEF TakeState
<1>15. TakeTime'
  BY <1>9, <1>10, <1>11, <1>12 DEF TakeTime
<1> QED BY <1>8, <1>13, <1>14, <1>15

\* The first fall is not seen yet.
LEMMA TakeFirst ==
  ASSUME n \in 1 .. Last, Seen = 0
  PROVE  n = 1 /\ dev_clock /\ avg_clock
BY Sizes DEF Seen

LEMMA TakePasses ==
  ASSUME LineInv, Tick, Passing, Taking, Taking', TakeInv
  PROVE  TakeState' /\ TakeTime' /\ clock_out' = 0
<1>1. /\ TypeInv /\ TakeState /\ TakeTime /\ clock_out = 0 /\ ~first /\ InFrame
      /\ n \in 1 .. Last /\ n' \in {n, n + 1} /\ (n' = n + 1 => ~dev_clock)
  <2>1. InFrame
    BY DEF Taking, InFrame
  <2> QED BY <2>1, Base, FrameKept DEF TakeInv, Next
<1>2. Elapsed' = Elapsed + 1 /\ state' = state /\ wr' = wr /\ Seen' = Seen
  BY <1>1, ElapsedStep, SeenKept DEF Passing
<1>3. clock_out' = 0
  BY <1>1, SampleKeeps DEF Passing, Quiet, Released
<1>4. TakeState'
  BY <1>1, <1>2 DEF TakeState
<1>5. Seen \in 1 .. Last - 1 => Elapsed' <= LastClear'
  BY <1>1, <1>3, ClearKept DEF TakeTime
<1>6. Seen = 0 => Elapsed' <= Span(Hold - 1) + Prompt + 1 + steady'
  <2> SUFFICES ASSUME Seen = 0 PROVE Elapsed' <= Span(Hold - 1) + Prompt + 1 + steady'
    OBVIOUS
  <2>1. n = 1 /\ dev_clock
    BY <1>1, TakeFirst
  <2>2. dev_clock'
    <3>1. n' = 1
      BY <1>1, <2>1
    <3> QED BY <1>2, <3>1 DEF Seen
  <2>3. /\ steady \in 0 .. Cap /\ Cap \in Nat /\ steady < MaxHalf /\ MaxHalf < Cap
        /\ MaxHalf \in Nat /\ Elapsed \in Nat /\ Span(Hold - 1) \in Int /\ Prompt \in Nat
    <3>1. Device /\ DeviceTypes /\ DeviceFits
      BY <1>1, NextParts DEF Next
    <3>2. steady < MaxHalf
      BY <2>1, <2>2, <3>1, DeviceEdges
    <3>3. MaxHalf < Cap
      BY Large, Levels, Sizes
    <3> QED BY <3>2, <3>3, Base, Levels, SpanNat, Sizes DEF Next
  <2>4. steady' = steady + 1
    <3>1. ~ClockLine /\ ~ClockLine'
      BY <2>1, <2>2 DEF ClockLine
    <3>2. steady' = Within(steady + 1, Cap)
      BY <1>1, <3>1, NextParts DEF Next
    <3> QED BY <2>3, <3>2 DEF Within
  <2>5. Elapsed + 1 <= Span(Hold - 1) + Prompt + 1 + (steady + 1)
    BY <1>1, <2>3 DEF TakeTime
  <2> QED BY <1>2, <2>4, <2>5
<1> QED BY <1>2, <1>3, <1>4, <1>5, <1>6 DEF TakeTime

LEMMA TakeTimesOut ==
  ASSUME LineInv, Tick, WindowEnd, Quiet, ~Passing, Taking, Taking', TakeInv
  PROVE  TakeState' /\ TakeTime' /\ clock_out' = 0
<1>1. /\ TypeInv /\ TakeState /\ TakeTime /\ clock_out = 0 /\ ~first /\ InFrame
      /\ n \in 1 .. Last /\ steady \in 0 .. Cap /\ Cap \in Nat
      /\ Span(Hold - 1) \in Int /\ Prompt \in Nat /\ Span(Timeout) \in Int
      /\ Span(Hold - 1) + Prompt + Half + 1 < Span(Timeout)
  <2>1. InFrame
    BY DEF Taking, InFrame
  <2> QED BY <2>1, Base, FrameKept, Levels, SpanNat, Sizes DEF TakeInv, Next
<1>2. state' = 0 /\ ~wr' /\ Elapsed = Span(Timeout) - 1 /\ Seen' = Seen
  BY <1>1, GivesUp, SeenKept
<1>3. clock_out' = 0
  BY <1>1 DEF Quiet, Released
<1>4. Seen \notin 1 .. Last - 1
  BY <1>1, NoTimeOut DEF TakeTime, InFrame
<1>5. Seen # 0
  <2> SUFFICES ASSUME Seen = 0 PROVE FALSE
    OBVIOUS
  <2>1. n = 1 /\ dev_clock /\ avg_clock
    BY <1>1, TakeFirst
  <2>2. steady < Half
    BY <1>1, <2>1, NoStartAtEnd DEF InFrame, Quiet
  <2>3. Elapsed <= Span(Hold - 1) + Prompt + 1 + steady
    BY <1>1 DEF TakeTime
  <2> QED BY <1>1, <1>2, <2>2, <2>3, Sizes
<1>6. Seen = Last
  BY <1>1, <1>4, <1>5, Sizes DEF Seen
<1>7. TakeState' /\ TakeTime'
  BY <1>2, <1>4, <1>5, <1>6 DEF TakeState, TakeTime
<1> QED BY <1>3, <1>7

LEMMA TakeNoStart ==
  ASSUME LineInv, Tick, WindowEnd, StartWrite, Taking, Taking', TakeInv
  PROVE  FALSE
<1>1. TakeState /\ clock_out = 0 /\ ~first /\ InFrame /\ n \in 1 .. Last
  <2>1. InFrame
    BY DEF Taking, InFrame
  <2> QED BY <2>1, FrameKept DEF TakeInv
<1>2. ~wr /\ High
  BY DEF StartWrite, MayStart
<1>3. Seen = Last
  BY <1>1, <1>2 DEF TakeState
<1>4. n = Last /\ ~(dev_clock /\ avg_clock)
  BY <1>1, <1>3, Sizes DEF Seen
<1> QED BY <1>1, <1>2, <1>4, NoStartAtEnd DEF InFrame

LEMMA TakeFalls ==
  ASSUME LineInv, Tick, WindowEnd, FallingEdge, Taking, Taking', TakeInv
  PROVE  TakeState' /\ TakeTime' /\ clock_out' = 0
<1>1. /\ TypeInv /\ TakeState /\ TakeTime /\ clock_out = 0 /\ ~first /\ InFrame
      /\ n \in 1 .. Last
  <2>1. InFrame
    BY DEF Taking, InFrame
  <2> QED BY <2>1, Base, FrameKept DEF TakeInv, Next
<1>2. dev_clock /\ dev_clock' /\ n' = n /\ Seen = n - 1 /\ Seen' = n
  BY <1>1, SeenAtEdge DEF InFrame
<1>3. wr /\ state = n
  <2>1. Seen # Last /\ 1 + Seen = n
    BY <1>1, <1>2, Sizes
  <2> QED BY <1>1, <2>1 DEF TakeState
<1>4. clock_out' = 0
  BY <1>1 DEF FallingEdge, Released
<1>5. TakeTime'
  <2>1. Elapsed' = 0
    BY <1>1, ElapsedStep
  <2>2. ~avg_clock'
    BY DEF FallingEdge, WindowEnd
  <2>3. LastClear' = steady'
    BY <1>2, <2>2 DEF LastClear
  <2>4. steady' \in 0 .. Cap
    BY <1>1, NextParts DEF Next
  <2>5. \A s \in 0 .. Cap : 0 <= s
    BY Levels
  <2>6. n # 0
    BY <1>1, Sizes
  <2> QED BY <1>2, <2>1, <2>3, <2>4, <2>5, <2>6 DEF TakeTime
<1>6. CASE n < Last
  <2>1. ~(state = Last /\ wr) /\ ~(state = Last - 1 /\ ~wr)
    BY <1>1, <1>3, <1>6, Sizes
  <2>2. state' = (state + 1) % 16 /\ wr' = wr
    BY <2>1 DEF FallingEdge
  <2>3. (n + 1) % 16 = 1 + n /\ n # Last
    BY <1>1, <1>6, Sizes
  <2>4. TakeState'
    BY <1>2, <1>3, <2>2, <2>3 DEF TakeState
  <2> QED BY <1>4, <1>5, <2>4
<1>7. CASE n = Last
  <2>1. state' = 0 /\ wr' = FALSE
    BY <1>3, <1>7 DEF FallingEdge
  <2>2. TakeState'
    BY <1>2, <1>7, <2>1 DEF TakeState
  <2> QED BY <1>4, <1>5, <2>2
<1> QED BY <1>1, <1>6, <1>7, Sizes

LEMMA TakeStep ==
  ASSUME LineInv, Answer, TakeInv, Next
  PROVE  TakeInv'
<1>1. CASE Reset
  BY <1>1 DEF Reset, TakeInv, Taking
<1>2. CASE Tick /\ Taking'
  <2>1. CASE mode = "idle"
    BY <1>2, <2>1, TakeBegins DEF TakeInv, Taking
  <2>2. CASE mode # "idle"
    <3>1. Taking
      BY <1>2, <2>2, FrameKept DEF Taking, InFrame
    <3>2. ~first'
      BY <1>2, <3>1 DEF TakeInv, Tick, Watch
    <3>3. TakeState' /\ TakeTime' /\ clock_out' = 0
      <4>1. CASE Passing
        BY <1>2, <3>1, <4>1, TakePasses
      <4>2. CASE WindowEnd /\ Quiet /\ ~Passing
        BY <1>2, <3>1, <4>2, TakeTimesOut
      <4>3. CASE WindowEnd /\ StartWrite
        BY <1>2, <3>1, <4>3, TakeNoStart
      <4>4. CASE WindowEnd /\ FallingEdge
        BY <1>2, <3>1, <4>4, TakeFalls
      <4> QED BY <1>2, <4>1, <4>2, <4>3, <4>4 DEF Tick, WindowEnd, Passing
    <3> QED BY <3>2, <3>3 DEF TakeInv
  <2> QED BY <2>1, <2>2
<1>3. CASE ~Taking'
  BY <1>3 DEF TakeInv
<1> QED BY <1>1, <1>2, <1>3 DEF Next

-----------------------------------------------------------------------------
(* The invariant of the whole.                                              *)

FrameInv == LineInv /\ LevelData /\ QuietInv /\ Answer /\ WriteData /\ SendInv /\ TakeInv

LEMMA FrameInit == Init => FrameInv
<1> SUFFICES ASSUME Init PROVE FrameInv
  OBVIOUS
<1>1. /\ ~wr /\ state = 0 /\ clock_out = 0 /\ counter = 1 /\ sum_clock = 0
      /\ ~dev_clock /\ mode = "idle" /\ steady = 0 /\ first
  BY DEF Init, PowerUp
<1>2. ClockLine /\ K = 0
  BY <1>1, Sizes DEF ClockLine, K
<1>3. TypeInv
  BY TypeInit
<1>4. LevelSum /\ LevelSeen /\ LowTime
  BY <1>1, <1>2 DEF LevelSum, Within, LevelSeen, LowTime
<1>5. HoldPhases
  BY <1>1, Sizes DEF HoldPhases
<1>6. LevelData /\ QuietInv /\ Answer /\ WriteData /\ SendInv /\ TakeInv
  BY <1>1 DEF LevelData, QuietInv, Answer, WriteData, SendInv, Sending, TakeInv, Taking
<1> QED BY <1>3, <1>4, <1>5, <1>6 DEF FrameInv, LineInv

LEMMA FrameStep == FrameInv /\ [Next]_vars => FrameInv'
<1> SUFFICES ASSUME FrameInv, [Next]_vars PROVE FrameInv'
  OBVIOUS
<1>1. LineInv'
  BY LineStep DEF FrameInv
<1>2. CASE Next
  <2>1. LevelData' /\ QuietInv' /\ Answer' /\ WriteData'
    BY <1>2, LevelDataStep, QuietStep, AnswerStep, WriteDataStep DEF FrameInv
  <2>2. SendInv' /\ TakeInv'
    BY <1>2, SendStep, TakeStep DEF FrameInv, ConvInv
  <2> QED BY <1>1, <2>1, <2>2 DEF FrameInv
<1>3. CASE UNCHANGED vars
  <2>1. /\ UNCHANGED <<wr, state, data, clock_out, reset_counter, read_odd, counter>>
        /\ UNCHANGED <<sum_data, avg_clock, parity_read, dev_clock, dev_data, mode, n, frame>>
        /\ UNCHANGED <<steady, first, whole, odd0, written>>
    BY <1>3 DEF vars, portVars, sampleVars, deviceVars
  <2>2. K' = K /\ (ClockLine' <=> ClockLine)
    BY <2>1 DEF K, ClockLine
  <2>3. Elapsed' = Elapsed /\ Seen' = Seen /\ LastClear' = LastClear
    BY <2>1, <2>2 DEF Elapsed, Seen, LastClear
  <2>4. LevelData' /\ QuietInv'
    BY <2>1, <2>2, <2>3 DEF FrameInv, LevelData, QuietInv
  <2>5. Answer' /\ WriteData'
    BY <2>1, <2>2, <2>3 DEF FrameInv, Answer, WriteData
  <2>6. SendInv'
    BY <2>1, <2>3 DEF FrameInv, SendInv, Sending, SendHeld, SendState, SendOdd, SendBits, SendTime,
                      ParityHolds
  <2>7. TakeInv'
    BY <2>1, <2>3 DEF FrameInv, TakeInv, Taking, TakeState, TakeTime
  <2> QED BY <1>1, <2>4, <2>5, <2>6, <2>7 DEF FrameInv
<1> QED BY <1>2, <1>3

LEMMA FrameInvariant == Spec => []FrameInv
BY FrameInit, FrameStep, PTL DEF Spec

LEMMA SeenType == ASSUME TypeInv, mode # "idle" PROVE Seen \in 0 .. Last
BY Sizes DEF TypeInv, TypeOK, DeviceFits, Seen

(***************************************************************************)
(* A frame that the device sends while the controller listens changes      *)
(* nothing before its stop bit, and at the stop bit delivers the device's  *)
(* byte exactly if its parity is odd: whatever the program writes          *)
(* meanwhile, no edge is missed, none counted twice, and the time-out does *)
(* not cut the frame.  The controller does not hold the clock for a write  *)
(* past the first fall: the test of state, wr and the window's level (line *)
(* 53) leaves no later one, although it sees the line a window late.       *)
(***************************************************************************)
THEOREM Ps2FrameTaken == Spec => []FrameTaken
<1>1. FrameInv => FrameTaken
  <2> SUFFICES ASSUME FrameInv, mode = "send", whole
               PROVE  /\ clock_out # 0 => n = 1
                      /\ IF Seen < Last THEN read_odd = odd0
                         ELSE /\ (read_odd # odd0) <=> ParityHolds
                              /\ ParityHolds =>
                                   data_read = [i \in 0 .. Bits - 1 |-> frame[i + 2]]
                              /\ state = 0 /\ ~wr
    BY DEF FrameTaken
  <2>4. clock_out # 0 => n = 1
    BY DEF FrameInv, LineInv, TypeInv, TypeOK, HoldPhases, SendInv, Sending, SendHeld
  <2>1. SendState /\ SendOdd /\ SendBits /\ Seen \in 0 .. Last
    BY SeenType DEF FrameInv, LineInv, SendInv, Sending
  <2>2. CASE Seen = Last
    <3>1. ~wr /\ state = 0 /\ ((read_odd # odd0) <=> ParityHolds)
      BY <2>1, <2>2 DEF SendOdd, SendState
    <3>2. \A i \in 0 .. Bits - 1 : data[i + 2] = frame[i + 2]
      <4> TAKE i \in 0 .. Bits - 1
      <4>1. i + 2 \in 1 .. Last /\ Last - (Last - (i + 2)) = i + 2
        BY Sizes
      <4> QED BY <2>1, <2>2, <3>1, <4>1 DEF SendBits
    <3>3. data_read = [i \in 0 .. Bits - 1 |-> frame[i + 2]]
      BY <3>2 DEF data_read
    <3> QED BY <2>2, <2>4, <3>1, <3>3, Sizes
  <2>3. CASE Seen # Last
    <3>1. Seen < Last
      BY <2>1, <2>3, Sizes
    <3> QED BY <2>1, <2>4, <3>1 DEF SendOdd
  <2> QED BY <2>2, <2>3
<1> QED BY <1>1, FrameInvariant, PTL

(***************************************************************************)
(* A write that the device answers in time is neither given up by the      *)
(* time-out nor ended before the last fall of the device's clock (lines    *)
(* 65-67 and 72-75).                                                       *)
(***************************************************************************)
THEOREM Ps2WriteEndsWithFrame == Spec => []WriteEndsWithFrame
<1>1. FrameInv => WriteEndsWithFrame
  <2> SUFFICES ASSUME FrameInv, mode = "take", whole
               PROVE  (wr <=> Seen < Last) /\ clock_out = 0
    BY DEF WriteEndsWithFrame
  <2>1. TakeState /\ clock_out = 0 /\ Seen \in 0 .. Last
    BY SeenType DEF FrameInv, LineInv, TakeInv, Taking
  <2>2. Seen < Last <=> Seen # Last
    BY <2>1, Sizes
  <2> QED BY <2>1, <2>2 DEF TakeState
<1> QED BY <1>1, FrameInvariant, PTL

(***************************************************************************)
(* Whatever was broken off when, a line that was quiet for the time-out    *)
(* finds the controller between frames (lines 71-75).                      *)
(***************************************************************************)
THEOREM Ps2QuietLineRestores == Spec => []QuietLineRestores
<1>1. FrameInv => QuietLineRestores
  <2> SUFFICES ASSUME FrameInv, ClockLine, steady > Span(Timeout) + Half
               PROVE  state = 0 /\ ~wr /\ (avg_clock \/ first)
    BY DEF QuietLineRestores, Span
  <2>1. /\ Elapsed \in Nat /\ Elapsed < Span(Timeout) /\ Span(Timeout) \in Int
        /\ K \in 0 .. Window - 1 /\ steady \in 0 .. Cap /\ Cap \in Nat
        /\ Span(Timeout) >= Window + Window + Window
    <3>1. TypeInv /\ TypeOK
      BY DEF FrameInv, LineInv, TypeInv
    <3>2. steady \in 0 .. Cap
      BY <3>1 DEF TypeOK
    <3> QED BY <3>1, <3>2, ElapsedType, KNat, Levels, Large, Sizes
  <2>2. ~(steady <= Elapsed + Half) /\ steady > K + Half
    BY <2>1, Sizes
  <2>3. state = 0 /\ ~wr
    BY <2>2 DEF FrameInv, QuietInv
  <2>4. avg_clock \/ first
    BY <2>2 DEF FrameInv, LineInv, LevelSeen
  <2> QED BY <2>3, <2>4
<1> QED BY <1>1, FrameInvariant, PTL

\* The k-th bit the controller shifts out after the start bit is the one due at rise k.
LEMMA OutDue ==
  ASSUME NEW k \in 1 .. Last - 1
  PROVE  Out(written)[k + 1] = 1 <=> Due(k)
<1> DEFINE p == Ones(written, 0 .. Bits - 1) % 2
<1> HIDE DEF p
<1>1. k + 1 \in 0 .. Last /\ k + 1 # 1 /\ k + 1 - 2 = k - 1
  BY Sizes
<1>2. Out(written)[k + 1] = IF k + 1 \in 2 .. Bits + 1 THEN written[k + 1 - 2]
                            ELSE IF k + 1 = Bits + 2 THEN 1 - p ELSE 1
  BY <1>1 DEF Out, p
<1>3. Due(k) <=> IF k <= Bits THEN written[k - 1] = 1 ELSE (k = Bits + 1 => p = 0)
  BY DEF Due, p
<1>4. (k + 1 \in 2 .. Bits + 1 <=> k <= Bits) /\ (k + 1 = Bits + 2 <=> k = Bits + 1)
  BY Sizes
<1>5. p \in Int /\ (1 - p = 1 <=> p = 0)
  <2>1. \A q \in Int : (q % 2) \in Int /\ (1 - (q % 2) = 1 <=> (q % 2) = 0)
    OBVIOUS
  <2>2. Ones(written, 0 .. Bits - 1) \in Int
    <3>1. IsFiniteSet(0 .. Bits - 1)
      BY FS_Interval, Sizes
    <3>2. IsFiniteSet({i \in 0 .. Bits - 1 : written[i] = 1})
      BY <3>1, FS_Subset
    <3>3. Cardinality({i \in 0 .. Bits - 1 : written[i] = 1}) \in Nat
      BY <3>2, FS_CardinalityType
    <3> QED BY <3>3 DEF Ones
  <2> QED BY <2>1, <2>2 DEF p
<1> QED BY <1>1, <1>2, <1>3, <1>4, <1>5

(***************************************************************************)
(* At each rise of its clock the device finds the bit that is due on the   *)
(* data line: the controller has shifted once for every fall, and the      *)
(* device's own pull for the acknowledge is not in the way.                *)
(***************************************************************************)
THEOREM Ps2DeviceReadsByte == Spec => DeviceReadsByte
<1>1. FrameInv /\ [Next]_vars =>
        [mode = "take" /\ whole /\ dev_clock /\ ~dev_clock' /\ n < Last
           => (DataLine <=> Due(n))]_vars
  <2> SUFFICES ASSUME FrameInv, Next, mode = "take", whole, dev_clock, ~dev_clock', n < Last
               PROVE  DataLine <=> Due(n)
    OBVIOUS
  <2>1. /\ LineInv /\ TypeInv /\ TakeState /\ ~first /\ WriteData
        /\ steady \in 0 .. Cap /\ K \in 0 .. Window - 1 /\ Cap \in Nat
        /\ MinHalf \in Nat /\ MinHalf >= Half + Window
        /\ n \in 0 .. Last /\ written \in Byte
    BY Base, Levels DEF FrameInv, TakeInv, Taking, TypeInv, TypeOK
  <2>2. steady >= MinHalf
    BY <2>1, NextParts, DeviceEdges
  <2>3. ~avg_clock
    <3>1. steady > K + Half
      BY <2>1, <2>2, Sizes
    <3>2. ~ClockLine
      BY DEF ClockLine
    <3> QED BY <2>1, <3>1, <3>2 DEF LineInv, LevelSeen
  <2>4. Seen = n /\ n # Last /\ n + 1 \in 0 .. Last
    BY <2>1, <2>3, Sizes DEF Seen
  <2>5. wr /\ state = n + 1
    BY <2>1, <2>4, Sizes DEF TakeState
  <2>6. data[0] = Out(written)[n + 1]
    <3>1. 0 \in 0 .. Last /\ 0 + state <= Last /\ 0 + state = n + 1
      BY <2>1, <2>4, <2>5, Sizes
    <3> QED BY <2>1, <2>5, <3>1 DEF WriteData
  <2>7. Out(written)[n + 1] \in {0, 1}
    BY <2>1, <2>4, OutType DEF Bit
  <2>8. ~dev_data
    BY <2>1, <2>4 DEF TypeInv, DeviceFits
  <2>9. DataLine <=> Out(written)[n + 1] = 1
    BY <2>5, <2>6, <2>7, <2>8 DEF DataLine
  <2>10. Out(written)[n + 1] = 1 <=> Due(n)
    <3>1. n \in 1 .. Last - 1
      BY <2>1, <2>4, Sizes DEF TypeInv, DeviceFits
    <3> QED BY <3>1, OutDue DEF TypeInv, TypeOK
  <2> QED BY <2>9, <2>10
<1> QED BY <1>1, FrameInvariant, PTL DEF Spec, DeviceReadsByte

(***************************************************************************)
(* A program that leaves a clock after an OUT that succeeded is told ready *)
(* only when the controller has taken the last byte                        *)
(* (slowIO_buffer.sv:90-94).                                               *)
(***************************************************************************)
THEOREM Ps2ReadyMeansTaken ==
  ASSUME SpacedWrites
  PROVE  Spec => []ReadyMeansTaken
<1>1. Init => ReadyMeansTaken
  BY DEF Init, PowerUp, ReadyMeansTaken
<1>2. ReadyMeansTaken /\ [Next]_vars => ReadyMeansTaken'
  <2> SUFFICES ASSUME ReadyMeansTaken, [Next]_vars, write_ready'
               PROVE  write_odd' = write_odd_request'
    BY DEF ReadyMeansTaken
  <2>1. CASE Tick
    <3>1. Request /\ Accept
      BY <2>1 DEF Tick, Bus, NoRequest
    <3>2. ~write_ready /\ write_odd_request = write_odd
      BY <3>1 DEF Request
    <3>3. write_odd_request' = write_odd_request
      BY <3>1, <3>2 DEF Accept
    <3>4. write_odd' = write_odd
      BY <2>1, <3>2, SampleKeeps DEF Tick, WindowEnd, StartWrite, MayStart, FallingEdge, Parity, Quiet, TimedOut
    <3> QED BY <3>2, <3>3, <3>4
  <2>2. CASE Reset
    BY <2>2 DEF Reset, ResetRegisters
  <2>3. CASE UNCHANGED vars
    BY <2>3 DEF vars, portVars, busVars, ReadyMeansTaken
  <2> QED BY <2>1, <2>2, <2>3 DEF Next
<1> QED BY <1>1, <1>2, PTL DEF Spec
=============================================================================
