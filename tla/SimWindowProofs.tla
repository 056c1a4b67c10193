--------------------------- MODULE SimWindowProofs ---------------------------
(***************************************************************************)
(* The simulator's two threads, for every size of the keyboard queue, of   *)
(* the settings and of the batch: who may be inside the processor when,    *)
(* and what the queue between the threads delivers.                        *)
(***************************************************************************)
EXTENDS SimWindow, TLAPS

-----------------------------------------------------------------------------
(* Who is where.                                                           *)
Control ==
  /\ timer = running
  /\ run = "inside" <=> inside["run"] # "out"
  /\ window = "inside" <=> inside["window"] # "out"
  /\ window = "sleep" => ~running

(* The run thread enters the processor only through a test of running, and *)
(* the window, while it is not careless, uses it only while that test      *)
(* fails.                                                                  *)
Careful ==
  ~careless => /\ window \in {"step", "inside"} => ~running /\ Quiet /\ ~rested
               /\ rested => ~running /\ Quiet

Code == 0 .. 255
Typing ==
  /\ typing \in Seq(Code) /\ typed + Len(typing) <= MaxTyped
  /\ window = "publish" => typing # <<>>
  /\ window \in {"sleep", "update", "step", "inside"} => typing = <<>>

(* A machine at rest is as the reset left it.                              *)
Cleared ==
  rested /\ ~careless => /\ written = 0 /\ vga_index = 0 /\ flagButton = FALSE
                         /\ vga_control = [i \in 0 .. Settings - 1 |-> 0]

(* What is in the ring, and what a thread has taken out of it.             *)
Entry == 0 .. QueueSize - 1
Buffers == keyboard_buf \in [Entry -> Code] /\ held \in [Thread -> Code]

Inv == TypeOK /\ Buffers /\ Control /\ Careful /\ Typing /\ Cleared

LEMMA Sizes == /\ QueueSize \in Nat /\ QueueSize >= 2
               /\ Settings \in Nat /\ Settings >= 1
               /\ Batch \in Nat /\ MaxTyped \in Nat /\ MaxWritten \in Nat
BY SimWindowAssumption

LEMMA NextInRange == \A i \in 0 .. QueueSize - 1 : NextIn(i) \in 0 .. QueueSize - 1
BY Sizes DEF NextIn

LEMMA NextSetting ==
  \A i \in 0 .. Settings - 1 : (i + 1) % Settings \in 0 .. Settings - 1
BY Sizes

LEMMA CountersNat == TypeOK => typed \in Nat /\ written \in Nat
<1> SUFFICES ASSUME TypeOK PROVE typed \in Nat /\ written \in Nat
  OBVIOUS
<1>1. typed \in 0 .. MaxTyped /\ written \in Nat
  BY DEF TypeOK
<1> QED BY <1>1, Sizes

LEMMA InitInv == Init => Inv
<1> SUFFICES ASSUME Init PROVE Inv
  OBVIOUS
<1> USE DEF Init
<1>1. TypeOK
  <2>1. /\ 0 \in 0 .. Batch /\ 0 \in 0 .. QueueSize - 1 /\ 0 \in 0 .. Settings - 1
        /\ 0 \in 0 .. MaxTyped
    BY Sizes
  <2> QED BY <2>1 DEF TypeOK, FlagsOK, Thread
<1>b. Buffers
  BY DEF Buffers, Entry, Code
<1>2. Control
  BY DEF Control, Thread
<1>3. Careful
  BY DEF Careful, Quiet
<1>4. Typing
  <2>1. typing \in Seq(Code) /\ Len(typing) = 0
    OBVIOUS
  <2> QED BY <2>1, Sizes DEF Typing
<1>5. Cleared
  BY DEF Cleared
<1> QED BY <1>1, <1>b, <1>2, <1>3, <1>4, <1>5 DEF Inv

LEMMA InvOneStep == Control /\ Careful => OneStepAtATime
BY DEF Control, Careful, OneStepAtATime, Quiet

\* The steps of handleNext, whoever takes them.
Places == {"out", "in", "take", "out of byte", "advance", "no bus"}

LEMMA EnterInv ==
  ASSUME TypeOK, NEW t \in Thread, Enter(t)
  PROVE  /\ inside' \in [Thread -> Places]
         /\ inside[t] = "out" /\ inside'[t] # "out"
         /\ \A u \in Thread \ {t} : inside'[u] = inside[u]
         /\ inside'[t] \in {"in", "out of byte", "no bus"}
BY DEF TypeOK, Enter, Places

LEMMA WithinInv ==
  ASSUME TypeOK, NEW t \in Thread, Within(t)
  PROVE  /\ inside' \in [Thread -> Places]
         /\ inside[t] # "out" /\ inside'[t] # "out"
         /\ \A u \in Thread \ {t} : inside'[u] = inside[u]
         /\ queue_end' \in 0 .. QueueSize - 1
         /\ UNCHANGED <<keyboard_buf, queue_begin, typing, typed>>
         /\ vga_index' \in 0 .. Settings - 1 /\ written' \in Nat
<1> USE DEF Places
<1>1. CASE ReadByte(t)
  BY <1>1 DEF TypeOK, ReadByte, keyVars, vgaVars
<1>2. CASE TakeByte(t)
  <2>1. NextIn(queue_end) \in 0 .. QueueSize - 1
    BY NextInRange DEF TypeOK
  <2> QED BY <1>2, <2>1 DEF TypeOK, TakeByte, vgaVars
<1>3. CASE WriteSetting(t)
  BY <1>3 DEF TypeOK, WriteSetting, keyVars
<1>4. CASE AdvanceSetting(t)
  <2>1. (vga_index + 1) % Settings \in 0 .. Settings - 1
    BY NextSetting DEF TypeOK
  <2>2. written \in Nat /\ 0 \in Nat /\ written + 1 \in Nat
    BY CountersNat
  <2>3. written' \in Nat
    BY <1>4, <2>2 DEF AdvanceSetting
  <2> QED BY <1>4, <2>1, <2>3 DEF TypeOK, AdvanceSetting, keyVars
<1> QED BY <1>1, <1>2, <1>3, <1>4 DEF Within

LEMMA WithinBuffers ==
  ASSUME TypeOK, Buffers, NEW t \in Thread, Within(t)
  PROVE  Buffers'
<1>1. CASE ReadByte(t)
  <2>1. keyboard_buf[queue_end] \in Code
    BY DEF TypeOK, Buffers, Entry
  <2> QED BY <1>1, <2>1 DEF Buffers, ReadByte, keyVars
<1>2. CASE TakeByte(t)
  <2>1. 0 \in Code
    BY DEF Code
  <2> QED BY <1>2, <2>1 DEF Buffers, TakeByte
<1>3. CASE WriteSetting(t) \/ AdvanceSetting(t)
  BY <1>3 DEF Buffers, WriteSetting, AdvanceSetting, keyVars
<1> QED BY <1>1, <1>2, <1>3 DEF Within

LEMMA LeaveInv ==
  ASSUME TypeOK, NEW t \in Thread, Leave(t)
  PROVE  /\ inside' \in [Thread -> Places]
         /\ inside[t] = "no bus" /\ inside'[t] = "out"
         /\ \A u \in Thread \ {t} : inside'[u] = inside[u]
BY DEF TypeOK, Leave, Places

LEMMA RunThreadInv == Inv /\ RunThread => Inv'
<1> SUFFICES ASSUME Inv, RunThread PROVE Inv'
  OBVIOUS
<1> USE DEF Inv
<1>t. "run" \in Thread /\ "window" \in Thread \ {"run"}
  BY DEF Thread
<1>r. UNCHANGED <<stepVars, window>>
  BY DEF RunThread, RunLoop, RunUpdate, RunTest, RunEnter, RunWithin, RunLeave
<1> USE DEF stepVars
<1>1. CASE RunLoop
  <2> USE <1>1 DEF RunLoop, machine, keyVars, vgaVars, buttonVars
  <2>f. FlagsOK'
    BY DEF TypeOK, FlagsOK
  <2>1. TypeOK'
    BY <2>f DEF TypeOK
  <2>2. Control' /\ Careful'
    BY DEF Control, Careful, Quiet
  <2>3. Buffers' /\ Typing' /\ Cleared'
    BY DEF Buffers, Typing, Cleared
  <2> QED BY <2>1, <2>2, <2>3
<1>2. CASE RunUpdate
  <2> USE <1>2 DEF RunUpdate, machine, keyVars, vgaVars
  <2>1. Batch \in 0 .. Batch
    BY Sizes
  <2>f. FlagsOK'
    BY DEF TypeOK, FlagsOK
  <2>2. TypeOK'
    BY <2>1, <2>f DEF TypeOK
  <2>3. Control' /\ Careful' /\ (~careless => ~rested)
    BY DEF Control, Careful, Quiet
  <2>4. Buffers' /\ Typing' /\ Cleared'
    BY <2>3 DEF Buffers, Typing, Cleared
  <2> QED BY <2>2, <2>3, <2>4
<1>3. CASE RunTest
  <2> USE <1>3 DEF RunTest, machine, keyVars, vgaVars, buttonVars
  <2>1. count' \in 0 .. Batch
    <3>1. count \in 0 .. Batch
      BY DEF TypeOK
    <3>2. CASE count = 0
      BY <3>1, <3>2
    <3>3. CASE count # 0
      <4>1. count - 1 \in 0 .. Batch
        BY <3>1, <3>3, Sizes
      <4> QED BY <3>3, <4>1
    <3> QED BY <3>2, <3>3
  <2>f. FlagsOK'
    BY DEF TypeOK, FlagsOK
  <2>2. TypeOK'
    BY <2>1, <2>f DEF TypeOK
  <2>3. Control' /\ Careful'
    BY DEF Control, Careful, Quiet, TypeOK
  <2>4. Buffers' /\ Typing' /\ Cleared'
    BY DEF Buffers, Typing, Cleared
  <2> QED BY <2>2, <2>3, <2>4
<1>4. CASE RunEnter
  <2> USE <1>4 DEF RunEnter
  <2>1. UNCHANGED <<held, keyVars, vgaVars, written>>
    BY DEF Enter
  <2>f. FlagsOK'
    BY DEF TypeOK, FlagsOK, runVars, buttonVars, stepVars
  <2>2. TypeOK'
    BY <1>t, <2>1, <2>f, EnterInv DEF TypeOK, keyVars, vgaVars, buttonVars, Places
  <2>3. Control'
    BY <1>t, EnterInv DEF Control
  <2>4. Careful'
    BY DEF Careful, Quiet
  <2>5. Buffers' /\ Typing' /\ Cleared'
    BY <2>1 DEF Buffers, Typing, Cleared, keyVars, vgaVars, buttonVars
  <2> QED BY <2>2, <2>3, <2>4, <2>5
<1>5. CASE RunWithin
  <2> USE <1>5 DEF RunWithin
  <2>f. FlagsOK'
    BY DEF TypeOK, FlagsOK, runVars, buttonVars, stepVars
  <2>1. TypeOK'
    BY <1>t, <2>f, WithinInv, ZenonT(40) DEF TypeOK, runVars, buttonVars, Places
  <2>2. Control'
    BY <1>t, WithinInv DEF Control, runVars
  <2>3. Careful' /\ (~careless => ~rested)
    BY DEF Careful, Quiet, runVars
  <2>4. UNCHANGED <<typing, typed>>
    BY <1>t, WithinInv
  <2>b. Buffers'
    BY <1>t, WithinBuffers
  <2>5. Typing' /\ Cleared'
    BY <1>r, <2>3, <2>4 DEF Typing, Cleared
  <2> QED BY <2>1, <2>2, <2>3, <2>b, <2>5
<1>6. CASE RunLeave
  <2> USE <1>6 DEF RunLeave
  <2>1. UNCHANGED <<held, keyVars, vgaVars, written>>
    BY DEF Leave
  <2>f. FlagsOK'
    BY DEF TypeOK, FlagsOK, runVars, buttonVars, stepVars
  <2>2. TypeOK'
    BY <1>t, <2>1, <2>f, LeaveInv DEF TypeOK, keyVars, vgaVars, buttonVars, Places
  <2>3. Control'
    BY <1>t, LeaveInv DEF Control
  <2>4. Careful'
    BY DEF Careful, Quiet
  <2>5. Buffers' /\ Typing' /\ Cleared'
    BY <2>1 DEF Buffers, Typing, Cleared, keyVars, vgaVars, buttonVars
  <2> QED BY <2>2, <2>3, <2>4, <2>5
<1> QED BY <1>1, <1>2, <1>3, <1>4, <1>5, <1>6 DEF RunThread

LEMMA WindowStepInv == Inv /\ WindowStep => Inv'
<1> SUFFICES ASSUME Inv, WindowStep PROVE Inv'
  OBVIOUS
<1> USE DEF Inv
<1>t. "window" \in Thread /\ "run" \in Thread \ {"window"}
  BY DEF Thread
<1>u. CASE WindowUpdate
  <2> USE <1>u DEF WindowUpdate, runVars, vgaVars
  <2>f. FlagsOK'
    BY DEF TypeOK, FlagsOK
  <2>1. TypeOK'
    <3>1. written' \in Nat
      BY CountersNat DEF TypeOK
    <3> QED BY <2>f, <3>1 DEF TypeOK
  <2>2. Control'
    BY DEF Control
  <2>3. Careful'
    BY DEF Careful, Quiet
  <2>4. Buffers' /\ Typing' /\ Cleared'
    BY DEF Buffers, Typing, Cleared
  <2> QED BY <2>1, <2>2, <2>3, <2>4
<1>1. CASE WindowEnter
  <2> USE <1>1 DEF WindowEnter, stepVars
  <2>1. UNCHANGED <<held, keyVars, vgaVars, written>>
    BY DEF Enter
  <2>f. FlagsOK'
    BY DEF TypeOK, FlagsOK, runVars, buttonVars, stepVars
  <2>2. TypeOK'
    BY <1>t, <2>1, <2>f, EnterInv DEF TypeOK, keyVars, vgaVars, buttonVars, runVars, Places
  <2>3. Control'
    BY <1>t, EnterInv DEF Control, runVars
  <2>4. Careful'
    BY DEF Careful, Quiet, runVars
  <2>5. Buffers' /\ Typing' /\ Cleared'
    BY <2>1 DEF Buffers, Typing, Cleared, keyVars, vgaVars, buttonVars
  <2> QED BY <2>2, <2>3, <2>4, <2>5
<1>2. CASE WindowWithin
  <2> USE <1>2 DEF WindowWithin, stepVars
  <2>f. FlagsOK'
    BY DEF TypeOK, FlagsOK, runVars, buttonVars, stepVars
  <2>1. TypeOK'
    BY <1>t, <2>f, WithinInv, ZenonT(40) DEF TypeOK, runVars, buttonVars, Places
  <2>2. Control'
    BY <1>t, WithinInv DEF Control, runVars
  <2>3. Careful' /\ (~careless => ~rested)
    BY DEF Careful, Quiet, runVars
  <2>4. UNCHANGED <<typing, typed>>
    BY <1>t, WithinInv
  <2>b. Buffers'
    BY <1>t, WithinBuffers
  <2>5. Typing' /\ Cleared'
    BY <2>3, <2>4 DEF Typing, Cleared
  <2> QED BY <2>1, <2>2, <2>3, <2>b, <2>5
<1>3. CASE WindowLeave
  <2> USE <1>3 DEF WindowLeave, stepVars
  <2>1. UNCHANGED <<held, keyVars, vgaVars, written>>
    BY DEF Leave
  <2>f. FlagsOK'
    BY DEF TypeOK, FlagsOK, runVars, buttonVars, stepVars
  <2>2. TypeOK'
    <3>1. window' \in {"idle", "update"}
      OBVIOUS
    <3> QED BY <1>t, <2>f, <2>1, <3>1, LeaveInv
              DEF TypeOK, keyVars, vgaVars, buttonVars, runVars, Places
  <2>3. Control'
    BY <1>t, LeaveInv DEF Control, runVars
  <2>4. Careful'
    BY DEF Careful, Quiet, runVars
  <2>5. Buffers' /\ Typing' /\ Cleared'
    BY <2>1 DEF Buffers, Typing, Cleared, keyVars, vgaVars, buttonVars
  <2> QED BY <2>2, <2>3, <2>4, <2>5
<1> QED BY <1>u, <1>1, <1>2, <1>3 DEF WindowStep

\* The window's slots, up to their steps of the processor.
Slot ==
  \/ PushButton \/ on_startButton_clicked \/ on_stopButton_clicked \/ timerEvent
  \/ StopAndSleep \/ on_nextButton_clicked \/ goto \/ GotoEnds

LEMMA SlotInv == Inv /\ Slot => Inv'
<1> SUFFICES ASSUME Inv, Slot PROVE Inv'
  OBVIOUS
<1> USE DEF Inv, machine, others, keyVars, vgaVars, buttonVars, runVars, stepVars
<1>1. CASE PushButton \/ timerEvent
  <2> USE <1>1 DEF PushButton, timerEvent, Free
  <2>f. FlagsOK'
    BY DEF TypeOK, FlagsOK
  <2>1. TypeOK'
    BY <2>f DEF TypeOK
  <2>2. Control' /\ Careful'
    BY DEF Control, Careful, Quiet
  <2>3. Buffers' /\ Typing' /\ Cleared'
    BY DEF Buffers, Typing, Cleared
  <2> QED BY <2>1, <2>2, <2>3
<1>2. CASE on_startButton_clicked
  <2> USE <1>2 DEF on_startButton_clicked, Free
  <2>f. FlagsOK'
    BY DEF TypeOK, FlagsOK
  <2>1. TypeOK'
    BY <2>f DEF TypeOK
  <2>2. Control' /\ Careful'
    BY DEF Control, Careful, Quiet
  <2>3. Buffers' /\ Typing' /\ Cleared'
    BY DEF Buffers, Typing, Cleared
  <2> QED BY <2>1, <2>2, <2>3
<1>3. CASE on_stopButton_clicked
  <2> USE <1>3 DEF on_stopButton_clicked, Free
  <2>f. FlagsOK'
    BY DEF TypeOK, FlagsOK
  <2>1. TypeOK'
    BY <2>f DEF TypeOK
  <2>2. Control' /\ Careful'
    BY DEF Control, Careful, Quiet
  <2>3. Buffers' /\ Typing' /\ Cleared'
    BY DEF Buffers, Typing, Cleared
  <2> QED BY <2>1, <2>2, <2>3
<1>6. CASE StopAndSleep
  <2> USE <1>6 DEF StopAndSleep, Free
  <2>f. FlagsOK'
    BY DEF TypeOK, FlagsOK
  <2>1. TypeOK'
    BY <2>f DEF TypeOK
  <2>2. Control' /\ Careful'
    BY DEF Control, Careful, Quiet
  <2>3. Buffers' /\ Typing' /\ Cleared'
    BY DEF Buffers, Typing, Cleared
  <2> QED BY <2>1, <2>2, <2>3
<1>4. CASE on_nextButton_clicked \/ goto
  <2> USE <1>4 DEF on_nextButton_clicked, goto, Free
  <2>f. FlagsOK'
    BY DEF TypeOK, FlagsOK
  <2>1. TypeOK'
    BY <2>f DEF TypeOK
  <2>2. Control'
    BY DEF Control
  <2>4. Careful'
    BY DEF Careful, Quiet
  <2>3. Buffers' /\ Typing' /\ Cleared'
    BY DEF Buffers, Typing, Cleared
  <2> QED BY <2>1, <2>2, <2>3, <2>4
<1>5. CASE GotoEnds
  <2> USE <1>5 DEF GotoEnds
  <2>f. FlagsOK'
    BY DEF TypeOK, FlagsOK
  <2>1. TypeOK'
    BY <2>f DEF TypeOK
  <2>2. Control' /\ Careful'
    BY DEF Control, Careful, Quiet
  <2>3. Buffers' /\ Typing' /\ Cleared'
    BY DEF Buffers, Typing, Cleared
  <2> QED BY <2>1, <2>2, <2>3
<1> QED BY <1>1, <1>2, <1>3, <1>6, <1>4, <1>5 DEF Slot

LEMMA ResetInv == Inv /\ FastCoreReset => Inv'
<1> SUFFICES ASSUME Inv, FastCoreReset PROVE Inv'
  OBVIOUS
<1> USE DEF Inv, FastCoreReset, runVars
<1>1. /\ 0 \in 0 .. QueueSize - 1 /\ 0 \in 0 .. Settings - 1
      /\ 0 \in Nat /\ 0 \in 0 .. MaxTyped
  BY Sizes
<1>f. FlagsOK'
  BY DEF TypeOK, FlagsOK, Quiet
<1>2. TypeOK'
  BY <1>1, <1>f DEF TypeOK
<1>b. Buffers'
  BY DEF Buffers
<1>3. Control' /\ Careful'
  BY DEF Control, Careful, Quiet
<1>4. Typing'
  <2>1. typing' = <<>> /\ Len(typing') = 0 /\ typing' \in Seq(Code)
    BY DEF Typing
  <2> QED BY <2>1, Sizes DEF Typing
<1>5. Cleared'
  BY DEF Cleared
<1> QED BY <1>2, <1>b, <1>3, <1>4, <1>5

LEMMA CodesBytes ==
  \A key \in Keys, release \in BOOLEAN : Codes(key, release) \in Seq(Code)
<1> TAKE key \in Keys, release \in BOOLEAN
<1>1. key \in Seq(Code) /\ Break \in Code
  BY SimWindowAssumption DEF Code
<1> HIDE DEF Code
<1>2. <<Break>> \in Seq(Code)
  BY <1>1
<1> QED BY <1>1, <1>2 DEF Codes

LEMMA KeyInv == Inv /\ (keyEvent \/ StoreKey \/ PublishKey) => Inv'
<1> SUFFICES ASSUME Inv, keyEvent \/ StoreKey \/ PublishKey PROVE Inv'
  OBVIOUS
<1> USE DEF Inv, others, vgaVars, buttonVars, runVars
<1>1. CASE keyEvent
  <2> USE <1>1 DEF keyEvent
  <2>f. FlagsOK'
    BY DEF TypeOK, FlagsOK
  <2>1. TypeOK'
    BY <2>f DEF TypeOK
  <2>2. Control' /\ Careful'
    BY DEF Control, Careful, Quiet
  <2>3. Buffers' /\ Cleared'
    BY DEF Buffers, Cleared
  <2>4. Typing'
    <3>1. typing' \in Seq(Code) /\ typed' + Len(typing') <= MaxTyped
      BY CodesBytes
    <3> QED BY <3>1 DEF Free, Typing
  <2> QED BY <2>1, <2>2, <2>3, <2>4
<1>2. CASE StoreKey
  <2> USE <1>2 DEF StoreKey
  <2>1. Head(typing) \in Code
    BY DEF Typing
  <2>b. Buffers'
    BY <2>1 DEF Buffers
  <2>f. FlagsOK'
    BY DEF TypeOK, FlagsOK
  <2>2. TypeOK'
    BY <2>f DEF TypeOK
  <2>3. Control' /\ Careful'
    BY DEF Control, Careful, Quiet
  <2>4. Typing' /\ Cleared'
    BY DEF Typing, Cleared
  <2> QED BY <2>b, <2>2, <2>3, <2>4
<1>3. CASE PublishKey
  <2> USE <1>3 DEF PublishKey
  <2>1. /\ typing \in Seq(Code) /\ typing # <<>> /\ typed + Len(typing) <= MaxTyped
        /\ typed \in Nat
    BY CountersNat DEF Typing
  <2>2. /\ typing' \in Seq(Code) /\ Len(typing') = Len(typing) - 1
        /\ Len(typing) \in Nat /\ Len(typing) >= 1
    BY <2>1
  <2>3. typed' \in 0 .. MaxTyped /\ typed' + Len(typing') <= MaxTyped
    BY <2>1, <2>2, Sizes
  <2>f. FlagsOK'
    BY DEF TypeOK, FlagsOK
  <2>4. TypeOK'
    BY <2>3, <2>f, NextInRange DEF TypeOK
  <2>5. Control' /\ Careful'
    BY DEF Control, Careful, Quiet
  <2>6. Buffers' /\ Cleared'
    BY DEF Buffers, Cleared
  <2>7. Typing'
    BY <2>2, <2>3 DEF Typing
  <2> QED BY <2>4, <2>5, <2>6, <2>7
<1> QED BY <1>1, <1>2, <1>3

LEMMA StepInv == Inv /\ [Next]_vars => Inv'
<1> SUFFICES ASSUME Inv, [Next]_vars PROVE Inv'
  OBVIOUS
<1>1. CASE UNCHANGED vars
  <2> USE <1>1 DEF Inv, vars, runVars, buttonVars, keyVars, vgaVars, stepVars
  <2>f. FlagsOK'
    BY DEF TypeOK, FlagsOK
  <2>t. TypeOK'
    BY <2>f DEF TypeOK
  <2>1. Control' /\ Careful'
    BY DEF Control, Careful, Quiet
  <2>2. Buffers' /\ Typing' /\ Cleared'
    BY DEF Buffers, Typing, Cleared
  <2> QED BY <2>t, <2>1, <2>2
<1> QED BY <1>1, RunThreadInv, WindowStepInv, SlotInv, ResetInv, KeyInv
        DEF Next, Window, Slot

LEMMA SpecInv == Spec => []Inv
BY InitInv, StepInv, PTL DEF Spec

(***************************************************************************)
(* Every variable of the two threads keeps its range.                      *)
(***************************************************************************)
THEOREM WindowTypeCorrect == Spec => []TypeOK
<1>1. Inv => TypeOK
  BY DEF Inv
<1> QED BY <1>1, SpecInv, PTL

(***************************************************************************)
(* Stop, start and reset need no lock: as long as the user steps only a    *)
(* machine at rest and resets find it at rest, the two threads are never   *)
(* inside the processor together, for every length of the batch.           *)
(***************************************************************************)
THEOREM WindowOneStepAtATime == Spec => []OneStepAtATime
<1>1. Inv => OneStepAtATime
  BY InvOneStep DEF Inv
<1> QED BY <1>1, SpecInv, PTL

(***************************************************************************)
(* What the run thread still had in hand when it was stopped does not      *)
(* touch the machine after a reset that found it at rest.                  *)
(***************************************************************************)
THEOREM WindowResetHolds == Spec => ResetHolds
<1>1. Inv /\ Inv' /\ [Next]_vars =>
        [rested /\ rested' /\ ~careless => UNCHANGED <<written, vgaVars, flagButton>>]_vars
  <2> SUFFICES ASSUME Inv, Inv', Next, rested, rested', ~careless
               PROVE  UNCHANGED <<written, vgaVars, flagButton>>
    OBVIOUS
  <2> USE DEF Inv, machine, others, vgaVars, buttonVars, runVars, vars
  <2>1. run \in {"loop", "test"} /\ ~running /\ window \notin {"step", "inside"}
    BY DEF Careful, Quiet
  <2>2. CASE RunThread
    BY <2>1, <2>2 DEF RunThread, RunLoop, RunUpdate, RunTest, RunEnter, RunWithin, RunLeave
  <2>3. CASE Window
    <3>1. CASE FastCoreReset
      <4>1. ~careless'
        BY <2>1, <3>1 DEF FastCoreReset, Quiet
      <4> QED BY <3>1, <4>1 DEF FastCoreReset, Cleared
    <3>2. CASE on_startButton_clicked \/ WindowUpdate
      BY <3>2 DEF on_startButton_clicked, WindowUpdate
    <3>3. CASE WindowEnter \/ WindowWithin \/ WindowLeave
      BY <2>1, <3>3 DEF WindowEnter, WindowWithin, WindowLeave
    <3>4. CASE PushButton \/ timerEvent \/ on_stopButton_clicked \/ StopAndSleep
      BY <3>4 DEF PushButton, timerEvent, on_stopButton_clicked, StopAndSleep
    <3>5. CASE on_nextButton_clicked \/ goto \/ GotoEnds
      BY <3>5 DEF on_nextButton_clicked, goto, GotoEnds
    <3>6. CASE keyEvent \/ StoreKey \/ PublishKey
      BY <3>6 DEF keyEvent, StoreKey, PublishKey
    <3> QED BY <2>3, <3>1, <3>2, <3>3, <3>4, <3>5, <3>6 DEF Window, WindowStep
  <2> QED BY <2>2, <2>3 DEF Next
<1> QED BY <1>1, SpecInv, PTL DEF Spec, ResetHolds

\* A thread that is careful is alone in the processor.
LEMMA Alone ==
  ASSUME Inv, ~careless, NEW t \in Thread, inside[t] # "out"
  PROVE  \A u \in Thread \ {t} : inside[u] = "out"
BY DEF Inv, Control, Careful, Quiet, Thread

-----------------------------------------------------------------------------
(* The keyboard queue: a ring, whose bytes are the ones sent and not yet   *)
(* taken.  The byte that is stored and not yet published is outside of     *)
(* them, and the byte a thread holds is still the oldest of them.          *)
R == INSTANCE RingProofs WITH Size <- QueueSize, Byte <- Code

Stored == R!Contents(keyboard_buf, queue_begin, queue_end)

QueueHolds ==
  /\ queued = Stored
  /\ window = "publish" => keyboard_buf[queue_begin] = Head(typing)
  /\ \A t \in Thread : inside[t] = "take" => /\ queue_begin # queue_end
                                             /\ held[t] = keyboard_buf[queue_end]
Queue == ~careless /\ ~overrun => QueueHolds

LEMMA RingSized == R!RingAssumption
BY Sizes DEF R!RingAssumption

LEMMA IndexIs == R!Index = 0 .. QueueSize - 1
BY DEF R!Index

LEMMA NextInIsSucc == \A i \in R!Index : NextIn(i) = R!Succ(i)
BY Sizes DEF R!Index, R!Succ, NextIn

LEMMA DistanceIsCount ==
  \A h, t \in R!Index : (h - t) % QueueSize = R!Count(h, t)
<1> TAKE h, t \in R!Index
<1>1. CASE h >= t
  BY <1>1, Sizes DEF R!Index, R!Count
<1>2. CASE ~(h >= t)
  BY <1>2, Sizes DEF R!Index, R!Count
<1> QED BY <1>1, <1>2

LEMMA RingTypes ==
  Inv => /\ keyboard_buf \in [R!Index -> Code] /\ held \in [Thread -> Code]
         /\ queue_begin \in R!Index /\ queue_end \in R!Index
BY IndexIs DEF Inv, TypeOK, Buffers, Entry

\* A ring whose indices were cleared holds nothing.
LEMMA EmptyStored ==
  ASSUME Inv, queue_begin = 0, queue_end = 0
  PROVE  Stored = <<>>
<1>1. R!Count(queue_begin, queue_end) = 0
  BY Sizes DEF R!Count
<1>2. Stored \in Seq(Code) /\ Len(Stored) = 0
  BY <1>1, RingTypes, RingSized, R!ContentsSeq DEF Stored
<1> QED BY <1>2

LEMMA InitQueue == Init => Queue
<1> SUFFICES ASSUME Init PROVE Queue
  OBVIOUS
<1>1. queue_begin = 0 /\ queue_end = 0 /\ queued = <<>> /\ window # "publish"
  BY DEF Init
<1>2. \A t \in Thread : inside[t] = "out"
  BY DEF Init
<1>3. Stored = <<>>
  BY <1>1, InitInv, EmptyStored
<1> QED BY <1>1, <1>2, <1>3 DEF Queue, QueueHolds

\* The bytes in the ring, as a thread that takes one finds them.
LEMMA TakeQueue ==
  ASSUME Inv, ~careless, QueueHolds, NEW t \in Thread, TakeByte(t), inside'[t] # "take",
         \A u \in Thread \ {t} : inside'[u] # "take", UNCHANGED window
  PROVE  QueueHolds'
<1>1. /\ keyboard_buf \in [R!Index -> Code]
      /\ queue_begin \in R!Index /\ queue_end \in R!Index /\ queue_begin # queue_end
  BY RingTypes DEF QueueHolds, TakeByte
<1>2. queue_end' = R!Succ(queue_end)
  BY <1>1, NextInIsSucc DEF TakeByte
<1>3. /\ queued # <<>>
      /\ R!Contents(keyboard_buf, queue_begin, R!Succ(queue_end)) = Tail(queued)
  BY <1>1, RingSized, R!Take DEF QueueHolds, Stored
<1>4. queued' = Tail(queued)
  BY <1>3 DEF TakeByte, History
<1>5. queued' = Stored'
  BY <1>2, <1>3, <1>4 DEF Stored, TakeByte
<1>6. UNCHANGED <<keyboard_buf, queue_begin, typing>>
  BY DEF TakeByte
<1>7. window' = "publish" => keyboard_buf'[queue_begin'] = Head(typing')
  BY <1>6 DEF QueueHolds
<1> QED BY <1>5, <1>7 DEF QueueHolds

LEMMA WithinQueue ==
  ASSUME Inv, ~careless, QueueHolds, NEW t \in Thread, Within(t), UNCHANGED window
  PROVE  QueueHolds'
<1>1. \A u \in Thread \ {t} : inside'[u] = "out"
  BY WithinInv, Alone DEF Inv
<1>2. CASE ReadByte(t)
  <2> USE <1>2 DEF ReadByte, keyVars
  <2>1. inside'[t] = "take" => /\ queue_begin # queue_end
                               /\ held'[t] = keyboard_buf[queue_end]
    BY DEF QueueHolds, Inv, TypeOK, Buffers
  <2> QED BY <1>1, <2>1 DEF QueueHolds, Stored
<1>3. CASE TakeByte(t)
  <2>1. inside'[t] # "take"
    BY <1>3 DEF TakeByte, Inv, TypeOK
  <2> QED BY <1>1, <1>3, <2>1, TakeQueue
<1>4. CASE WriteSetting(t) \/ AdvanceSetting(t)
  <2>1. inside'[t] # "take" /\ UNCHANGED <<held, keyVars>>
    BY <1>4 DEF WriteSetting, AdvanceSetting, Inv, TypeOK
  <2> QED BY <1>1, <2>1 DEF QueueHolds, Stored, keyVars
<1> QED BY <1>2, <1>3, <1>4 DEF Within

\* A step that leaves the queue alone and lets no thread take.
LEMMA IdleQueue ==
  ASSUME Queue, ~careless' => ~careless, UNCHANGED <<held, keyVars, overrun>>,
         window' = "publish" => window = "publish",
         \A t \in Thread : inside'[t] = "take" => inside[t] = "take"
  PROVE  Queue'
BY DEF Queue, QueueHolds, Stored, keyVars

LEMMA RunThreadQueue == Inv /\ Queue /\ RunThread => Queue'
<1> SUFFICES ASSUME Inv, Queue, RunThread PROVE Queue'
  OBVIOUS
<1>t. "run" \in Thread /\ "window" \in Thread \ {"run"} /\ Thread = {"run", "window"}
  BY DEF Thread
<1>1. CASE RunLoop \/ RunUpdate \/ RunTest
  BY <1>1, IdleQueue DEF RunLoop, RunUpdate, RunTest, machine, stepVars
<1>2. CASE RunEnter \/ RunLeave
  <2>1. UNCHANGED <<held, keyVars, window, careless, overrun>>
    BY <1>2 DEF RunEnter, RunLeave, Enter, Leave, stepVars
  <2>2. \A t \in Thread : inside'[t] = "take" => inside[t] = "take"
    BY <1>t, <1>2, EnterInv, LeaveInv DEF RunEnter, RunLeave, Inv
  <2> QED BY <2>1, <2>2, IdleQueue
<1>3. CASE RunWithin
  BY <1>t, <1>3, WithinQueue DEF RunWithin, Queue, stepVars
<1> QED BY <1>1, <1>2, <1>3 DEF RunThread

LEMMA WindowStepQueue == Inv /\ Queue /\ WindowStep => Queue'
<1> SUFFICES ASSUME Inv, Queue, WindowStep PROVE Queue'
  OBVIOUS
<1>t. "window" \in Thread /\ "run" \in Thread \ {"window"} /\ Thread = {"run", "window"}
  BY DEF Thread
<1>1. CASE WindowEnter \/ WindowLeave
  <2>1. UNCHANGED <<held, keyVars, careless, overrun>> /\ window' # "publish"
    BY <1>1 DEF WindowEnter, WindowLeave, Enter, Leave, stepVars
  <2>2. \A t \in Thread : inside'[t] = "take" => inside[t] = "take"
    BY <1>t, <1>1, EnterInv, LeaveInv DEF WindowEnter, WindowLeave, Inv
  <2> QED BY <2>1, <2>2, IdleQueue
<1>2. CASE WindowWithin
  BY <1>t, <1>2, WithinQueue DEF WindowWithin, Queue, stepVars
<1>3. CASE WindowUpdate
  <2> SUFFICES ASSUME ~careless', ~overrun' PROVE QueueHolds'
    BY DEF Queue
  <2>1. QueueHolds /\ UNCHANGED <<held, keyVars, inside>> /\ window' # "publish"
    BY <1>3 DEF WindowUpdate, Queue, keyVars
  <2> QED BY <2>1 DEF QueueHolds, Stored, keyVars
<1> QED BY <1>1, <1>2, <1>3 DEF WindowStep

LEMMA SlotQueue == Inv /\ Queue /\ Slot => Queue'
<1> SUFFICES ASSUME Queue, Slot PROVE Queue'
  OBVIOUS
<1>1. /\ UNCHANGED <<held, keyVars, inside, careless, overrun>>
      /\ window' = "publish" => window = "publish"
  BY DEF Slot, PushButton, on_startButton_clicked, on_stopButton_clicked, timerEvent,
         StopAndSleep, on_nextButton_clicked, goto, GotoEnds, machine, others, stepVars
<1> QED BY <1>1, IdleQueue

LEMMA ResetQueue == Inv /\ FastCoreReset => Queue'
<1> SUFFICES ASSUME Inv, FastCoreReset, ~careless' PROVE QueueHolds'
  BY DEF Queue
<1> USE DEF FastCoreReset
<1>1. queue_begin' = 0 /\ queue_end' = 0 /\ queued' = <<>> /\ window' # "publish"
  OBVIOUS
<1>2. keyboard_buf' \in [R!Index -> Code]
  BY RingTypes
<1>3. Stored' = <<>>
  <2>1. 0 \in R!Index
    BY Sizes DEF R!Index
  <2>2. R!Count(queue_begin', queue_end') = 0
    BY <1>1, Sizes DEF R!Count
  <2>3. Stored' \in Seq(Code) /\ Len(Stored') = 0
    BY <1>1, <1>2, <2>1, <2>2, RingSized, R!ContentsSeq DEF Stored
  <2> QED BY <2>3
<1>4. \A t \in Thread : inside'[t] = "out"
  BY DEF Inv, Control, Quiet, Thread
<1> QED BY <1>1, <1>3, <1>4 DEF QueueHolds

LEMMA KeyQueue == Inv /\ Queue /\ (keyEvent \/ StoreKey \/ PublishKey) => Queue'
<1> SUFFICES ASSUME Inv, Queue, keyEvent \/ StoreKey \/ PublishKey, ~careless', ~overrun'
             PROVE  QueueHolds'
  BY DEF Queue
<1>h. ~careless /\ QueueHolds
  <2>1. careless' = careless
    BY DEF keyEvent, StoreKey, PublishKey, others
  <2>2. overrun => overrun'
    BY DEF keyEvent, StoreKey, PublishKey
  <2> QED BY <2>1, <2>2 DEF Queue
<1>1. /\ keyboard_buf \in [R!Index -> Code]
      /\ queue_begin \in R!Index /\ queue_end \in R!Index
      /\ typing \in Seq(Code)
  BY RingTypes DEF Inv, Typing
<1>2. CASE keyEvent
  BY <1>2, <1>h DEF keyEvent, others, QueueHolds, Stored, Free
<1>3. CASE StoreKey
  <2> USE <1>3 DEF StoreKey, others
  <2>1. Head(typing) \in Code
    BY <1>1
  <2>2. /\ keyboard_buf' \in [R!Index -> Code] /\ keyboard_buf'[queue_begin] = Head(typing)
        /\ queue_begin # queue_end => keyboard_buf'[queue_end] = keyboard_buf[queue_end]
    BY <1>1, <2>1
  <2>3. Stored' = Stored
    BY <1>1, <2>1, RingSized, R!Overwrite DEF Stored
  <2> QED BY <1>h, <2>2, <2>3 DEF QueueHolds
<1>4. CASE PublishKey
  <2> USE <1>4, <1>h DEF PublishKey, others
  <2>1. typing # <<>> /\ Head(typing) \in Code
    BY <1>1 DEF Inv, Typing
  <2>2. keyboard_buf = [keyboard_buf EXCEPT ![queue_begin] = Head(typing)]
    BY <1>1 DEF QueueHolds
  <2>3. queue_begin' = R!Succ(queue_begin)
    BY <1>1, NextInIsSucc
  <2>4. R!Succ(queue_begin) # queue_end
    BY <2>3
  <2>5. Stored' = Append(Stored, Head(typing))
    BY <1>1, <2>1, <2>2, <2>3, <2>4, RingSized, R!Put DEF Stored
  <2>6. queued' = Append(queued, Head(typing))
    BY DEF History
  <2>7. \A t \in Thread : inside'[t] = "take" =>
          queue_begin' # queue_end' /\ held'[t] = keyboard_buf'[queue_end']
    <3>1. UNCHANGED <<inside, held, keyboard_buf, queue_end>>
      OBVIOUS
    <3> QED BY <2>3, <2>4, <3>1 DEF QueueHolds
  <2> QED BY <2>5, <2>6, <2>7 DEF QueueHolds
<1> QED BY <1>2, <1>3, <1>4

LEMMA StepQueue == Inv /\ Queue /\ [Next]_vars => Queue'
<1> SUFFICES ASSUME Inv, Queue, [Next]_vars PROVE Queue'
  OBVIOUS
<1>1. CASE UNCHANGED vars
  BY <1>1, IdleQueue DEF vars, stepVars
<1> QED BY <1>1, RunThreadQueue, WindowStepQueue, SlotQueue, ResetQueue, KeyQueue
        DEF Next, Window, Slot

LEMMA QueueInOrder == Inv /\ Queue => KeysInOrder
<1> SUFFICES ASSUME Inv, QueueHolds
             PROVE  /\ Waiting = queued
                    /\ \A t \in Thread : inside[t] = "take" =>
                         queued # <<>> /\ held[t] = Head(queued)
  BY DEF Queue, KeysInOrder
<1>1. queue_begin \in R!Index /\ queue_end \in R!Index
  BY RingTypes
<1>2. Waiting = Stored
  BY <1>1, DistanceIsCount DEF Waiting, Stored, R!Contents
<1>3. queue_begin # queue_end => queued # <<>> /\ Head(queued) = keyboard_buf[queue_end]
  BY <1>1, RingTypes, RingSized, R!Take DEF QueueHolds, Stored
<1> QED BY <1>2, <1>3 DEF QueueHolds

(***************************************************************************)
(* The bytes of the key events reach the program, all and in order, with   *)
(* no lock around the queue, whatever its size and the codes of the keys,  *)
(* until a byte fills the ring or the window steps a machine that runs.    *)
(***************************************************************************)
THEOREM WindowKeysInOrder == Spec => []KeysInOrder
BY InitQueue, StepQueue, QueueInOrder, SpecInv, PTL DEF Spec

-----------------------------------------------------------------------------
(* The settings: the n-th byte goes to the place (n - 1) % Settings.       *)
Place == 0 .. Settings - 1
LastOf(n, i) == IF n <= i THEN 0 ELSE 1 + i + Settings * ((n - 1 - i) \div Settings)

LEMMA DivMod ==
  \A n \in Nat : /\ n \div Settings \in Nat /\ n % Settings \in Place
                /\ n = Settings * (n \div Settings) + (n % Settings)
BY Sizes DEF Place

LEMMA TimesSettings ==
  \A a, b \in Int : a < b => Settings * a + Settings <= Settings * b
BY Sizes

LEMMA DivModUnique ==
  ASSUME NEW n \in Nat, NEW q \in Int, NEW r \in Place, n = Settings * q + r
  PROVE  n \div Settings = q /\ n % Settings = r
<1>1. /\ n \div Settings \in Nat /\ n % Settings \in Place
      /\ n = Settings * (n \div Settings) + (n % Settings)
  BY DivMod
<1>2. ~(n \div Settings < q)
  BY <1>1, TimesSettings, Sizes DEF Place
<1>3. ~(q < n \div Settings)
  BY <1>1, TimesSettings, Sizes DEF Place
<1> QED BY <1>1, <1>2, <1>3, Sizes DEF Place

LEMMA NextPlace ==
  ASSUME NEW n \in Nat
  PROVE  (n + 1) % Settings = ((n % Settings) + 1) % Settings
<1> DEFINE q == n \div Settings
           r == n % Settings
<1>1. q \in Nat /\ r \in Place /\ n = Settings * q + r
  BY DivMod
<1> HIDE DEF q
<1> HIDE DEF r
<1>2. CASE r + 1 < Settings
  <2>1. r + 1 \in Place /\ r + 1 = Settings * 0 + (r + 1) /\ n + 1 = Settings * q + (r + 1)
    BY <1>1, <1>2, Sizes DEF Place
  <2>2. (r + 1) % Settings = r + 1 /\ (n + 1) % Settings = r + 1
    BY <1>1, <2>1, DivModUnique, Sizes DEF Place
  <2> QED BY <2>2 DEF r
<1>3. CASE r + 1 = Settings
  <2>1. 0 \in Place /\ r + 1 = Settings * 1 + 0 /\ n + 1 = Settings * (q + 1) + 0
    BY <1>1, <1>3, Sizes DEF Place
  <2>2. (r + 1) % Settings = 0 /\ (n + 1) % Settings = 0
    BY <1>1, <2>1, DivModUnique, Sizes DEF Place
  <2> QED BY <2>2 DEF r
<1> QED BY <1>1, <1>2, <1>3, Sizes DEF Place, r

\* One more byte changes only the place it goes to.
LEMMA LastOfNext ==
  ASSUME NEW n \in Nat, NEW i \in Place
  PROVE  LastOf(n + 1, i) = IF i = n % Settings THEN n + 1 ELSE LastOf(n, i)
<1> DEFINE q == n \div Settings
           r == n % Settings
<1>1. q \in Nat /\ r \in Place /\ n = Settings * q + r
  BY DivMod
<1> HIDE DEF q
<1> HIDE DEF r
<1>a. n + 1 - 1 - i = n - i
  BY DEF Place
<1>2. CASE i = r
  <2>1. n - i \in Nat /\ n - i = Settings * q + 0 /\ 0 \in Place /\ ~(n + 1 <= i)
    BY <1>1, <1>2, Sizes DEF Place
  <2>2. (n - i) \div Settings = q
    BY <1>1, <2>1, DivModUnique
  <2>3. 1 + i + Settings * q = n + 1
    BY <1>1, <1>2, Sizes DEF Place
  <2> QED BY <1>a, <1>2, <2>1, <2>2, <2>3 DEF LastOf, r
<1>3. CASE i < r
  <2>1. /\ n - i \in Nat /\ n - i = Settings * q + (r - i) /\ r - i \in Place
        /\ n - 1 - i \in Nat /\ n - 1 - i = Settings * q + (r - 1 - i) /\ r - 1 - i \in Place
        /\ ~(n + 1 <= i) /\ ~(n <= i) /\ i # r
    BY <1>1, <1>3, Sizes DEF Place
  <2>2. (n - i) \div Settings = q /\ (n - 1 - i) \div Settings = q
    BY <1>1, <2>1, DivModUnique
  <2> QED BY <1>a, <2>1, <2>2 DEF LastOf, r
<1>4. CASE i > r /\ q = 0
  <2>1. n + 1 <= i /\ n <= i /\ i # r
    BY <1>1, <1>4, Sizes DEF Place
  <2> QED BY <2>1 DEF LastOf, r
<1>5. CASE i > r /\ q # 0
  <2>0. Settings * q = Settings * (q - 1) + Settings /\ Settings * (q - 1) >= 0 /\ q - 1 \in Int
    BY <1>1, <1>5, Sizes
  <2>1. /\ n - i \in Nat /\ n - i = Settings * (q - 1) + (Settings + r - i)
        /\ Settings + r - i \in Place
        /\ n - 1 - i \in Nat /\ n - 1 - i = Settings * (q - 1) + (Settings + r - i - 1)
        /\ Settings + r - i - 1 \in Place
        /\ ~(n + 1 <= i) /\ ~(n <= i) /\ i # r
    BY <1>1, <1>5, <2>0, Sizes DEF Place
  <2>2. (n - i) \div Settings = q - 1 /\ (n - 1 - i) \div Settings = q - 1
    BY <2>0, <2>1, DivModUnique
  <2> QED BY <1>a, <2>1, <2>2 DEF LastOf, r
<1> QED BY <1>1, <1>2, <1>3, <1>4, <1>5 DEF Place

Pending == \E t \in Thread : inside[t] = "advance"

(* A byte whose index has not been advanced is already in its place.       *)
PlacedHolds ==
  /\ vga_index = written % Settings
  /\ vga_control \in [Place -> Nat]
  /\ \A i \in Place : vga_control[i] = IF Pending /\ i = vga_index THEN written + 1
                                       ELSE LastOf(written, i)
Placed == ~careless => PlacedHolds

LEMMA ZeroPlaced ==
  /\ 0 % Settings = 0
  /\ \A i \in Place : LastOf(0, i) = 0
<1>1. 0 = Settings * 0 + 0 /\ 0 \in Place
  BY Sizes DEF Place
<1>2. 0 % Settings = 0
  BY <1>1, DivModUnique
<1>3. \A i \in Place : 0 <= i
  BY DEF Place
<1> QED BY <1>2, <1>3 DEF LastOf

LEMMA InitPlaced == Init => Placed
<1> SUFFICES ASSUME Init PROVE PlacedHolds
  BY DEF Placed
<1>1. vga_control = [i \in Place |-> 0] /\ vga_index = 0 /\ written = 0 /\ ~Pending
  BY DEF Init, Place, Pending, Thread
<1> QED BY <1>1, ZeroPlaced DEF PlacedHolds

LEMMA ResetPlaced == Inv /\ FastCoreReset => Placed'
<1> SUFFICES ASSUME Inv, FastCoreReset, ~careless' PROVE PlacedHolds'
  BY DEF Placed
<1>1. /\ vga_control' = [i \in Place |-> 0] /\ vga_index' = 0 /\ written' = 0
      /\ inside' = inside
  BY DEF FastCoreReset, Place
<1>2. ~Pending'
  BY <1>1 DEF FastCoreReset, Inv, Control, Quiet, Pending, Thread
<1> QED BY <1>1, <1>2, ZeroPlaced DEF PlacedHolds

LEMMA WithinPlaced ==
  ASSUME Inv, ~careless, PlacedHolds, NEW t \in Thread, Within(t)
  PROVE  PlacedHolds'
<1>0. \A u \in Thread \ {t} : inside[u] = "out"
  BY WithinInv, Alone DEF Inv
<1>1. \A u \in Thread \ {t} : inside'[u] = "out"
  BY <1>0, WithinInv DEF Inv
<1>2. written \in Nat
  BY CountersNat DEF Inv
<1>3. CASE ReadByte(t) \/ TakeByte(t)
  <2>1. UNCHANGED <<vga_control, vga_index, written>>
    BY <1>3 DEF ReadByte, TakeByte, vgaVars
  <2>2. inside[t] # "advance" /\ inside'[t] # "advance"
    BY <1>3 DEF ReadByte, TakeByte, Inv, TypeOK
  <2>3. ~Pending /\ ~Pending'
    BY <1>0, <1>1, <2>2 DEF Pending
  <2> QED BY <2>1, <2>3 DEF PlacedHolds
<1>4. CASE WriteSetting(t)
  <2>1. vga_index \in Place
    BY DEF Inv, TypeOK, Place
  <2>2. ~Pending /\ Pending'
    BY <1>0, <1>4 DEF WriteSetting, Pending, Inv, TypeOK
  <2>3. UNCHANGED <<vga_index, written>>
    BY <1>4 DEF WriteSetting
  <2>4. written + 1 \in Nat
    BY <1>2
  <2>5. vga_control' = [vga_control EXCEPT ![vga_index] = written + 1]
    BY <1>4 DEF WriteSetting
  <2>6. vga_control' \in [Place -> Nat]
    BY <2>1, <2>4, <2>5 DEF PlacedHolds
  <2>7. \A i \in Place : vga_control'[i] = IF i = vga_index THEN written + 1
                                            ELSE LastOf(written, i)
    BY <2>1, <2>2, <2>5 DEF PlacedHolds
  <2> QED BY <2>2, <2>3, <2>6, <2>7 DEF PlacedHolds
<1>5. CASE AdvanceSetting(t)
  <2>1. Pending /\ ~Pending'
    BY <1>1, <1>5 DEF AdvanceSetting, Pending, Inv, TypeOK
  <2>2. /\ vga_control' = vga_control /\ written' = written + 1
        /\ vga_index' = (vga_index + 1) % Settings
    BY <1>5 DEF AdvanceSetting
  <2>3. vga_index' = written' % Settings
    BY <1>2, <2>2, NextPlace DEF PlacedHolds
  <2>4. \A i \in Place : vga_control[i] = LastOf(written + 1, i)
    BY <1>2, <2>1, LastOfNext DEF PlacedHolds
  <2> QED BY <2>1, <2>2, <2>3, <2>4 DEF PlacedHolds
<1> QED BY <1>3, <1>4, <1>5 DEF Within

\* A step that leaves the settings alone and lets no thread advance.
LEMMA IdlePlaced ==
  ASSUME Placed, ~careless' => ~careless, UNCHANGED <<vgaVars, written>>,
         \A t \in Thread : inside'[t] = "advance" <=> inside[t] = "advance"
  PROVE  Placed'
<1>1. Pending' = Pending
  BY DEF Pending
<1> QED BY <1>1 DEF Placed, PlacedHolds, vgaVars

LEMMA EnterPlaced ==
  ASSUME Inv, Placed, NEW t \in Thread, Enter(t) \/ Leave(t), UNCHANGED stepVars
  PROVE  Placed'
<1>1. UNCHANGED <<vgaVars, written, careless>>
  BY DEF Enter, Leave, stepVars
<1>2. \A u \in Thread : inside'[u] = "advance" <=> inside[u] = "advance"
  BY EnterInv, LeaveInv DEF Inv, Enter, Leave, TypeOK
<1> QED BY <1>1, <1>2, IdlePlaced

LEMMA StepPlaced == Inv /\ Placed /\ [Next]_vars => Placed'
<1> SUFFICES ASSUME Inv, Placed, [Next]_vars PROVE Placed'
  OBVIOUS
<1>t. "window" \in Thread /\ "run" \in Thread /\ Thread = {"run", "window"}
  BY DEF Thread
<1>1. CASE RunThread
  <2>1. CASE RunLoop \/ RunUpdate \/ RunTest
    BY <2>1, IdlePlaced DEF RunLoop, RunUpdate, RunTest, machine, stepVars
  <2>2. CASE RunEnter \/ RunLeave
    BY <1>t, <2>2, EnterPlaced DEF RunEnter, RunLeave
  <2>3. CASE RunWithin
    BY <1>t, <2>3, WithinPlaced DEF RunWithin, Placed, stepVars
  <2> QED BY <1>1, <2>1, <2>2, <2>3 DEF RunThread
<1>2. CASE WindowStep
  <2>1. CASE WindowEnter \/ WindowLeave
    BY <1>t, <2>1, EnterPlaced DEF WindowEnter, WindowLeave
  <2>2. CASE WindowWithin
    BY <1>t, <2>2, WithinPlaced DEF WindowWithin, Placed, stepVars
  <2>3. CASE WindowUpdate
    <3> SUFFICES ASSUME ~careless' PROVE Placed'
      BY DEF Placed
    <3>1. UNCHANGED <<vgaVars, written, inside>> /\ ~careless
      BY <2>3 DEF WindowUpdate
    <3> QED BY <3>1, IdlePlaced
  <2> QED BY <1>2, <2>1, <2>2, <2>3 DEF WindowStep
<1>3. CASE Slot \/ keyEvent \/ StoreKey \/ PublishKey
  <2>1. UNCHANGED <<vgaVars, written, inside, careless>>
    BY <1>3 DEF Slot, PushButton, on_startButton_clicked, on_stopButton_clicked, timerEvent,
         StopAndSleep, on_nextButton_clicked, goto, GotoEnds, keyEvent, StoreKey, PublishKey,
         machine, others, stepVars
  <2> QED BY <2>1, IdlePlaced
<1>4. CASE UNCHANGED vars
  BY <1>4, IdlePlaced DEF vars, stepVars
<1> QED BY <1>1, <1>2, <1>3, <1>4, ResetPlaced DEF Next, Window, Slot

LEMMA PlacedSettings == Placed => SettingsInPlace
<1> SUFFICES ASSUME PlacedHolds,
                    \A t \in Thread : inside[t] \in {"out", "in", "take", "no bus"}
             PROVE  /\ vga_index = written % Settings
                    /\ \A i \in 0 .. Settings - 1 : vga_control[i] = LastAt(i)
  BY DEF Placed, SettingsInPlace
<1>1. ~Pending
  BY DEF Pending
<1>2. \A i \in Place : LastAt(i) = LastOf(written, i)
  BY DEF LastAt, LastOf
<1> QED BY <1>1, <1>2 DEF PlacedHolds, Place

(***************************************************************************)
(* Between steps the display's settings are the last bytes the program     *)
(* wrote, each in its place, however often the machine was stopped, reset  *)
(* and stepped at rest, for every number of settings.                      *)
(***************************************************************************)
THEOREM WindowSettingsInPlace == Spec => []SettingsInPlace
BY InitPlaced, StepPlaced, PlacedSettings, SpecInv, PTL DEF Spec
==============================================================================
