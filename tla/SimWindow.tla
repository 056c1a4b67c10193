------------------------------ MODULE SimWindow ------------------------------
(***************************************************************************)
(* The simulator's two threads on one machine: the window's, which starts, *)
(* stops, resets and steps the processor and types into the keyboard queue *)
(* (mainwindow.cpp, miksys_display.cpp), and the run thread, which steps   *)
(* it in batches.  A statement that touches shared memory is a step, in    *)
(* program order (the build is for x86).  Of a command only its use of the *)
(* bus is kept: IN from the keyboard, OUT to the display's settings, or    *)
(* neither.  Nothing in the code keeps the user from stepping a machine    *)
(* that runs, a reset from coming while the run thread is still in the     *)
(* middle of a step, or the keyboard from filling its ring; each may       *)
(* happen here, and the histories careless and overrun remember that it    *)
(* did.                                                                    *)
(***************************************************************************)
EXTENDS Integers, Sequences

CONSTANTS QueueSize,     \* entries of keyboard_buf (4)
          Settings,      \* bytes of vga_control (6)
          Batch,         \* steps of a batch (100)
          Keys,          \* scan codes of the keys, each one or two bytes
          Break,         \* 0xf0, sent before the code of a released key
          MaxTyped,      \* bound: bytes typed since a reset
          MaxWritten     \* bound: settings written since a reset, before one more is begun

ASSUME SimWindowAssumption ==
  /\ QueueSize \in Nat /\ QueueSize > 1 /\ Settings \in Nat \ {0} /\ Batch \in Nat \ {0}
  /\ MaxTyped \in Nat /\ MaxWritten \in Nat
  /\ Keys \subseteq Seq(0 .. 255) /\ Break \in 0 .. 255

VARIABLES
  running, timer,              \* MainWindow::running, timerId # -1
  softButton, buttonState, flagButton,
                               \* the button, MIKSYS's copy, the processor's flag
  run, count,                  \* run thread: where it is, steps left of the batch
  window,                      \* the window's thread: "idle" or what it is doing
  inside, held,                \* of each thread: its place in handleNext, its local v
  keyboard_buf, queue_begin, queue_end,
  typing,                      \* bytes of the key event still to be queued
  vga_control, vga_index,
  written,                     \* settings the program has written since a reset
  queued, typed,               \* bytes sent and not yet taken; how many since a reset
  rested,                      \* reset, and neither started nor stepped since
  repeating,                   \* the step of the window is one of a goto
  careless,                    \* since the last reset of a machine at rest the window
                               \* stepped or reset one the run thread had in hand
  overrun                      \* since the last reset a byte filled the ring

runVars == <<running, timer, run, count>>
buttonVars == <<softButton, buttonState, flagButton>>
keyVars == <<keyboard_buf, queue_begin, queue_end, typing, queued, typed>>
vgaVars == <<vga_control, vga_index>>
stepVars == <<rested, repeating, careless>>
vars == <<runVars, buttonVars, window, inside, held, keyVars, vgaVars, written, stepVars,
          overrun>>

Thread == {"run", "window"}

\* The bytes sent are remembered until a careless step: nothing is said of them after it.
History(h) == IF careless THEN <<>> ELSE h
NextIn(i) == (i + 1) % QueueSize

Init ==
  /\ running = FALSE /\ timer = FALSE
  /\ softButton = FALSE /\ buttonState = FALSE /\ flagButton = FALSE
  /\ run = "loop" /\ count = 0
  /\ window = "idle" /\ inside = [t \in Thread |-> "out"] /\ held = [t \in Thread |-> 0]
  /\ keyboard_buf = [i \in 0 .. QueueSize - 1 |-> 0]
  /\ queue_begin = 0 /\ queue_end = 0 /\ typing = <<>>
  /\ queued = <<>> /\ typed = 0
  /\ vga_control = [i \in 0 .. Settings - 1 |-> 0] /\ vga_index = 0
  /\ written = 0
  /\ rested = TRUE /\ repeating = FALSE /\ careless = FALSE /\ overrun = FALSE

-----------------------------------------------------------------------------
(* handleNext, by either thread. *)
Enter(t) ==
  /\ inside[t] = "out"
  /\ \/ inside' = [inside EXCEPT ![t] = "in"]
     \/ written < MaxWritten /\ inside' = [inside EXCEPT ![t] = "out of byte"]
     \/ inside' = [inside EXCEPT ![t] = "no bus"]
  /\ UNCHANGED <<held, keyVars, vgaVars, written>>

\* Mutant: a byte is taken whether there is one or not.
ReadByteUnchecked(t) ==
  /\ inside[t] = "in"
  /\ held' = [held EXCEPT ![t] = keyboard_buf[queue_end]]
  /\ inside' = [inside EXCEPT ![t] = "take"]
  /\ UNCHANGED <<keyVars, vgaVars, written>>

\* peripheral_read, case 4.
ReadByte(t) ==
  /\ inside[t] = "in"
  /\ IF queue_begin # queue_end
       THEN /\ held' = [held EXCEPT ![t] = keyboard_buf[queue_end]]
            /\ inside' = [inside EXCEPT ![t] = "take"]
       ELSE /\ inside' = [inside EXCEPT ![t] = "no bus"]
            /\ UNCHANGED held
  /\ UNCHANGED <<keyVars, vgaVars, written>>
TakeByte(t) ==
  /\ inside[t] = "take"
  /\ queue_end' = NextIn(queue_end)
  /\ queued' = History(IF queued = <<>> THEN <<>> ELSE Tail(queued))
  /\ inside' = [inside EXCEPT ![t] = "no bus"] /\ held' = [held EXCEPT ![t] = 0]
  /\ UNCHANGED <<keyboard_buf, queue_begin, typing, typed, vgaVars, written>>

\* peripheral_write, case 2.  The program numbers the bytes it writes, up to a careless step.
WriteSetting(t) ==
  /\ inside[t] = "out of byte"
  /\ vga_control' = [vga_control EXCEPT ![vga_index] =
                                          IF careless THEN 0 ELSE written + 1]
  /\ inside' = [inside EXCEPT ![t] = "advance"]
  /\ UNCHANGED <<held, keyVars, vga_index, written>>
AdvanceSetting(t) ==
  /\ inside[t] = "advance"
  /\ vga_index' = (vga_index + 1) % Settings
  /\ written' = IF careless THEN 0 ELSE written + 1
  /\ inside' = [inside EXCEPT ![t] = "no bus"]
  /\ UNCHANGED <<held, keyVars, vga_control>>

Within(t) == ReadByte(t) \/ TakeByte(t) \/ WriteSetting(t) \/ AdvanceSetting(t)

Leave(t) == /\ inside[t] = "no bus"
            /\ inside' = [inside EXCEPT ![t] = "out"]
            /\ UNCHANGED <<held, keyVars, vgaVars, written>>

-----------------------------------------------------------------------------
(* RunThread::run. *)
machine == <<inside, held, keyVars, vgaVars, written, overrun>>

RunLoop ==
  /\ run = "loop" /\ running
  /\ run' = "update"
  /\ UNCHANGED <<running, timer, count, buttonVars, window, machine, stepVars>>
RunUpdate ==
  /\ run = "update"
  /\ flagButton' = buttonState
  /\ run' = "test" /\ count' = Batch
  /\ UNCHANGED <<running, timer, softButton, buttonState, window, machine, stepVars>>
\* Mutant: a batch once begun is not cut short.
RunTestUnchecked ==
  /\ run = "test"
  /\ IF count = 0 THEN run' = "loop" /\ UNCHANGED count
     ELSE /\ run' = "step"
          /\ count' = count - 1
  /\ UNCHANGED <<running, timer, buttonVars, window, machine, stepVars>>

\* Mutant: an exhausted batch does not go back to update.
RunTestStuck ==
  /\ run = "test"
  /\ count > 0
  /\ run' = IF running THEN "step" ELSE "test"
  /\ count' = count - 1
  /\ UNCHANGED <<running, timer, buttonVars, window, machine, stepVars>>

RunTest ==
  /\ run = "test"
  /\ IF count = 0 THEN run' = "loop" /\ UNCHANGED count
     ELSE /\ run' = IF running THEN "step" ELSE "test"
          /\ count' = count - 1
  /\ UNCHANGED <<running, timer, buttonVars, window, machine, stepVars>>
RunEnter ==
  /\ run = "step" /\ Enter("run")
  /\ run' = "inside"
  /\ UNCHANGED <<running, timer, count, buttonVars, window, stepVars, overrun>>
RunWithin ==
  /\ run = "inside" /\ Within("run")
  /\ UNCHANGED <<runVars, buttonVars, window, stepVars, overrun>>
RunLeave ==
  /\ run = "inside" /\ Leave("run")
  /\ run' = "test"
  /\ UNCHANGED <<running, timer, count, buttonVars, window, stepVars, overrun>>
RunThread == RunLoop \/ RunUpdate \/ RunTest \/ RunEnter \/ RunWithin \/ RunLeave

\* It will touch the machine no more unless it finds running set.
Quiet == run \in {"loop", "test"}

-----------------------------------------------------------------------------
(* The window: its slots run to completion, one after another. *)
Free == window = "idle" /\ typing = <<>>
others == <<run, count, inside, held, vgaVars, written, repeating, careless>>

PushButton == /\ Free
              /\ softButton' = ~softButton
              /\ UNCHANGED <<runVars, buttonState, flagButton, window, machine, stepVars>>

on_startButton_clicked ==
  /\ Free /\ ~timer
  /\ buttonState' = softButton
  /\ timer' = TRUE /\ running' = TRUE /\ rested' = FALSE
  /\ UNCHANGED <<softButton, flagButton, window, keyVars, overrun, others>>

on_stopButton_clicked ==
  /\ Free /\ timer
  /\ timer' = FALSE /\ running' = FALSE
  /\ UNCHANGED <<buttonVars, window, keyVars, overrun, others, rested>>

\* Mutant: the timer does not look at the button.
timerEventBlind ==
  /\ Free /\ timer
  /\ UNCHANGED vars

timerEvent ==
  /\ Free /\ timer
  /\ buttonState' = softButton
  /\ UNCHANGED <<runVars, softButton, flagButton, window, machine, stepVars>>

\* Mutant: the reset button does not stop the run thread first.
StopAndSleepRunning ==
  /\ Free
  /\ window' = "sleep"
  /\ UNCHANGED <<timer, running, buttonVars, keyVars, overrun, others, rested>>

\* on_resetButton_clicked: stop, sleep, reset.  The sleep of 10 ms waits for nothing: the
\* run thread may still be anywhere in the batch when the processor is reset.
StopAndSleep ==
  /\ Free
  /\ timer' = FALSE /\ running' = FALSE
  /\ window' = "sleep"
  /\ UNCHANGED <<buttonVars, keyVars, overrun, others, rested>>
\* Mutant: a reset leaves the index of the settings.
FastCoreResetKeepingIndex ==
  /\ window = "sleep"
  /\ window' = "idle" /\ rested' = TRUE /\ careless' = ~Quiet /\ overrun' = FALSE
  /\ written' = 0
  /\ vga_control' = [i \in 0 .. Settings - 1 |-> 0]
  /\ queue_begin' = 0 /\ queue_end' = 0 /\ queued' = <<>> /\ typed' = 0
  /\ flagButton' = FALSE
  /\ UNCHANGED <<runVars, softButton, buttonState, inside, held, keyboard_buf, typing,
                 vga_index, repeating>>

\* One step here: while the run thread is Quiet nobody can see it in parts, and of a
\* careless reset nothing is claimed before the next.
FastCoreReset ==
  /\ window = "sleep"
  /\ window' = "idle" /\ rested' = TRUE /\ careless' = ~Quiet /\ overrun' = FALSE
  /\ written' = 0
  /\ vga_control' = [i \in 0 .. Settings - 1 |-> 0] /\ vga_index' = 0
  /\ queue_begin' = 0 /\ queue_end' = 0 /\ queued' = <<>> /\ typed' = 0
  /\ flagButton' = FALSE
  /\ UNCHANGED <<runVars, softButton, buttonState, inside, held, keyboard_buf, typing,
                 repeating>>

\* nextStep; the slots that step the machine do not look at running.
on_nextButton_clicked ==
  /\ Free
  /\ buttonState' = softButton
  /\ window' = "update"
  /\ UNCHANGED <<runVars, softButton, flagButton, machine, stepVars>>

\* The goto of the command line: steps until the address is the one wanted.
goto ==
  /\ Free
  /\ window' = "update" /\ repeating' = TRUE
  /\ UNCHANGED <<runVars, buttonVars, machine, rested, careless>>
GotoEnds ==
  /\ window = "update" /\ repeating
  /\ window' = "idle" /\ repeating' = FALSE
  /\ UNCHANGED <<runVars, buttonVars, machine, rested, careless>>

\* core->update(): the first thing a step does to the processor.
WindowUpdate ==
  /\ window = "update"
  /\ flagButton' = buttonState
  /\ window' = "step" /\ rested' = FALSE
  /\ careless' = (careless \/ running \/ ~Quiet)
  /\ queued' = IF careless' THEN <<>> ELSE queued
  /\ written' = IF careless' THEN 0 ELSE written
  /\ UNCHANGED <<runVars, softButton, buttonState, inside, held, keyboard_buf, queue_begin,
                 queue_end, typing, typed, vgaVars, overrun, repeating>>
WindowEnter ==
  /\ window = "step" /\ Enter("window")
  /\ window' = "inside"
  /\ UNCHANGED <<runVars, buttonVars, stepVars, overrun>>
WindowWithin ==
  /\ window = "inside" /\ Within("window")
  /\ UNCHANGED <<runVars, buttonVars, window, stepVars, overrun>>
WindowLeave ==
  /\ window = "inside" /\ Leave("window")
  /\ window' = IF repeating THEN "update" ELSE "idle"
  /\ UNCHANGED <<runVars, buttonVars, stepVars, overrun>>
WindowStep == WindowUpdate \/ WindowEnter \/ WindowWithin \/ WindowLeave

-----------------------------------------------------------------------------
(* The display's key events; addByteToKeyboardQueue has no test for full.  *)
Codes(key, release) == IF release THEN <<Break>> \o key ELSE key

keyEvent ==
  /\ Free
  /\ \E key \in Keys, release \in BOOLEAN :
       /\ typed + Len(Codes(key, release)) <= MaxTyped
       /\ typing' = Codes(key, release)
  /\ UNCHANGED <<runVars, buttonVars, window, others, keyboard_buf, queue_begin, queue_end,
                 queued, typed, rested, overrun>>

\* One byte: stored, then published.  A byte too many makes the full ring an empty one.
StoreKey ==
  /\ window = "idle" /\ typing # <<>>
  /\ keyboard_buf' = [keyboard_buf EXCEPT ![queue_begin] = Head(typing)]
  /\ window' = "publish"
  /\ UNCHANGED <<runVars, buttonVars, others, queue_begin, queue_end, typing, queued, typed,
                 rested, overrun>>
PublishKey ==
  /\ window = "publish"
  /\ queue_begin' = NextIn(queue_begin)
  /\ queued' = History(Append(queued, Head(typing))) /\ typed' = typed + 1
  /\ overrun' = (overrun \/ NextIn(queue_begin) = queue_end)
  /\ typing' = Tail(typing)
  /\ window' = "idle"
  /\ UNCHANGED <<runVars, buttonVars, others, keyboard_buf, queue_end, rested>>

Window ==
  \/ PushButton \/ on_startButton_clicked \/ on_stopButton_clicked \/ timerEvent
  \/ StopAndSleep \/ FastCoreReset
  \/ on_nextButton_clicked \/ goto \/ GotoEnds \/ WindowStep
  \/ keyEvent \/ StoreKey \/ PublishKey

Next == RunThread \/ Window
Spec == Init /\ [][Next]_vars

\* The scheduler runs the run thread; Qt delivers the timer and finishes a slot.
FairSpec == /\ Spec
            /\ WF_vars(RunThread) /\ WF_vars(timerEvent)
            /\ WF_vars(FastCoreReset) /\ WF_vars(WindowStep)
            /\ WF_vars(StoreKey) /\ WF_vars(PublishKey)

-----------------------------------------------------------------------------
FlagsOK ==
  /\ running \in BOOLEAN /\ timer \in BOOLEAN /\ rested \in BOOLEAN
  /\ repeating \in BOOLEAN /\ careless \in BOOLEAN /\ overrun \in BOOLEAN
  /\ softButton \in BOOLEAN /\ buttonState \in BOOLEAN /\ flagButton \in BOOLEAN
TypeOK ==
  /\ FlagsOK
  /\ run \in {"loop", "update", "test", "step", "inside"} /\ count \in 0 .. Batch
  /\ window \in {"idle", "sleep", "update", "step", "inside", "publish"}
  /\ inside \in [Thread -> {"out", "in", "take", "out of byte", "advance", "no bus"}]
  /\ queue_begin \in 0 .. QueueSize - 1 /\ queue_end \in 0 .. QueueSize - 1
  /\ vga_index \in 0 .. Settings - 1 /\ written \in Nat
  /\ typed \in 0 .. MaxTyped

(***************************************************************************)
(* The program gets the bytes of the key events, all of them and in order, *)
(* with no lock between the thread that types and the one that reads: the  *)
(* queue of miksys.cpp is right for one writer and one reader, until a     *)
(* byte fills its ring.  Two readers there are if the window steps a       *)
(* machine that runs.                                                      *)
(***************************************************************************)
Waiting == [i \in 1 .. (queue_begin - queue_end) % QueueSize |->
              keyboard_buf[(queue_end + i - 1) % QueueSize]]
KeysInOrder ==
  ~careless /\ ~overrun =>
    /\ Waiting = queued
    /\ \A t \in Thread : inside[t] = "take" => queued # <<>> /\ held[t] = Head(queued)

(***************************************************************************)
(* As long as the user steps only a machine that was stopped and has come  *)
(* to rest, and resets leave the run thread time to come to rest, the two  *)
(* threads are never in handleNext together and none is there while the    *)
(* machine is at rest after a reset: stop, start and reset need no lock.   *)
(***************************************************************************)
OneStepAtATime ==
  ~careless => /\ ~(inside["run"] # "out" /\ inside["window"] # "out")
               /\ ~(inside["run"] # "out" /\ rested)

(***************************************************************************)
(* Between steps the settings of the display are the last bytes the        *)
(* program wrote, each in its place: resets, batches that are cut short    *)
(* and single steps never leave the index of vga_control off by a byte,    *)
(* and a reset of a machine at rest mends what careless ones left behind.  *)
(***************************************************************************)
LastAt(i) == LET n == written
             IN IF n <= i THEN 0 ELSE 1 + i + Settings * ((n - 1 - i) \div Settings)
SettingsInPlace ==
  (~careless /\ \A t \in Thread : inside[t] \in {"out", "in", "take", "no bus"}) =>
     /\ vga_index = written % Settings
     /\ \A i \in 0 .. Settings - 1 : vga_control[i] = LastAt(i)

(***************************************************************************)
(* A machine that was reset stays as it is until it is started or stepped, *)
(* whatever the run thread had still in hand when it was stopped, if it    *)
(* had come to rest when the reset came.                                   *)
(***************************************************************************)
ResetHolds ==
  [][rested /\ rested' /\ ~careless => UNCHANGED <<written, vgaVars, flagButton>>]_vars

(***************************************************************************)
(* A machine that runs goes on executing: the batch loop neither misses a  *)
(* start nor stays in an exhausted batch.                                  *)
(***************************************************************************)
StartRuns == running ~> (run = "inside" \/ ~running)

(***************************************************************************)
(* The button on the window reaches the program's flags, through the timer *)
(* and the next batch, unless it is released or the machine stopped first, *)
(* or a goto keeps the window from its timer.                              *)
(***************************************************************************)
InGoto == repeating /\ window \in {"update", "step", "inside"}
ButtonSeen ==
  \A b \in BOOLEAN :
    (running /\ softButton = b) ~>
       (flagButton = b \/ softButton # b \/ ~running \/ InGoto)
=============================================================================
