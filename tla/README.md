# MIKSYS in TLA+

MIKSYS is a home-made computer on an FPGA board (Marsohod 2): a pipelined
processor with four processing units, a data cache that programs address as
memory of its own, an SDRAM behind it that is reached by explicit block
transfers, a display that reads its picture from that SDRAM, and serial, PS/2
and USB ports. The hardware is SystemVerilog (`verilog/`); `miksys_soft/` holds
the tool chain - an lcc with a back end for this processor, an optimizer of its
assembly text, an assembler - and the programs, `qt_sim/` a simulator,
`doc/miksys.md` the manual (in Russian).

This directory holds TLA+ modules translated from that code, TLC configurations
that check them on small instances and proofs that TLAPS checks for every
instance.

    tlc   -workers 2 -config MemTransfer.cfg MCMemorySystem.tla
    tlapm MemoryProofs.tla

## 1. The system

### Parts and state

| part | source | state | operations |
|---|---|---|---|
| SDRAM controller | `sdram_controller.sv` | a counter that runs down through initialisation, refresh and bursts; burst and column registers; the memory pins | serve a burst for the master on `data_bus`, end it early, refresh, initialise |
| memory multiplexer | `memory_multiplexer.sv` | a one-hot ring saying whose turn it is, and whose it was | move on when the turn is not used or a burst ends |
| memory-to-cache engine | `memory_to_cache_connector.sv` | address, count, two line buffers, their write masks, a line-parity bit | READ, WRITE, one word or one line per clock |
| data cache | `cache.sv` | the two-port RAM | core read, core write, engine access on the port left over |
| command memory | `command_cache.sv` | RAM with a copy of the code region | fetch; listen to the engine's writes |
| display | `vga_controller.sv` | raster counters, block counters, line buffer, settings | fetch pixels and characters block by block |
| slow-I/O buffer | `slowIO_buffer.sv` | two rings and the bus answer | IN, OUT, take a byte from a device, give it one |
| serial port | `serial_controller.sv` | shift registers, bit counters | receive, transmit, RTS/CTS |
| PS/2 port | `ps2_controller.sv` | sums over a window, frame shift register, time-out, clock hold | receive, command byte to the device |
| USB port | `usb_controller.sv` | packet engine | transmit, receive, NRZI and stuffing |
| timer and reset | `timer.sv` | counters | time of day, reset hold |
| peripheral bus | `peripheral_multiplexer.sv`, `bus_interfaces.sv` | address, request, data, answer | IN, OUT |
| processor | `CU.sv`, `PU.sv`, `core.sv` | a six-stage pipeline, registers, flags | the instruction set |
| simulator | `qt_sim/` | registers and memories of the whole system; the key queue; the flags two threads share | step, run, reset, keyboard, display |
| C compiler | `miksys_soft/lcc/src` | trees, node lists, the code list; registers and spills | translate a function |
| optimizer | `miksys_soft/miksys_optimizer.py` | the text, what the last lines wrote | six passes over a function's text |
| software | `miksys_soft/` | - | assembler, boot loader, USB and keyboard libraries, division |

Of lcc, the code generator (`gen.c`), the rules of this machine (`miksys.md`)
and the middle of the front end (`simp.c`, `tree.c`, `expr.c`, `enode.c`,
`dag.c`, `stmt.c`) are modelled; the scanner, declarations, types, the other
back ends and the preprocessor are not. The RAM, PLL, multiplier and shifter
files are generated, and `subcore.sv`, `direct_io.sv` and
`peripheral_to_cache_connector.sv` are not instantiated.

### How they interact

* Everything in the chip but the display's raster is clocked by one clock: in
  every clock every block takes a step on the values of the clock before. There
  are no interleavings of *handlers* here; what is hard is that a value is
  decided in one clock and used in the next or the fifth after, when what it
  was decided from is no longer true.
* Two masters - the engine and the display - share the SDRAM controller. Their
  wires are or-ed, gated by the ring of the multiplexer. A master that drops its
  request loses the bus in the next clock, with a burst still in the chip.
* The engine shares the ports of the data cache with the core, which never
  waits: it has a port in a clock when the core leaves one.
* The command memory listens to the engine's bus without being addressed.
* A slow device and its buffer share no handshake wires but a parity: the low
  bit of the ring's index against a bit the device flips.
* The processor sees a transfer only through flag `m` (`is_running`).
* A PS/2 device and the controller share two open-collector lines; the device
  clocks every frame, also those of the controller, which asks for one by holding
  the clock.
* A reset reaches the SDRAM controller, the engine, the buffers, the serial and the
  PS/2 ports, but not the multiplexer, the cache, the chip, or a PS/2 device.
* The simulator has two threads and no lock: the window's (Qt events) and the
  run thread share the processor, the key queue and four flags.
* The compiler does not know that results come late; the optimizer does, and
  takes a good deal for granted of the compiler's text.

### What is hard, and what makes each part correct

The full list, each item at its line and with the properties that watch it, is
`hazards` in `PROJECT.json`. In short:

* **controller**: the command on the pins must fit the row that is open in the
  chip although the burst can be withdrawn in any state and a reset can come in
  any clock; refresh must not be put off by masters that always request;
* **path of a word**: a transfer is cut into bursts by row ends, by refreshes
  and by the display; each cut loses or doubles a word if a latency is off by
  one (CAS latency 3 on reads, data one clock after `ready` on writes, `last4`
  four words ahead); the end is read off the *old* count;
* **line buffers**: a line collects while the one before waits for a cache port;
* **slow I/O**: the answer to an OUT is computed a clock before the byte
  arrives; the ring has no test for full on its receive side;
* **processor**: five commands are in flight; forwarding must hide this exactly
  as far as the manual promises, and the manual's list of what is visible late
  must be complete;
* **simulator**: the two threads; and that it is the same machine, clock by clock;
* **compiler**: values that outlive the registers; a tree evaluated twice or
  read over a store; folding at the ends of the ranges;
* **optimizer**: commands moved over one another;
* **PS/2**: the controller acts at the end of a window of 1024 clocks, up to a
  window and a half after the device's edge; either side may start a frame while
  the other does, and both can break one off;
* **USB, display raster**: see the plan.

## 2. Modules

In the hardware modules one step is one rising edge of the system clock. A
register is a variable under its own name; a wire is an operator of the
registers; a non-blocking assignment is a primed conjunct, and a module's
`always` block is one action (or a disjunction of its branches). In the
simulator's windows a step is one statement that touches shared memory; in the
compiler and the optimizer it is one root, one item of a list, or one line.

| module | models |
|---|---|
| `Ring` | the arithmetic of a ring's indices |
| `ByteFifo` | abstract specification: a byte queue with one producer, one consumer and a reset |
| `SlowIOReadBuffer` | receive half of `slowIO_buffer.sv` with the receiving end of a device and IN |
| `SlowIOWriteBuffer` | transmit half, with OUT (`write_request`, answer, data clock) and the transmitter |
| `RingProofs`, `SlowIOReadProofs`, `SlowIOWriteProofs` | proofs about them |
| `SdramGeometry` | addresses, rows, columns |
| `SdramController` | `sdram_controller.sv`: operators for the wires, `ResetClock`, `InitClock`, `RunClock` |
| `SdramChip` | the memory chip as the controller uses it (external): open row, burst, CAS latency |
| `SdramSystem` | controller + chip + any master + the clocks since the last refresh |
| `SdramProofs` | proofs about it |
| `MemoryMultiplexer` | `memory_multiplexer.sv` |
| `DataCache` | `cache.sv` |
| `CacheConnector` | `memory_to_cache_connector.sv`: `Start`, `FetchFirstLine`, `Send`, `Receive`, `ConnectorReset` |
| `VgaFetch` | the display as a master: fetches a block, may withdraw |
| `MemorySystem` | all of these wired as in `core.sv` and `system_top.sv`, with the command memory and the promises of the operations |
| `MemoryProofs` | proofs about it: the bus; the engine |
| `Instructions` | words, commands, conditions, what ports deliver |
| `WordOperations` | the operations on bits and colours, which `Instructions` leaves open, for the instances |
| `Processor` | `CU.sv`, `PU.sv` and the cache port: a pipeline of commands |
| `InstructionSet` | the manual's machine: no pipeline, delays instead |
| `FastCore` | `qt_sim/fastcore.cpp`, stage by stage |
| `CoSimulation` | the three of them on the same commands |
| `CoSimulationInvariant` | the inductive invariants of the next module, for pipeline and simulator |
| `CoSimulationProofs` | proofs about the pipeline and the manual's machine, and about the simulator beside them |
| `Ps2Controller` | `ps2_controller.sv` with the write half of its `slowIO_buffer.sv`, which has no ring |
| `Ps2Link` | a port with a keyboard or a mouse on it (external) |
| `Ps2Proofs` | proofs about it |
| `SimWindow` | `miksys.cpp`, `mainwindow.cpp`, `miksys_display.cpp`: the two threads, the key queue, the settings of the display |
| `SimWindowProofs` | proofs about it |
| `Trees` | `simp.c` and the tree builders: constant folding and rewriting |
| `Expressions` | `expr.c`, `enode.c`, and what C says an expression means |
| `NodeLists` | `dag.c`: listing, common subexpressions, temporaries |
| `Statements` | `stmt.c`: branches, loops, the binary search of a switch |
| `FrontEnd` | a whole function, and its meaning as the reference |
| `InstructionSelection` | labelling, reduction and targets of `gen.c` with the rules of `miksys.md` |
| `RegisterAllocator` | the rest of `gen.c`: linear order, allocation, spilling, reloading |
| `AssemblyText`, `Optimizer` | `miksys_optimizer.py`, and what the processor makes of a text |
| `MC...` | instances for TLC |

Component modules define actions with their input wires as parameters;
`SdramSystem` and `MemorySystem` conjoin them, so a step of the composition is
one clock of the whole. A definition introduced by `\* Mutant:` is a variant
that a plausible mistake in the code would give: nothing uses it, and putting it
in the place of the definition below it makes the property named in
`PROJECT.json` fail.

### SDRAM controller

`state` is the nine-bit counter; the named states carry the numbers of the
source (261 is `AccessState`, ...), shifted so that a row may have `COLS`
columns instead of 256. The order of the tests in `NextState` is the order in
which the later assignment of the `always` block wins. `NextCommand` is the
RAS/CAS/WE triple by its name in the chip's data sheet. The pins are registers:
what `RunClock` writes in one clock `ChipClock` samples at the end of the next.

`ResetClock` leaves everything but `state_hi` as it is, the command pins too: a
reset in the middle of a burst leaves the burst in the chip until the
initialisation that follows precharges. So legality of commands is promised
from the end of the initialisation on, and a write burst that is cut so goes on
storing from pins that nobody drives until then - which is why `DisplayWordExact`
and `StoresOnlyDriven` speak of clocks that are `Operating`.

`age` in `SdramSystem` counts clocks since the chip saw a refresh; it is not in
the code and stops at `MaxAge`, above the bound it is compared with.

### The path of a word

`MemorySystem` starts when the controller has initialised the chip (the
power-up itself is `SdramSystem`'s). Every memory word and every cache word
starts with a value that says where it was, so a word in the wrong place is
seen whatever the place. `want_memory`, `want_cache` and `want_code` are what
the operations executed so far promise; `Promise` is the manual's description of
READ and WRITE and is independent of the engine's mechanism.

* `Launch` is a clock in which the core starts an operation. With `Polls` it
  does so only when flag `m` is clear; without, at any time.
* `Step` is any other clock. The core uses the cache as `CoreUse` allows.
  `clash` remembers the last three clocks in which it both read and wrote: the
  core reads in stage 3 and writes in stage 6 of an instruction that does not do
  both, so such clocks cannot be three apart.
* `HoldReset` is a clock in which the reset is held. Afterwards (`phase =
  "stale"`) memory and cache are what the abandoned operation left; the next
  operation is started when the memory is back, and its promise is made from
  what is there.
* The display's requests come from another clock domain and are
  nondeterministic: begin a block when none is on, withdraw at any time.

### Slow I/O

The halves share nothing but clock and reset and are two modules. A serial
sender stops for RTS (`HonoursStop`); a PS/2 device does not. `SpacedWrites`
says that a program leaves a clock after an OUT that succeeded: `ReadyMeansRoom`
and the queue need it, because the second of two OUTs in consecutive clocks is
told that it succeeded and its byte is dropped.

### PS/2

A step is one posedge for the controller and for the device. `Sample` is a clock
within a window, `WindowEnd` the clock of `counter == 0`, in which alone the
controller acts: `StartWrite`, `FallingEdge` or `Quiet`, the three branches of
the `always` block. `sum_clock[9]` is `High`: the majority of the samples. `Request`
and `Accept` are an OUT to the port, in its two clocks.

The device (`Ps2Link`) keeps each of its clock levels between `MinHalf` and
`MaxHalf` clocks, drives a bit of its own from no later than the fall to the rise,
and reads the controller's bits at the rise. Beyond that it is free: it begins frames
when it likes, with right or wrong parity, answers a request to send at once, late or
never, and may leave any frame between two pulses, with the controller holding the
clock or without. `Listening` says when a frame has the controller's whole attention:
at its first fall there has been a whole window since the reset and either the
controller is between frames, or the device answers a write within `Prompt` clocks
of the release of the clock. `whole`, `odd0` and `written` remember this, `read_odd`
and the byte of the write for the properties.

### Processor, manual, simulator

`CoSimulation` fetches a command in a clock and gives it to the pipeline and to
`FastCore`; the manual's machine takes the command that has come to stage 5, so
that its effects are compared in the clock in which they are due. A program
keeps the manual's rules that can be read off its text (`Spaced`); where it
breaks a rule that depends on values (`Defined`) the manual says nothing,
and the run ends. A delay the manual gives is a number of commands;
`isa.cells1`, `isa.seen` and the like keep what was before.

`Instructions` leaves open what AND, OR, XOR and the colour commands make of two
words: the pipeline only passes the result on, and the proofs ask no more of
them than that it is a word. `WordOperations` gives them to the instances.
`WellFormed` says what a command is: a combination of fields the assembler can
write, without the formats of section 5 in which decoder and manual part.

`FastCore` is a record and a stage a function of such records, in the order in
which the member function of the source calls them: the last stage first.

### The simulator's window

Threads are interleaved statement by statement in program order (the build is
for x86). Of the processor only what a step does to the bus is kept: an IN
from the keyboard, an OUT to the display's settings, or neither.

The code keeps nobody from three things, and neither does the model. Next and
the goto of the command line step the processor whether or not it runs; a reset
comes 10 ms after the stop (`StopAndSleep`, `FastCoreReset`), which waits for
nothing, so the run thread may still be inside a step; and keys are typed into
a full ring. Two histories remember it: `careless` from such a step or reset to
the next reset that finds the run thread out of the machine (`Quiet`), `overrun`
from the byte that fills the ring to the next reset. While `careless` the
program's bytes are not numbered and the bytes sent not recorded, since nothing
is said of them. `rested` holds from a reset to the next start or step.
`repeating` tells the steps of a goto, which loops in the window's thread until
the address is the wanted one, from that of Next.

### Compiler and optimizer

A tree is a value and carries `tag` where the program compares pointers. In
`FrontEnd` one step translates a statement's part; `CodeMeansProgram` runs the
code list and the function side by side. `InstructionSelection` abstracts what
trees compute: an operator is kept for every way the rules treat one.
A read of a temporary whose value is a constant names the constant again where a
rule takes it for nothing (`Reuses`), and a temporary that fewer than two
instructions name is dropped (`IsInstruction`), as in `reuse` and `prune`.
`RegisterAllocator` records with every instruction which value it expects in
which register, and `UsesFindTheirValues` replays the list. `Optimizer` takes
the text as parsed, and `OptimizedMeansSource` executes it on `InstructionSet`
with the manual's delays against the compiler's text without them.

## 3. What is checked

| run | shows | distinct states |
|---|---|---|
| `SlowIORead` | the receive half implements `ByteFifo` for a sender that stops, through resets | 9 198 |
| `SlowIOWrite` | the transmit half implements `ByteFifo`; an answer "ready" is never stale; every byte in the ring leaves it | 1 136 |
| `Sdram` | any masters, resets at any clock: only legal commands; refresh within `RefreshBound` | 1 744 279 |
| `MemTransfer` | one READ or WRITE that begins and ends at every kind of place, the core in the cache and the display fetching and withdrawing at any clock: cache, memory, command memory and display get exactly their words, and the chip never stores undriven pins | 1 555 361 |
| `MemEnds` | with a reset at any clock of it and whatever the display fetches, a transfer ends; at most one word of one that was cut short still moves | 793 091 |
| `CoSimulation` | every program of three commands of a family, at any spacing in five clocks: the pipeline executes the manual's commands with the manual's results, and the simulator agrees clock by clock outside six known differences | 204 541 |
| `SimWindow` | the two threads of the simulator, the user stepping and resetting a machine that runs and typing more than fits: until that happens keys in order, one step at a time, a reset takes hold, settings stay in place; always a running machine goes on, and sees the button unless a goto holds the window | 634 922 |
| `Registers` | each use of a value finds it, and a register is free exactly when nothing in it is still to be read | 117 495 |
| `FrontEnd` | fifteen thousand functions are translated to code that means the same from every store | 45 315 |
| `Optimizer` | the optimized text, on the processor where results come late, does what the compiler's text does where nothing is late | 206 567 |
| `Ps2Link` | a PS/2 port with a device that may be late or stop anywhere, resets at any clock: bytes come in and go out whole, a quiet line restores the controller, and a byte that was accepted is begun to be sent, unless the device breaks off frames for ever | 1 205 072 |

One run shows where the code and what is said of it part:

| run | what happens |
|---|---|
| `MemCollision` | a single clock in which the core both reads and writes the cache makes the engine drop a line of a READ: it was counted as stored in the clock before |

The same collision damages a WRITE (`memory_to_cache_connector.sv:75`): set
`Operations` in `MemCollision.cfg` to the writes of `FewOps` to see it. A READ
of 0 cells moves one (line 72), and `last4` of a new operation comes from the
count of the old one (line 52), which only ends a burst early.

### Bounds, and why they are enough

* A row has 8 columns and memory two rows in the memory runs. A burst is then
  cut at the row end in the middle of a line and of a block, and a block of nine
  words is cut twice; a row is longer than the four words of `last4` plus the
  three of the chip's pipeline, which is what the distances in the code are
  about. `RefreshDone = 16` leaves the eight states of a refresh and the eight
  before them; `RefreshPeriod = 20` makes a refresh fall into every transfer, at
  every point of it since the display shifts it.
* The cache has four lines: a block of nine words covers four lines from a lane
  other than 0, and the last line wraps into the first, as addresses of 16 bits
  do. Cells and addresses in `AllOps` begin in lanes 0, 2 and 3 (those of `FewOps`,
  in `MemEnds`, in lane 1) and end
  before, at and beyond a row end and the end of memory; counts 1, 2, 5, 9 are
  the ends read off `count \div 2`, one more than `last4`'s four, and more than
  a row.
* `CountMod = 16` stands for 2^16: counts in the runs stay below it, the
  wrap is what a count of 0 would do.
* `Sdram` has rows of three columns (first, middle, last), two rows, and a
  refresh period as short as a burst, so that refreshes and bursts meet in every
  phase; `MaxAge = 36` lies above `RefreshBound = 31`. The proofs remove these
  bounds for what they cover.
* Rings have four entries and bytes two or three values: an index wraps, both
  parities occur at both ends, and a repeated or reordered byte is seen.
* `MaxOperations` is 1, and operations in sequence are left to the proofs: they hold
  for every sequence of them. `MemEnds` starts one operation and resets in any clock
  of it.
* `CoSimulation`: two processing units of eight-bit words, five own registers
  and one shared, a cache of four words, memory of eight. Three commands
  (`Length`) in five clocks (`Window`), so that any two are next to each other,
  one or two apart; `Drain = 8` clocks let the last have all its effects.
  `Start = 60` lies four commands before the end of a memory of 64 (`IpRange`),
  so that the addresses of commands wrap. Nine families of eight to ten
  commands each put together what can interfere: flags, cache, shared registers,
  products, jumps, ports, transfers.
* The display's block in `MemTransfer` is six words from the third column of the
  second row to its end, as the second half of a line, from column 128, is in the
  source: the end of the block and of the row come together. In `MemEnds` it begins with the row, as the
  first half does, and ends within it.
* `SimWindow`: a ring of three (the source's has four) and `MaxTyped = 3`, so that
  the ring wraps and, if nothing is taken, fills; two settings, a batch of two
  steps, one key of two bytes; `MaxWritten = 3` so that the index of the settings
  wraps. The proofs remove these bounds for the safety properties.
* `Registers`: seven registers for temporaries, of eight (R0-R7 and the frame), and forests with up to
  eight values at once, some of them constants that are read again, some the counts
  of shifts; `Slots = 9` frame cells.
* `FrontEnd`: words of three bits, so that all pairs of constants meet at the
  ends of both ranges; functions whose loops turn at most `Turns = 5` times.
* `Optimizer`: texts of three statements of the shapes the compiler writes, on
  one unit with eight-bit words and a cache of eight.

* `Ps2Link`: windows of two clocks; one data
  bit, which makes a frame of start bit, bit, parity and stop bit; a time-out of five
  windows and a hold of three. The device's levels last three clocks, a window and a
  half, so that it meets the windows in every phase; its pauses are free, and counted up to
  `Cap`, which lies above the time-out. The proofs cover
  every size that satisfies `LinkAssumption`, and the real ones do: at 108 MHz, with
  windows of 1024 clocks, levels of 30 to 50 microseconds are 3240 to 5400 clocks.

`CHECK_DEADLOCK FALSE` stands in `CoSimulation` (the program ends),
`Registers`, `FrontEnd` and `Optimizer` (the translation ends). The hardware's
and the window's runs check for deadlock.

### Fairness

`MemorySystem!FairSpec` is weak fairness of `Step`: the system clock runs, and
the reset is not held for ever. `SlowIOWriteBuffer!FairSpec` is that of its two
clocks: the clock runs, and a transmitter, which needs a bounded number of
clocks for a character while CTS# is low, does not put off the next for ever.
Nothing is assumed of the display or of the core.

In `MemEnds` the display only fetches. A display that withdrew and began again
for ever could take the bus each time; the real one withdraws once a frame.

`Ps2Link!FairSpec` is weak fairness of `Tick`: the clock runs, and the reset is not
held for ever. Nothing is assumed of the device; `WriteBegins` excepts one that breaks
off frame after frame, because it can starve a write: if it begins the next frame in
the very window in which the controller gives up the last, the controller never finds
itself between frames with the clock high.

`SimWindow!FairSpec` is weak fairness of the run thread (the scheduler runs it),
of the timer's event (Qt delivers it) and of the steps that finish a slot of the
window that has begun. Nothing is assumed of the user, nor that a goto ends: it
loops in the window's thread, and no timer event is delivered meanwhile, which
`ButtonSeen` excepts (`InGoto`).

## 4. What is proved

Every theorem is about all values of the constants that satisfy the named
assumptions of its modules, which TLC evaluates in the runs, and rests on
nothing else. Each follows the same pattern: an invariant that is inductive,
one lemma for each of its parts and each action, and a last step that combines
them.

### Rings of the slow-I/O buffer

`RingProofs` says once what happens to the contents of a ring when a byte is put
in, taken out or overwritten at the index; both halves use it, for any even size.

* `WriteBufferTypeCorrect`, `ReadBufferTypeCorrect`: the indices stay in the ring.
* `WriteReadyMeansRoom`: with spaced writes, `Spec => []ReadyMeansRoom`. While
  an answer is outstanding no second answer is computed, so nothing enters the
  ring; taking a byte out does not fill it because `Succ` is injective.
* `WriteBufferIsQueue` (however OUTs are spaced) and `ReadBufferIsQueue` (a sender
  that stops): `Spec => FifoSpec`, each half implements `ByteFifo`. Every step maps
  to a step of the queue or to none. What the indices and the bytes between them
  say is not enough: the invariant also says where the byte in hand is between
  the two clocks of a handshake (told by the parity of the index against the
  device's bit), and, for the receiving half, that a sender that has been told
  to stop finds room for the byte it had begun.

### SDRAM controller

`SdramProofs` (any geometry, refresh period and initialisation length that
satisfy `GeometryAssumption`, `SdramAssumption`, `AgeAssumption`):

* `SdramTypeCorrect`: `Spec => []TypeOK`.
* `SdramCommandsLegal`: `Spec => []CommandLegal`. `CommandLegal` alone is not
  inductive: that the command is legal depends on the row, whose state depends
  on the counter. `RowInv` says it: taking the pins into account, a row is open
  exactly in the states 3 .. `OpenState`, the states between bursts and refresh
  are not reached, and in `TopState`, the first of the last power-up round, no
  burst is on and the pins show NOP - without which a withdrawn request could
  put TERMINATE in the place of the PRECHARGE that closes the row a reset left
  open. Each branch of `NextState` and `NextCommand` keeps it.
* `SdramRefreshInTime`: `Spec => []RefreshInTime`, a bound of `RefreshPeriod +
  COLS + 17` clocks: 2273 in the chip, 21 microseconds at 108 MHz. The
  invariant is `AgeInv`. While `refresh_counter` runs, it and the age of the
  last refresh add up to at most the period. Once it is 0 no burst is opened,
  and `Deadline` says for every state how far the age can have come: down the
  burst to state 1, to `RefreshState`, where the command is given unless the
  master withdraws in that very clock; the withdrawal clears `burst`, and the
  second attempt, nine clocks later, cannot be lost. During the initialisation
  no burst is on, so its refreshes always happen.

They cover the controller with any masters, so they also hold of it in
`MemorySystem`, whose masters are two particular ones: `MemoryProofs` takes
`RowInv` and the lemmas about it from there.

### The path of a word

`MemoryProofs` (any geometry, refresh period, block of the display, operations,
use of the cache by the core, and resets at any clock):

* `MemoryTypeCorrect`: `Spec => []TypeOK`, with `OneMaster`: never two masters.
* `MemoryDisplayWordExact`: `Spec => []DisplayWordExact`. The word that is on
  the bus when the display is told "ready" is the one at the address it fetches.
* `MemoryStoresOnlyDriven`: `Polls` implies `Spec => []StoresOnlyDriven`.
  Without it the property is false: an operation started one clock after the
  ACTIVE of the one it stops leaves the WRITE command on the pins and nobody
  driving the data.
* `MemoryOneLeftoverWord`: `Spec => OneLeftoverWord`.

The invariant is `Inv`, and its parts are

* `RowKnown`: while a row is open it is the row on the pins, and it is that of
  the address for which the burst was begun;
* `Commands`: what the command on the pins and the chip's mode can be in each
  state of the counter (a READ only in `OpenState`, nothing but NOP while the
  chip waits for its first word, ...);
* `Granting`: whose turn it is follows from whose burst is on - a master that
  is told "ready" is the one for which the row was opened, and its request has
  not been away in the meantime;
* `Driving`: in a write burst the output mode of the pins and the engine's word
  are where the chip will look for them;
* `Flowing`: in a read burst the columns in flight. Between the address on the
  pins and the word on the bus lie three clocks; `FlowColumns` says which
  column the chip reads, `FlowWords` which words are in its pipeline, each by
  its distance from `Target`, the address the master counts. `ReadyWord` is the
  conclusion: whoever is told "ready" finds the word at its own address.

### A transfer

`MemoryProofs`, second part (any geometry, cache, refresh period, block of the display,
first contents and sequence of operations, and resets at any clock):

* `MemoryTransferExact`: `Program` implies `Spec => []TransferExact`. When flag m
  clears, cache and memory are what they were with the block copied, and nothing
  else has changed.
* `MemoryCodeMirrors`: `Program` implies `Spec => []CodeMirrorsMemory`.

The properties speak only of the clock in which a transfer has ended. The
invariant `TransferInv` says what holds in every clock before. On the bus:

* `StoreFlow`: in a write burst the engine's address is that of the column at
  the pins, and the chip is one column behind; `LastOwner` and `WriterStates` say
  who drives the pins and when a writer can be told "ready". Their conclusion is
  `Handed`: a word for which the engine is told "ready" is in `Landed` - the
  memory with the word that is on the pins in its place - at the address the
  engine counts.

In the engine:

* `Counting`: how many words are left, and what the delays of the first line and
  the enables of the line buffers exclude.
* `Planned`: the words that are left lie where the operation promises: the `i`-th
  cell from `Here` and the `i`-th address from `mem_addr` belong together. `Here`
  is read off `cache_line`, the parity bit and the word index.
* `Buffers`, `Fetched`: the line buffers hold the lines `Planned` speaks of: the
  one being sent and the one to be sent next, the one being collected and the
  one on its way into the cache. `Fetched` also says when a line read from the
  cache has arrived; `Warm` - the burst is the engine's - is what gives the
  cache the clocks it needs for that.
* `MemoryDone`, `CodeDone`, `CacheDone`: every address, command and cell that is
  not still to be sent or received has its promised word.

`Program` is what the program must keep to. The constants of
`MemTransfer` and `MemEnds` satisfy it. Each part is needed:

* it waits for flag m before it starts an operation (`Polls`): another start would
  overwrite the registers of the one under way;
* no clock in which the core both reads and writes the cache: `MemCollision`
  shows what that does;
* at least one word: a count of 0 moves one (`memory_to_cache_connector.sv:72`);
* a block no longer than the cache or the memory: a longer one overwrites its own
  beginning;
* the core does not store into the cells of the block. It may store anywhere
  else and read anywhere at any clock; a store into the block before or after
  its line is moved is a race with the bus.

### The simulator's window

`SimWindowProofs` (any queue, batch, keys, and settings):

* `WindowTypeCorrect`: `Spec => []TypeOK`.
* `WindowOneStepAtATime`: while `~careless` the two threads are never in
  `handleNext` together, and the run thread is not in a machine that rests after a
  reset. The condition is the user's part and a matter of time: the code does let
  both threads in when Next is clicked on a machine that runs. What is proved is
  that it is the only way: start, stop, a batch that is cut short, key events and
  resets of a machine at rest need no lock. `Control` says how the places of
  the two threads go with the flags, `Careful` that a careful window uses the
  processor only while the run thread's test of `running` would fail.
* `WindowResetHolds`: what a reset of a machine at rest wrote is there until the
  machine is started or stepped, though the batch may still have steps to go.
* `WindowKeysInOrder`: while neither `careless` nor `overrun`, what is between the
  indices of the ring is what was typed
  and not yet taken, in order, though writer and reader share no lock. `Queue`
  is stronger than the property: it also describes the byte stored behind the
  end that has not been published, and the byte taken whose index has not moved.
* `WindowSettingsInPlace`: while `~careless` the index of the display's settings
  is where the program's OUTs since the last reset have brought it. A reset of a
  machine at rest restores this whatever a late step left behind.

### A PS/2 port

`Ps2Proofs` (any window, number of data bits, time-out and hold, and any device whose
levels keep `LinkAssumption`; resets at any clock):

* `Ps2TypeCorrect`: `Spec => []TypeOK`.
* `Ps2FrameTaken`: `Spec => []FrameTaken`. A frame that the device sends while the
  controller listens comes in at its stop bit, once, and exactly if its parity is
  odd; and the controller holds the clock in such a frame only before its second fall,
  where the device still has the whole byte. The device leaves the frame if the controller begins a write in its first bit.
* `Ps2DeviceReadsByte`: `Spec => DeviceReadsByte`, an action property: at each rise
  of its clock the device finds the bit that is due. `Due` says which from the byte
  alone, not from what the controller loads into its shift register.
* `Ps2WriteEndsWithFrame`, `Ps2QuietLineRestores`: these invariants likewise.
* `Ps2ReadyMeansTaken`: `SpacedWrites` implies `Spec => []ReadyMeansTaken`. The
  hypothesis is needed: the second of two OUTs in consecutive clocks is told "ready"
  by the registers as they were before the first, and overwrites its byte.

None of the frame properties is inductive: what the controller knows of a line it
knows through windows. The invariant `FrameInv` (lemma `FrameInvariant`) has three
layers:

* `LineInv`, `LevelData`: the sums of a window follow from the level of the line and
  its age (`steady`), and `avg_clock` is the level as soon as the level is older
  than the samples of this window and half a window (`LevelSeen`); a write holds the
  clock for the windows that `clock_out` still counts (`HoldPhases`).
* `QuietInv`, `Answer`: `Elapsed` is the time-out in clocks, its windows and the
  samples of this one. While a frame is on, a line that is high has not been so much
  longer than `Elapsed`, which gives `QuietLineRestores`; and a request to send that
  is not older than `Prompt` has not timed out.
* `WriteData`, `SendInv`, `TakeInv`: `Seen`, the falls the controller has acted on,
  tells where state, parity, data and `read_odd` are in the frame, and `Elapsed`
  stays below the clocks since the last pulse, which keeps it below the time-out.

The step of the third layer rests on `SeenKept` and `SeenAtEdge`: a level lasts
longer than a window and a half, so between two changes of the line the controller
acts on the first exactly once. `LinkAssumption` is this and what the time-out needs:
it is longer than two levels and half a window, and than a hold and an answer in
time.

What the assumption means in the machine: `Prompt` is at most 23038 clocks, 213
microseconds. A write is given up 32 windows, 303 microseconds, after its last edge,
and the hold takes nine of them. A device that answers a request to send later than
that finds the request withdrawn, and the byte, which the port has reported taken, is
lost: the manual only says that a program has to wait for the device's answer
(`doc/miksys.md:586-588`). Nor does the controller look at start and stop bits: the
rest of a frame that a reset or a time-out has cut may come in as a character.

### The pipeline

`CoSimulationProofs` (words of any width, any number of units, registers, cache and
memory sizes, any well-formed commands in any number and at any spacing the
manual allows, any first contents):

* `FetchIsManual`: `Spec => []FetchFollowsManual`;
* `ProcessorIsManual`: `Spec => []ProcessorFollowsManual`;
* `StoresAreManual`: `Spec => []StoresFollowManual`;
* `PortsAreManual`: `Spec => []PortsFollowManual`;
* `RequestIsManual`: `Spec => []RequestFollowsManual`.

None of the five is inductive: what a command leaves in a register depends on
operands that were read, forwarded and multiplied in the clocks before, and the
manual's machine computes it at once. All five follow from `PipelineInvariant`,
`Spec => []Inv`. `Inv` says for every latch which part of the manual's state it
holds, and TLC checked it before it was proved:

* `FirstFollows`, `SecondFollows`, `CarryFollows`: the operands in stage 5 are
  those the manual gives the command that is there: the register as it is, the
  register as it was one command ago, the cell as it was three ago, the special
  register, the byte of the port, the constant. A unit that reads a shared
  register too soon is excepted, as in the manual (`Readable`);
* `AddressesFollow`, `CellsFollow`: the addresses in stages 3, 4 and 5 are
  computed from the register at three ages, and the cache, its output and the
  store under way are the manual's cells at three ages;
* `RegistersFollow`, `AgesTell`: the registers with the write of stage 6, and
  how far a shared register has come;
* `ResultsFollow`, `ResultsInTurn`: what the multiplier holds now, after this
  clock and after the next is what the manual shows the next commands; the
  second says that a WMUL, which takes the multiplier twice, is alone in it;
* `PortsFollow`, `ControlFollows`: the request and the address on the
  peripheral bus belong to the commands in stages 2 to 4; the addresses
  of the commands in the stages are successive, up to a jump in stage 5, with
  the target where the manual's countdown will find it;
* `StagesApart`: what `Spaced` leaves true of commands that are in the pipeline
  together.

What it assumes of the constants, each because the code has it so: the cache
divides the range of an address (`WordRange % CacheSize = 0`: the index is the
low bits of it) and is whole lines; an address of a command fits in the pair of
words of MEM_ADDR; `SharedDelay >= 3` and `PortDelay` from 3 to 5, the delays
that the runs found; and `PowersAssumption`, three facts of arithmetic about
powers of two for which the provers have no rule.

With a delay of two in the place of either, TLC finds executions in which the
pipeline does otherwise.

### The simulator

`CoSimulationProofs`, second part (the same programs, sizes and first contents):

* `CoSimulationTypes`: `Spec => []TypeOK`, of the pipeline and of the object
  `FastCore`;
* `TransferIsExact`: `Spec => []TransferCopiesBlock`. When the simulator's counter
  of words is 0 again, the block has been copied and nothing else has changed. A
  block may be longer than the memory or the cache and then meets its own
  beginning: the property says which word is the last to come to a place.
* `SimulatorIsManual`: `Spec => []SimulatorFollowsManual`. Registers, flags, results,
  MEM_ADDR, cache, ports and the counters of a transfer are what the manual says
  after every command, until the program uses one of the six things listed in
  section 5 (`Differs`);
* `SimulatorInTime`: `Spec => []SimulatorKeepsTime`. Until then it also executes
  and fetches the same command as the processor at the same clock.

`handleNext` changes an object of 45 fields in a dozen steps. The proof first
describes every step by the fields it changes (`ReadMemAddrIs`, `JumpIs`, ...,
`HandleNextIs`), so that nothing after it unfolds the function. The invariant
`SimBase` then says:

* `CoreTypes`: the fields keep their types - where the code computes in `int`, that
  the cut to a word comes before the store;
* `SimStages`: at every clock of the program the four stages hold the commands the
  processor's hold, and its countdown `drop_mode` stands where the DJ behind
  which `CU.sv` drops lines is. This half of `SimulatorKeepsTime` holds whatever the
  values are, beyond what differs too;
* `SimDrains`: no command is behind a transfer, which is why the simulator's
  transfer may go on alone;
* `SimTransfers`: the counters are as far on as the words that have been
  copied, and the memories are the old ones with so many words copied
  (`Copying`). `CopyingNext` is its step: one word more in the remainder class
  of its place, with the arithmetic of two moduli.

The last two theorems need more than the registers: what is on its way through
the stages must be right as well. `SimFollows`, the second invariant, says of each
field of the object which part of the manual's machine it holds:

* `SimRegisters`: a register with the write still waiting in stage 6 is the
  manual's; a shared register of the other units is so from an age of three commands:
  the write itself puts each unit's own word there, and the copies of the main unit's
  come with the next command;
* `SimFirstFollows`, `SimSecondFollows`, `SimCarryFollows`: the operands fetched
  for stage 5, for each kind of operand, with FLAGS as the last command left them
  and a register right behind a CMOV excepted: there the simulator differs;
* `SimAddresses`, `SimLoads`: the address registers and the words loaded one and two
  commands ago, which are the manual's cells of that age;
* `SimResults`: the four results the manual shows at the four distances from a
  multiplication are in the three stages of the multiplier and the shifter;
* `SimState`, `SimPorts`, `SimRequest`: flags, MEM_ADDR, cache, address, ports and the
  counters of a transfer that was just asked for.

It holds as long as `~beyond.differs` (`SimFollowing`), and its step needs the
pipeline's invariant: the operands a command takes in the simulator are
compared with the manual's by the lemmas which say so of the processor's. A
clock that ends with `~beyond.differs` gives `Agreed`, from which one lemma per
part (`SimRegistersStep` ... `SimResultsStep`) takes that part through
`handleNext`. `Differs` lists six exceptions; the proof is that a program of
well-formed commands that keeps the manual's rules meets no seventh.

## 5. What is only model-checked, and what is not modelled

Every safety property that a run checks outside the compiler and the optimizer is also
proved. The type invariants of `SlowIOReadBuffer`, `SlowIOWriteBuffer`, `SdramSystem`,
`SimWindow` and `Ps2Link`, and `ReadyMeansTaken` of `Ps2Link`, are proved and in no run;
`CoSimulationInvariant` holds the invariants of the proofs, which are no promises of the
code. Out of the prover's reach:

* Liveness (`RingDrains`, `TransferEnds`, `StartRuns`, `ButtonSeen`, `WriteBegins`)
  stays with TLC: TLAPS does not reason about fairness here.
* The compiler: its translations are recursive over trees and lists of any
  length, which is induction over data.
* The optimizer and `CodeMeansProgram` compare executions, recursive as well.
* `UsesFindTheirValues` and `FreeMeansDead` are invariants of `RegisterAllocator`,
  whose labelling and reduction are recursive operators.

Where the simulator does otherwise than the manual and the processor
(`CoSimulation!Differs`):

1. it keeps the carry of the last sum over a NOP or a command whose condition
   fails;
2. the last operand of a command right behind a CMOV to it is the new value;
3. a load of a cell that was changed three commands before finds another value;
4. FLAGS read right after they were changed;
5. RGBADD wraps where the processor saturates;
6. the return address of a call at the very end of memory does not wrap
   (`fastcore.cpp:165-166`), as the processor's does.

Formats in which the decoder and the manual part, found where a proof failed on
them; `WellFormed` and `Defined` leave them out:

* a command of the arithmetic group that is not MOV and has a special register
  for its destination, as in the manual's `ADD MEM_RESULT_LO, r4, r6`, writes
  its *last operand* there: `PU.sv` takes the word for a special register from
  `st5_mov_res`, not from `st5_res`. The simulator writes the sum;
* ALL in a command outside the arithmetic group is ignored: the other units get
  the first unit's word;
* a condition on a command for a port, and an OUT that stores its operand: the
  assembler writes neither (`miksys_asm.py:467-470`);
* a shift by a distance of the width of a word or more takes it modulo the width
  (`PU.sv:150`), of which the manual says nothing;
* V after a MOVS from the cache or of a special register, of which it says
  nothing either, depends on an operand that the command does not have.

What the manual says the runs need: three commands from a write of a shared
register to its use by the other units, where the manual's text gives two, and
three from one port to another.

Met while modelling the compiler and left out of the passing runs by their
choice of programs:

* `(p[0]-p[1]) - (...)`, nested, with longs for the rest, sends the allocator
  into a loop that does not end or into a failed assertion (`gen.c:688`);
  `UsesFindTheirValues` speaks of compilations that finish.
* The target of a return or a division is handed down through a conversion of
  the same size past the nodes between (`miksys.md:343`): `int d(unsigned a,
  unsigned b) { return a/b; }` returns the remainder.
* A right shift of a signed common subexpression that is not a constant, and a
  dense switch of four labels or more, abort the compiler with "is corrupt"
  (`gen.c:181`). A right shift of a *constant* that is a common subexpression does
  not, but the read of it becomes the constant's register (`reuse`,
  `gen.c:205-217`) without being a use the allocator counts: after `1000>>y`,
  `y/z`, `1000>>z` the second shift finds another value in it. The family
  `Constants` has such shifts next to each other only.
* The comments of `muli` and `subi` (`simp.c:150`, `simp.c:180`) say "return 1 if
  min <= x*y <= max" and "x-y", but `1<<15`, which is folded as a product by 2^15,
  gives 32768 and `(1<<15)<0` gives 0, and `subi` asks `addi` about -y, which for
  the smallest number is none. C leaves open what such expressions are, and
  no property passes or fails on them: `CodeMeansProgram` compares executions of programs
  whose arithmetic the language defines.
* Eleven patterns which the optimizer translates wrongly. `Granted` in
  `Optimizer` states what the passes take for granted: the halves of a long sum
  stay together, no setter of flags is raised over a reader, marked readers are
  seen, a forwarded register is not overwritten, a conditional store is not
  forwarded, a jump goes over something. The families avoid the others: `a <<
  (n+1)` (operands exchanged), `(a+1)*(a+1)`, long operands without exchange, a
  cell stored under one name and read under another, a CMOV between a shift and
  its result.

Not modelled:

* The chip is an assumption (`SdramChip`): the repository has no model of it. One
  row is open at a time because the controller precharges all banks; timing
  parameters of the data sheet (tRCD, tRP, tRC) are distances between states of
  the counter and are not checked.
* While a reset is held the chip goes on with what is on its pins. The state of
  the row it has open is not promised until the initialisation is over.
* In the memory runs the display's block is fixed and begins anew when it has
  ended; the switch of frames, which resets block counters, and the alternation of
  the two halves of a line are left to the model of the display. The theorems are
  about any block.
* Every port has a byte or room: the answer that there is none (`CU.sv:105`, `CU.sv:176`) and
  what a command then does are not in `Instructions`. What a port delivers is a word
  there, of which `PU.sv:132` passes eight bits.
* Of the assertions of `dag.c` and `stmt.c`, `AssertionsHold` has those on labels
  and their names, on the kinds of the sides of a comparison, and on counts and
  lists of nodes; its comment gives their lines. The others are about null
  pointers, types and kinds of trees, which the model does not represent.
* The controller's statistics registers, read over the peripheral bus.
* Registers for variables, block copies, structures, characters, floating
  types and goto in the compiler; colour commands and ports in the optimizer.
* What `components` in `PROJECT.json` lists as not modelled: USB, the
  display's raster, the assembler, the boot loader and the libraries.

## 6. Plan

In this order; each with its module, what it composes and what it should show.

1. **Timer and reset, serial controller** on the two slow-I/O halves: bit timing
   against RTS/CTS, the character in flight when the stop line rises, which now
   is an assumption of `HonoursStop`.
2. **Display**: two clock domains, sampled counters, line buffer, half-written
   settings at the frame switch.
3. **USB controller**, then the host library on top of it: packets, stuffing,
   handshake timeouts, toggles and retries.
4. **Boot loader, keyboard library, division**: the loading protocol; the
   scan-code automaton; the result of the division routines over all small
   operands.
