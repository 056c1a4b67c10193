---------------------------- MODULE MemorySystem ----------------------------
(***************************************************************************)
(* The way of a word between the data cache and the SDRAM, clock by clock: *)
(* the READ/WRITE engine (CacheConnector) and the display (VgaFetch) share *)
(* the SDRAM controller through the multiplexer, the engine shares the     *)
(* ports of the data cache with the core, and the command memory of        *)
(* command_cache.sv listens on the engine's bus.  All of them take a step  *)
(* in every clock; wiring as in system_top.sv and core.sv.                 *)
(***************************************************************************)
EXTENDS SdramController, SdramChip, MemoryMultiplexer, CacheConnector, DataCache,
        VgaFetch

CONSTANTS Operations,    \* the READs and WRITEs the program may execute
          MaxOperations, \* how many of them it executes
          Polls,         \* the program waits for flag m to clear before the next
          CoreUse,       \* how the core uses the cache in a clock: a set of
                         \* subsets of {"read", "write"}
          ResetAfter,    \* numbers of operations after which reset is pressed
          CodeRow,       \* row of memory the command memory mirrors
          CoreCell       \* cell of the cache the program works in meanwhile

ASSUME SystemAssumption ==
  /\ PORT_COUNT = 2
  /\ Operations \subseteq [wren : BOOLEAN, mem : Address, cell : CacheAddress,
                           count : 0 .. CountMod - 1]
  /\ CoreUse \subseteq SUBSET {"read", "write"}
  /\ RefreshPeriod >= RefreshState - RefreshDone
  /\ VgaBlock \in 6 .. COLS
  /\ VgaBase \in Nat /\ VgaBase + VgaBlock <= MemSize
  /\ CodeRow \in 0 .. MemSize \div COLS - 1
  /\ CoreCell \in CacheAddress

VARIABLES code,          \* command memory
          phase,         \* "working", "reset", or "stale": the reset is over
                         \* and no operation has been started since
          clash,         \* the last three clocks in which the core both read
                         \* and wrote the cache, latest first
          want_memory, want_cache, want_code,   \* what the operations promise
          block,         \* cells of the cache the last READ is to fill
          operations     \* number of operations started

wantVars == <<want_memory, want_cache, want_code, block, operations>>
vars == <<sdramVars, chipVars, muxVars, connectorVars, cacheVars, vgaVars,
          code, phase, clash, wantVars>>

CorePort == 0
VgaPort == 1

\* Every word tells where it was at first.
MemoryWord(a) == a
CacheWord(a) == MemSize + a
CoreData == MemSize + 4 * Lines

\* The controller has finished its initialisation (module SdramSystem starts
\* at power-up) and no transfer has been started yet.
Init ==
  /\ SdramIdle
  /\ ChipInit([a \in Address |-> MemoryWord(a)])
  /\ MuxInit
  /\ ConnectorInit
  /\ cache = [a \in CacheAddress |-> CacheWord(a)]
  /\ sdram_rdata = LineAt(0)
  /\ VgaInit
  /\ code = [c \in Column |-> Blank]
  /\ phase = "working"
  /\ clash = <<FALSE, FALSE, FALSE>>
  /\ want_memory = memory
  /\ want_cache = cache
  /\ want_code = code
  /\ block = {}
  /\ operations = 0

-----------------------------------------------------------------------------
\* The wires of the two masters, as the multiplexer sees them.
ByPort(core, vga) == [i \in Port |-> IF i = CorePort THEN core ELSE vga]

requests == ByPort(request, vga_request)
writes == ByPort(wren, FALSE)
last4s == ByPort(last4, vga_last4)
addresses == ByPort(mem_addr, vga_address % MemSize)
data_writes == ByPort(bus_data_write, Undriven)

bus_request == AnyOf(current, requests)
core_ready == PortReady(CorePort, Ready(bus_request), requests)
vga_ready == PortReady(VgaPort, Ready(bus_request), requests)

Controller == \/ InitClock
              \/ RunClock(bus_request, AnyOf(current, writes), AnyOf(current, last4s),
                          Selected(current, addresses),
                          Selected(last_current, data_writes), dq)

\* The chip and the multiplexer have no reset.
Bus == /\ ChipClock(command, pin_row, initial_column_address,
                    dq_out_mode, data_write)
       /\ MuxClock(requests, last_word)

\* Mutant: the address of the region is not compared.
CommandMemoryAnyRow ==
  code' = IF request /\ wren
          THEN [code EXCEPT ![ColumnOf(mem_addr)] = bus_data_write]
          ELSE code

\* The command memory takes what the engine writes to the code region, in
\* every clock of the request.
CommandMemory ==
  code' = IF request /\ wren /\ RowOf(mem_addr) = CodeRow
          THEN [code EXCEPT ![ColumnOf(mem_addr)] = bus_data_write]
          ELSE code

\* The core's own accesses to the cache.  It reads in stage 3 and writes in
\* stage 6 of an instruction that does only one of them, so a clock with both
\* is not followed by another three clocks later.
Collides(use) == use = {"read", "write"}

core_wen(use) == IF "write" \in use THEN {0} ELSE {}

CoreCache(use) ==
  /\ Collides(use) => ~clash[3]
  /\ clash' = <<Collides(use), clash[1], clash[2]>>
  /\ CacheClock("read" \in use, CoreCell,
                core_wen(use), CoreCell,
                [k \in Lane |-> CoreData], cache_wen, cache_line, buf0)

\* The cell holds what the core stored last.
Stored(use, contents) == IF "write" \in use
                         THEN [contents EXCEPT ![CoreCell] = CoreData]
                         ELSE contents

\* A block of n cells from source[from] to target[to], both address spaces wrap.
Copied(target, targetSize, to, source, sourceSize, from, n) ==
  [a \in DOMAIN target |->
     LET offset == (a + targetSize - to) % targetSize
     IN IF offset < n THEN source[(from + offset) % sourceSize] ELSE target[a]]

\* What an operation promises, given what memory, cache and command memory are
\* to hold when it is executed.
Promise(op, use, mem, cells, commands) ==
  /\ operations' = operations + 1
  /\ block' = IF op.wren THEN {}
              ELSE {(op.cell + i) % (4 * Lines) : i \in 0 .. op.count - 1}
  /\ IF op.wren
     THEN /\ want_memory' = Copied(mem, MemSize, op.mem,
                                   cells, 4 * Lines, op.cell, op.count)
          /\ want_code' = [c \in Column |->
               IF (CodeRow * COLS + c + MemSize - op.mem) % MemSize < op.count
               THEN want_memory'[CodeRow * COLS + c] ELSE commands[c]]
          /\ want_cache' = Stored(use, cells)
     ELSE /\ want_cache' = Stored(use, Copied(cells, 4 * Lines, op.cell,
                                              mem, MemSize, op.mem, op.count))
          /\ want_memory' = mem
          /\ want_code' = commands

\* After a reset all three hold what the abandoned operation left.
StartOperation(op, use) ==
  /\ operations < MaxOperations
  /\ Polls => ~is_running
  /\ Start(op.wren, op.mem, op.cell, op.count)
  /\ IF phase = "stale"
     THEN /\ ~is_running /\ state_hi = 0 /\ access = "none" /\ ~dq_out_mode
          /\ phase' = "working"
          /\ Promise(op, use, memory, cache, code)
     ELSE /\ phase' = phase
          /\ Promise(op, use, want_memory, want_cache, want_code)

Engine(use) ==
  /\ Proceed(core_ready, sdram_en("read" \in use, core_wen(use)), sdram_rdata,
             data_read)
  /\ phase' = IF phase = "reset" THEN "stale" ELSE phase
  /\ want_cache' = Stored(use, want_cache)
  /\ UNCHANGED <<want_memory, want_code, block, operations>>

Clock(use) == /\ Controller
              /\ Bus
              /\ CommandMemory
              /\ CoreCache(use)
              /\ VgaClock(vga_ready)

Step == \E use \in CoreUse : Engine(use) /\ Clock(use)

Launch == /\ phase # "reset"
          /\ \E use \in CoreUse, op \in Operations :
               StartOperation(op, use) /\ Clock(use)

\* The timer holds the reset for many clocks.
HoldReset == /\ operations \in ResetAfter /\ phase # "stale"
             /\ phase' = "reset"
             /\ ResetClock
             /\ ConnectorReset
             /\ Bus
             /\ CommandMemory
             /\ CoreCache({})
             /\ VgaClock(vga_ready)
             /\ UNCHANGED wantVars

Next == Step \/ Launch \/ HoldReset

Spec == Init /\ [][Next]_vars

\* The clock runs.
FairSpec == Spec /\ WF_vars(Step)

-----------------------------------------------------------------------------
TypeOK == /\ SdramTypeOK
          /\ ConnectorTypeOK
          /\ OneMaster
          /\ DOMAIN memory = Address
          /\ open_row \in 0 .. MemSize \div COLS - 1 \cup {Closed}
          /\ DOMAIN cache = CacheAddress
          /\ vga_left \in 0 .. VgaBlock

\* The engine is idle and its last word has left the data pins.
Settled == ~is_running /\ ~dq_out_mode /\ phase = "working"

(***************************************************************************)
(* When flag m clears, the block is where the operation was asked to put   *)
(* it, word for word, and nothing else in the cache or in memory changed:  *)
(* no word is lost, doubled or shifted by row ends, by refreshes, by the   *)
(* display taking the bus between bursts, or by the bursts' latencies.     *)
(***************************************************************************)
TransferExact == Settled => cache = want_cache /\ memory = want_memory

(***************************************************************************)
(* The command memory then holds the same code as the memory behind it.    *)
(***************************************************************************)
CodeMirrorsMemory == Settled => code = want_code

\* No reset is held, and the precharge that ends the power-up delay is on its
\* way to the chip.  (A burst that a reset interrupts goes on until then.)
Operating == state_hi = 0 /\ state # TopState

(***************************************************************************)
(* In every clock in which the display is told "ready", the word on the    *)
(* bus is the one at the address it fetches.                               *)
(***************************************************************************)
DisplayWordExact == Operating /\ vga_ready => data_read = memory[vga_address]

(***************************************************************************)
(* The chip never stores from data pins that nobody drives.                *)
(***************************************************************************)
StoresOnlyDriven == Operating /\ Touches(command, "write") => dq_out_mode

(***************************************************************************)
(* Once started, a transfer ends, whatever the display fetches.            *)
(***************************************************************************)
TransferEnds == is_running ~> ~is_running

(***************************************************************************)
(* A reset clears the count of the transfer it interrupts but not its      *)
(* request: when the memory is back, at most one more word of it crosses   *)
(* the bus.                                                                *)
(***************************************************************************)
OneLeftoverWord ==
  [][phase = "stale" /\ phase' = "stale" /\ core_ready => ~sdram_is_running']_vars
=============================================================================
