---------------------------- MODULE CoSimulation ----------------------------
(***************************************************************************)
(* The processor, its simulator and the manual on the same commands, clock *)
(* by clock.  A command is chosen when it is fetched; the manual's machine *)
(* takes the command that is in stage 5.  A program obeys the rules of the *)
(* manual that can be read off its text (Spaced); where it breaks a rule   *)
(* that depends on values the manual says nothing and the run ends.        *)
(***************************************************************************)
EXTENDS Processor, InstructionSet

CONSTANTS Families,                  \* sets of commands: a program takes from one
          Window, Length,            \* clocks in which commands are chosen, how many
          MemorySize,                \* words of main memory
          Start,                     \* address of the first command
          InitialLo, InitialHi, InitialCells, InitialFlags, InitialMemory

(***************************************************************************)
(* The commands a program is made of.  A field that is read as a register  *)
(* names one in every command, whatever else it means there.  Left out are *)
(* formats the decoder takes differently from the manual (README, 5): ALL  *)
(* in a command that is not of the arithmetic group, and a special         *)
(* register as the destination of one that is not MOV.                     *)
(***************************************************************************)
Operations == Arithmetic \cup Slow \cup Jumps \cup {"NOP", "CMOV", "CCMOV", "RW"}
Commands ==
  [op : Operations, cond : 0 .. 15, set : BOOLEAN,
   mode : {"store", "load", "const", "reg"}, a : Reg, b : Reg, r : Reg,
   c : Int, off : Nat, all : BOOLEAN, inv : BOOLEAN,
   spec : {"reg", "sreg", "in", "out"}, t : BOOLEAN, f : BOOLEAN, bs : BOOLEAN,
   link : BOOLEAN, rel : BOOLEAN]
Specials == {FLAGS, MEM_LO, MEM_HI, RESULT_LO, RESULT_HI}
WellFormed(cmd) ==
  /\ cmd \in Commands
  /\ cmd.op \notin Jumps => cmd.c \in Word
  /\ BSreg(cmd) => B(cmd) \in Specials
  /\ P2Type(cmd) = "special" => D(cmd) \in Specials
  /\ OnPort(cmd) => PortOf(cmd) \in Ports
  /\ cmd.op = "MOV" => cmd.b \in LoReg        \* its bits are those of spec
  /\ IsIn(cmd) => ~cmd.inv
  /\ OnPort(cmd) => cmd.cond = 0              \* the assembler has them so; an OUT
  /\ IsOut(cmd) => cmd.mode # "store"         \* names its port first
  /\ cmd.link => cmd.rel
  /\ cmd.all => cmd.op \in Arithmetic /\ cmd.mode \in {"load", "store"}
  /\ cmd.op \in Arithmetic /\ cmd.mode = "reg" /\ cmd.t => cmd.op = "MOV"

ASSUME CoSimulationAssumption ==
  /\ SharedDelay \in Nat /\ SharedDelay >= 3      \* what the manual asks for
  /\ PortDelay \in 3 .. 5
  /\ Window \in Nat /\ Length \in Nat
  /\ MemorySize \in Nat \ {0} /\ Start \in 0 .. IpRange - 1
  /\ \A family \in Families : \A cmd \in family : WellFormed(cmd)
  /\ InitialLo \in [PU -> [LoReg -> Word]] /\ InitialHi \in [HiReg -> Word]
  /\ InitialCells \in [0 .. CacheSize - 1 -> Word] /\ InitialFlags \in [PU -> Flags]
  /\ InitialMemory \in [0 .. MemorySize - 1 -> Word]
  /\ Ports # {}

Sim == INSTANCE FastCore

VARIABLES sim, isa,
          from,       \* addresses of the commands in ST2 .. ST5, or Bubble
          family, left, clock,
          beyond,     \* the program used what the simulator does otherwise
          block       \* the transfer the simulator was asked for, and its memories

vars == <<processorVars, sim, isa, from, family, left, clock, beyond, block>>

Bubble == -1
Drain == 8            \* clocks until the last command has had all its effects
NoBlock == [start |-> FALSE]

-----------------------------------------------------------------------------
(* Rules of the text.  s[1] .. s[4] are the commands fetched before. *)
Reads(cmd, special) ==
  \/ cmd.op \in HasOperand /\ cmd.mode = "reg" /\ cmd.f /\ cmd.r = special
  \/ cmd.op = "MOV" /\ cmd.mode = "store" /\ cmd.spec = "sreg" /\ cmd.a = special
  \/ cmd.op \in HasOperand /\ cmd.mode = "const" /\ cmd.bs /\ cmd.b = special

Spaced(s, cmd) ==
  /\ cmd.op \in Jumps => \A i \in 1 .. 4 : s[i].op \notin Jumps
  /\ OnPort(cmd) => \A i \in 1 .. PortDelay - 1 :
                      OnPort(s[i]) => PortOf(s[i]) = PortOf(cmd)
  /\ IsOut(cmd) => ~IsOut(s[1])         \* see SlowIOWriteBuffer
  /\ cmd.op \in {"SHL", "SHR"} => s[1].op \notin Multiplications
  /\ cmd.op \in Slow => \A i \in 1 .. 2 : s[i].op # "WMUL"
  /\ cmd.op = "WMUL" => \A i \in 1 .. 2 : s[i].op \notin Slow
  /\ \A i \in 1 .. 4 : s[i].op # "RW"          \* a transfer ends the program

-----------------------------------------------------------------------------
(* Where the simulator is known to differ from the manual (README, 5). *)
Differs(m, cmd) ==
  \/ cmd.op \in CarryIn /\ ~m.afterSum
  \/ /\ cmd.op \in HasOperand
     /\ \/ cmd.mode = "store" /\ cmd.a \in m.afterConstant
        \/ cmd.mode = "reg" /\ ~cmd.f /\ cmd.r \in m.afterConstant
  \/ /\ cmd.op \in HasOperand /\ cmd.mode = "load"
     /\ \E p \in PU : isa.cells3[Cell(isa, cmd, p)]
                      # isa.cells2[Cell(isa, cmd, p)]
  \/ Reads(cmd, FLAGS) /\ isa.flags # isa.flags1
  \/ cmd.op \in Jumps /\ cmd.link /\ ReturnAddress(isa, cmd) = 0
  \/ /\ cmd.op = "RGBADD"
     /\ \E p \in PU : LET x == First(isa, cmd, p)
                          y == Inverted(cmd, Last(isa, cmd, p))
                      IN Lighter(x, y) # LighterWrapped(x, y)

\* What the next command has to know of this one to tell.
After(cmd) == [differs |-> beyond.differs \/ Differs(beyond, cmd),
               afterSum |-> cmd.op \in Arithmetic /\ cmd.cond = 0,
               afterConstant |-> IF cmd.op = "CMOV" /\ ~cmd.t THEN {cmd.a} ELSE {}]

-----------------------------------------------------------------------------
Init ==
  /\ ProcessorInit(Start, InitialLo, InitialHi, InitialCells, InitialFlags)
  /\ port_address = CHOOSE d \in Ports : TRUE
  /\ sim = Sim!InitialCore(Start, InitialLo, InitialHi, InitialCells, InitialFlags,
                           InitialMemory)
  /\ isa = InitialMachine(Start, InitialLo, InitialHi, InitialCells, InitialFlags)
  /\ from = [i \in 1 .. 4 |-> Bubble]
  /\ family \in Families /\ left = Length /\ clock = 0
  /\ beyond = [differs |-> FALSE, afterSum |-> TRUE, afterConstant |-> {}]
  /\ block = NoBlock

Executing == from[4] # Bubble

Clock(cmd) ==
  /\ clock < Window + Drain
  /\ Executing => Defined(isa, ST5)
  /\ ProcessorClock(cmd)
  /\ sim' = Sim!handleNext(sim, cmd)
  /\ isa' = IF Executing THEN Step(isa, ST5) ELSE Wait(isa)
  /\ from' = <<IF drop_line THEN Bubble ELSE ip, from[1], from[2], from[3]>>
  /\ beyond' = After(ST5)
  /\ block' = IF sim.st5.op = "RW" /\ Sim!check_cond(sim.flags[0], sim.st5.cond)
                THEN [start |-> TRUE, memory |-> sim.memory, cache |-> sim.cache,
                      write |-> ST5.set, count |-> sim'.ram_count,
                      word |-> sim'.ram_addr, cell |-> sim'.ram_cache_addr]
                ELSE block
  /\ clock' = clock + 1
  /\ UNCHANGED family

Issue(cmd) == /\ left > 0 /\ clock < Window /\ ~drop_line /\ ~block.start
              /\ Spaced(<<ST2, ST3, ST4, ST5>>, cmd)
              /\ Clock(cmd)
              /\ left' = left - 1
FetchNop == Clock(NOP) /\ UNCHANGED left

\* The simulator goes on until its transfer is over.
Finish ==
  /\ clock = Window + Drain /\ sim.ram_count > 0
  /\ sim' = Sim!handleNext(sim, NOP)
  /\ UNCHANGED <<processorVars, isa, from, family, left, clock, beyond, block>>

Next == \/ \E cmd \in family : Issue(cmd)
        \/ FetchNop
        \/ Finish

Spec == Init /\ [][Next]_vars

-----------------------------------------------------------------------------
TypeOK ==
  /\ ip \in 0 .. IpRange - 1 /\ drop_line \in BOOLEAN
  /\ cache \in [0 .. CacheSize - 1 -> Word] /\ cache_wen \subseteq PU
  /\ lo_regs \in [PU -> [LoReg -> Word]] /\ hi_regs_out \in [HiReg -> Word]
  /\ flags \in [PU -> Flags] /\ mem_addr \in 0 .. WordRange * WordRange - 1
  /\ mult_res \in [PU -> 0 .. WordRange * WordRange - 1]
  /\ ST5_p1 \in [PU -> Word] /\ ST5_p2 \in [PU -> Word]
  /\ sim.flags \in [PU -> Flags] /\ sim.regs \in [PU -> [Reg -> Word]]
  /\ sim.cache \in [0 .. CacheSize - 1 -> Word] /\ sim.ip \in 0 .. IpRange - 1

\* A command in flight: everything below is about the clocks of a program, before
\* the simulator finishes its transfer alone.
Running == clock < Window + Drain

(***************************************************************************)
(* The pipeline executes what the manual says is executed: the command in  *)
(* stage 5 is the one at the manual's program counter.  CU.sv fetches five *)
(* commands ahead, drops the line behind a DJ and computes the target when *)
(* the jump is in stage 4.                                                 *)
(***************************************************************************)
FetchFollowsManual == Executing => from[4] = isa.pc

(***************************************************************************)
(* What a command leaves in the registers, flags, MEM_ADDR and the results *)
(* is what the manual says, for each processing unit it still describes:   *)
(* the forwarding of PU.sv hides the pipeline exactly as far as the manual *)
(* promises.                                                               *)
(***************************************************************************)
RegisterAt(p, n) == IF ST6_wr_reg[p] /\ ST6_reg = n THEN ST6_data[p] ELSE RegisterOf(p, n)

ProcessorFollowsManual ==
  /\ \A p \in PU \ isa.unknown :
       /\ \A n \in LoReg : RegisterAt(p, n) = isa.regs[p][n]
       /\ flags[p] = isa.flags[p]
       /\ mult_res[p] = isa.seen[p][2].hi * WordRange + isa.seen[p][2].lo
  /\ \A n \in HiReg : RegisterAt(0, n) = isa.regs[0][n]
  /\ mem_addr = isa.mem

(***************************************************************************)
(* The cache holds what the stores made it, one clock late, and a shared   *)
(* register of the other units what the manual says once it is old enough. *)
(***************************************************************************)
StoresFollowManual ==
  /\ cache = isa.cells1
  /\ \A n \in HiReg : isa.age[n] > SharedDelay => hi_regs[n] = isa.regs[0][n]

(***************************************************************************)
(* Every port has received exactly the words the program wrote to it, in   *)
(* order, though address, request and data leave the pipeline in stages 2, *)
(* 4 and 5 (CU.sv), and no byte was taken from a port without its command. *)
(***************************************************************************)
PortsFollowManual ==
  /\ port.log = isa.log
  /\ (from = [i \in 1 .. 4 |-> Bubble] \/ ~\E s \in {ST3, ST4, ST5} : IsIn(s))
       => port.taken = isa.taken

(***************************************************************************)
(* READ and WRITE ask the memory engine for what the manual says, with the *)
(* address that counts at the command itself.                              *)
(***************************************************************************)
RequestFollowsManual ==
  /\ sdram.start = isa.request.start
  /\ sdram.start => /\ sdram.wren = isa.request.write /\ mem_addr = isa.request.address
                    /\ sdram.cell = isa.request.cell /\ sdram.count = isa.request.count

(***************************************************************************)
(* The simulator agrees with the manual until a program uses one of the    *)
(* six things it is known to do otherwise (Differs).                       *)
(***************************************************************************)
SimulatedRegister(p, n) == IF sim.st6_wr_reg[p] /\ sim.st6_reg = n THEN sim.st6_data[p]
                                                                   ELSE sim.regs[p][n]

SimulatorFollowsManual ==
  Running /\ ~beyond.differs =>
    /\ \A p \in PU \ isa.unknown :
         /\ \A n \in LoReg : SimulatedRegister(p, n) = isa.regs[p][n]
         /\ sim.flags[p] = isa.flags[p]
         /\ sim.result[p] = isa.seen[p][1]
    /\ \A n \in HiReg : SimulatedRegister(0, n) = isa.regs[0][n]
    /\ sim.mem_hi * WordRange + sim.mem_lo = isa.mem
    /\ (isa.request.start \/ ~block.start) => sim.cache = isa.cells
    /\ sim.log = isa.log
    /\ isa.request.start =>
         /\ sim.ram_count = isa.request.count /\ sim.ram_write = isa.request.write
         /\ sim.ram_cache_addr = isa.request.cell % CacheSize
         /\ sim.ram_addr = isa.request.address % MemorySize

\* The simulator is cycle exact: it fetches and executes the same command at the
\* same clock as the processor.
SimulatorKeepsTime ==
  Running /\ ~beyond.differs =>
    /\ <<sim.st2, sim.st3, sim.st4, sim.st5>> = <<ST2, ST3, ST4, ST5>>
    /\ ~drop_line /\ sim.drop_mode = 0 => sim.ip = ip

(***************************************************************************)
(* A transfer of the simulator copies the block between the memory and the *)
(* cache as they were, wrapping round at the end of either, and leaves     *)
(* every other word alone.                                                 *)
(***************************************************************************)
Copied(to, at, size, source, start, length) ==
  [x \in 0 .. size - 1 |->
     LET i == (x - at) % size                        \* the first word that goes to x
         last == i + size * ((block.count - 1 - i) \div size)
     IN IF i < block.count THEN source[(start + last) % length] ELSE to[x]]

TransferCopiesBlock ==
  block.start /\ sim.ram_count = 0 =>
    IF block.write
      THEN /\ sim.memory = Copied(block.memory, block.word, MemorySize,
                                  block.cache, block.cell, CacheSize)
           /\ sim.cache = block.cache
      ELSE /\ sim.cache = Copied(block.cache, block.cell, CacheSize,
                                 block.memory, block.word, MemorySize)
           /\ sim.memory = block.memory
=============================================================================
