------------------------ MODULE CoSimulationInvariant ------------------------
(***************************************************************************)
(* What holds of the pipeline, the machine of the manual and the simulator *)
(* in every clock.                                                         *)
(*                                                                         *)
(* Inv says, for every latch of the pipeline, which part of the manual's   *)
(* state it holds: an operand in stage 5 is the register, the cell, the    *)
(* special register or the byte the manual reads, unless the manual does   *)
(* not say; a product on its way is the result the manual shows two or     *)
(* three commands later; the stages hold the commands at the next          *)
(* addresses.                                                              *)
(*                                                                         *)
(* SimBase holds of the simulator whatever the program.  SimFollows says   *)
(* of each field of its object which part of the manual's state it holds,  *)
(* as long as the program uses nothing the simulator does otherwise.       *)
(***************************************************************************)
EXTENDS CoSimulation

-----------------------------------------------------------------------------
(* The invariant: types, then what each part of the pipeline has to do with the  *)
(* machine of the manual. *)
PipelineTypes ==
  /\ ip \in 0 .. IpRange - 1 /\ drop_line \in BOOLEAN /\ ST5_ip_plus_const \in 0 .. IpRange - 1
  /\ WellFormed(ST2) /\ WellFormed(ST3) /\ WellFormed(ST4) /\ WellFormed(ST5)
  /\ ST3_reg_r \in Word /\ ST4_waddr \in Word /\ ST5_waddr \in Word /\ cache_waddr \in Word
  /\ cache \in [0 .. CacheSize - 1 -> Word] /\ cache_q \in [PU -> Word]
  /\ cache_wen \in SUBSET PU /\ cache_wdata \in [PU -> Word]
  /\ lo_regs \in [PU -> [LoReg -> Word]]
  /\ hi_regs_out \in [HiReg -> Word] /\ hi_regs \in [HiReg -> Word]
  /\ ST6_wr_reg \in [PU -> BOOLEAN] /\ ST6_reg \in Reg /\ ST6_data \in [PU -> Word]
  /\ ST5_p1 \in [PU -> Word] /\ ST5_p2 \in [PU -> Word] /\ ST5_add_carry \in [PU -> {0, 1}]
  /\ flags \in [PU -> Flags]
  /\ mult_res \in [PU -> 0 .. WordRange * WordRange - 1]
  /\ mem_addr \in 0 .. WordRange * WordRange - 1
  /\ ST6_op \in [PU -> Multiplications \cup {"NOP"}] /\ ST7_wmul \in [PU -> BOOLEAN]
  /\ ST6_p1 \in [PU -> Word] /\ ST6_p2 \in [PU -> Word]
  /\ port_address \in Ports
  /\ port \in [rdata : Word, rready : BOOLEAN, rd_ok : BOOLEAN, taken : [Ports -> Nat],
               wready : SUBSET Ports, log : [Ports -> Seq(Word)]]

Fields == {"pc", "slots", "target", "regs", "regs1", "base2", "cells", "cells1", "cells2",
           "cells3", "flags", "flags1", "mem", "mem1", "carry", "seen", "log", "taken",
           "age", "unknown", "request"}
MachineTypes ==
  /\ DOMAIN isa = Fields
  /\ isa.pc \in 0 .. IpRange - 1 /\ isa.target \in 0 .. IpRange - 1 /\ isa.slots \in 0 .. 4
  /\ isa.unknown \in SUBSET (PU \ {0})
  /\ isa.age \in [HiReg -> Nat \ {0}]
  /\ isa.taken \in [Ports -> Nat]

\* The units the manual still describes.
Known == PU \ isa.unknown

\* Registers with the write of stage 6 are the manual's.
RegistersFollow ==
  /\ \A p \in Known : \A n \in LoReg : RegisterAt(p, n) = isa.regs[p][n]
  /\ \A n \in HiReg : RegisterAt(0, n) = isa.regs[0][n]
  /\ \A p \in PU : \A n \in HiReg : isa.regs[p][n] = isa.regs[0][n]

\* Age says how far a shared register has come.
AgesTell ==
  \A n \in HiReg : /\ \A p \in PU : ST6_wr_reg[p] /\ ST6_reg = n => isa.age[n] = 1
                   /\ isa.age[n] >= 3 => hi_regs[n] = isa.regs[0][n]

\* A register a unit may read, now and after this clock.
Readable(p, n) == p = 0 \/ n \in LoReg \/ isa.age[n] > SharedDelay
ReadableThen(p, n) == p = 0 \/ n \in LoReg \/ isa'.age[n] > SharedDelay
Lane(cmd, addr, p) == IF p = 0 \/ ~Parallel(cmd) THEN CacheIndex(addr)
                                                 ELSE LineStart(addr) + p

\* The operands in stage 5 are what the manual says the command reads.
FirstFollows ==
  \A p \in Known :
    IF BSreg(ST5) THEN ST5_p1[p] = Special(isa, B(ST5), p)
                  ELSE Readable(p, B(ST5)) => ST5_p1[p] = isa.regs[p][B(ST5)]
SecondFollows ==
  \A p \in Known :
    /\ P2Type(ST5) = "cache" => ST5_p2[p] = isa.cells3[Lane(ST5, ST5_waddr, p)]
    /\ P2Type(ST5) = "port" /\ p = 0 =>
         ST5_p2[p] = PortByte(PortOf(ST5), isa.taken[PortOf(ST5)])
    /\ P2Type(ST5) = "register" /\ Readable(p, D(ST5)) =>
         ST5_p2[p] = isa.regs1[p][D(ST5)]
    /\ P2Type(ST5) = "special" => ST5_p2[p] = Special(isa, D(ST5), p)
    /\ P2Type(ST5) = "const" /\ ST5.op \notin Jumps => ST5_p2[p] = ST5.c
CarryFollows ==
  \A p \in Known : ST5_add_carry[p] = IF ST5.op \in CarryIn THEN isa.carry[p]
                                ELSE IF ST5.op \in {"RSB", "SUB", "CMP"} THEN 1 ELSE 0

\* Addresses, with the registers they were computed from.
AddressesFollow ==
  /\ ST3_reg_r = isa.regs[0][ST3.r]
  /\ isa.regs1[0][ST4.r] \in Word /\ isa.base2[ST5.r] \in Word
  /\ ST4_waddr = (isa.regs1[0][ST4.r] + ST4.off) % WordRange
  /\ ST5_waddr = (isa.base2[ST5.r] + ST5.off) % WordRange

\* The cell x once the store that has left stage 5 is done.
Stored(x) == IF x - (x % N) = LineStart(cache_waddr) /\ Source(x % N) # {}
               THEN cache_wdata[CHOOSE p \in Source(x % N) : TRUE] ELSE cache[x]
CellsFollow ==
  /\ cache = isa.cells1
  /\ isa.cells = [x \in 0 .. CacheSize - 1 |-> Stored(x)]
  /\ \A p \in PU : cache_q[p] = isa.cells2[IF p = 0 THEN CacheIndex(ST4_waddr)
                                                   ELSE LineStart(ST4_waddr) + p]

FlagsFollow == /\ \A p \in Known : flags[p] = isa.flags[p]
               /\ mem_addr = isa.mem

ResultWords == [lo : Word, hi : Word]
\* The results the manual shows the next commands are in the multiplier.
ResultsFollow ==
  \A p \in Known :
    /\ isa.seen[p] \in [1 .. 4 -> ResultWords]
    /\ mult_res[p] = isa.seen[p][2].hi * WordRange + isa.seen[p][2].lo
    /\ isa.seen[p][3] =
         IF ST7_wmul[p] THEN [hi |-> High(mult_res[p]),
                              lo |-> Low(Low(product(p)) + High(mult_res[p]))]
         ELSE IF ST6_op[p] \in Multiplications THEN [hi |-> High(product(p)), lo |-> Low(product(p))]
         ELSE isa.seen[p][2]
    /\ isa.seen[p][4] =
         IF ST6_op[p] = "WMUL"
           THEN [hi |-> High(product(p)),
                 lo |-> Low(High(product(p)) + Low(ST6_p1[p] * High(mult_res[p])))]
           ELSE isa.seen[p][3]
\* ... which has room for them: Spaced keeps slow commands apart.
ResultsInTurn ==
  \A p \in PU :
    /\ ST6_op[p] \in Multiplications => ST5.op \notin {"SHL", "SHR", "WMUL"} /\ ST4.op # "WMUL"
    /\ ST6_op[p] = "WMUL" => ST5.op \notin Slow /\ ST4.op \notin Slow
    /\ ST7_wmul[p] => ST5.op \notin Slow /\ ST6_op[p] = "NOP"

\* What Spaced leaves true of two commands one after the other, and one apart.
Apart2(cmd, s) ==
  /\ OnPort(cmd) /\ OnPort(s) => PortOf(s) = PortOf(cmd)
  /\ cmd.op \in Slow => s.op # "WMUL"
  /\ cmd.op = "WMUL" => s.op \notin Slow
  /\ cmd.op \in Jumps => s.op \notin Jumps
Apart1(cmd, s) ==
  /\ Apart2(cmd, s)
  /\ IsOut(cmd) => ~IsOut(s)
  /\ cmd.op \in {"SHL", "SHR"} => s.op \notin Multiplications
StagesApart ==
  /\ Apart1(ST2, ST3) /\ Apart1(ST3, ST4) /\ Apart1(ST4, ST5)
  /\ Apart2(ST2, ST4) /\ Apart2(ST3, ST5)
  /\ ST2.op \in Jumps => ST5.op \notin Jumps

\* A port command carries its address, its request and its byte along.
PortsFollow ==
  /\ OnPort(ST3) => port_address = PortOf(ST3)
  /\ OnPort(ST4) => port_address = PortOf(ST4)
  /\ OnPort(ST5) => port_address = PortOf(ST5)
  /\ port.rready <=> IsIn(ST4)
  /\ port.rd_ok <=> IsIn(ST5)
  /\ port.wready = IF IsOut(ST5) /\ Room(port_address) THEN {port_address} ELSE {}
  /\ port.log = isa.log
  /\ \A d \in Ports : port.taken[d] =
       isa.taken[d] + (IF IsIn(ST4) /\ PortOf(ST4) = d THEN 1 ELSE 0)
                    + (IF IsIn(ST5) /\ PortOf(ST5) = d THEN 1 ELSE 0)
  /\ IsIn(ST4) => port.rdata = PortByte(PortOf(ST4), isa.taken[PortOf(ST4)]
                                                     + (IF IsIn(ST5) THEN 1 ELSE 0))

\* The address of the j-th command from now, if no jump is taken meanwhile.
Ahead(j) == IF isa.slots # 0 /\ j >= isa.slots THEN (isa.target + (j - isa.slots)) % IpRange
                                               ELSE (isa.pc + j) % IpRange
Stage(i) == CASE i = 1 -> ST2 [] i = 2 -> ST3 [] i = 3 -> ST4 [] i = 4 -> ST5
\* Stages y .. o hold what the manual executes next, o the oldest; ip comes after.
Line(o, y) ==
  /\ \A i \in 1 .. 4 : from[i] = IF y <= i /\ i <= o THEN Ahead(o - i) ELSE Bubble
  /\ isa.slots # 0 => o = 4
  /\ ip = IF drop_line THEN Ahead(o - y) ELSE Ahead(o)
  /\ IF drop_line THEN y <= o /\ Stage(y).op = "DJUMP" ELSE y = 1
  /\ \A i \in 1 .. 4 : Stage(i).op \in Jumps =>
       /\ isa.slots <= o - i
       /\ drop_line <=> Stage(i).op = "DJUMP"
       /\ ip = IF drop_line THEN from[i] ELSE (from[i] + i) % IpRange
\* Either four commands are on their way or those behind a DJ were dropped.
ControlFollows ==
  /\ \E o \in 0 .. 4 : \E y \in 1 .. 4 : Line(o, y)
  /\ \A i \in 1 .. 4 : from[i] = Bubble => Stage(i) = NOP
  /\ ST5.op \in Jumps =>
       ST5_ip_plus_const = (isa.pc + ST5.c + (IF ST5.op = "DJUMP" THEN 1 ELSE 4)) % IpRange

Inv == /\ PipelineTypes /\ MachineTypes /\ RegistersFollow /\ AgesTell /\ FirstFollows
       /\ SecondFollows /\ CarryFollows /\ AddressesFollow /\ CellsFollow /\ FlagsFollow
       /\ ResultsFollow /\ ResultsInTurn /\ StagesApart /\ PortsFollow
       /\ RequestFollowsManual /\ ControlFollows /\ family \in Families

-----------------------------------------------------------------------------
\* The fields of the simulator's object.
SimFields == {"ip", "next_ip", "drop_mode", "st2", "st3", "st4", "st5",
              "st3_reg_r", "st4_reg_r", "st5_reg_r", "regs", "flags", "st5_carry",
              "mem_lo", "mem_hi", "in_mem_lo", "in_mem_hi", "p1", "p2", "p2type",
              "rd_ok", "cond_met", "st6_reg", "st6_wr_reg", "st6_data",
              "st6_shift", "st6_shift_result", "st6_mul", "st6_wmul", "st7_mul",
              "p1_st6", "st6_result", "st7_result", "result", "cache",
              "st3_from_cache", "st4_from_cache", "memory", "ram_addr",
              "ram_cache_addr", "ram_count", "ram_write", "peripheralAddr",
              "taken", "log"}

\* A state of the simulator: the commands and where they come from, ...
SimCommands(s) ==
  /\ s.ip \in 0 .. IpRange - 1 /\ s.next_ip \in Int /\ s.drop_mode \in 0 .. 4
  /\ WellFormed(s.st2) /\ WellFormed(s.st3) /\ WellFormed(s.st4) /\ WellFormed(s.st5)
  /\ s.cond_met \in [PU -> BOOLEAN] /\ s.p2type = Sim!P2Type(s.st5)
  /\ OnPort(s.st5) => s.peripheralAddr = PortOf(s.st5)
  /\ IsIn(s.st5) => s.rd_ok
  /\ s.taken \in [Ports -> Nat]
\* ... registers, flags and operands, ...
SimOperands(s) ==
  /\ s.st3_reg_r \in Word /\ s.st4_reg_r \in Word /\ s.st5_reg_r \in Word
  /\ s.regs \in [PU -> [Reg -> Word]] /\ s.flags \in [PU -> Flags]
  /\ s.st5_carry \in [PU -> {0, 1}] /\ s.mem_lo \in Word /\ s.mem_hi \in Word
  /\ s.in_mem_lo \in Word /\ s.in_mem_hi \in Word
  /\ s.p1 \in [PU -> Word] /\ s.p2 \in [PU -> Word]
  /\ s.st6_reg \in Reg /\ s.st6_wr_reg \in [PU -> BOOLEAN] /\ s.st6_data \in [PU -> Word]
\* ... results on their way, ...
SimPipes(s) ==
  /\ s.st6_shift \in [PU -> BOOLEAN] /\ s.st6_shift_result \in [PU -> Word]
  /\ s.st6_mul \in [PU -> BOOLEAN] /\ s.st6_wmul \in [PU -> BOOLEAN]
  /\ s.st7_mul \in [PU -> BOOLEAN] /\ s.p1_st6 \in [PU -> Word]
  /\ s.st6_result \in [PU -> ResultWords] /\ s.st7_result \in [PU -> ResultWords]
  /\ s.result \in [PU -> ResultWords]
\* ... and the memories.
SimMemories(s) ==
  /\ s.cache \in [0 .. CacheSize - 1 -> Word] /\ s.memory \in [0 .. MemorySize - 1 -> Word]
  /\ s.st3_from_cache \in [PU -> Word] /\ s.st4_from_cache \in [PU -> Word]
  /\ s.ram_addr \in 0 .. MemorySize - 1 /\ s.ram_cache_addr \in 0 .. CacheSize - 1
  /\ s.ram_count \in Nat /\ s.ram_write \in BOOLEAN
CoreTypes(s) == /\ DOMAIN s = SimFields /\ SimCommands(s) /\ SimOperands(s) /\ SimPipes(s)
                /\ SimMemories(s)

\* A transfer ends the program: nothing is behind its command.
SimDrains ==
  /\ sim.st3.op = "RW" => sim.st2 = NOP
  /\ sim.st4.op = "RW" => sim.st2 = NOP /\ sim.st3 = NOP
  /\ sim.st5.op = "RW" => sim.st2 = NOP /\ sim.st3 = NOP /\ sim.st4 = NOP
  /\ block.start => sim.st2 = NOP /\ sim.st3 = NOP /\ sim.st4 = NOP /\ sim.st5 = NOP
  /\ sim.ram_count > 0 => block.start

\* The words of a memory from start on, round and round, and what k of them leave of another.
WordsFrom(source, start, length) == [n \in Int |-> source[(start + n) % length]]
Copying(to, at, size, words, k) ==
  [x \in 0 .. size - 1 |->
     LET i == (x - at) % size
         last == i + size * ((k - 1 - i) \div size)
     IN IF i < k THEN words[last] ELSE to[x]]
SimTransfers ==
  block.start =>
    LET k == block.count - sim.ram_count IN
    /\ block.write \in BOOLEAN /\ block.count \in Nat /\ k \in Nat
    /\ block.word \in 0 .. MemorySize - 1 /\ block.cell \in 0 .. CacheSize - 1
    /\ block.memory \in [0 .. MemorySize - 1 -> Word] /\ block.cache \in [0 .. CacheSize - 1 -> Word]
    /\ sim.ram_write = block.write
    /\ sim.ram_addr = (block.word + k) % MemorySize
    /\ sim.ram_cache_addr = (block.cell + k) % CacheSize
    /\ IF block.write
         THEN /\ sim.memory = Copying(block.memory, block.word, MemorySize,
                                      WordsFrom(block.cache, block.cell, CacheSize), k)
              /\ sim.cache = block.cache
         ELSE /\ sim.cache = Copying(block.cache, block.cell, CacheSize,
                                     WordsFrom(block.memory, block.word, MemorySize), k)
              /\ sim.memory = block.memory

\* The commands in the stages, and the lines dropped behind a DJ.
SimStages ==
  /\ sim.st2 = ST2 /\ sim.st3 = ST3 /\ sim.st4 = ST4 /\ sim.st5 = ST5
  /\ drop_line <=> sim.drop_mode > 0
  /\ drop_line => Stage(5 - sim.drop_mode).op = "DJUMP"

\* What holds of the simulator whatever the program.
SimBase == /\ CoreTypes(sim) /\ SimDrains /\ SimTransfers
           /\ Running => SimStages
           /\ clock \in Nat

-----------------------------------------------------------------------------
\* Registers, with the write that is still in stage 6.
SimRegisters ==
  /\ \A p \in Known : \A n \in LoReg : SimulatedRegister(p, n) = isa.regs[p][n]
  /\ \A n \in HiReg :
       /\ SimulatedRegister(0, n) = isa.regs[0][n]
       /\ \A p \in PU : sim.st6_wr_reg[p] /\ sim.st6_reg = n => isa.age[n] = 1
       /\ isa.age[n] >= 3 => \A p \in PU : sim.regs[p][n] = isa.regs[0][n]

\* FLAGS are read as the last command left them.
SimSpecial(n, p) == IF n = FLAGS THEN FlagsWord(isa.flags[p], p) ELSE Special(isa, n, p)
SimCell(r, cmd, p) == Sim!CellOf(r + cmd.off, IF cmd.all THEN p ELSE 0)
SimFirstFollows ==
  ST5.op \in HasOperand => \A p \in Known :
    IF BSreg(ST5) THEN sim.p1[p] = SimSpecial(B(ST5), p)
                  ELSE Readable(p, B(ST5)) => sim.p1[p] = isa.regs[p][B(ST5)]
SimSecondFollows ==
  \A p \in Known :
    /\ P2Type(ST5) = "cache" => sim.p2[p] = isa.cells2[SimCell(isa.base2[ST5.r], ST5, p)]
    /\ P2Type(ST5) = "port" /\ p = 0 =>
         sim.p2[p] = PortByte(PortOf(ST5), isa.taken[PortOf(ST5)])
    /\ P2Type(ST5) = "register" /\ Readable(p, D(ST5)) /\ D(ST5) \notin beyond.afterConstant =>
         sim.p2[p] = isa.regs1[p][D(ST5)]
    /\ P2Type(ST5) = "special" => sim.p2[p] = SimSpecial(D(ST5), p)
    /\ P2Type(ST5) = "const" /\ ST5.op \notin Jumps => sim.p2[p] = ST5.c
SimCarryFollows ==
  beyond.afterSum => \A p \in Known : sim.st5_carry[p] = isa.carry[p]
Addressing(cmd) == P2Type(cmd) = "cache" \/ WrCache(cmd)
SimAddresses ==
  /\ Addressing(ST3) => sim.st3_reg_r = isa.regs[0][ST3.r]
  /\ Addressing(ST4) => sim.st4_reg_r = isa.regs1[0][ST4.r]
  /\ Addressing(ST5) => sim.st5_reg_r = isa.base2[ST5.r]
SimLoads ==
  /\ P2Type(ST3) = "cache" =>
       \A p \in PU : sim.st3_from_cache[p] = isa.cells[SimCell(isa.regs[0][ST3.r], ST3, p)]
  /\ P2Type(ST4) = "cache" =>
       \A p \in PU : sim.st4_from_cache[p] = isa.cells1[SimCell(isa.regs1[0][ST4.r], ST4, p)]
SimState ==
  /\ \A p \in Known : sim.flags[p] = isa.flags[p]
  /\ sim.mem_hi * WordRange + sim.mem_lo = isa.mem
  /\ (isa.request.start \/ ~block.start) => sim.cache = isa.cells
  /\ sim.ip = ip
SimResults ==
  \A p \in Known :
    LET seen == isa.seen[p] IN
    /\ seen[1] = sim.result[p]
    /\ seen[2] = IF sim.st7_mul[p] THEN sim.st7_result[p]
                 ELSE IF sim.st6_shift[p] THEN [sim.result[p] EXCEPT !.lo = sim.st6_shift_result[p]]
                 ELSE sim.result[p]
    /\ seen[3] = IF sim.st6_mul[p] THEN sim.st6_result[p] ELSE seen[2]
    /\ seen[4] = IF sim.st6_wmul[p]
                   THEN [lo |-> (sim.st6_result[p].hi + sim.p1_st6[p] * seen[2].hi) % WordRange,
                         hi |-> sim.st6_result[p].hi]
                   ELSE seen[3]
    /\ sim.st6_wmul[p] <=> ST6_op[p] = "WMUL"
    /\ sim.st6_mul[p] => ST6_op[p] \in Multiplications \/ ST7_wmul[p]
SimPorts ==
  /\ sim.log = isa.log
  /\ \A d \in Ports : sim.taken[d] = isa.taken[d]
                                     + (IF IsIn(ST5) /\ PortOf(ST5) = d THEN 1 ELSE 0)
SimRequest ==
  isa.request.start =>
    /\ sim.ram_count = isa.request.count /\ sim.ram_write = isa.request.write
    /\ sim.ram_cache_addr = isa.request.cell % CacheSize
    /\ sim.ram_addr = isa.request.address % MemorySize
SimFollows == /\ SimRegisters /\ SimFirstFollows /\ SimSecondFollows /\ SimCarryFollows
              /\ SimAddresses /\ SimLoads /\ SimState /\ SimResults /\ SimPorts /\ SimRequest

\* As long as the program uses nothing the simulator does otherwise.
SimFollowing == Running /\ ~beyond.differs => SimFollows
=============================================================================
