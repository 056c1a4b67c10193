----------------------------- MODULE Processor ------------------------------
(***************************************************************************)
(* The processor: the control unit of CU.sv, the processing units of       *)
(* PU.sv and the cache port of core.sv and cache.sv, as a pipeline.  A     *)
(* command is fetched into ST2, its address register is read as it enters  *)
(* ST3, the cache as it enters ST4, its operands as it enters ST5; it is   *)
(* executed in ST5 and writes its register from ST6.  One step is one      *)
(* rising edge of the clock (command_ready is constantly 1).  What the     *)
(* decoder registers along the pipeline is a function of the command in    *)
(* that stage, so the model keeps the command and decodes it where used.   *)
(***************************************************************************)
EXTENDS Instructions

VARIABLES
  ip, drop_line,                    \* fetch
  ST2, ST3, ST4, ST5,               \* the commands in the stages
  ST5_ip_plus_const,
  ST3_reg_r,                        \* address register, of PU 0
  ST4_waddr, ST5_waddr, cache_waddr,
  cache, cache_q,                   \* the cache RAM and its output, per PU
  cache_wen, cache_wdata,           \* write port, per PU
  lo_regs, hi_regs_out, hi_regs,    \* hi_regs: what the other PUs see
  flags, mult_res, mem_addr,
  ST5_p1, ST5_p2, ST5_add_carry,
  ST6_wr_reg, ST6_reg, ST6_data,
  ST6_op, ST7_wmul, ST6_p1, ST6_p2, \* multiplier
  sdram,                            \* request to the memory engine
  port_address, port                \* I/O bus and the ports on it

controlVars == <<ip, drop_line, ST2, ST3, ST4, ST5, ST5_ip_plus_const>>
addressVars == <<ST3_reg_r, ST4_waddr, ST5_waddr, cache_waddr>>
cacheVars == <<cache, cache_q, cache_wen, cache_wdata>>
registerVars == <<lo_regs, hi_regs_out, hi_regs, ST6_wr_reg, ST6_reg, ST6_data>>
operandVars == <<ST5_p1, ST5_p2, ST5_add_carry>>
resultVars == <<flags, mult_res, mem_addr, ST6_op, ST7_wmul, ST6_p1, ST6_p2>>
busVars == <<sdram, port_address, port>>
processorVars == <<controlVars, addressVars, cacheVars, registerVars, operandVars,
                   resultVars, busVars>>

-----------------------------------------------------------------------------
(* The decoder. *)
Mov(cmd) == cmd.op = "MOV"
MovArg1(cmd) == Mov(cmd) /\ cmd.mode \in {"store", "reg"} /\ cmd.spec # "in"
D(cmd) == IF cmd.mode = "reg" THEN cmd.r ELSE cmd.a
P2Type(cmd) ==
  IF IsIn(cmd) THEN "port"
  ELSE IF cmd.op \notin HasOperand THEN "const"
  ELSE CASE cmd.mode = "store" -> IF Mov(cmd) /\ cmd.spec \in {"sreg", "out"}
                                    THEN "special" ELSE "register"
         [] cmd.mode = "load"  -> "cache"
         [] cmd.mode = "const" -> "const"
         [] cmd.mode = "reg"   -> IF cmd.f THEN "special" ELSE "register"
B(cmd) == IF MovArg1(cmd) THEN D(cmd) ELSE cmd.b
BSreg(cmd) == IF MovArg1(cmd) THEN P2Type(cmd) = "special"
                              ELSE cmd.mode = "const" /\ cmd.bs
Inv2(cmd) == /\ cmd.op \in Arithmetic
             /\ (cmd.op \in {"SUB", "CMP", "SBC"}) # (cmd.mode = "reg" /\ cmd.inv)
Inv1(cmd) == IF MovArg1(cmd) THEN Inv2(cmd) ELSE cmd.op \in {"RSB", "RSC"}
WrCache(cmd) == cmd.op = "CCMOV" \/ (cmd.op \in Arithmetic /\ cmd.mode = "store")
Writes(cmd) == cmd.op \in Arithmetic \ Tests /\ cmd.mode # "store"
WrReg(cmd) == \/ cmd.op = "CMOV" /\ ~cmd.t
              \/ Writes(cmd) /\ IF Mov(cmd) THEN cmd.spec \in {"reg", "in"}
                                            ELSE cmd.mode # "reg" \/ ~cmd.t
WrSreg(cmd) == \/ cmd.op = "CMOV" /\ cmd.t
               \/ Writes(cmd) /\ IF Mov(cmd) THEN cmd.spec = "sreg"
                                             ELSE cmd.mode = "reg" /\ cmd.t
SetFlags(cmd) == cmd.op \in Arithmetic /\ cmd.set
Parallel(cmd) == cmd.all /\ cmd.op \in Arithmetic
OnPort(cmd) == IsIn(cmd) \/ IsOut(cmd)
PortOf(cmd) == IF cmd.mode = "reg" /\ IsIn(cmd) THEN cmd.r ELSE cmd.a

-----------------------------------------------------------------------------
(* Stage 5: the condition and the result. *)
st5_cond_met(p) ==
  LET fl == flags[p]
  IN \/ ST5.cond = 0
     \/ ST5.cond = 1 /\ fl.Z
     \/ ST5.cond = 2 /\ ~fl.Z
     \/ ST5.cond = 3 /\ fl.C
     \/ ST5.cond = 4 /\ ~fl.C
     \/ ST5.cond = 5 /\ fl.N
     \/ ST5.cond = 6 /\ ~fl.N
     \/ ST5.cond = 7 /\ fl.V
     \/ ST5.cond = 8 /\ ~fl.V
     \/ ST5.cond = 9 /\ fl.C /\ ~fl.Z
     \/ ST5.cond = 10 /\ (~fl.C \/ fl.Z)
     \/ ST5.cond = 11 /\ (fl.N <=> fl.V)
     \/ ST5.cond = 12 /\ ~(fl.N <=> fl.V)
     \/ ST5.cond = 13 /\ ~fl.Z /\ (fl.N <=> fl.V)
     \/ ST5.cond = 14 /\ (fl.Z \/ ~(fl.N <=> fl.V))

arg1(p) == IF Inv1(ST5) THEN Not(ST5_p1[p]) ELSE ST5_p1[p]
arg2(p) == IF Inv2(ST5) THEN Not(ST5_p2[p]) ELSE ST5_p2[p]
st5_mov_res(p) == IF MovArg1(ST5) THEN arg1(p) ELSE arg2(p)

\* {st5_carry, st5_res}: the carry is the bit above the word.
sum(p) ==
  CASE ST5.op \in {"AND", "TST"} -> And(arg1(p), arg2(p))
    [] ST5.op = "OR"  -> Or(arg1(p), arg2(p))
    [] ST5.op = "XOR" -> Xor(arg1(p), arg2(p))
    [] ST5.op = "RGBADD" -> Lighter(arg1(p), arg2(p))
    [] ST5.op = "RGBSHR" -> Darker(st5_mov_res(p))
    [] ST5.op \in Sums -> arg1(p) + arg2(p) + ST5_add_carry[p]
    [] OTHER -> st5_mov_res(p)
\* Mutant: the result keeps its carry.
st5_resWithCarry(p) == sum(p)

st5_res(p) == sum(p) % WordRange
st5_carry(p) == sum(p) \div WordRange

shift_res(p) == IF ST5.op = "SHL" THEN (ST5_p1[p] * 2^(ST5_p2[p] % W)) % WordRange
                                  ELSE ST5_p1[p] \div 2^(ST5_p2[p] % W)

\* The product of the operands in ST6, as two words.
Signed(x) == IF TopBit(x) = 1 THEN x - WordRange ELSE x
product(p) ==
  (IF ST6_op[p] = "SMUL" THEN Signed(ST6_p1[p]) * Signed(ST6_p2[p])
                         ELSE ST6_p1[p] * ST6_p2[p]) % (WordRange * WordRange)

sreg_in(n, p) == CASE n = FLAGS -> FlagsWord(flags[p], p)
                   [] n = MEM_LO -> Low(mem_addr)
                   [] n = MEM_HI -> High(mem_addr)
                   [] n = RESULT_LO -> Low(mult_res[p])
                   [] n = RESULT_HI -> High(mult_res[p])

-----------------------------------------------------------------------------
(* Stage 4: operands, with what the two commands ahead are about to write. *)
RegisterOf(p, n) == IF n \in LoReg THEN lo_regs[p][n]
                    ELSE IF p = 0 THEN hi_regs_out[n] ELSE hi_regs[n]

\* Mutant: no forwarding from stage 6.
st4_rbNoStage6(p) ==
  IF BSreg(ST4) THEN sreg_in(B(ST4), p)
  ELSE IF st5_cond_met(p) /\ WrReg(ST5) /\ ST5.a = B(ST4) THEN st5_res(p)
  ELSE RegisterOf(p, B(ST4))

st4_rb(p) ==
  IF BSreg(ST4) THEN sreg_in(B(ST4), p)
  ELSE IF st5_cond_met(p) /\ WrReg(ST5) /\ ST5.a = B(ST4) THEN st5_res(p)
  ELSE IF ST6_wr_reg[p] /\ ST6_reg = B(ST4) THEN ST6_data[p]
  ELSE RegisterOf(p, B(ST4))

st4_rd(p) == IF ST6_wr_reg[p] /\ ST6_reg = D(ST4) THEN ST6_data[p]
                                                  ELSE RegisterOf(p, D(ST4))

cache_rdata(p) == cache_q[IF Parallel(ST4) THEN p ELSE 0]

st4_p2(p) == CASE P2Type(ST4) = "cache" -> cache_rdata(p)
               [] P2Type(ST4) = "port" -> IF p = 0 THEN port.rdata ELSE 0
               [] P2Type(ST4) = "register" -> st4_rd(p)
               [] P2Type(ST4) = "special" -> sreg_in(D(ST4), p)
               [] P2Type(ST4) = "const" -> ST4.c % WordRange   \* bits of a distance

Operands ==
  /\ ST5_p1' = [p \in PU |-> st4_rb(p)]
  /\ ST5_p2' = [p \in PU |-> st4_p2(p)]
  /\ ST5_add_carry' =
       [p \in PU |-> IF ST4.op \in CarryIn THEN st5_carry(p)
                     ELSE IF ST4.op \in {"RSB", "SUB", "CMP"} THEN 1 ELSE 0]

-----------------------------------------------------------------------------
(* Stages 5 and 6: what the command in ST5 changes, and the register the   *)
(* one before it writes.                                                   *)
WriteBack ==
  /\ lo_regs' = [p \in PU |-> [n \in LoReg |->
                   IF ST6_wr_reg[p] /\ ST6_reg = n THEN ST6_data[p] ELSE lo_regs[p][n]]]
  /\ hi_regs_out' = [n \in HiReg |-> IF ST6_wr_reg[0] /\ ST6_reg = n
                                       THEN ST6_data[0] ELSE hi_regs_out[n]]
  /\ hi_regs' = hi_regs_out
  /\ ST6_wr_reg' = [p \in PU |-> st5_cond_met(p) /\ WrReg(ST5)]
  /\ ST6_reg' = ST5.a
  /\ ST6_data' = [p \in PU |-> st5_res(p)]

\* peripheral_read_ready of one clock ago, peripheral_write_ready of this one.
peripheral_success == IF IsIn(ST5) THEN port.rd_ok ELSE port.wready # {}

SetFlagsOf(p) ==
  IF ~(st5_cond_met(p) /\ SetFlags(ST5)) THEN flags[p]
  ELSE IF OnPort(ST5) /\ p = 0
    THEN [N |-> ~peripheral_success, Z |-> FALSE, V |-> FALSE, C |-> FALSE]
    ELSE [N |-> TopBit(st5_res(p)) = 1,
          Z |-> st5_res(p) = 0,
          V |-> (TopBit(st5_res(p)) + TopBit(arg1(p)) + TopBit(arg2(p))
                 + st5_carry(p)) % 2 = 1,
          C |-> st5_carry(p) = 1]

ip_plus_1 == (ip + 1) % IpRange

MemAddr ==
  mem_addr' = IF st5_cond_met(0) /\ WrSreg(ST5) /\ ST5.a = MEM_LO
                THEN High(mem_addr) * WordRange + st5_mov_res(0)
              ELSE IF st5_cond_met(0) /\ WrSreg(ST5) /\ ST5.a = MEM_HI
                THEN st5_mov_res(0) * WordRange + Low(mem_addr)
              ELSE IF st5_cond_met(0) /\ ST5.op \in Jumps /\ ST5.link /\ ST5.rel
                THEN 2 * ip_plus_1
              ELSE mem_addr

Multiply ==
  /\ mult_res' = [p \in PU |->
       IF ST7_wmul[p] THEN High(mult_res[p]) * WordRange
                           + ((Low(product(p)) + High(mult_res[p])) % WordRange)
       ELSE IF ST6_op[p] \in Multiplications THEN product(p)
       ELSE IF st5_cond_met(p) /\ ST5.op \in {"SHL", "SHR"}
         THEN High(mult_res[p]) * WordRange + shift_res(p)
       ELSE mult_res[p]]
  /\ ST6_op' = [p \in PU |-> IF st5_cond_met(p) /\ ST5.op \in Multiplications
                               THEN ST5.op ELSE "NOP"]
  /\ ST7_wmul' = [p \in PU |-> ST6_op[p] = "WMUL"]
  /\ ST6_p1' = [p \in PU |-> IF ST6_op[p] = "WMUL" THEN ST6_p1[p] ELSE ST5_p1[p]]
  /\ ST6_p2' = [p \in PU |-> IF ST6_op[p] = "WMUL" THEN High(mult_res[p]) ELSE arg2(p)]

\* Mutant: a transfer starts whether its condition is met or not.
ExecuteAlways == /\ flags' = [p \in PU |-> SetFlagsOf(p)]
                 /\ MemAddr
                 /\ Multiply
                 /\ sdram' = [start |-> ST5.op = "RW", wren |-> ST5.set,
                              cell |-> ST5_p1[0], count |-> ST5_p2[0]]

Execute == /\ flags' = [p \in PU |-> SetFlagsOf(p)]
           /\ MemAddr
           /\ Multiply
           /\ sdram' = [start |-> ST5.op = "RW" /\ st5_cond_met(0), wren |-> ST5.set,
                        cell |-> ST5_p1[0], count |-> ST5_p2[0]]

-----------------------------------------------------------------------------
(* The address register, the cache. *)
CacheIndex(addr) == addr % CacheSize
LineStart(addr) == CacheIndex(addr) - (CacheIndex(addr) % N)

AddressRegister ==
  ST3_reg_r' = IF st5_cond_met(0) /\ WrReg(ST5) /\ ST5.a = ST2.r THEN st5_res(0)
               ELSE IF ST6_wr_reg[0] /\ ST6_reg = ST2.r THEN ST6_data[0]
               ELSE RegisterOf(0, ST2.r)

core_raddr == (ST3_reg_r + ST3.off) % WordRange

CacheRead == cache_q' = [p \in PU |-> IF p = 0 THEN cache[CacheIndex(core_raddr)]
                                               ELSE cache[LineStart(core_raddr) + p]]

\* The PU whose word goes into lane l of the line, if any.
Source(l) == IF cache_waddr % N = 0 THEN {p \in cache_wen : p = l}
             ELSE {p \in cache_wen : p = 0 /\ l = cache_waddr % N}

\* Mutant: one stage too few between the address and the store.
CacheWriteEarly ==
  /\ cache' = [x \in 0 .. CacheSize - 1 |->
       IF x - (x % N) = LineStart(ST5_waddr) /\ Source(x % N) # {}
         THEN cache_wdata[CHOOSE p \in Source(x % N) : TRUE] ELSE cache[x]]
  /\ cache_wen' = {p \in PU : WrCache(ST5) /\ st5_cond_met(p)
                              /\ (p = 0 \/ Parallel(ST5))}
  /\ cache_wdata' = [p \in PU |-> st5_res(p)]
  /\ ST4_waddr' = core_raddr
  /\ ST5_waddr' = ST4_waddr
  /\ cache_waddr' = ST5_waddr

CacheWrite ==
  /\ cache' = [x \in 0 .. CacheSize - 1 |->
       IF x - (x % N) = LineStart(cache_waddr) /\ Source(x % N) # {}
         THEN cache_wdata[CHOOSE p \in Source(x % N) : TRUE] ELSE cache[x]]
  /\ cache_wen' = {p \in PU : WrCache(ST5) /\ st5_cond_met(p)
                              /\ (p = 0 \/ Parallel(ST5))}
  /\ cache_wdata' = [p \in PU |-> st5_res(p)]
  /\ ST4_waddr' = core_raddr
  /\ ST5_waddr' = ST4_waddr
  /\ cache_waddr' = ST5_waddr

-----------------------------------------------------------------------------
(* The I/O bus: the address is set as a command enters ST3, an input is    *)
(* requested from ST3, an output from ST4 with its data in ST5.            *)
Room(addr) == Len(port.log[addr]) < PortRoom[addr]

\* Mutant: the address is held until the command is in stage 4.
PeripheralBusLate ==
  /\ port_address' = IF OnPort(ST3) THEN PortOf(ST3) ELSE port_address
  /\ port' = [rdata  |-> IF IsIn(ST3) THEN PortByte(port_address, port.taken[port_address])
                                      ELSE 0,
              rready |-> IsIn(ST3),
              rd_ok  |-> port.rready,
              taken  |-> IF IsIn(ST3) THEN [port.taken EXCEPT ![port_address] = @ + 1]
                                      ELSE port.taken,
              wready |-> IF IsOut(ST4) /\ Room(port_address) THEN {port_address} ELSE {},
              log    |-> IF port_address \in port.wready /\ Room(port_address)
                           THEN [port.log EXCEPT ![port_address] =
                                   Append(@, st5_mov_res(0))]
                           ELSE port.log]

PeripheralBus ==
  /\ port_address' = IF OnPort(ST2) THEN PortOf(ST2) ELSE port_address
  /\ port' = [rdata  |-> IF IsIn(ST3) THEN PortByte(port_address, port.taken[port_address])
                                      ELSE 0,
              rready |-> IsIn(ST3),
              rd_ok  |-> port.rready,
              taken  |-> IF IsIn(ST3) THEN [port.taken EXCEPT ![port_address] = @ + 1]
                                      ELSE port.taken,
              wready |-> IF IsOut(ST4) /\ Room(port_address) THEN {port_address} ELSE {},
              log    |-> IF port_address \in port.wready /\ Room(port_address)
                           THEN [port.log EXCEPT ![port_address] =
                                   Append(@, st5_mov_res(0))]
                           ELSE port.log]

-----------------------------------------------------------------------------
(* Fetch. *)
\* Mutant: a return takes the address register as it is, in words of memory.
next_ipUnshifted == IF ST5.op \in Jumps /\ st5_cond_met(0)
                      THEN IF ST5.link \/ ST5.rel THEN ST5_ip_plus_const
                                                  ELSE mem_addr % IpRange
                      ELSE ip_plus_1

next_ip == IF ST5.op \in Jumps /\ st5_cond_met(0)
             THEN IF ST5.link \/ ST5.rel THEN ST5_ip_plus_const
                                         ELSE (mem_addr \div 2) % IpRange
             ELSE ip_plus_1

Fetch(next_command) ==
  /\ ST2' = IF drop_line THEN NOP ELSE next_command
  /\ IF ST5.op \in Jumps THEN ip' = next_ip /\ drop_line' = FALSE
     ELSE IF ~drop_line /\ next_command.op # "DJUMP"
       THEN ip' = next_ip /\ UNCHANGED drop_line
       ELSE drop_line' = TRUE /\ UNCHANGED ip

Advance == /\ ST3' = ST2
           /\ ST4' = ST3
           /\ ST5' = ST4
           /\ ST5_ip_plus_const' = IF ST4.op \in Jumps THEN (ip + ST4.c + 1) % IpRange
                                                       ELSE 0

ProcessorClock(next_command) ==
  /\ Fetch(next_command) /\ Advance /\ Operands /\ WriteBack /\ Execute
  /\ AddressRegister /\ CacheRead /\ CacheWrite /\ PeripheralBus

-----------------------------------------------------------------------------
\* Between programs: nothing in the pipeline, registers as a program left them.
ProcessorInit(start, lo, hi, words, fl) ==
  /\ ip = start /\ drop_line = FALSE
  /\ ST2 = NOP /\ ST3 = NOP /\ ST4 = NOP /\ ST5 = NOP
  /\ ST5_ip_plus_const = 0
  /\ ST3_reg_r = lo[0][0] /\ ST4_waddr = lo[0][0] /\ ST5_waddr = lo[0][0]
  /\ cache_waddr = lo[0][0]
  /\ cache = words
  /\ cache_q = [p \in PU |-> words[IF p = 0 THEN CacheIndex(lo[0][0])
                                            ELSE LineStart(lo[0][0]) + p]]
  /\ cache_wen = {} /\ cache_wdata = [p \in PU |-> 0]
  /\ lo_regs = lo /\ hi_regs_out = hi /\ hi_regs = hi
  /\ flags = fl /\ mult_res = [p \in PU |-> 0] /\ mem_addr = 0
  /\ ST5_p1 = [p \in PU |-> lo[p][0]] /\ ST5_p2 = [p \in PU |-> 0]
  /\ ST5_add_carry = [p \in PU |-> 0]
  /\ ST6_wr_reg = [p \in PU |-> FALSE] /\ ST6_reg = 0 /\ ST6_data = [p \in PU |-> 0]
  /\ ST6_op = [p \in PU |-> "NOP"] /\ ST7_wmul = [p \in PU |-> FALSE]
  /\ ST6_p1 = [p \in PU |-> lo[p][0]] /\ ST6_p2 = [p \in PU |-> 0]
  /\ sdram = [start |-> FALSE, wren |-> FALSE, cell |-> lo[0][0], count |-> 0]
  /\ port_address \in Ports
  /\ port = [rdata |-> 0, rready |-> FALSE, rd_ok |-> FALSE,
             taken |-> [d \in Ports |-> 0], wready |-> {},
             log |-> [d \in Ports |-> <<>>]]
=============================================================================
