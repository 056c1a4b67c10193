------------------------------ MODULE FastCore ------------------------------
(***************************************************************************)
(* The simulator's processor, qt_sim/fastcore.cpp.  One call of handleNext *)
(* is one clock; inside it the stages run from the last to the first, each *)
(* on what the later ones left.  The object is a record, a stage a         *)
(* function from such records to such records, and handleNext their        *)
(* composition.  The command fetched is a parameter.                       *)
(***************************************************************************)
EXTENDS Instructions

CONSTANT MemorySize      \* words of main memory

\* Commands as the stages decode them.
MovArg1(cmd) == cmd.op = "MOV" /\ cmd.mode \in {"store", "reg"} /\ cmd.spec # "in"
DField(cmd) == IF cmd.mode = "reg" THEN cmd.r ELSE cmd.a
P2Type(cmd) ==
  IF IsIn(cmd) THEN "port"
  ELSE IF cmd.op \notin HasOperand THEN "const"
  ELSE IF cmd.mode = "store"
    THEN IF cmd.op = "MOV" /\ cmd.spec \in {"sreg", "out"} THEN "special" ELSE "register"
  ELSE IF cmd.mode = "load" THEN "cache"
  ELSE IF cmd.mode = "const" THEN "const"
  ELSE IF cmd.f THEN "special" ELSE "register"
Inv2(cmd) == /\ cmd.op \in Arithmetic
             /\ (cmd.op \in {"SUB", "CMP", "SBC"}) # (cmd.mode = "reg" /\ cmd.inv)
Inv1(cmd) == IF MovArg1(cmd) THEN Inv2(cmd) ELSE cmd.op \in {"RSB", "RSC"}
WrCache(cmd) == cmd.op \in Arithmetic /\ cmd.mode = "store"
Writes(cmd) == cmd.op \in Arithmetic \ Tests /\ ~WrCache(cmd)
WrReg(cmd) == Writes(cmd) /\ IF cmd.op = "MOV" THEN cmd.spec \in {"reg", "in"}
                                               ELSE cmd.mode # "reg" \/ ~cmd.t
WrSreg(cmd) == Writes(cmd) /\ IF cmd.op = "MOV" THEN cmd.spec = "sreg" ELSE ~WrReg(cmd)

check_cond(fl, cond) ==
  \/ cond = 0
  \/ cond = 1 /\ fl.Z
  \/ cond = 2 /\ ~fl.Z
  \/ cond = 3 /\ fl.C
  \/ cond = 4 /\ ~fl.C
  \/ cond = 5 /\ fl.N
  \/ cond = 6 /\ ~fl.N
  \/ cond = 7 /\ fl.V
  \/ cond = 8 /\ ~fl.V
  \/ cond = 9 /\ fl.C /\ ~fl.Z
  \/ cond = 10 /\ (~fl.C \/ fl.Z)
  \/ cond = 11 /\ (fl.N <=> fl.V)
  \/ cond = 12 /\ ~(fl.N <=> fl.V)
  \/ cond = 13 /\ ~fl.Z /\ (fl.N <=> fl.V)
  \/ cond = 14 /\ (fl.Z \/ ~(fl.N <=> fl.V))

-----------------------------------------------------------------------------
(* One word of the transfer READ or WRITE started. *)
\* Mutant: the memory address wraps where the cache's does.
TransferOneAddress(s) ==
  IF s.ram_count = 0 THEN s ELSE
  [s EXCEPT
    !.memory = IF s.ram_write THEN [@ EXCEPT ![s.ram_addr] = s.cache[s.ram_cache_addr]]
                              ELSE @,
    !.cache = IF s.ram_write THEN @
                             ELSE [@ EXCEPT ![s.ram_cache_addr] = s.memory[s.ram_addr]],
    !.ram_addr = (@ + 1) % CacheSize,
    !.ram_cache_addr = (@ + 1) % CacheSize,
    !.ram_count = @ - 1]

Transfer(s) ==
  IF s.ram_count = 0 THEN s ELSE
  [s EXCEPT
    !.memory = IF s.ram_write THEN [@ EXCEPT ![s.ram_addr] = s.cache[s.ram_cache_addr]]
                              ELSE @,
    !.cache = IF s.ram_write THEN @
                             ELSE [@ EXCEPT ![s.ram_cache_addr] = s.memory[s.ram_addr]],
    !.ram_addr = (@ + 1) % MemorySize,
    !.ram_cache_addr = (@ + 1) % CacheSize,
    !.ram_count = @ - 1]

(***************************************************************************)
(* The multiplier and shifter results, the copies of the shared registers  *)
(* (of PU 0, after its own write) and the write of stage 6.                *)
(***************************************************************************)
MulStage(s) ==
  LET result == [p \in PU |-> IF s.st7_mul[p] THEN s.st7_result[p]
                              ELSE IF s.st6_shift[p]
                                THEN [s.result[p] EXCEPT !.lo = s.st6_shift_result[p]]
                              ELSE s.result[p]]
  IN [s EXCEPT
       !.result = result,
       !.st7_result = s.st6_result,
       !.st6_result = [p \in PU |-> IF s.st6_wmul[p]
            THEN [s.st6_result[p] EXCEPT !.lo = (s.st6_result[p].hi
                                       + s.p1_st6[p] * result[p].hi) % WordRange]
            ELSE s.st6_result[p]],
       !.st7_mul = s.st6_mul,
       !.st6_mul = s.st6_wmul,
       !.st6_wmul = [p \in PU |-> FALSE],
       !.st6_shift = [p \in PU |-> FALSE]]

SharedAfterWrite(s, n) == IF s.st6_wr_reg[0] /\ s.st6_reg = n THEN s.st6_data[0]
                                                              ELSE s.regs[0][n]

\* Mutant: every unit gets the result of the main one.
Stage6Broadcast(s) ==
  [s EXCEPT
    !.regs = [p \in PU |-> [n \in Reg |->
                IF s.st6_wr_reg[p] /\ s.st6_reg = n THEN s.st6_data[0]
                ELSE IF n \in HiReg THEN SharedAfterWrite(s, n)
                ELSE s.regs[p][n]]],
    !.st6_wr_reg = [p \in PU |-> FALSE]]

Stage6(s) ==
  [s EXCEPT
    !.regs = [p \in PU |-> [n \in Reg |->
                IF s.st6_wr_reg[p] /\ s.st6_reg = n THEN s.st6_data[p]
                ELSE IF n \in HiReg THEN SharedAfterWrite(s, n)
                ELSE s.regs[p][n]]],
    !.st6_wr_reg = [p \in PU |-> FALSE]]

-----------------------------------------------------------------------------
(* Stage 5. *)
Args(s) == [s EXCEPT
  !.cond_met = [p \in PU |-> check_cond(s.flags[p], s.st5.cond)],
  !.p1 = [p \in PU |-> IF Inv1(s.st5) THEN Not(s.p1[p]) ELSE s.p1[p]],
  !.p2 = [p \in PU |-> IF Inv2(s.st5) THEN Not(s.p2[p]) ELSE s.p2[p]]]

JumpTarget(s) ==
  IF s.st5.rel THEN s.ip + s.st5.c + (IF s.st5.op = "DJUMP" THEN 1 ELSE 0)
               ELSE s.mem_hi * 2^(W - 1) + s.mem_lo \div 2

\* The units whose condition is met.
Enabled(s) == {p \in PU : s.cond_met[p]}

Jump(s) == IF ~s.cond_met[0] THEN s ELSE
  [s EXCEPT !.next_ip = JumpTarget(s),
            !.mem_lo = IF s.st5.link THEN Low(2 * (s.ip + 1)) ELSE @,
            !.mem_hi = IF s.st5.link THEN High(2 * (s.ip + 1)) ELSE @]

StartTransfer(s) == IF ~s.cond_met[0] THEN s ELSE
  [s EXCEPT !.ram_count = s.p2[0],
            !.ram_cache_addr = s.p1[0] % CacheSize,
            !.ram_addr = (s.mem_hi * WordRange + s.mem_lo) % MemorySize,
            !.ram_write = s.st5.set]

\* Writes of a special register: only those of PU 0 are used.
PutSpecial(s, n, v) == CASE n = MEM_LO -> [s EXCEPT !.mem_lo = v]
                         [] n = MEM_HI -> [s EXCEPT !.mem_hi = v]
                         [] OTHER -> s

LoadConstant(s) ==
  IF s.st5.t THEN IF s.cond_met[0] THEN PutSpecial(s, s.st5.a, s.p2[0]) ELSE s
  ELSE [s EXCEPT !.regs = [p \in PU |-> [n \in Reg |->
                             IF p \in Enabled(s) /\ n = s.st5.a THEN s.p2[0]
                                                                ELSE s.regs[p][n]]]]

CacheConstant(s) == IF ~s.cond_met[0] THEN s ELSE
  [s EXCEPT !.cache = [@ EXCEPT ![(s.st5_reg_r + s.st5.off) % CacheSize] = s.p2[0]]]

\* The words are shifted as integers of two, by a distance the machine the simulator
\* runs on takes modulo their width.
Shifted(s, p) ==
  LET distance == s.p2[p] % (2 * W)
  IN IF distance >= W THEN 0
     ELSE IF s.st5.op = "SHL" THEN (s.p1[p] * 2^distance) % WordRange
     ELSE s.p1[p] \div 2^distance

Shift(s) ==
  [s EXCEPT
    !.st6_shift = [p \in PU |-> p \in Enabled(s) \/ s.st6_shift[p]],
    !.st6_shift_result = [p \in PU |-> IF p \in Enabled(s) THEN Shifted(s, p)
                                                           ELSE s.st6_shift_result[p]]]

Short(x) == IF TopBit(x) = 1 THEN x - WordRange ELSE x
Product(s, p) == (IF s.st5.op = "SMUL" THEN Short(s.p1[p]) * Short(s.p2[p])
                                       ELSE s.p1[p] * s.p2[p]) % (WordRange * WordRange)

Multiply(s) ==
  [s EXCEPT
    !.st6_wmul = [p \in PU |-> (p \in Enabled(s) /\ s.st5.op = "WMUL") \/ s.st6_wmul[p]],
    !.p1_st6 = [p \in PU |-> IF p \in Enabled(s) THEN s.p1[p] ELSE s.p1_st6[p]],
    !.st6_result = [p \in PU |-> IF p \in Enabled(s) THEN [lo |-> Low(Product(s, p)),
                                                           hi |-> High(Product(s, p))]
                                                     ELSE s.st6_result[p]],
    !.st6_mul = [p \in PU |-> p \in Enabled(s) \/ s.st6_mul[p]]]

\* The result of PU p with the carry above it, and the bytes of a port.
Sum(s, p) ==
  LET op == s.st5.op
      x == s.p1[p]
      y == s.p2[p]
  IN CASE op \in {"AND", "TST"} -> And(x, y)
       [] op = "OR"  -> Or(x, y)
       [] op = "XOR" -> Xor(x, y)
       [] op = "RGBSHR" -> Darker(y)
       [] op = "RGBADD" -> LighterWrapped(x, y)
       [] op \in Sums -> x + y + IF op \in CarryIn THEN s.st5_carry[p]
                                 ELSE IF op = "ADD" THEN 0 ELSE 1
       [] OTHER -> IF MovArg1(s.st5) THEN x ELSE y

FlagsOf(s, p, sum, written) ==
  IF s.p2type = "port" \/ IsOut(s.st5)
    THEN [N |-> IF IsOut(s.st5) THEN ~(p = 0 /\ written) ELSE ~s.rd_ok,
          Z |-> FALSE, V |-> FALSE, C |-> FALSE]
    ELSE LET res == sum % WordRange
             carry == sum \div WordRange
         IN [N |-> TopBit(res) = 1, Z |-> res = 0, C |-> carry = 1,
             V |-> (TopBit(res) + TopBit(s.p1[p]) + TopBit(s.p2[p]) + carry) % 2 = 1]

\* The cell PU p writes; the line is rotated so that PU 0 gets the cell addressed.
CellOf(addr, p) == LET cell == addr % CacheSize
                   IN cell - (cell % N) + ((cell + p) % N)

Written(s) == /\ IsOut(s.st5) /\ 0 \in Enabled(s)
              /\ Len(s.log[s.peripheralAddr]) < PortRoom[s.peripheralAddr]
Storing(s, x) ==
  {p \in Enabled(s) : /\ WrCache(s.st5) /\ (p = 0 \/ s.st5.all)
                     /\ x = CellOf(s.st5_reg_r + s.st5.off, p)}
Res(s, p) == Sum(s, p) % WordRange
Logged(s) == [s.log EXCEPT ![s.peripheralAddr] = Append(@, Res(s, 0))]

Arith(s) ==
  LET t == [s EXCEPT
             !.st5_carry = [p \in PU |-> IF p \in Enabled(s) THEN Sum(s, p) \div WordRange
                                                             ELSE s.st5_carry[p]],
             !.st6_data = [p \in PU |-> IF p \in Enabled(s) THEN Res(s, p) ELSE s.st6_data[p]],
             !.st6_wr_reg = [p \in PU |-> p \in Enabled(s) /\ WrReg(s.st5)],
             !.st6_reg = IF Enabled(s) = {} THEN @ ELSE s.st5.a,
             !.log = IF Written(s) THEN Logged(s) ELSE @,
             !.cache = [x \in 0 .. CacheSize - 1 |->
                          IF Storing(s, x) # {}
                            THEN Res(s, CHOOSE p \in Storing(s, x) : TRUE) ELSE s.cache[x]],
             !.flags = [p \in PU |-> IF p \in Enabled(s) /\ s.st5.set
                                       THEN FlagsOf(s, p, Sum(s, p), Written(s))
                                       ELSE s.flags[p]]]
  IN IF WrSreg(s.st5) /\ 0 \in Enabled(s) THEN PutSpecial(t, s.st5.a, Res(s, 0)) ELSE t

Stage5(s0) ==
  LET s == Args([s0 EXCEPT !.next_ip = s0.ip + 1])
      op == s.st5.op
  IN IF op \in Jumps THEN Jump(s)
     ELSE IF op = "RW" THEN StartTransfer(s)
     ELSE IF op = "CMOV" THEN LoadConstant(s)
     ELSE IF op = "CCMOV" THEN CacheConstant(s)
     ELSE IF op \in {"SHL", "SHR"} THEN Shift(s)
     ELSE IF op \in Multiplications THEN Multiply(s)
     ELSE IF op \in Arithmetic THEN Arith(s)
     ELSE s

-----------------------------------------------------------------------------
(* Stages 4 to 1. *)
sreg_in(s, n, p) == CASE n = FLAGS -> FlagsWord(s.flags[p], p)
                      [] n = MEM_LO -> s.in_mem_lo
                      [] n = MEM_HI -> s.in_mem_hi
                      [] n = RESULT_LO -> s.result[p].lo
                      [] n = RESULT_HI -> s.result[p].hi

Stage4(s) ==
  LET cmd == s.st4
      mov_arg1 == MovArg1(cmd)
      p2type == P2Type(cmd)
      d == DField(cmd)
      b == IF mov_arg1 THEN d ELSE cmd.b
      bsreg == IF mov_arg1 THEN p2type = "special" ELSE cmd.mode = "const" /\ cmd.bs
      port == IF IsIn(cmd) /\ cmd.mode = "reg" THEN cmd.r
              ELSE IF IsIn(cmd) \/ IsOut(cmd) THEN cmd.a ELSE s.peripheralAddr
  IN [s EXCEPT
       !.st5 = cmd,
       !.st5_reg_r = s.st4_reg_r,
       !.p2type = p2type,
       !.peripheralAddr = port,
       !.rd_ok = IF IsIn(cmd) THEN TRUE ELSE @,
       !.taken = IF IsIn(cmd) THEN [@ EXCEPT ![port] = s.taken[port] + 1] ELSE @,
       !.p1 = [p \in PU |-> IF bsreg THEN sreg_in(s, b, p)
                            ELSE IF s.st6_wr_reg[p] /\ s.st6_reg = b THEN s.st6_data[p]
                            ELSE s.regs[p][b]],
       !.p2 = [p \in PU |-> CASE p2type = "port" -> IF p = 0 THEN PortByte(port, s.taken[port])
                                                            ELSE s.p2[p]
                              [] p2type = "register" -> s.regs[p][d]
                              [] p2type = "special" -> sreg_in(s, d, p)
                              [] p2type = "const" -> cmd.c % WordRange
                              [] p2type = "cache" -> s.st4_from_cache[p]]]

Stages32(s) ==
  LET cmd == s.st2
      r == IF s.st6_wr_reg[0] /\ s.st6_reg = cmd.r THEN s.st6_data[0] ELSE s.regs[0][cmd.r]
      addr == r + cmd.off
  IN [s EXCEPT
       !.st4 = s.st3, !.st4_reg_r = s.st3_reg_r,
       !.st3 = cmd, !.st3_reg_r = r,
       !.st4_from_cache = s.st3_from_cache,
       !.st3_from_cache = [p \in PU |-> s.cache[CellOf(addr, IF cmd.all THEN p ELSE 0)]]]

\* Mutant: a jump without delay slots drops one command too few.
Stage1DropsThree(s, command) ==
  LET drop_mode == IF s.drop_mode > 0 THEN s.drop_mode - 1
                   ELSE IF command.op = "DJUMP" THEN 3 ELSE 0
  IN [s EXCEPT !.st2 = IF s.drop_mode > 0 THEN NOP ELSE command,
               !.drop_mode = drop_mode,
               !.ip = IF drop_mode = 0 THEN s.next_ip % IpRange ELSE @]

Stage1(s, command) ==
  LET drop_mode == IF s.drop_mode > 0 THEN s.drop_mode - 1
                   ELSE IF command.op = "DJUMP" THEN 4 ELSE 0
  IN [s EXCEPT !.st2 = IF s.drop_mode > 0 THEN NOP ELSE command,
               !.drop_mode = drop_mode,
               !.ip = IF drop_mode = 0 THEN s.next_ip % IpRange ELSE @]

ReadMemAddr(s) == [s EXCEPT !.in_mem_lo = s.mem_lo, !.in_mem_hi = s.mem_hi]

handleNext(s, command) ==
  Stage1(Stages32(Stage4(Stage5(Stage6(MulStage(Transfer(ReadMemAddr(s))))))), command)

-----------------------------------------------------------------------------
\* The object between programs: nothing in the pipeline.
InitialCore(start, lo, hi, words, fl, memory) ==
  [ip |-> start, next_ip |-> start, drop_mode |-> 0,
   st2 |-> NOP, st3 |-> NOP, st4 |-> NOP, st5 |-> NOP,
   st3_reg_r |-> 0, st4_reg_r |-> 0, st5_reg_r |-> 0,
   regs |-> [p \in PU |-> [n \in Reg |-> IF n \in LoReg THEN lo[p][n] ELSE hi[n]]],
   flags |-> fl, st5_carry |-> [p \in PU |-> 0],
   mem_lo |-> 0, mem_hi |-> 0, in_mem_lo |-> 0, in_mem_hi |-> 0,
   p1 |-> [p \in PU |-> 0], p2 |-> [p \in PU |-> 0], p2type |-> "const",
   rd_ok |-> FALSE, cond_met |-> [p \in PU |-> TRUE],
   st6_reg |-> 0, st6_wr_reg |-> [p \in PU |-> FALSE], st6_data |-> [p \in PU |-> 0],
   st6_shift |-> [p \in PU |-> FALSE], st6_shift_result |-> [p \in PU |-> 0],
   st6_mul |-> [p \in PU |-> FALSE], st6_wmul |-> [p \in PU |-> FALSE],
   st7_mul |-> [p \in PU |-> FALSE], p1_st6 |-> [p \in PU |-> 0],
   st6_result |-> [p \in PU |-> [lo |-> 0, hi |-> 0]],
   st7_result |-> [p \in PU |-> [lo |-> 0, hi |-> 0]],
   result |-> [p \in PU |-> [lo |-> 0, hi |-> 0]],
   cache |-> words,
   st3_from_cache |-> [p \in PU |-> 0], st4_from_cache |-> [p \in PU |-> 0],
   memory |-> memory, ram_addr |-> 0, ram_cache_addr |-> 0, ram_count |-> 0,
   ram_write |-> FALSE,
   peripheralAddr |-> 0, taken |-> [d \in Ports |-> 0], log |-> [d \in Ports |-> <<>>]]
=============================================================================
