--------------------------- MODULE InstructionSet ---------------------------
(***************************************************************************)
(* The processor as the manual (doc/miksys.md) describes it to a           *)
(* programmer: commands take effect one after another, and what is visible *)
(* late is visible late.  There is no pipeline here.  A state is a record; *)
(* a suffix k on a field is the value before the last k commands.  Where   *)
(* the manual is silent the comment says so.                               *)
(***************************************************************************)
EXTENDS Instructions

CONSTANTS SharedDelay,   \* commands before the other PUs see a shared register
          PortDelay      \* commands from one port to another

\* The values of the special registers the next command reads.  (Of a flag or
\* of MEM_ADDR that the last command changed it reads the old value: silent.)
Special(m, n, p) == CASE n = FLAGS -> FlagsWord(m.flags1[p], p)
                      [] n = MEM_LO -> Low(m.mem1)
                      [] n = MEM_HI -> High(m.mem1)
                      [] n = RESULT_LO -> m.seen[p][1].lo
                      [] n = RESULT_HI -> m.seen[p][1].hi

\* "If the address register was changed in the last two commands its old value
\* is used"; ALL gives each PU its own cell of a line.
Address(m, cmd) == (m.base2[cmd.r] + cmd.off) % CacheSize
Cell(m, cmd, p) == IF cmd.all THEN Address(m, cmd) + p ELSE Address(m, cmd)

Inverted(cmd, v) == IF cmd.mode = "reg" /\ cmd.inv THEN Not(v) ELSE v

\* The operand of MOV, and the first and the last operand of the others: "if rrrr
\* was changed by the previous command the old value is used"; "if a cell was
\* changed in the last three commands the old value is used".
Moved(m, cmd, p) ==
  CASE cmd.mode = "store" -> IF cmd.spec = "reg" THEN m.regs[p][cmd.a]
                                                 ELSE Special(m, cmd.a, p)
    [] cmd.mode = "load"  -> m.cells3[Cell(m, cmd, p)]
    [] cmd.mode = "const" -> cmd.c
    [] cmd.mode = "reg"   -> Inverted(cmd, IF cmd.f THEN Special(m, cmd.r, p)
                                                    ELSE m.regs[p][cmd.r])
First(m, cmd, p) == IF cmd.mode = "const" /\ cmd.bs THEN Special(m, cmd.b, p)
                                                    ELSE m.regs[p][cmd.b]
Last(m, cmd, p) ==
  CASE cmd.mode = "store" -> IF cmd.op = "MOV" /\ cmd.spec # "reg"
                               THEN Special(m, cmd.a, p) ELSE m.regs1[p][cmd.a]
    [] cmd.mode = "load"  -> m.cells3[Cell(m, cmd, p)]
    [] cmd.mode = "const" -> cmd.c
    [] cmd.mode = "reg"   -> IF cmd.f THEN Special(m, cmd.r, p) ELSE m.regs1[p][cmd.r]

NoRequest == [start |-> FALSE, write |-> FALSE, address |-> 0, cell |-> 0, count |-> 0]

-----------------------------------------------------------------------------
\* The conditions EQ, CS, MI, VS, HI, GE and GT; the even numbers are the opposites.
Holds(fl, k) == \/ k = 1 /\ fl.Z
                \/ k = 2 /\ fl.C
                \/ k = 3 /\ fl.N
                \/ k = 4 /\ fl.V
                \/ k = 5 /\ fl.C /\ ~fl.Z
                \/ k = 6 /\ (fl.N <=> fl.V)
                \/ k = 7 /\ ~fl.Z /\ (fl.N <=> fl.V)
Met(m, cmd, p) ==
  \/ cmd.cond = 0
  \/ /\ cmd.cond \in 1 .. 14
     /\ cmd.cond % 2 = 1 <=> Holds(m.flags[p], (cmd.cond + 1) \div 2)

SignedOf(x) == IF TopBit(x) = 1 THEN x - WordRange ELSE x

\* The exact value of a sum or a difference of x and y.
Exact(cmd, x, y, carry) ==
  CASE cmd.op = "ADD" -> x + y
    [] cmd.op = "ADC" -> x + y + carry
    [] cmd.op \in {"SUB", "CMP"} -> x - y
    [] cmd.op = "SBC" -> x - y - (1 - carry)
    [] cmd.op = "RSB" -> y - x
    [] cmd.op = "RSC" -> y - x - (1 - carry)

Bits(cmd, x, y) ==
  CASE cmd.op \in {"AND", "TST"} -> And(x, y)
    [] cmd.op = "OR"  -> Or(x, y)
    [] cmd.op = "XOR" -> Xor(x, y)
    [] cmd.op = "RGBSHR" -> Darker(y)
    [] cmd.op = "RGBADD" -> Lighter(x, y)

\* Operands, result, carry and flags of a command of the arithmetic group.  (V after
\* a command that is not a sum: silent.)
Left(m, cmd, p) == IF cmd.op = "MOV" /\ cmd.mode \in {"store", "reg"}
                     THEN Moved(m, cmd, p) ELSE First(m, cmd, p)
Right(m, cmd, p) == Inverted(cmd, Last(m, cmd, p))
Total(m, cmd, p) == Exact(cmd, Left(m, cmd, p), Right(m, cmd, p), m.carry[p])
SignedTotal(m, cmd, p) ==
  Exact(cmd, SignedOf(Left(m, cmd, p)), SignedOf(Right(m, cmd, p)), m.carry[p])
Result(m, cmd, p) == IF cmd.op = "MOV" THEN Moved(m, cmd, p)
                     ELSE IF cmd.op \in Sums THEN Total(m, cmd, p) % WordRange
                     ELSE Bits(cmd, Left(m, cmd, p), Right(m, cmd, p))
CarryOut(m, cmd, p) == IF cmd.op \notin Sums THEN 0
                       ELSE IF cmd.op \in {"ADD", "ADC"}
                         THEN IF Total(m, cmd, p) >= WordRange THEN 1 ELSE 0
                       ELSE IF Total(m, cmd, p) >= 0 THEN 1 ELSE 0
Overflow(m, cmd, p) ==
  IF cmd.op \in Sums
    THEN SignedTotal(m, cmd, p) >= 2^(W - 1) \/ SignedTotal(m, cmd, p) < -(2^(W - 1))
    ELSE (TopBit(Result(m, cmd, p)) + TopBit(Left(m, cmd, p)) + TopBit(Right(m, cmd, p)))
         % 2 = 1

-----------------------------------------------------------------------------
(* What one command does to each part of the state. *)
ToCache(cmd) == cmd.op = "CCMOV" \/ (cmd.op \in Arithmetic /\ cmd.mode = "store")
ToSpecial(cmd) ==
  IF cmd.op = "CMOV" THEN cmd.t
  ELSE /\ cmd.op \in Arithmetic \ Tests /\ cmd.mode # "store"
       /\ IF cmd.op = "MOV" THEN cmd.spec = "sreg" ELSE cmd.mode = "reg" /\ cmd.t
ToRegister(cmd) ==
  /\ cmd.op = "CMOV" \/ (cmd.op \in Arithmetic \ Tests /\ cmd.mode # "store")
  /\ ~ToSpecial(cmd) /\ ~IsOut(cmd)

PortNumber(cmd) == IF IsIn(cmd) /\ cmd.mode = "reg" THEN cmd.r ELSE cmd.a
Accepted(m, cmd) == Len(m.log[cmd.a]) < PortRoom[cmd.a]

Value(m, cmd, p) ==
  IF cmd.op \in {"CMOV", "CCMOV"} THEN cmd.c
  ELSE IF IsIn(cmd) THEN PortByte(PortNumber(cmd), m.taken[PortNumber(cmd)])
  ELSE Result(m, cmd, p)

Registers(m, cmd) ==
  [p \in PU |-> [n \in Reg |->
     LET q == IF n \in HiReg THEN 0 ELSE p
     IN IF ToRegister(cmd) /\ n = cmd.a /\ Met(m, cmd, q) THEN Value(m, cmd, q)
                                                          ELSE m.regs[q][n]]]

Writers(m, cmd, x) ==
  {p \in PU : /\ Met(m, cmd, p) /\ (p = 0 \/ (cmd.all /\ cmd.op # "CCMOV"))
              /\ x = Cell(m, cmd, p)}
Cells(m, cmd) ==
  IF ~ToCache(cmd) THEN m.cells
  ELSE [x \in DOMAIN m.cells |->
          IF Writers(m, cmd, x) # {}
            THEN Value(m, cmd, CHOOSE p \in Writers(m, cmd, x) : TRUE) ELSE m.cells[x]]

FlagsAfter(m, cmd, p) ==
  IF ~(cmd.op \in Arithmetic /\ cmd.set /\ Met(m, cmd, p)) THEN m.flags[p]
  ELSE IF (IsIn(cmd) \/ IsOut(cmd)) /\ p = 0
    THEN [N |-> IsOut(cmd) /\ ~Accepted(m, cmd), Z |-> FALSE, V |-> FALSE, C |-> FALSE]
    ELSE [N |-> TopBit(Result(m, cmd, p)) = 1, Z |-> Result(m, cmd, p) = 0,
        V |-> Overflow(m, cmd, p), C |-> CarryOut(m, cmd, p) = 1]

\* MEM_ADDR of a call: the command after the delay slots, as an address in memory.
ReturnAddress(m, cmd) == 2 * ((m.pc + (IF cmd.op = "DJUMP" THEN 1 ELSE 5)) % IpRange)
Memory(m, cmd) ==
  IF ~Met(m, cmd, 0) THEN m.mem
  ELSE IF cmd.op \in Jumps /\ cmd.link /\ cmd.rel THEN ReturnAddress(m, cmd)
  ELSE IF ToSpecial(cmd) /\ cmd.a = MEM_LO
    THEN High(m.mem) * WordRange + Value(m, cmd, 0)
  ELSE IF ToSpecial(cmd) /\ cmd.a = MEM_HI
    THEN Value(m, cmd, 0) * WordRange + Low(m.mem)
  ELSE m.mem

\* The result registers the next four commands see: a shift after one command, a
\* product after two, the low word of a double product after three.
Product(m, cmd, p) ==
  (IF cmd.op = "SMUL" THEN SignedOf(First(m, cmd, p)) * SignedOf(Last(m, cmd, p))
                      ELSE First(m, cmd, p) * Last(m, cmd, p)) % (WordRange * WordRange)
Shifted(m, cmd, p) == IF cmd.op = "SHL" THEN (First(m, cmd, p) * 2^Last(m, cmd, p)) % WordRange
                                        ELSE First(m, cmd, p) \div 2^Last(m, cmd, p)
Seen(m, cmd, p) ==
  [i \in 1 .. 4 |->
     LET later == m.seen[p][IF i = 4 THEN 4 ELSE i + 1]
         product == Product(m, cmd, p)
     IN IF ~Met(m, cmd, p) THEN later
        ELSE IF cmd.op \in {"SHL", "SHR"} /\ i >= 2
          THEN [lo |-> Shifted(m, cmd, p), hi |-> later.hi]
        ELSE IF cmd.op = "WMUL" /\ i = 4
          THEN [lo |-> Low(High(product) + Low(First(m, cmd, p) * m.seen[p][2].hi)),
                hi |-> High(product)]
        ELSE IF cmd.op \in Multiplications /\ i >= 3
          THEN [lo |-> Low(product), hi |-> High(product)]
        ELSE later]

\* "After J, CALL and RET four more commands are executed"; DJ, DCALL and DRET
\* take five clocks instead.
Target(m, cmd) ==
  IF cmd.rel THEN (m.pc + cmd.c + (IF cmd.op = "DJUMP" THEN 1 ELSE 4)) % IpRange
             ELSE (m.mem \div 2) % IpRange
Control(m, cmd) ==
  IF cmd.op \in Jumps /\ Met(m, cmd, 0)
    THEN IF cmd.op = "DJUMP" THEN [pc |-> Target(m, cmd), slots |-> 0, target |-> 0]
         ELSE [pc |-> (m.pc + 1) % IpRange, slots |-> 4, target |-> Target(m, cmd)]
  ELSE IF m.slots = 1 THEN [pc |-> m.target, slots |-> 0, target |-> 0]
  ELSE [pc |-> (m.pc + 1) % IpRange, slots |-> IF m.slots = 0 THEN 0 ELSE m.slots - 1,
        target |-> m.target]

-----------------------------------------------------------------------------
(***************************************************************************)
(* What the manual leaves open.  A processing unit that reads a shared     *)
(* register too soon, or a value only the main one gets, is unknown from   *)
(* then on; a command is Defined unless it makes the whole machine so.     *)
(***************************************************************************)
OperandRegisters(cmd) ==
  IF cmd.op = "MOV"
    THEN CASE cmd.mode = "store" /\ cmd.spec = "reg" -> {cmd.a}
           [] cmd.mode = "reg" /\ cmd.spec # "in" /\ ~cmd.f -> {cmd.r}
           [] OTHER -> {}
  ELSE IF cmd.op \in HasOperand
    THEN (IF cmd.mode = "const" /\ cmd.bs THEN {} ELSE {cmd.b})
         \cup (IF cmd.mode = "store" THEN {cmd.a} ELSE {})
         \cup (IF cmd.mode = "reg" /\ ~cmd.f THEN {cmd.r} ELSE {})
  ELSE {}

Unknown(m, cmd) ==
  IF \/ \E n \in OperandRegisters(cmd) \cap HiReg : m.age[n] <= SharedDelay
     \/ IsIn(cmd) \/ (IsOut(cmd) /\ cmd.set)
    THEN PU \ {0} ELSE m.unknown

\* ALL needs the address of a whole line, and a shift a distance within the word.
Defined(m, cmd) ==
  /\ cmd.all => /\ Address(m, cmd) % N = 0
                /\ ToCache(cmd) => Unknown(m, cmd) = {}
  /\ cmd.op \in {"SHL", "SHR"} => \A p \in PU \ Unknown(m, cmd) : Last(m, cmd, p) < W

\* Words written to a port are lost when it is full; a byte is taken by every IN.
Logged(m, cmd) == IF IsOut(cmd) /\ Accepted(m, cmd)
                    THEN [m.log EXCEPT ![cmd.a] = Append(@, Value(m, cmd, 0))] ELSE m.log
Taken(m, cmd) == IF IsIn(cmd) THEN [m.taken EXCEPT ![PortNumber(cmd)] = @ + 1] ELSE m.taken
Ages(m, cmd) == [n \in HiReg |-> IF ToRegister(cmd) /\ cmd.a = n THEN 1
                                 ELSE IF m.age[n] > SharedDelay THEN m.age[n]
                                 ELSE m.age[n] + 1]
Request(m, cmd) == IF cmd.op = "RW" /\ Met(m, cmd, 0)
                     THEN [start |-> TRUE, write |-> cmd.set, address |-> m.mem,
                           cell |-> First(m, cmd, 0), count |-> Last(m, cmd, 0)]
                     ELSE NoRequest

(***************************************************************************)
(* One command.  A clock that executes none (the five of a DJ) lets what   *)
(* is visible late come one command nearer.                                *)
(***************************************************************************)
Effects(m, cmd) ==
  [m EXCEPT
    !.regs = Registers(m, cmd), !.regs1 = m.regs, !.base2 = m.regs1[0],
    !.cells = Cells(m, cmd), !.cells1 = m.cells, !.cells2 = m.cells1,
    !.cells3 = m.cells2,
    !.flags = [p \in PU |-> FlagsAfter(m, cmd, p)], !.flags1 = m.flags,
    !.mem = Memory(m, cmd), !.mem1 = m.mem,
    !.carry = [p \in PU |-> CarryOut(m, cmd, p)],
    !.seen = [p \in PU |-> Seen(m, cmd, p)],
    !.log = Logged(m, cmd), !.taken = Taken(m, cmd), !.age = Ages(m, cmd),
    !.unknown = Unknown(m, cmd), !.request = Request(m, cmd)]

Step(m, cmd) == LET c == Control(m, cmd)
                IN [Effects(m, cmd) EXCEPT !.pc = c.pc, !.slots = c.slots,
                                           !.target = c.target]
Wait(m) == Effects(m, NOP)

InitialMachine(start, lo, hi, words, fl) ==
  LET regs == [p \in PU |-> [n \in Reg |-> IF n \in LoReg THEN lo[p][n] ELSE hi[n]]]
  IN [pc |-> start, slots |-> 0, target |-> 0,
      regs |-> regs, regs1 |-> regs, base2 |-> regs[0],
      cells |-> words, cells1 |-> words, cells2 |-> words, cells3 |-> words,
      flags |-> fl, flags1 |-> fl, mem |-> 0, mem1 |-> 0,
      carry |-> [p \in PU |-> 0],
      seen |-> [p \in PU |-> [i \in 1 .. 4 |-> [lo |-> 0, hi |-> 0]]],
      log |-> [d \in Ports |-> <<>>], taken |-> [d \in Ports |-> 0],
      age |-> [n \in HiReg |-> SharedDelay + 1], unknown |-> {},
      request |-> NoRequest]
=============================================================================
