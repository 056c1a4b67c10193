-------------------------- MODULE CoSimulationProofs --------------------------
(***************************************************************************)
(* The pipeline of CU.sv and PU.sv executes commands the way the manual    *)
(* says: Inv of CoSimulationInvariant is inductive.  No property below it  *)
(* is so by itself: what a command leaves in a register depends on         *)
(* operands read, forwarded and multiplied in the clocks before.           *)
(*                                                                         *)
(* One lemma ...Step for each part of Inv says that a clock keeps it.      *)
(*                                                                         *)
(* The second half is about the simulator beside it; it has a comment of   *)
(* its own.                                                                *)
(***************************************************************************)
EXTENDS CoSimulationInvariant, TLAPS

-----------------------------------------------------------------------------
(* Numbers. *)
\* Quotient and remainder, as one fact the provers can use.
LEMMA DivMod ==
  ASSUME NEW r \in Nat \ {0}, NEW x \in Int
  PROVE  /\ x \div r \in Int /\ x % r \in 0 .. r - 1
         /\ x = r * (x \div r) + (x % r)
OBVIOUS
\* ... and that nothing else divides.
LEMMA DivModUnique ==
  ASSUME NEW r \in Nat \ {0}, NEW x \in Int, NEW q \in Int, NEW m \in 0 .. r - 1, x = r * q + m
  PROVE  x \div r = q /\ x % r = m
<1> DEFINE q2 == x \div r
           m2 == x % r
<1>1. q2 \in Int /\ m2 \in 0 .. r - 1 /\ x = r * q2 + m2
  BY DivMod
<1>2. r * (q - q2) = m2 - m
  BY <1>1
<1> HIDE DEF q2, m2
<1>3. ~(q - q2 >= 1)
  BY <1>1, <1>2
<1>4. ~(q - q2 <= -1)
  BY <1>1, <1>2
<1>5. q = q2
  BY <1>1, <1>3, <1>4
<1> QED BY <1>1, <1>2, <1>5 DEF q2, m2
LEMMA Distribute == \A a, b, c \in Int : a * (b + c) = (a * b) + (a * c)
OBVIOUS
LEMMA Associate == \A a, b, c \in Int : (a * b) * c = a * (b * c)
OBVIOUS
\* A sum is reduced once or twice with the same result.
LEMMA ModPlus ==
  ASSUME NEW r \in Nat \ {0}, NEW x \in Int, NEW k \in Int
  PROVE  ((x % r) + k) % r = (x + k) % r
<1> DEFINE y == (x % r) + k
           q == x \div r
           q2 == y \div r
           m == y % r
<1>1. q \in Int /\ x = (r * q) + (x % r) /\ x % r \in Int
  BY DivMod
<1>2. q2 \in Int /\ m \in 0 .. r - 1 /\ y = (r * q2) + m
  BY DivMod, <1>1
<1>3. x + k = (r * q) + y /\ y \in Int
  BY <1>1
<1> HIDE DEF y, q, q2, m
<1>4. r * (q + q2) = (r * q) + (r * q2) /\ r * q \in Int /\ r * q2 \in Int
  BY <1>1, <1>2, Distribute
<1>5. x + k = (r * (q + q2)) + m /\ q + q2 \in Int /\ x + k \in Int
  BY <1>1, <1>2, <1>3, <1>4
<1>6. (x + k) % r = m
  BY <1>2, <1>5, DivModUnique
<1> QED BY <1>6 DEF y, m
\* ... and so is a remainder by a divisor of the modulus.
LEMMA ModMod ==
  ASSUME NEW r \in Nat \ {0}, NEW s \in Nat \ {0}, r % s = 0, NEW x \in Int
  PROVE  (x % r) % s = x % s
<1> DEFINE y == x % r
           k == r \div s
           q == x \div r
           q2 == y \div s
           m == y % s
<1>1. k \in Int /\ r = s * k
  BY DivMod
<1>2. y \in Int /\ q \in Int /\ x = (r * q) + y
  BY DivMod
<1>3. q2 \in Int /\ m \in 0 .. s - 1 /\ y = (s * q2) + m
  BY DivMod, <1>2
<1> HIDE DEF y, k, q, q2, m
<1>4. r * q = s * (k * q) /\ k * q \in Int
  BY <1>1, <1>2, Associate
<1>5. s * ((k * q) + q2) = (s * (k * q)) + (s * q2)
  BY <1>1, <1>2, <1>3, <1>4, Distribute
<1>6. x = (s * ((k * q) + q2)) + m /\ (k * q) + q2 \in Int
  BY <1>1, <1>2, <1>3, <1>4, <1>5
<1>7. x % s = m
  BY <1>3, <1>6, DivModUnique
<1> QED BY <1>7 DEF y, m
\* A quotient is no larger than what is divided.
LEMMA DivBound ==
  ASSUME NEW r \in Nat \ {0}, NEW x \in Nat
  PROVE  x \div r \in 0 .. x
<1>1. x \div r \in Int /\ x % r \in 0 .. r - 1 /\ x = r * (x \div r) + (x % r)
  BY DivMod
<1>2. x \div r >= 0
  BY <1>1
<1>3. r * (x \div r) >= x \div r
  BY <1>1, <1>2
<1> QED BY <1>1, <1>2, <1>3
\* Two words make a pair, and a pair two words.
LEMMA Pair ==
  ASSUME NEW r \in Nat \ {0}, NEW h \in 0 .. r - 1, NEW l \in 0 .. r - 1
  PROVE  /\ h * r + l \in 0 .. r * r - 1
         /\ (h * r + l) \div r = h /\ (h * r + l) % r = l
<1>1. h * r + l = r * h + l /\ h * r + l \in Int
  OBVIOUS
<1>2. (h * r + l) \div r = h /\ (h * r + l) % r = l
  BY <1>1, DivModUnique
<1>3. h * r <= (r - 1) * r
  OBVIOUS
<1>4. (r - 1) * r = r * r - r /\ h * r >= 0
  OBVIOUS
<1> QED BY <1>2, <1>3, <1>4
LEMMA PairBack ==
  ASSUME NEW r \in Nat \ {0}, NEW x \in 0 .. r * r - 1
  PROVE  /\ x \div r \in 0 .. r - 1 /\ x % r \in 0 .. r - 1
         /\ x = (x \div r) * r + (x % r)
<1>1. x \div r \in Int /\ x % r \in 0 .. r - 1 /\ x = r * (x \div r) + (x % r)
  BY DivMod
<1>2. ~(x \div r <= -1)
  BY <1>1
<1>3. x < r * r
  OBVIOUS
<1>4. ~(x \div r >= r)
  <2>1. SUFFICES ASSUME x \div r >= r PROVE FALSE
    OBVIOUS
  <2>2. r * (x \div r) >= r * r
    BY <1>1, <2>1
  <2> QED BY <1>1, <1>3, <2>2
<1> QED BY <1>1, <1>2, <1>4

Half == 2^(W - 1)
\* The constants, as the facts most steps use.
LEMMA Sizes ==
  /\ Half \in Nat \ {0} /\ WordRange = 2 * Half /\ WordRange \in Nat \ {0}
  /\ IpRange \in Nat \ {0}
  /\ N \in Nat \ {0} /\ CacheSize \in Nat \ {0} /\ CacheSize % N = 0
  /\ WordRange % CacheSize = 0
  /\ 0 \in PU /\ 0 \in LoReg /\ Reg \subseteq Nat
<1>1. W - 1 \in 0 .. W - 1 /\ (W - 1) + 1 = W
  BY InstructionsAssumption
<1>2. Half \in Nat \ {0} /\ 2^((W - 1) + 1) = 2 * Half
  BY <1>1, PowersAssumption DEF Half
<1>3. WordRange = 2 * Half
  BY <1>1, <1>2 DEF WordRange
<1> QED BY <1>2, <1>3, InstructionsAssumption DEF PU, Reg, Half

\* Effects and Step of the manual, field by field.
LEMMA EffectsAre ==
  ASSUME NEW m, NEW cmd, DOMAIN m = Fields
  PROVE  LET e == Effects(m, cmd) IN
    /\ DOMAIN e = Fields
    /\ e.pc = m.pc /\ e.slots = m.slots /\ e.target = m.target
    /\ e.regs = Registers(m, cmd) /\ e.regs1 = m.regs /\ e.base2 = m.regs1[0]
    /\ e.cells = Cells(m, cmd) /\ e.cells1 = m.cells /\ e.cells2 = m.cells1
    /\ e.cells3 = m.cells2
    /\ e.flags = [p \in PU |-> FlagsAfter(m, cmd, p)] /\ e.flags1 = m.flags
    /\ e.mem = Memory(m, cmd) /\ e.mem1 = m.mem
    /\ e.carry = [p \in PU |-> CarryOut(m, cmd, p)]
    /\ e.seen = [p \in PU |-> Seen(m, cmd, p)]
    /\ e.log = Logged(m, cmd) /\ e.taken = Taken(m, cmd) /\ e.age = Ages(m, cmd)
    /\ e.unknown = Unknown(m, cmd) /\ e.request = Request(m, cmd)
BY DEF Effects, Fields

LEMMA EffectsGoOn ==
  ASSUME NEW m, NEW cmd, DOMAIN m = Fields
  PROVE  /\ Effects(m, cmd).pc = m.pc
         /\ Effects(m, cmd).slots = m.slots
         /\ Effects(m, cmd).target = m.target
BY DEF Effects, Fields

LEMMA StepAre ==
  ASSUME NEW m, NEW cmd, DOMAIN m = Fields
  PROVE  LET e == Step(m, cmd)
             c == Control(m, cmd) IN
    /\ DOMAIN e = Fields
    /\ e.pc = c.pc /\ e.slots = c.slots /\ e.target = c.target
    /\ \A field \in Fields \ {"pc", "slots", "target"} : e[field] = Effects(m, cmd)[field]
BY EffectsAre, ZenonT(40) DEF Step, Fields

\* The decoder of CU.sv finds what the manual's fields say.
LEMMA Decoded ==
  ASSUME NEW cmd, WellFormed(cmd)
  PROVE  /\ WrReg(cmd) <=> ToRegister(cmd)
         /\ WrSreg(cmd) <=> ToSpecial(cmd)
         /\ WrCache(cmd) <=> ToCache(cmd)
         /\ PortOf(cmd) = PortNumber(cmd)
         /\ IsOut(cmd) => PortOf(cmd) = cmd.a /\ ~IsIn(cmd)
         /\ OnPort(cmd) => cmd.op = "MOV" /\ PortOf(cmd) \in Ports
         /\ IsIn(cmd) => PortOf(cmd) \in Ports
<1>1. cmd.spec \in {"reg", "sreg", "in", "out"}
  BY DEF WellFormed, Commands
<1>2. WrReg(cmd) <=> ToRegister(cmd)
  BY <1>1 DEF WrReg, ToRegister, ToSpecial, Writes, Mov, IsOut, Arithmetic, Sums
<1>3. WrSreg(cmd) <=> ToSpecial(cmd)
  BY <1>1 DEF WrSreg, ToSpecial, Writes, Mov, Arithmetic, Sums
<1>4. WrCache(cmd) <=> ToCache(cmd)
  BY DEF WrCache, ToCache
<1>5. PortOf(cmd) = PortNumber(cmd)
  BY DEF PortOf, PortNumber
<1> QED BY <1>2, <1>3, <1>4, <1>5 DEF WellFormed, OnPort, IsIn, IsOut, PortOf

\* The command that fills an empty stage.
LEMMA NopDecoded ==
  /\ WellFormed(NOP) /\ ~OnPort(NOP) /\ ~IsIn(NOP) /\ ~IsOut(NOP)
  /\ NOP.op = "NOP" /\ NOP.op \notin Jumps
<1>1. NOP.op = "NOP" /\ NOP.op \notin Jumps /\ NOP.op \notin HasOperand /\ NOP.op \notin Arithmetic
  BY DEF NOP, Jumps, HasOperand, Arithmetic, Slow, Sums, Multiplications
<1>2. ~OnPort(NOP) /\ ~IsIn(NOP) /\ ~IsOut(NOP)
  BY <1>1 DEF OnPort, IsIn, IsOut
<1>3. ~BSreg(NOP) /\ P2Type(NOP) # "special"
  BY <1>1, <1>2 DEF BSreg, P2Type, MovArg1, Mov, NOP
<1>4. NOP \in Commands
  BY Sizes DEF NOP, Commands, Operations, Reg
<1>5. NOP.c = 0 /\ 0 \in Word /\ ~NOP.link /\ ~NOP.all
  BY Sizes DEF NOP, Word
<1> QED BY <1>1, <1>2, <1>3, <1>4, <1>5 DEF WellFormed

\* The fifteen conditions, as the units and as the manual have them.
LEMMA Conditions ==
  ASSUME NEW p \in PU, flags[p] = isa.flags[p], flags[p] \in Flags, ST5.cond \in 0 .. 15
  PROVE  st5_cond_met(p) <=> Met(isa, ST5, p)
<1> DEFINE fl == flags[p]
<1>1. fl.N \in BOOLEAN /\ fl.Z \in BOOLEAN /\ fl.V \in BOOLEAN /\ fl.C \in BOOLEAN
  BY DEF Flags
<1>2. CASE ST5.cond \in {0, 15}
  BY <1>2 DEF st5_cond_met, Met, Holds
<1>3. CASE ST5.cond \in {1, 2}
  BY <1>1, <1>3 DEF st5_cond_met, Met, Holds
<1>4. CASE ST5.cond \in {3, 4}
  BY <1>1, <1>4 DEF st5_cond_met, Met, Holds
<1>5. CASE ST5.cond \in {5, 6}
  BY <1>1, <1>5 DEF st5_cond_met, Met, Holds
<1>6. CASE ST5.cond \in {7, 8}
  BY <1>1, <1>6 DEF st5_cond_met, Met, Holds
<1>7. CASE ST5.cond \in {9, 10}
  BY <1>1, <1>7 DEF st5_cond_met, Met, Holds
<1>8. CASE ST5.cond \in {11, 12}
  BY <1>1, <1>8 DEF st5_cond_met, Met, Holds
<1>9. CASE ST5.cond \in {13, 14}
  BY <1>1, <1>9 DEF st5_cond_met, Met, Holds
<1> QED BY <1>2, <1>3, <1>4, <1>5, <1>6, <1>7, <1>8, <1>9

-----------------------------------------------------------------------------
(* Words and their top bits. *)
LEMMA TopBits ==
  \A x \in Word : /\ TopBit(x) = IF x >= Half THEN 1 ELSE 0
                  /\ Not(x) \in Word
<1> SUFFICES ASSUME NEW x \in Word
             PROVE  TopBit(x) = (IF x >= Half THEN 1 ELSE 0) /\ Not(x) \in Word
  OBVIOUS
<1>1. x \in Int /\ x >= 0 /\ x < 2 * Half
  BY Sizes DEF Word
<1>2. CASE x >= Half
  <2>1. x = Half * 1 + (x - Half) /\ x - Half \in 0 .. Half - 1
    BY <1>1, <1>2, Sizes
  <2>2. x \div Half = 1
    BY <1>1, <2>1, DivModUnique, Sizes
  <2> QED BY <1>1, <1>2, <2>2, Sizes DEF TopBit, Not, Half, Word
<1>3. CASE x < Half
  <2>1. x = Half * 0 + x /\ x \in 0 .. Half - 1
    BY <1>1, <1>3, Sizes
  <2>2. x \div Half = 0
    BY <1>1, <2>1, DivModUnique, Sizes
  <2> QED BY <1>1, <1>3, <2>2, Sizes DEF TopBit, Not, Half, Word
<1> QED BY <1>1, <1>2, <1>3, Sizes

\* The adder: a sum of two words and a carry has one bit more than a word.
LEMMA SumBits ==
  \A s \in 0 .. (2 * WordRange) - 1 :
    /\ s % WordRange = IF s < WordRange THEN s ELSE s - WordRange
    /\ s \div WordRange = IF s < WordRange THEN 0 ELSE 1
    /\ s % WordRange \in Word
<1> TAKE s \in 0 .. (2 * WordRange) - 1
<1>1. CASE s < WordRange
  <2>1. s = WordRange * 0 + s /\ s \in 0 .. WordRange - 1
    BY <1>1, Sizes
  <2> QED BY <1>1, <2>1, DivModUnique, Sizes DEF Word
<1>2. CASE ~(s < WordRange)
  <2>1. s = WordRange * 1 + (s - WordRange) /\ s - WordRange \in 0 .. WordRange - 1
    BY <1>2, Sizes
  <2> QED BY <1>2, <2>1, DivModUnique, Sizes DEF Word
<1> QED BY <1>1, <1>2

LEMMA WordBits == \A s \in Word : s % WordRange = s /\ s \div WordRange = 0
<1> TAKE s \in Word
<1>1. s \in 0 .. (2 * WordRange) - 1 /\ s < WordRange
  BY Sizes DEF Word
<1> QED BY <1>1, SumBits

-----------------------------------------------------------------------------
(* The operands of the command in stage 5. *)
Seeing == PU \ Unknown(isa, ST5)

\* Unit 0 is always known; nothing unknown becomes known.
LEMMA KnownShrinks ==
  ASSUME MachineTypes
  PROVE  /\ Unknown(isa, ST5) \in SUBSET (PU \ {0}) /\ Seeing \subseteq Known
         /\ 0 \in Seeing /\ 0 \in Known
BY Sizes DEF MachineTypes, Unknown, Known, Seeing

\* A unit that stays known reads no shared register that is too young.
LEMMA OperandReadable ==
  ASSUME MachineTypes, NEW p \in Seeing, NEW n \in OperandRegisters(ST5), n \in Reg
  PROVE  Readable(p, n)
<1>1. CASE p = 0
  BY <1>1 DEF Readable
<1>2. CASE p # 0 /\ n \in HiReg
  <2>1. Unknown(isa, ST5) # PU \ {0}
    BY <1>2 DEF Seeing
  <2>2. ~(isa.age[n] <= SharedDelay)
    BY <1>2, <2>1 DEF Unknown
  <2>3. isa.age[n] \in Nat /\ SharedDelay \in Nat
    BY <1>2, CoSimulationAssumption DEF MachineTypes
  <2> QED BY <2>2, <2>3 DEF Readable
<1> QED BY <1>1, <1>2 DEF Reg, Readable

\* What is known of the command itself.
Decodes == /\ PipelineTypes /\ MachineTypes /\ FirstFollows /\ SecondFollows /\ CarryFollows
           /\ AddressesFollow /\ Defined(isa, ST5)

\* The word of the line each unit is given is the cell the manual says.
LEMMA LaneIsCell ==
  ASSUME Decodes, NEW p \in PU, p = 0 \/ ~Parallel(ST5) \/ ST5.all
  PROVE  Lane(ST5, ST5_waddr, p) = Cell(isa, ST5, p)
<1> DEFINE x == isa.base2[ST5.r] + ST5.off
           a == Address(isa, ST5)
<1>1. x \in Int
  <2>1. isa.base2[ST5.r] \in Word
    BY DEF Decodes, AddressesFollow
  <2>2. ST5.off \in Nat
    BY DEF Decodes, PipelineTypes, WellFormed, Commands
  <2> QED BY <2>1, <2>2 DEF Word
<1>2. CacheIndex(ST5_waddr) = a
  <2>1. ST5_waddr = x % WordRange
    BY DEF Decodes, AddressesFollow
  <2>2. (x % WordRange) % CacheSize = x % CacheSize
    BY <1>1, Sizes, ModMod, ZenonT(40)
  <2> QED BY <2>1, <2>2 DEF CacheIndex, Address
<1>3. a \in Int
  BY <1>1, Sizes, DivMod DEF Address
<1>4. Parallel(ST5) <=> ST5.all
  BY DEF Decodes, PipelineTypes, WellFormed, Parallel
<1>5. ST5.all => a % N = 0
  BY DEF Decodes, Defined
<1> HIDE DEF a
<1>6. CASE ST5.all /\ p # 0
  BY <1>2, <1>3, <1>4, <1>5, <1>6 DEF Lane, Cell, LineStart, PU, a
<1>7. CASE ST5.all /\ p = 0
  BY <1>2, <1>3, <1>7 DEF Lane, Cell, a
<1>8. CASE ~ST5.all
  BY <1>2, <1>4, <1>8 DEF Lane, Cell, a
<1> QED BY <1>6, <1>7, <1>8

\* The operands in stage 5 are those of the manual: the first,
LEMMA FirstIs ==
  ASSUME Decodes, NEW p \in Seeing, ST5.op \in HasOperand, ~MovArg1(ST5)
  PROVE  First(isa, ST5, p) = ST5_p1[p]
<1>1. p \in Known /\ ST5.b \in Reg /\ WellFormed(ST5)
  BY KnownShrinks DEF Decodes, PipelineTypes, WellFormed, Commands
<1>2. B(ST5) = ST5.b /\ (BSreg(ST5) <=> ST5.mode = "const" /\ ST5.bs)
  BY DEF B, BSreg
<1>3. CASE BSreg(ST5)
  BY <1>1, <1>2, <1>3 DEF Decodes, FirstFollows, First
<1>4. CASE ~BSreg(ST5)
  <2>1. Readable(p, ST5.b)
    <3>1. CASE ST5.op = "MOV"
      BY <1>1, <3>1 DEF WellFormed, Readable
    <3>2. CASE ST5.op # "MOV"
      <4>1. ST5.b \in OperandRegisters(ST5)
        BY <1>2, <1>4, <3>2 DEF OperandRegisters
      <4> QED BY <4>1, <1>1, OperandReadable DEF Decodes
    <3> QED BY <3>1, <3>2
  <2> QED BY <1>1, <1>2, <1>4, <2>1 DEF Decodes, FirstFollows, First
<1> QED BY <1>3, <1>4

\* the last,
LEMMA LastIs ==
  ASSUME Decodes, NEW p \in Seeing, ST5.op \in HasOperand, ~IsIn(ST5)
  PROVE  Last(isa, ST5, p) = ST5_p2[p]
<1>1. /\ p \in Known /\ ST5.a \in Reg /\ ST5.r \in Reg
      /\ ST5.mode \in {"store", "load", "const", "reg"}
      /\ ST5.spec \in {"reg", "sreg", "in", "out"}
  BY KnownShrinks DEF Decodes, PipelineTypes, WellFormed, Commands
<1>2. CASE ST5.mode = "store"
  <2>1. D(ST5) = ST5.a
    BY <1>2 DEF D
  <2>2. CASE ST5.op = "MOV" /\ ST5.spec # "reg"
    <3>1. P2Type(ST5) = "special"
      BY <1>1, <1>2, <2>2 DEF P2Type, IsIn, Mov
    <3> QED BY <1>1, <1>2, <2>1, <2>2, <3>1 DEF Decodes, SecondFollows, Last
  <2>3. CASE ~(ST5.op = "MOV" /\ ST5.spec # "reg")
    <3>1. P2Type(ST5) = "register"
      BY <1>2, <2>3 DEF P2Type, IsIn, Mov
    <3>2. ST5.a \in OperandRegisters(ST5)
      BY <1>2, <2>3 DEF OperandRegisters
    <3>3. Readable(p, D(ST5))
      BY <1>1, <2>1, <3>2, OperandReadable DEF Decodes
    <3> QED BY <1>1, <1>2, <2>1, <2>3, <3>1, <3>3 DEF Decodes, SecondFollows, Last
  <2> QED BY <2>2, <2>3
<1>3. CASE ST5.mode = "load"
  <2>1. P2Type(ST5) = "cache"
    BY <1>3 DEF P2Type
  <2>2. p \in PU /\ (p = 0 \/ ~Parallel(ST5) \/ ST5.all)
    BY DEF Parallel, Seeing
  <2> QED BY <1>1, <1>3, <2>1, <2>2, LaneIsCell DEF Decodes, SecondFollows, Last
<1>4. CASE ST5.mode = "const"
  <2>1. P2Type(ST5) = "const"
    BY <1>4 DEF P2Type
  <2>2. ST5.op \notin Jumps
    BY DEF HasOperand, Arithmetic, Sums, Slow, Multiplications, Jumps
  <2> QED BY <1>1, <1>4, <2>1, <2>2 DEF Decodes, SecondFollows, Last
<1>5. CASE ST5.mode = "reg"
  <2>1. D(ST5) = ST5.r
    BY <1>5 DEF D
  <2>2. CASE ST5.f
    <3>1. P2Type(ST5) = "special"
      BY <1>5, <2>2 DEF P2Type
    <3> QED BY <1>1, <1>5, <2>1, <2>2, <3>1 DEF Decodes, SecondFollows, Last
  <2>3. CASE ~ST5.f
    <3>1. P2Type(ST5) = "register"
      BY <1>5, <2>3 DEF P2Type
    <3>2. ST5.r \in OperandRegisters(ST5)
      BY <1>5, <2>3 DEF OperandRegisters, IsIn
    <3>3. Readable(p, D(ST5))
      BY <1>1, <2>1, <3>2, OperandReadable DEF Decodes
    <3> QED BY <1>1, <1>5, <2>1, <2>3, <3>1, <3>3 DEF Decodes, SecondFollows, Last
  <2> QED BY <2>2, <2>3
<1> QED BY <1>1, <1>2, <1>3, <1>4, <1>5

\* and what MOV moves, inverted or not.
LEMMA MovedIs ==
  ASSUME Decodes, NEW p \in Seeing, ST5.op = "MOV", ~IsIn(ST5)
  PROVE  Moved(isa, ST5, p) = st5_mov_res(p)
<1>1. /\ p \in Known /\ ST5.a \in Reg /\ ST5.r \in Reg
      /\ ST5.mode \in {"store", "load", "const", "reg"}
      /\ ST5.spec \in {"reg", "sreg", "in", "out"} /\ ST5.spec # "in"
  BY KnownShrinks DEF Decodes, PipelineTypes, WellFormed, Commands, IsIn
<1>2. ST5.op \in HasOperand /\ ST5.op \in Arithmetic /\ ST5.op \notin {"SUB", "CMP", "SBC"}
  BY DEF HasOperand, Arithmetic
<1>3. Inv2(ST5) <=> ST5.mode = "reg" /\ ST5.inv
  BY <1>2 DEF Inv2
<1>4. CASE ST5.mode = "store"
  <2>1. MovArg1(ST5) /\ D(ST5) = ST5.a /\ ~Inv1(ST5) /\ B(ST5) = ST5.a
    BY <1>1, <1>3, <1>4 DEF MovArg1, Mov, D, Inv1, B
  <2>2. CASE ST5.spec = "reg"
    <3>1. ~BSreg(ST5)
      BY <1>2, <1>4, <2>1, <2>2 DEF BSreg, P2Type, Mov, IsIn
    <3>2. ST5.a \in OperandRegisters(ST5)
      BY <1>4, <2>2 DEF OperandRegisters
    <3>3. Readable(p, ST5.a)
      BY <1>1, <3>2, OperandReadable DEF Decodes
    <3> QED BY <1>1, <1>4, <2>1, <2>2, <3>1, <3>3
            DEF Decodes, FirstFollows, Moved, st5_mov_res, arg1
  <2>3. CASE ST5.spec # "reg"
    <3>1. BSreg(ST5)
      BY <1>1, <1>2, <1>4, <2>1, <2>3 DEF BSreg, P2Type, Mov, IsIn
    <3> QED BY <1>1, <1>4, <2>1, <2>3, <3>1
            DEF Decodes, FirstFollows, Moved, st5_mov_res, arg1
  <2> QED BY <2>2, <2>3
<1>5. CASE ST5.mode = "reg"
  <2>1. MovArg1(ST5) /\ D(ST5) = ST5.r /\ B(ST5) = ST5.r /\ (Inv1(ST5) <=> ST5.inv)
    BY <1>1, <1>3, <1>5 DEF MovArg1, Mov, D, Inv1, B
  <2>2. BSreg(ST5) <=> ST5.f
    BY <1>2, <1>5, <2>1 DEF BSreg, P2Type, Mov, IsIn
  <2>3. ~ST5.f => Readable(p, ST5.r)
    BY <1>1, <1>5, OperandReadable DEF Decodes, OperandRegisters
  <2>4. ST5_p1[p] = IF ST5.f THEN Special(isa, ST5.r, p) ELSE isa.regs[p][ST5.r]
    BY <1>1, <2>1, <2>2, <2>3 DEF Decodes, FirstFollows
  <2> QED BY <1>1, <1>5, <2>1, <2>4 DEF Moved, st5_mov_res, arg1, Inverted
<1>6. CASE ST5.mode \in {"load", "const"}
  <2>1. ~MovArg1(ST5) /\ ~Inv2(ST5)
    BY <1>3, <1>6 DEF MovArg1
  <2>2. Last(isa, ST5, p) = ST5_p2[p]
    BY <1>2, LastIs
  <2> QED BY <1>6, <2>1, <2>2 DEF Moved, Last, st5_mov_res, arg2
<1> QED BY <1>1, <1>4, <1>5, <1>6

-----------------------------------------------------------------------------
(* The arithmetic of stage 5 is the manual's. *)
Subtractions == {"SUB", "CMP", "SBC"}
Reverse == {"RSB", "RSC"}

LEMMA ArgumentsAreWords ==
  ASSUME PipelineTypes, NEW p \in PU
  PROVE  ST5_p1[p] \in Word /\ ST5_p2[p] \in Word /\ arg1(p) \in Word /\ arg2(p) \in Word
<1>1. ST5_p1[p] \in Word /\ ST5_p2[p] \in Word
  BY DEF PipelineTypes
<1> QED BY <1>1, TopBits DEF arg1, arg2

LEMMA NotNot == \A x \in Word : Not(Not(x)) = x
BY Sizes DEF Not, Word

\* What the adder is given is the operand or, to subtract, its complement.
LEMMA LeftIs ==
  ASSUME Decodes, NEW p \in Seeing, ST5.op \in Arithmetic, ~IsIn(ST5)
  PROVE  /\ Left(isa, ST5, p) \in Word
         /\ arg1(p) = IF ST5.op \in Reverse THEN Not(Left(isa, ST5, p)) ELSE Left(isa, ST5, p)
<1>1. /\ p \in PU /\ ST5.mode \in {"store", "load", "const", "reg"}
      /\ ST5.spec \in {"reg", "sreg", "in", "out"}
      /\ ST5_p1[p] \in Word /\ ST5_p2[p] \in Word /\ arg1(p) \in Word /\ arg2(p) \in Word
  BY ArgumentsAreWords DEF Decodes, PipelineTypes, WellFormed, Commands, Seeing
<1>2. ST5.op \in HasOperand
  BY DEF HasOperand
<1>3. CASE ST5.op = "MOV" /\ ST5.mode \in {"store", "reg"}
  <2>1. MovArg1(ST5) /\ ST5.op \notin Reverse
    BY <1>1, <1>3 DEF MovArg1, Mov, IsIn, Reverse
  <2>2. Left(isa, ST5, p) = st5_mov_res(p)
    BY <1>3, MovedIs DEF Left
  <2> QED BY <1>1, <2>1, <2>2 DEF st5_mov_res
<1>4. CASE ~(ST5.op = "MOV" /\ ST5.mode \in {"store", "reg"})
  <2>1. ~MovArg1(ST5) /\ (Inv1(ST5) <=> ST5.op \in Reverse)
    BY <1>1, <1>4 DEF MovArg1, Mov, Inv1, Reverse
  <2>2. Left(isa, ST5, p) = ST5_p1[p]
    BY <1>2, <1>4, <2>1, FirstIs DEF Left
  <2> QED BY <1>1, <2>1, <2>2 DEF arg1
<1> QED BY <1>3, <1>4

LEMMA RightIs ==
  ASSUME Decodes, NEW p \in Seeing, ST5.op \in Arithmetic, ~IsIn(ST5)
  PROVE  /\ Right(isa, ST5, p) \in Word
         /\ arg2(p) = IF ST5.op \in Subtractions THEN Not(Right(isa, ST5, p))
                                                 ELSE Right(isa, ST5, p)
<1>1. p \in PU /\ ST5_p2[p] \in Word
  BY ArgumentsAreWords DEF Decodes, Seeing
<1>2. ST5.op \in HasOperand
  BY DEF HasOperand
<1>3. Last(isa, ST5, p) = ST5_p2[p]
  BY <1>2, LastIs
<1>4. /\ Not(ST5_p2[p]) \in Word /\ Not(Not(ST5_p2[p])) = ST5_p2[p]
  BY <1>1, TopBits, NotNot
<1>5. CASE ST5.mode = "reg" /\ ST5.inv
  <2>1. Right(isa, ST5, p) = Not(ST5_p2[p])
    BY <1>3, <1>5 DEF Right, Inverted
  <2>2. Inv2(ST5) <=> ST5.op \notin Subtractions
    BY <1>5 DEF Inv2, Subtractions
  <2> QED BY <1>1, <1>4, <2>1, <2>2 DEF arg2
<1>6. CASE ~(ST5.mode = "reg" /\ ST5.inv)
  <2>1. Right(isa, ST5, p) = ST5_p2[p]
    BY <1>3, <1>6 DEF Right, Inverted
  <2>2. Inv2(ST5) <=> ST5.op \in Subtractions
    BY <1>6 DEF Inv2, Subtractions
  <2> QED BY <1>1, <1>4, <2>1, <2>2 DEF arg2
<1> QED BY <1>5, <1>6

\* A sum of two words and a carry, as the manual and as the adder have it.
LEMMA AdderIs ==
  ASSUME NEW x \in Word, NEW y \in Word, NEW c \in {0, 1}
  PROVE  LET s == x + y + c IN
         /\ s \in 0 .. (2 * WordRange) - 1
         /\ (SignedOf(x) + SignedOf(y) + c >= Half \/ SignedOf(x) + SignedOf(y) + c < -Half)
              <=> (TopBit(s % WordRange) + TopBit(x) + TopBit(y) + (s \div WordRange)) % 2 = 1
<1> DEFINE s == x + y + c
           r == s % WordRange
           k == s \div WordRange
<1>1. /\ s \in 0 .. (2 * WordRange) - 1 /\ x \in Int /\ y \in Int /\ c \in Int
      /\ x >= 0 /\ y >= 0 /\ x < 2 * Half /\ y < 2 * Half
  BY Sizes DEF Word
<1>2. /\ r = IF s < WordRange THEN s ELSE s - WordRange
      /\ k = IF s < WordRange THEN 0 ELSE 1
      /\ r \in Word
  BY <1>1, SumBits
<1> HIDE DEF r, k
<1>3. /\ TopBit(x) = IF x >= Half THEN 1 ELSE 0
      /\ TopBit(y) = IF y >= Half THEN 1 ELSE 0
      /\ TopBit(r) = IF r >= Half THEN 1 ELSE 0
  BY <1>2, TopBits
<1>4. /\ SignedOf(x) = IF x >= Half THEN x - 2 * Half ELSE x
      /\ SignedOf(y) = IF y >= Half THEN y - 2 * Half ELSE y
  BY <1>3, Sizes DEF SignedOf
<1>5. (SignedOf(x) + SignedOf(y) + c >= Half \/ SignedOf(x) + SignedOf(y) + c < -Half)
              <=> (TopBit(r) + TopBit(x) + TopBit(y) + k) % 2 = 1
  <2>1. CASE x >= Half /\ y >= Half
    <3>1. SignedOf(x) + SignedOf(y) + c = s - 4 * Half /\ k = 1 /\ r = s - 2 * Half
      BY <1>1, <1>2, <1>4, <2>1, Sizes
    <3>2. TopBit(x) = 1 /\ TopBit(y) = 1
      BY <1>3, <2>1
    <3> QED BY <1>1, <1>3, <3>1, <3>2, Sizes
  <2>2. CASE ~(x >= Half) /\ ~(y >= Half)
    <3>1. SignedOf(x) + SignedOf(y) + c = s /\ k = 0 /\ r = s
      BY <1>1, <1>2, <1>4, <2>2, Sizes
    <3>2. TopBit(x) = 0 /\ TopBit(y) = 0
      BY <1>3, <2>2
    <3> QED BY <1>1, <1>3, <3>1, <3>2, Sizes
  <2>3. CASE (x >= Half) # (y >= Half)
    <3>1. SignedOf(x) + SignedOf(y) + c = s - 2 * Half
      BY <1>1, <1>4, <2>3, Sizes
    <3>2. TopBit(x) + TopBit(y) = 1
      BY <1>3, <2>3
    <3>3. ~(s - 2 * Half >= Half) /\ ~(s - 2 * Half < -Half)
      BY <1>1, <2>3, Sizes
    <3>4. TopBit(r) + k = 1
      BY <1>1, <1>2, <1>3, <2>3, Sizes
    <3>5. TopBit(r) \in Int /\ TopBit(x) \in Int /\ TopBit(y) \in Int /\ k \in Int
      BY <1>2, <1>3
    <3>6. TopBit(r) + TopBit(x) + TopBit(y) + k = 2
      BY <3>2, <3>4, <3>5
    <3> QED BY <3>1, <3>3, <3>6
  <2> QED BY <2>1, <2>2, <2>3
<1> QED BY <1>1, <1>5 DEF r, k

\* The complement of a word, read with a sign.
LEMMA SignedNot == \A x \in Word : SignedOf(Not(x)) = -SignedOf(x) - 1
<1> TAKE x \in Word
<1>1. x \in Int /\ Not(x) \in Word /\ Not(x) = 2 * Half - 1 - x /\ Half \in Int
  BY TopBits, Sizes DEF Not, Word
<1>2. /\ TopBit(x) = (IF x >= Half THEN 1 ELSE 0)
      /\ TopBit(Not(x)) = (IF Not(x) >= Half THEN 1 ELSE 0)
  BY <1>1, TopBits
<1> QED BY <1>1, <1>2, Sizes DEF SignedOf

\* A difference that borrows.
LEMMA Borrowed == \A v \in -WordRange .. WordRange - 1 :
  v % WordRange = IF v < 0 THEN v + WordRange ELSE v
<1> TAKE v \in -WordRange .. WordRange - 1
<1>1. CASE v < 0
  <2> DEFINE q == -1
             m == v + WordRange
  <2>1. v = WordRange * q + m /\ m \in 0 .. WordRange - 1 /\ q \in Int /\ v \in Int
    BY <1>1, Sizes
  <2> HIDE DEF q, m
  <2>2. v % WordRange = m
    BY <2>1, DivModUnique, Sizes
  <2> QED BY <1>1, <2>2 DEF m
<1>2. CASE ~(v < 0)
  <2>1. v = WordRange * 0 + v /\ v \in 0 .. WordRange - 1
    BY <1>2, Sizes
  <2> QED BY <1>2, <2>1, DivModUnique, Sizes
<1> QED BY <1>1, <1>2

\* What the manual computes exactly the adder computes with the word's complement.
LEMMA SumIs ==
  ASSUME Decodes, NEW p \in Seeing, ST5.op \in Sums
  PROVE  LET s == arg1(p) + arg2(p) + ST5_add_carry[p]
             t == SignedOf(arg1(p)) + SignedOf(arg2(p)) + ST5_add_carry[p] IN
         /\ Total(isa, ST5, p) % WordRange = s % WordRange
         /\ CarryOut(isa, ST5, p) = s \div WordRange
         /\ SignedTotal(isa, ST5, p) = t
<1> DEFINE x == Left(isa, ST5, p)
           y == Right(isa, ST5, p)
           c == ST5_add_carry[p]
           s == arg1(p) + arg2(p) + c
<1>1. ST5.op \in Arithmetic /\ ~IsIn(ST5) /\ p \in PU /\ p \in Known
  BY KnownShrinks DEF Arithmetic, Sums, IsIn, Seeing, Decodes
<1>2. /\ x \in Word /\ arg1(p) = IF ST5.op \in Reverse THEN Not(x) ELSE x
      /\ y \in Word /\ arg2(p) = IF ST5.op \in Subtractions THEN Not(y) ELSE y
  BY <1>1, LeftIs, RightIs
<1>3. c = (IF ST5.op \in CarryIn THEN isa.carry[p]
           ELSE IF ST5.op \in {"RSB", "SUB", "CMP"} THEN 1 ELSE 0)
  BY <1>1 DEF Decodes, CarryFollows
<1>4. c \in {0, 1}
  BY <1>1 DEF Decodes, PipelineTypes
<1>5. /\ Not(x) \in Word /\ Not(y) \in Word
      /\ Not(x) = WordRange - 1 - x /\ Not(y) = WordRange - 1 - y
      /\ SignedOf(Not(x)) = -SignedOf(x) - 1 /\ SignedOf(Not(y)) = -SignedOf(y) - 1
      /\ SignedOf(x) \in Int /\ SignedOf(y) \in Int /\ x \in Int /\ y \in Int
      /\ x >= 0 /\ y >= 0 /\ x < WordRange /\ y < WordRange /\ WordRange \in Int
  <2>1. SignedOf(x) \in Int /\ SignedOf(y) \in Int
    BY <1>2, TopBits, Sizes DEF SignedOf, Word
  <2> QED BY <1>2, <2>1, TopBits, SignedNot, Sizes DEF Word, Not
<1> HIDE DEF x, y, c
<1>6. CASE ST5.op \in {"ADD", "ADC"}
  <2>1. /\ arg1(p) = x /\ arg2(p) = y
        /\ Total(isa, ST5, p) = s
        /\ SignedTotal(isa, ST5, p) = SignedOf(x) + SignedOf(y) + c
    BY <1>2, <1>3, <1>4, <1>5, <1>6
       DEF Total, SignedTotal, Exact, x, y, Reverse, Subtractions, CarryIn
  <2>2. s \in 0 .. (2 * WordRange) - 1
    BY <1>4, <1>5, <2>1
  <2>3. s \div WordRange = IF s < WordRange THEN 0 ELSE 1
    BY <2>2, SumBits
  <2>4. CarryOut(isa, ST5, p) = IF s >= WordRange THEN 1 ELSE 0
    BY <1>6, <2>1 DEF CarryOut, Sums
  <2>5. CarryOut(isa, ST5, p) = s \div WordRange
    BY <1>5, <2>2, <2>3, <2>4
  <2> QED BY <2>1, <2>5 DEF c
<1>7. CASE ST5.op \in {"SUB", "CMP", "SBC", "RSB", "RSC"}
  <2>1. /\ Total(isa, ST5, p) = s - WordRange
        /\ SignedTotal(isa, ST5, p) = SignedOf(arg1(p)) + SignedOf(arg2(p)) + c
        /\ s \in 0 .. (2 * WordRange) - 1
    <3>1. CASE ST5.op \in {"SUB", "CMP"}
      <4>1. arg1(p) = x /\ arg2(p) = Not(y) /\ c = 1
        BY <1>2, <1>3, <3>1 DEF Reverse, Subtractions, CarryIn
      <4>2. /\ Total(isa, ST5, p) = x - y
            /\ SignedTotal(isa, ST5, p) = SignedOf(x) - SignedOf(y)
        BY <3>1 DEF Total, SignedTotal, Exact, x, y
      <4> QED BY <4>1, <4>2, <1>5
    <3>2. CASE ST5.op = "SBC"
      <4>1. arg1(p) = x /\ arg2(p) = Not(y) /\ c = isa.carry[p]
        BY <1>2, <1>3, <3>2 DEF Reverse, Subtractions, CarryIn
      <4>2. /\ Total(isa, ST5, p) = x - y - (1 - c)
            /\ SignedTotal(isa, ST5, p) = SignedOf(x) - SignedOf(y) - (1 - c)
        BY <3>2, <4>1 DEF Total, SignedTotal, Exact, x, y
      <4> QED BY <4>1, <4>2, <1>5, <1>4
    <3>3. CASE ST5.op = "RSB"
      <4>1. arg1(p) = Not(x) /\ arg2(p) = y /\ c = 1
        BY <1>2, <1>3, <3>3 DEF Reverse, Subtractions, CarryIn
      <4>2. /\ Total(isa, ST5, p) = y - x
            /\ SignedTotal(isa, ST5, p) = SignedOf(y) - SignedOf(x)
        BY <3>3 DEF Total, SignedTotal, Exact, x, y
      <4> QED BY <4>1, <4>2, <1>5
    <3>4. CASE ST5.op = "RSC"
      <4>1. arg1(p) = Not(x) /\ arg2(p) = y /\ c = isa.carry[p]
        BY <1>2, <1>3, <3>4 DEF Reverse, Subtractions, CarryIn
      <4>2. /\ Total(isa, ST5, p) = y - x - (1 - c)
            /\ SignedTotal(isa, ST5, p) = SignedOf(y) - SignedOf(x) - (1 - c)
        BY <3>4, <4>1 DEF Total, SignedTotal, Exact, x, y
      <4> QED BY <4>1, <4>2, <1>5, <1>4
    <3> QED BY <1>7, <3>1, <3>2, <3>3, <3>4
  <2>2. /\ s \div WordRange = IF s < WordRange THEN 0 ELSE 1
        /\ s % WordRange = IF s < WordRange THEN s ELSE s - WordRange
    BY <2>1, SumBits
  <2>3. s - WordRange \in -WordRange .. WordRange - 1
    BY <2>1, <1>5
  <2>4. (s - WordRange) % WordRange = IF s - WordRange < 0 THEN (s - WordRange) + WordRange ELSE s - WordRange
    BY <2>3, Borrowed
  <2>5. (s - WordRange) % WordRange = s % WordRange
    BY <2>1, <2>2, <2>4, <1>5
  <2>6. CarryOut(isa, ST5, p) = IF s - WordRange >= 0 THEN 1 ELSE 0
    BY <1>7, <2>1 DEF CarryOut, Sums
  <2>7. CarryOut(isa, ST5, p) = s \div WordRange
    BY <2>1, <2>2, <2>6, <1>5
  <2> QED BY <2>1, <2>5, <2>7 DEF c
<1> QED BY <1>6, <1>7 DEF Sums

\* Result, carry and overflow of every command of the arithmetic group.
LEMMA ResultIs ==
  ASSUME Decodes, NEW p \in Seeing, ST5.op \in Arithmetic, ~IsIn(ST5)
  PROVE  /\ st5_res(p) \in Word /\ st5_carry(p) \in {0, 1}
         /\ Result(isa, ST5, p) = st5_res(p)
         /\ CarryOut(isa, ST5, p) = st5_carry(p)
         /\ Overflow(isa, ST5, p) <=>
              (TopBit(st5_res(p)) + TopBit(arg1(p)) + TopBit(arg2(p)) + st5_carry(p)) % 2 = 1
<1> DEFINE x == Left(isa, ST5, p)
           y == Right(isa, ST5, p)
           c == ST5_add_carry[p]
<1>1. /\ x \in Word /\ arg1(p) = IF ST5.op \in Reverse THEN Not(x) ELSE x
      /\ y \in Word /\ arg2(p) = IF ST5.op \in Subtractions THEN Not(y) ELSE y
  BY LeftIs, RightIs
<1>2. c \in {0, 1} /\ p \in PU /\ arg1(p) \in Word /\ arg2(p) \in Word
  BY ArgumentsAreWords DEF Decodes, PipelineTypes, Seeing
<1>3. CASE ST5.op \in Sums
  <2> DEFINE s == arg1(p) + arg2(p) + c
  <2>1. sum(p) = s
    BY <1>3 DEF sum, Sums
  <2>2. /\ s \in 0 .. (2 * WordRange) - 1
        /\ (SignedOf(arg1(p)) + SignedOf(arg2(p)) + c >= Half
             \/ SignedOf(arg1(p)) + SignedOf(arg2(p)) + c < -Half)
              <=> (TopBit(s % WordRange) + TopBit(arg1(p)) + TopBit(arg2(p)) + (s \div WordRange)) % 2 = 1
    BY <1>2, AdderIs
  <2>3. s \div WordRange \in {0, 1} /\ s % WordRange \in Word
    BY <2>2, SumBits
  <2>4. /\ Total(isa, ST5, p) % WordRange = s % WordRange
        /\ CarryOut(isa, ST5, p) = s \div WordRange
        /\ SignedTotal(isa, ST5, p) = SignedOf(arg1(p)) + SignedOf(arg2(p)) + c
    BY <1>3, SumIs
  <2> HIDE DEF s, c
  <2>5. st5_res(p) = s % WordRange /\ st5_carry(p) = s \div WordRange
    BY <2>1 DEF st5_res, st5_carry
  <2>6. Result(isa, ST5, p) = s % WordRange
    BY <1>3, <2>4 DEF Result, Sums
  <2>7. Overflow(isa, ST5, p) <=> (SignedOf(arg1(p)) + SignedOf(arg2(p)) + c >= Half
             \/ SignedOf(arg1(p)) + SignedOf(arg2(p)) + c < -Half)
    BY <1>3, <2>4 DEF Overflow, Half
  <2> QED BY <2>2, <2>3, <2>4, <2>5, <2>6, <2>7
<1>4. CASE ST5.op \notin Sums
  <2>1. ST5.op \notin Reverse /\ ST5.op \notin Subtractions
    BY <1>4 DEF Sums, Reverse, Subtractions
  <2>2. arg1(p) = x /\ arg2(p) = y
    BY <1>1, <2>1
  <2>3. sum(p) \in Word /\ Result(isa, ST5, p) = sum(p)
    <3>1. CASE ST5.op = "MOV"
      <4>1. sum(p) = st5_mov_res(p)
        BY <3>1 DEF sum, Sums
      <4>2. st5_mov_res(p) \in Word
        BY <1>2 DEF st5_mov_res
      <4>3. Result(isa, ST5, p) = st5_mov_res(p)
        BY <3>1, MovedIs DEF Result
      <4> QED BY <4>1, <4>2, <4>3
    <3>2. CASE ST5.op \in {"AND", "TST", "OR", "XOR", "RGBADD"}
      BY <1>1, <1>4, <2>2, <3>2, OperationsAssumption DEF sum, Result, Bits, Sums
    <3>3. CASE ST5.op = "RGBSHR"
      <4>1. st5_mov_res(p) = y
        BY <2>2, <3>3 DEF st5_mov_res, MovArg1, Mov
      <4>2. sum(p) = Darker(y) /\ Result(isa, ST5, p) = Darker(y)
        BY <1>4, <3>3, <4>1 DEF sum, Result, Bits, Sums
      <4> QED BY <1>1, <4>2, OperationsAssumption
    <3> QED BY <1>4, <3>1, <3>2, <3>3 DEF Arithmetic
  <2>4. st5_res(p) = sum(p) /\ st5_carry(p) = 0
    BY <2>3, WordBits DEF st5_res, st5_carry
  <2>5. CarryOut(isa, ST5, p) = 0
    BY <1>4 DEF CarryOut
  <2>6. Overflow(isa, ST5, p) <=>
          (TopBit(Result(isa, ST5, p)) + TopBit(x) + TopBit(y)) % 2 = 1
    BY <1>4 DEF Overflow
  <2>7. TopBit(sum(p)) \in Int /\ TopBit(x) \in Int /\ TopBit(y) \in Int
    BY <1>1, <2>3, TopBits
  <2> HIDE DEF x, y
  <2>8. TopBit(sum(p)) + TopBit(x) + TopBit(y) + 0 = TopBit(sum(p)) + TopBit(x) + TopBit(y)
    BY <2>7
  <2> QED BY <2>2, <2>3, <2>4, <2>5, <2>6, <2>8
<1> QED BY <1>3, <1>4

LEMMA SumIsWord ==
  ASSUME PipelineTypes, NEW p \in PU
  PROVE  /\ st5_res(p) \in Word /\ st5_carry(p) \in {0, 1}
         /\ ST5.op \notin Sums => st5_carry(p) = 0 /\ st5_res(p) = sum(p)
<1>1. arg1(p) \in Word /\ arg2(p) \in Word /\ ST5_add_carry[p] \in {0, 1} /\ st5_mov_res(p) \in Word
  BY ArgumentsAreWords DEF PipelineTypes, st5_mov_res
<1>2. CASE ST5.op \in Sums
  <2>1. sum(p) = arg1(p) + arg2(p) + ST5_add_carry[p]
    BY <1>2 DEF sum, Sums
  <2>2. sum(p) \in 0 .. (2 * WordRange) - 1
    BY <1>1, <2>1, AdderIs
  <2> QED BY <1>2, <2>2, SumBits DEF st5_res, st5_carry
<1>3. CASE ST5.op \notin Sums
  <2>1. sum(p) \in Word
    <3>1. CASE ST5.op \in {"AND", "TST", "OR", "XOR", "RGBADD", "RGBSHR"}
      BY <1>1, <3>1, OperationsAssumption DEF sum, Sums
    <3>2. CASE ST5.op \notin {"AND", "TST", "OR", "XOR", "RGBADD", "RGBSHR"}
      BY <1>1, <1>3, <3>2 DEF sum
    <3> QED BY <3>1, <3>2
  <2> QED BY <2>1, WordBits DEF st5_res, st5_carry
<1> QED BY <1>2, <1>3

\* A constant reaches the register or the cell as it is.
LEMMA ConstantIs ==
  ASSUME Decodes, NEW p \in Known, ST5.op \in {"CMOV", "CCMOV"}
  PROVE  st5_res(p) = ST5.c /\ st5_mov_res(p) = ST5.c
<1>1. /\ ST5.op \notin HasOperand /\ ST5.op \notin Arithmetic /\ ST5.op # "MOV"
      /\ ST5.op \notin Sums /\ p \in PU
  BY DEF HasOperand, Arithmetic, Sums, Slow, Multiplications, Known
<1>2. P2Type(ST5) = "const"
  BY <1>1 DEF P2Type, IsIn
<1>3. ST5_p2[p] = ST5.c
  BY <1>2, ST5.op \notin Jumps DEF Jumps, Decodes, SecondFollows
<1>4. st5_mov_res(p) = ST5.c
  BY <1>1, <1>3 DEF st5_mov_res, MovArg1, Mov, arg2, Inv2
<1>5. sum(p) = st5_mov_res(p)
  BY <1>1 DEF sum, Sums
<1> QED BY <1>1, <1>4, <1>5, SumIsWord DEF Decodes

\* A byte read from a port is the one the manual says; only unit 0 has it.
LEMMA InputIs ==
  ASSUME Decodes, NEW p \in Seeing, IsIn(ST5)
  PROVE  /\ p = 0
         /\ st5_res(p) = PortByte(PortNumber(ST5), isa.taken[PortNumber(ST5)])
<1>1. p = 0 /\ 0 \in Known /\ 0 \in PU
  BY KnownShrinks, Sizes DEF Unknown, Seeing, Decodes
<1>2. P2Type(ST5) = "port" /\ ST5.op = "MOV" /\ ~ST5.inv /\ ~MovArg1(ST5)
  BY DEF P2Type, IsIn, MovArg1, Mov, Decodes, PipelineTypes, WellFormed
<1>3. ST5_p2[0] = PortByte(PortNumber(ST5), isa.taken[PortNumber(ST5)])
  BY <1>1, <1>2 DEF Decodes, SecondFollows, PortOf, PortNumber
<1>4. ~Inv2(ST5)
  BY <1>2 DEF Inv2
<1>5. sum(0) = ST5_p2[0] /\ ST5.op \notin Sums
  BY <1>2, <1>4 DEF sum, Sums, st5_mov_res, arg2
<1> QED BY <1>1, <1>3, <1>5, SumIsWord DEF Decodes

\* What a register, a cell, a special register and a port are given.
LEMMA ValueIs ==
  ASSUME Decodes, NEW p \in Seeing
  PROVE  /\ ToRegister(ST5) \/ ToCache(ST5) => Value(isa, ST5, p) = st5_res(p)
         /\ ToSpecial(ST5) \/ IsOut(ST5) => Value(isa, ST5, p) = st5_mov_res(p)
<1>1. p \in Known
  BY KnownShrinks DEF Decodes
<1>2. ASSUME ToRegister(ST5) \/ ToCache(ST5)
      PROVE  Value(isa, ST5, p) = st5_res(p)
  <2>1. ST5.op \in Arithmetic \cup {"CMOV", "CCMOV"}
    BY <1>2 DEF ToRegister, ToCache
  <2>2. CASE ST5.op \in {"CMOV", "CCMOV"}
    BY <1>1, <2>2, ConstantIs DEF Value
  <2>3. CASE ST5.op \in Arithmetic /\ IsIn(ST5)
    <3>1. ST5.op \notin {"CMOV", "CCMOV"}
      BY <2>3 DEF IsIn
    <3> QED BY <2>3, <3>1, InputIs DEF Value
  <2>4. CASE ST5.op \in Arithmetic /\ ~IsIn(ST5)
    <3>1. ST5.op \notin {"CMOV", "CCMOV"}
      BY <2>4 DEF Arithmetic, Sums
    <3> QED BY <2>4, <3>1, ResultIs DEF Value
  <2> QED BY <2>1, <2>2, <2>3, <2>4
<1>3. ASSUME ToSpecial(ST5) \/ IsOut(ST5)
      PROVE  Value(isa, ST5, p) = st5_mov_res(p)
  <2>1. CASE ST5.op = "CMOV"
    BY <1>1, <2>1, ConstantIs DEF Value
  <2>2. CASE ST5.op # "CMOV"
    <3>1. ST5.op = "MOV" /\ ~IsIn(ST5)
      BY <1>3, <2>2 DEF ToSpecial, IsOut, IsIn, Decodes, PipelineTypes, WellFormed
    <3>2. Value(isa, ST5, p) = Moved(isa, ST5, p)
      BY <3>1 DEF Value, Result
    <3> QED BY <3>1, <3>2, MovedIs
  <2> QED BY <2>1, <2>2
<1> QED BY <1>2, <1>3

-----------------------------------------------------------------------------
(* The manual's machine, field by field. *)
Moves == /\ isa' = IF Executing THEN Step(isa, ST5) ELSE Wait(isa)
         /\ ~Executing => ST5 = NOP

\* One clock of the manual's machine, field by field, a command or none.
LEMMA MachineMoves ==
  ASSUME MachineTypes, Moves
  PROVE  /\ DOMAIN isa' = Fields
         /\ isa'.regs = Registers(isa, ST5) /\ isa'.regs1 = isa.regs
         /\ isa'.base2 = isa.regs1[0]
         /\ isa'.cells = Cells(isa, ST5) /\ isa'.cells1 = isa.cells
         /\ isa'.cells2 = isa.cells1 /\ isa'.cells3 = isa.cells2
         /\ isa'.flags = [p \in PU |-> FlagsAfter(isa, ST5, p)] /\ isa'.flags1 = isa.flags
         /\ isa'.mem = Memory(isa, ST5) /\ isa'.mem1 = isa.mem
         /\ isa'.carry = [p \in PU |-> CarryOut(isa, ST5, p)]
         /\ isa'.seen = [p \in PU |-> Seen(isa, ST5, p)]
         /\ isa'.log = Logged(isa, ST5) /\ isa'.taken = Taken(isa, ST5)
         /\ isa'.age = Ages(isa, ST5) /\ isa'.unknown = Unknown(isa, ST5)
         /\ isa'.request = Request(isa, ST5)
         /\ Executing => /\ isa'.pc = Control(isa, ST5).pc
                         /\ isa'.slots = Control(isa, ST5).slots
                         /\ isa'.target = Control(isa, ST5).target
         /\ ~Executing => /\ isa'.pc = isa.pc /\ isa'.slots = isa.slots
                          /\ isa'.target = isa.target
<1> DEFINE e == Effects(isa, ST5)
<1>1. DOMAIN isa = Fields
  BY DEF MachineTypes
<1>2. \A field \in Fields \ {"pc", "slots", "target"} : isa'[field] = e[field]
  <2>1. CASE Executing
    BY <1>1, <2>1, StepAre DEF Moves
  <2>2. CASE ~Executing
    BY <2>2 DEF Moves, Wait
  <2> QED BY <2>1, <2>2
<1>3. DOMAIN isa' = Fields
  <2>1. CASE Executing
    BY <1>1, <2>1, StepAre DEF Moves
  <2>2. CASE ~Executing
    BY <1>1, <2>2, EffectsAre DEF Moves, Wait
  <2> QED BY <2>1, <2>2
<1>4. Executing => /\ isa'.pc = Control(isa, ST5).pc
                   /\ isa'.slots = Control(isa, ST5).slots
                   /\ isa'.target = Control(isa, ST5).target
  BY <1>1, StepAre DEF Moves
<1>5. ~Executing => /\ isa'.pc = isa.pc /\ isa'.slots = isa.slots
                    /\ isa'.target = isa.target
  <2>1. e.pc = isa.pc /\ e.slots = isa.slots /\ e.target = isa.target
    BY <1>1, EffectsGoOn
  <2>2. ~Executing => isa' = e
    BY DEF Moves, Wait
  <2> HIDE DEF e
  <2> QED BY <2>1, <2>2
<1>6. /\ isa'.regs = e.regs /\ isa'.regs1 = e.regs1 /\ isa'.base2 = e.base2
      /\ isa'.cells = e.cells /\ isa'.cells1 = e.cells1 /\ isa'.cells2 = e.cells2
      /\ isa'.cells3 = e.cells3 /\ isa'.flags = e.flags /\ isa'.flags1 = e.flags1
      /\ isa'.mem = e.mem /\ isa'.mem1 = e.mem1 /\ isa'.carry = e.carry
      /\ isa'.seen = e.seen /\ isa'.log = e.log /\ isa'.taken = e.taken
      /\ isa'.age = e.age /\ isa'.unknown = e.unknown /\ isa'.request = e.request
  BY <1>2 DEF Fields
<1> HIDE DEF e
<1>7. /\ e.regs = Registers(isa, ST5) /\ e.regs1 = isa.regs
         /\ e.base2 = isa.regs1[0]
         /\ e.cells = Cells(isa, ST5) /\ e.cells1 = isa.cells
         /\ e.cells2 = isa.cells1 /\ e.cells3 = isa.cells2
         /\ e.flags = [p \in PU |-> FlagsAfter(isa, ST5, p)] /\ e.flags1 = isa.flags
         /\ e.mem = Memory(isa, ST5) /\ e.mem1 = isa.mem
         /\ e.carry = [p \in PU |-> CarryOut(isa, ST5, p)]
         /\ e.seen = [p \in PU |-> Seen(isa, ST5, p)]
         /\ e.log = Logged(isa, ST5) /\ e.taken = Taken(isa, ST5)
         /\ e.age = Ages(isa, ST5) /\ e.unknown = Unknown(isa, ST5)
         /\ e.request = Request(isa, ST5)
  BY <1>1, EffectsAre DEF e
<1> QED BY <1>3, <1>4, <1>5, <1>6, <1>7

-----------------------------------------------------------------------------
(* Registers. *)
LEMMA MetIs ==
  ASSUME PipelineTypes, FlagsFollow, NEW p \in Known
  PROVE  st5_cond_met(p) <=> Met(isa, ST5, p)
<1>1. p \in PU /\ flags[p] \in Flags /\ ST5.cond \in 0 .. 15
  BY DEF PipelineTypes, WellFormed, Commands, Known
<1> QED BY <1>1, Conditions DEF FlagsFollow

\* What the command in stage 4 is given of register n.
Forwarded(p, n) == IF st5_cond_met(p) /\ WrReg(ST5) /\ ST5.a = n THEN st5_res(p)
                                                                 ELSE RegisterAt(p, n)

LEMMA AgeMoves ==
  ASSUME MachineTypes, Moves, NEW n \in HiReg
  PROVE  isa'.age[n] = IF ToRegister(ST5) /\ ST5.a = n THEN 1
                       ELSE IF isa.age[n] > SharedDelay THEN isa.age[n] ELSE isa.age[n] + 1
BY MachineMoves DEF Ages

LEMMA RegisterMoves ==
  ASSUME MachineTypes, Moves, NEW p \in PU, NEW n \in Reg
  PROVE  LET q == IF n \in HiReg THEN 0 ELSE p
         IN  isa'.regs[p][n] = IF ToRegister(ST5) /\ n = ST5.a /\ Met(isa, ST5, q)
                                 THEN Value(isa, ST5, q) ELSE isa.regs[q][n]
BY MachineMoves DEF Registers

\* Forwarding gives what the manual has after the command in stage 5.
LEMMA ForwardedIs ==
  ASSUME Decodes, Moves, FlagsFollow, RegistersFollow, AgesTell,
         NEW p \in Seeing, NEW n \in Reg, ReadableThen(p, n)
  PROVE  RegisterAt(p, n) = isa.regs[p][n] /\ Forwarded(p, n) = isa'.regs[p][n]
<1>1. /\ p \in PU /\ p \in Known /\ 0 \in Seeing /\ 0 \in Known
      /\ (WrReg(ST5) <=> ToRegister(ST5)) /\ LoReg \cap HiReg = {}
  BY KnownShrinks, Decoded, InstructionsAssumption DEF Decodes, PipelineTypes, Seeing
<1>2. CASE n \in LoReg
  <2>1. n \notin HiReg
    BY <1>1, <1>2
  <2>2. isa'.regs[p][n] = IF ToRegister(ST5) /\ n = ST5.a /\ Met(isa, ST5, p)
                            THEN Value(isa, ST5, p) ELSE isa.regs[p][n]
    BY <1>1, <2>1, RegisterMoves DEF Decodes
  <2>3. RegisterAt(p, n) = isa.regs[p][n]
    BY <1>1, <1>2 DEF RegistersFollow
  <2>4. ToRegister(ST5) => Value(isa, ST5, p) = st5_res(p)
    BY ValueIs
  <2>5. st5_cond_met(p) <=> Met(isa, ST5, p)
    BY <1>1, MetIs DEF Decodes
  <2> QED BY <1>1, <2>2, <2>3, <2>4, <2>5 DEF Forwarded
<1>3. CASE n \in HiReg /\ p = 0
  <2>2. isa'.regs[p][n] = IF ToRegister(ST5) /\ n = ST5.a /\ Met(isa, ST5, p)
                            THEN Value(isa, ST5, p) ELSE isa.regs[p][n]
    BY <1>1, <1>3, RegisterMoves DEF Decodes
  <2>3. RegisterAt(p, n) = isa.regs[p][n]
    BY <1>1, <1>3 DEF RegistersFollow
  <2>4. ToRegister(ST5) => Value(isa, ST5, p) = st5_res(p)
    BY ValueIs
  <2>5. st5_cond_met(p) <=> Met(isa, ST5, p)
    BY <1>1, MetIs DEF Decodes
  <2> QED BY <1>1, <2>2, <2>3, <2>4, <2>5 DEF Forwarded
<1>4. CASE n \in HiReg /\ p # 0
  <2>1. isa'.age[n] > SharedDelay /\ n \notin LoReg
    BY <1>1, <1>4 DEF ReadableThen
  <2>2. SharedDelay \in Nat /\ SharedDelay >= 3 /\ isa.age[n] \in Nat
    BY <1>4, CoSimulationAssumption DEF Decodes, MachineTypes
  <2>3. ~(ToRegister(ST5) /\ ST5.a = n) /\ isa.age[n] >= 3
    BY <1>4, <2>1, <2>2, AgeMoves DEF Decodes
  <2>4. ~(ST6_wr_reg[p] /\ ST6_reg = n) /\ hi_regs[n] = isa.regs[0][n]
    BY <1>1, <1>4, <2>2, <2>3 DEF AgesTell
  <2>5. RegisterAt(p, n) = hi_regs[n]
    BY <1>4, <2>1, <2>4 DEF RegisterAt, RegisterOf
  <2>6. isa.regs[p][n] = isa.regs[0][n]
    BY <1>1, <1>4 DEF RegistersFollow
  <2>7. isa'.regs[p][n] = isa.regs[0][n]
    BY <1>1, <1>4, <2>3, RegisterMoves DEF Decodes
  <2> QED BY <1>1, <2>3, <2>4, <2>5, <2>6, <2>7 DEF Forwarded
<1> QED BY <1>2, <1>3, <1>4 DEF Reg

LEMMA KnownMoves ==
  ASSUME MachineTypes, Moves
  PROVE  Known' = Seeing
BY MachineMoves DEF Known, Seeing

\* Registers, their copies and the ages of the shared ones, after a clock.
LEMMA RegistersStep ==
  ASSUME Decodes, Moves, FlagsFollow, RegistersFollow, AgesTell, WriteBack
  PROVE  RegistersFollow' /\ AgesTell'
<1>1. \A p \in PU : \A n \in Reg : n \in LoReg \/ p = 0 => RegisterAt(p, n)' = Forwarded(p, n)
  <2> SUFFICES ASSUME NEW p \in PU, NEW n \in Reg, n \in LoReg \/ p = 0
               PROVE  RegisterAt(p, n)' = Forwarded(p, n)
    OBVIOUS
  <2>1. /\ ST6_wr_reg'[p] <=> st5_cond_met(p) /\ WrReg(ST5)
        /\ ST6_reg' = ST5.a /\ ST6_data'[p] = st5_res(p)
    BY DEF WriteBack
  <2>2. RegisterOf(p, n)' = RegisterAt(p, n)
    <3>1. CASE n \in LoReg
      BY <3>1 DEF WriteBack, RegisterOf, RegisterAt
    <3>2. CASE n \notin LoReg /\ p = 0
      <4>1. n \in HiReg
        BY <3>2 DEF Reg
      <4> QED BY <3>2, <4>1 DEF WriteBack, RegisterOf, RegisterAt
    <3> QED BY <3>1, <3>2
  <2> QED BY <2>1, <2>2 DEF RegisterAt, Forwarded
<1>2. Known' = Seeing /\ 0 \in Seeing /\ Seeing \subseteq PU
  BY KnownMoves, KnownShrinks DEF Decodes, Seeing
<1>3. \A p \in Known' : \A n \in LoReg : RegisterAt(p, n)' = isa'.regs[p][n]
  BY <1>1, <1>2, ForwardedIs DEF ReadableThen, Reg
<1>4. \A n \in HiReg : RegisterAt(0, n)' = isa'.regs[0][n]
  BY <1>1, <1>2, ForwardedIs DEF ReadableThen, Reg
<1>5. \A p \in PU : \A n \in HiReg : isa'.regs[p][n] = isa'.regs[0][n]
  BY <1>2, RegisterMoves DEF RegistersFollow, Decodes, Reg
<1>6. ASSUME NEW n \in HiReg
      PROVE  /\ \A p \in PU : ST6_wr_reg'[p] /\ ST6_reg' = n => isa'.age[n] = 1
             /\ isa'.age[n] >= 3 => hi_regs'[n] = isa'.regs[0][n]
  <2>1. WrReg(ST5) <=> ToRegister(ST5)
    BY Decoded DEF Decodes, PipelineTypes
  <2>2. isa'.age[n] = IF ToRegister(ST5) /\ ST5.a = n THEN 1
                      ELSE IF isa.age[n] > SharedDelay THEN isa.age[n] ELSE isa.age[n] + 1
    BY AgeMoves DEF Decodes
  <2>3. \A p \in PU : ST6_wr_reg'[p] /\ ST6_reg' = n => isa'.age[n] = 1
    BY <2>1, <2>2 DEF WriteBack
  <2>4. ASSUME isa'.age[n] >= 3 PROVE hi_regs'[n] = isa'.regs[0][n]
    <3>1. isa.age[n] \in Nat \ {0} /\ SharedDelay \in Nat /\ SharedDelay >= 3
      BY CoSimulationAssumption DEF Decodes, MachineTypes
    <3>2. ~(ToRegister(ST5) /\ ST5.a = n) /\ isa.age[n] # 1
      BY <2>2, <2>4, <3>1
    <3>3. ~(ST6_wr_reg[0] /\ ST6_reg = n)
      BY <1>2, <3>2 DEF AgesTell
    <3>4. n \notin LoReg
      BY InstructionsAssumption
    <3>5. hi_regs_out[n] = isa.regs[0][n]
      BY <3>3, <3>4 DEF RegistersFollow, RegisterAt, RegisterOf
    <3>6. isa'.regs[0][n] = isa.regs[0][n]
      BY <1>2, <3>2, RegisterMoves DEF Decodes, Reg
    <3> QED BY <3>5, <3>6 DEF WriteBack
  <2> QED BY <2>3, <2>4
<1> QED BY <1>3, <1>4, <1>5, <1>6 DEF RegistersFollow, AgesTell

-----------------------------------------------------------------------------
(* Operands and addresses. *)
LEMMA PairOf ==
  ASSUME NEW h \in Word, NEW l \in Word
  PROVE  /\ h * WordRange + l \in 0 .. WordRange * WordRange - 1
         /\ High(h * WordRange + l) = h /\ Low(h * WordRange + l) = l
<1>1. h \in 0 .. WordRange - 1 /\ l \in 0 .. WordRange - 1 /\ WordRange \in Nat \ {0}
  BY Sizes DEF Word
<1>2. /\ h * WordRange + l \in 0 .. WordRange * WordRange - 1
      /\ (h * WordRange + l) \div WordRange = h /\ (h * WordRange + l) % WordRange = l
  BY <1>1, Pair
<1> QED BY <1>2, WordBits DEF High, Low

\* A special register is read as the manual says: one command late, or more.
LEMMA SpecialIs ==
  ASSUME Decodes, Moves, FlagsFollow, ResultsFollow,
         NEW p \in Seeing, NEW n \in Specials
  PROVE  sreg_in(n, p) = Special(isa', n, p)
<1>1. p \in Known /\ p \in PU
  BY KnownShrinks DEF Decodes, Seeing
<1>2. /\ isa'.flags1 = isa.flags /\ isa'.mem1 = isa.mem
      /\ isa'.seen = [q \in PU |-> Seen(isa, ST5, q)]
  BY MachineMoves DEF Decodes
<1>3. isa'.seen[p][1] = isa.seen[p][2]
  BY <1>1, <1>2 DEF Seen
<1>4. isa.seen[p][2].hi \in Word /\ isa.seen[p][2].lo \in Word
  <2>1. isa.seen[p] \in [1 .. 4 -> ResultWords]
    BY <1>1 DEF ResultsFollow
  <2>2. isa.seen[p][2] \in ResultWords
    BY <2>1
  <2> QED BY <2>2 DEF ResultWords
<1>5. mult_res[p] = isa.seen[p][2].hi * WordRange + isa.seen[p][2].lo
  BY <1>1 DEF ResultsFollow
<1>6. High(mult_res[p]) = isa'.seen[p][1].hi /\ Low(mult_res[p]) = isa'.seen[p][1].lo
  BY <1>3, <1>4, <1>5, PairOf
<1>7. flags[p] = isa'.flags1[p] /\ mem_addr = isa'.mem1
  BY <1>1, <1>2 DEF FlagsFollow
<1> QED BY <1>6, <1>7 DEF sreg_in, Special, Specials, FLAGS, MEM_LO, MEM_HI, RESULT_LO, RESULT_HI

\* What the command in stage 4 is given.
Fetching == /\ Decodes /\ Moves /\ FlagsFollow /\ RegistersFollow /\ AgesTell /\ ResultsFollow
            /\ CellsFollow /\ PortsFollow /\ StagesApart
            /\ AddressesFollow /\ Operands /\ Advance /\ AddressRegister
            /\ ST4_waddr' = core_raddr /\ ST5_waddr' = ST4_waddr

LEMMA StageFourFields ==
  ASSUME PipelineTypes
  PROVE  /\ B(ST4) \in Reg /\ D(ST4) \in Reg /\ WellFormed(ST4)
         /\ BSreg(ST4) => B(ST4) \in Specials
         /\ P2Type(ST4) = "special" => D(ST4) \in Specials
BY DEF PipelineTypes, WellFormed, Commands, B, D

\* The first operand of the next command,
LEMMA FirstStep ==
  ASSUME Fetching
  PROVE  FirstFollows'
<1> SUFFICES ASSUME NEW p \in Known'
             PROVE  IF BSreg(ST4) THEN ST5_p1'[p] = Special(isa', B(ST4), p)
                    ELSE ReadableThen(p, B(ST4)) => ST5_p1'[p] = isa'.regs[p][B(ST4)]
  BY DEF FirstFollows, Fetching, Advance, Readable, ReadableThen
<1>1. p \in Seeing /\ p \in PU
  BY KnownMoves DEF Fetching, Decodes, Seeing
<1>2. ST5_p1'[p] = st4_rb(p)
  BY <1>1 DEF Fetching, Operands
<1>3. B(ST4) \in Reg /\ (BSreg(ST4) => B(ST4) \in Specials)
  BY StageFourFields DEF Fetching, Decodes
<1>4. CASE BSreg(ST4)
  BY <1>1, <1>2, <1>3, <1>4, SpecialIs DEF Fetching, st4_rb
<1>5. CASE ~BSreg(ST4)
  <2>1. st4_rb(p) = Forwarded(p, B(ST4))
    BY <1>5 DEF st4_rb, Forwarded, RegisterAt
  <2> QED BY <1>1, <1>2, <1>3, <1>5, <2>1, ForwardedIs DEF Fetching
<1> QED BY <1>4, <1>5

\* (the bytes taken from a port, one clock on)
LEMMA TakenMoves ==
  ASSUME MachineTypes, Moves, PipelineTypes, NEW d \in Ports
  PROVE  isa'.taken[d] = isa.taken[d] + (IF IsIn(ST5) /\ PortOf(ST5) = d THEN 1 ELSE 0)
<1>1. isa'.taken = Taken(isa, ST5) /\ isa.taken \in [Ports -> Nat]
  BY MachineMoves DEF MachineTypes
<1>2. PortOf(ST5) = PortNumber(ST5) /\ (IsIn(ST5) => PortOf(ST5) \in Ports)
  BY Decoded DEF PipelineTypes
<1> QED BY <1>1, <1>2 DEF Taken

\* the second, from the cache, a port, a register or the command,
LEMMA SecondStep ==
  ASSUME Fetching
  PROVE  SecondFollows'
<1> SUFFICES ASSUME NEW p \in Known'
    PROVE
    /\ P2Type(ST4) = "cache" => ST5_p2'[p] = isa'.cells3[Lane(ST4, ST4_waddr, p)]
    /\ P2Type(ST4) = "port" /\ p = 0 =>
         ST5_p2'[p] = PortByte(PortOf(ST4), isa'.taken[PortOf(ST4)])
    /\ P2Type(ST4) = "register" /\ ReadableThen(p, D(ST4)) =>
         ST5_p2'[p] = isa'.regs1[p][D(ST4)]
    /\ P2Type(ST4) = "special" => ST5_p2'[p] = Special(isa', D(ST4), p)
    /\ P2Type(ST4) = "const" /\ ST4.op \notin Jumps => ST5_p2'[p] = ST4.c
  BY DEF SecondFollows, Fetching, Advance, Lane, Readable, ReadableThen
<1>1. p \in Seeing /\ p \in PU
  BY KnownMoves DEF Fetching, Decodes, Seeing
<1>2. ST5_p2'[p] = st4_p2(p)
  BY <1>1 DEF Fetching, Operands
<1>3. D(ST4) \in Reg /\ (P2Type(ST4) = "special" => D(ST4) \in Specials) /\ WellFormed(ST4)
  BY StageFourFields DEF Fetching, Decodes
<1>4. ASSUME P2Type(ST4) = "cache"
      PROVE  ST5_p2'[p] = isa'.cells3[Lane(ST4, ST4_waddr, p)]
  <2>1. isa'.cells3 = isa.cells2
    BY MachineMoves DEF Fetching, Decodes
  <2>2. st4_p2(p) = cache_q[IF Parallel(ST4) THEN p ELSE 0]
    BY <1>4 DEF st4_p2, cache_rdata
  <2>3. \A q \in PU : cache_q[q] = isa.cells2[IF q = 0 THEN CacheIndex(ST4_waddr)
                                                        ELSE LineStart(ST4_waddr) + q]
    BY DEF Fetching, CellsFollow
  <2> QED BY <1>1, <1>2, <2>1, <2>2, <2>3, Sizes DEF Lane
<1>5. ASSUME P2Type(ST4) = "port", p = 0
      PROVE  ST5_p2'[p] = PortByte(PortOf(ST4), isa'.taken[PortOf(ST4)])
  <2>1. IsIn(ST4)
    BY <1>3, <1>5 DEF P2Type, WellFormed, Commands
  <2>2. st4_p2(p) = port.rdata
    BY <1>5 DEF st4_p2
  <2>3. port.rdata = PortByte(PortOf(ST4), isa.taken[PortOf(ST4)]
                                           + (IF IsIn(ST5) THEN 1 ELSE 0))
    BY <2>1 DEF Fetching, PortsFollow
  <2>4. IsIn(ST5) => PortOf(ST5) = PortOf(ST4)
    BY <2>1 DEF Fetching, StagesApart, Apart1, Apart2, OnPort
  <2>5. PortOf(ST4) \in Ports
    BY <1>3, <2>1, Decoded
  <2>6. isa'.taken[PortOf(ST4)] = isa.taken[PortOf(ST4)] + (IF IsIn(ST5) THEN 1 ELSE 0)
    BY <2>4, <2>5, TakenMoves DEF Fetching, Decodes
  <2> QED BY <1>2, <2>2, <2>3, <2>6
<1>6. ASSUME P2Type(ST4) = "register", ReadableThen(p, D(ST4))
      PROVE  ST5_p2'[p] = isa'.regs1[p][D(ST4)]
  <2>1. st4_p2(p) = RegisterAt(p, D(ST4))
    BY <1>6 DEF st4_p2, st4_rd, RegisterAt
  <2>2. isa'.regs1 = isa.regs
    BY MachineMoves DEF Fetching, Decodes
  <2>3. RegisterAt(p, D(ST4)) = isa.regs[p][D(ST4)]
    BY <1>1, <1>3, <1>6, ForwardedIs DEF Fetching
  <2> QED BY <1>2, <2>1, <2>2, <2>3
<1>7. ASSUME P2Type(ST4) = "special"
      PROVE  ST5_p2'[p] = Special(isa', D(ST4), p)
  <2>1. st4_p2(p) = sreg_in(D(ST4), p)
    BY <1>7 DEF st4_p2
  <2> QED BY <1>1, <1>2, <1>3, <1>7, <2>1, SpecialIs DEF Fetching
<1>8. P2Type(ST4) = "const" /\ ST4.op \notin Jumps => ST5_p2'[p] = ST4.c
  BY <1>2, <1>3, WordBits DEF st4_p2, WellFormed
<1> QED BY <1>4, <1>5, <1>6, <1>7, <1>8

\* and the carry.
LEMMA CarryStep ==
  ASSUME Fetching
  PROVE  CarryFollows'
<1> SUFFICES ASSUME NEW p \in Known'
    PROVE ST5_add_carry'[p] = IF ST4.op \in CarryIn THEN isa'.carry[p]
                              ELSE IF ST4.op \in {"RSB", "SUB", "CMP"} THEN 1 ELSE 0
  BY DEF CarryFollows, Fetching, Advance
<1>1. p \in Seeing /\ p \in PU
  BY KnownMoves DEF Fetching, Decodes, Seeing
<1>2. isa'.carry[p] = CarryOut(isa, ST5, p)
  BY <1>1, MachineMoves DEF Fetching, Decodes
<1>3. CarryOut(isa, ST5, p) = st5_carry(p)
  <2>1. CASE ST5.op \in Sums
    <3>1. ST5.op \in Arithmetic /\ ~IsIn(ST5)
      BY <2>1 DEF Arithmetic, Sums, IsIn
    <3> QED BY <1>1, <3>1, ResultIs DEF Fetching
  <2>2. CASE ST5.op \notin Sums
    BY <1>1, <2>2, SumIsWord DEF CarryOut, Fetching, Decodes
  <2> QED BY <2>1, <2>2
<1> QED BY <1>1, <1>2, <1>3 DEF Fetching, Operands

\* Addresses travel one stage per clock.
LEMMA AddressesStep ==
  ASSUME Fetching
  PROVE  AddressesFollow'
<1>1. isa'.regs1 = isa.regs /\ isa'.base2 = isa.regs1[0]
  BY MachineMoves DEF Fetching, Decodes
<1>2. 0 \in Seeing /\ ST2.r \in Reg /\ ReadableThen(0, ST2.r)
  BY KnownShrinks DEF Fetching, Decodes, PipelineTypes, WellFormed, Commands, ReadableThen
<1>3. Forwarded(0, ST2.r) = isa'.regs[0][ST2.r]
  BY <1>2, ForwardedIs DEF Fetching
<1>4. ST3_reg_r' = isa'.regs[0][ST2.r]
  BY <1>3 DEF Fetching, AddressRegister, Forwarded, RegisterAt
<1>5. ST3_reg_r \in Word
  BY DEF Fetching, Decodes, PipelineTypes
<1> QED BY <1>1, <1>4, <1>5 DEF Fetching, Advance, AddressesFollow, core_raddr

-----------------------------------------------------------------------------
(* The cache. *)
Storing == /\ Decodes /\ Moves /\ FlagsFollow /\ CellsFollow /\ CacheWrite /\ CacheRead

LEMMA SameLine ==
  ASSUME NEW x \in Nat, NEW a \in Nat, NEW q \in PU, a % N = 0
  PROVE  (x - (x % N) = a /\ x % N = q) <=> x = a + q
<1>1. N \in Nat \ {0} /\ q \in 0 .. N - 1
  BY Sizes DEF PU
<1>2. a \div N \in Int /\ a = N * (a \div N)
  BY <1>1, DivMod
<1>3. x % N \in Int
  BY <1>1
<1>4. ASSUME x = a + q PROVE x % N = q
  <2>1. x = N * (a \div N) + q /\ x \in Int
    BY <1>2, <1>4
  <2> QED BY <1>1, <1>2, <2>1, DivModUnique
<1> QED BY <1>1, <1>3, <1>4

\* The unit whose word goes into a cell is the one the manual says.
LEMMA WriterIs ==
  ASSUME Storing, ToCache(ST5), NEW x \in 0 .. CacheSize - 1, NEW q \in PU
  PROVE  (x - (x % N) = LineStart(ST5_waddr) /\ q \in Source(x % N)')
           <=> q \in Writers(isa, ST5, x)
<1> DEFINE a == Address(isa, ST5)
<1>1. CacheIndex(ST5_waddr) = a
  <2>1. Lane(ST5, ST5_waddr, 0) = Cell(isa, ST5, 0)
    BY LaneIsCell, Sizes DEF Storing
  <2>2. a \in Int
    <3>1. isa.base2[ST5.r] \in Word /\ ST5.off \in Nat
      BY DEF Storing, Decodes, AddressesFollow, PipelineTypes, WellFormed, Commands
    <3>2. isa.base2[ST5.r] + ST5.off \in Int
      BY <3>1 DEF Word
    <3> QED BY <3>2, DivMod, Sizes DEF Address
  <2> QED BY <2>1, <2>2 DEF Lane, Cell
<1>2. a \in 0 .. CacheSize - 1 /\ a % N \in 0 .. N - 1 /\ ST5_waddr % N = a % N
  <2>1. ST5_waddr \in Int /\ N \in Nat \ {0} /\ CacheSize \in Nat \ {0}
    BY Sizes DEF Storing, Decodes, PipelineTypes, Word
  <2>2. (ST5_waddr % CacheSize) % N = ST5_waddr % N
    BY <2>1, ModMod, Sizes
  <2>3. ST5_waddr % CacheSize \in 0 .. CacheSize - 1
    BY <2>1, DivMod
  <2>4. (ST5_waddr % CacheSize) % N \in 0 .. N - 1
    BY <2>1, <2>3, DivMod
  <2> QED BY <1>1, <2>2, <2>3, <2>4 DEF CacheIndex
<1>3. LineStart(ST5_waddr) = a - (a % N)
  BY <1>1 DEF LineStart
<1>4. Source(x % N)' = IF a % N = 0 THEN {p \in cache_wen' : p = x % N}
                       ELSE {p \in cache_wen' : p = 0 /\ x % N = a % N}
  BY <1>2 DEF Storing, CacheWrite, Source
<1>5. /\ ST5.all => a % N = 0 /\ Unknown(isa, ST5) = {}
      /\ Parallel(ST5) <=> ST5.all
      /\ ST5.all => ST5.op # "CCMOV"
  <2>1. ST5.all => ST5.op \in Arithmetic
    BY DEF Storing, Decodes, PipelineTypes, WellFormed
  <2> QED BY <2>1 DEF Storing, Decodes, Defined, Parallel, Arithmetic, Sums
<1>6. WrCache(ST5)
  BY Decoded DEF Storing, Decodes, PipelineTypes
<1>7. q \in cache_wen' <=> st5_cond_met(q) /\ (q = 0 \/ ST5.all)
  BY <1>5, <1>6 DEF Storing, CacheWrite
<1>8. q = 0 \/ ST5.all => (st5_cond_met(q) <=> Met(isa, ST5, q))
  <2>1. q = 0 \/ ST5.all => q \in Seeing
    BY <1>5, KnownShrinks DEF Storing, Decodes, Seeing
  <2> QED BY <2>1, KnownShrinks, MetIs DEF Storing, Decodes
<1>9. q \in Writers(isa, ST5, x) <=> /\ q \in cache_wen'
                                     /\ x = IF ST5.all THEN a + q ELSE a
  BY <1>5, <1>7, <1>8 DEF Writers, Cell
<1>10. a \in Nat /\ x \in Nat
  BY <1>2
<1> HIDE DEF a
<1>11. CASE a % N = 0
  <2>1. (x - (x % N) = a /\ x % N = q) <=> x = a + q
    BY <1>10, <1>11, SameLine
  <2>2. q \in cache_wen' /\ ~ST5.all => q = 0 /\ a + q = a
    BY <1>7, <1>10
  <2>3. a - (a % N) = a
    BY <1>10, <1>11
  <2> QED BY <1>3, <1>4, <1>9, <1>11, <2>1, <2>2, <2>3
<1>12. CASE a % N # 0
  <2>1. ~ST5.all /\ (q \in cache_wen' => q = 0)
    BY <1>5, <1>7, <1>12
  <2>2. x % N \in Int /\ a % N \in Int
    BY <1>2, <1>10, Sizes
  <2>3. x - (x % N) = a - (a % N) /\ x % N = a % N <=> x = a
    BY <1>10, <2>2
  <2> QED BY <1>3, <1>4, <1>9, <1>12, <2>1, <2>3
<1> QED BY <1>11, <1>12

\* The cache, what it is about to store and what it has read.
LEMMA CellsStep ==
  ASSUME Storing
  PROVE  CellsFollow'
<1>1. /\ isa'.cells = Cells(isa, ST5) /\ isa'.cells1 = isa.cells /\ isa'.cells2 = isa.cells1
  BY MachineMoves DEF Storing, Decodes
<1>2. cache' = isa.cells /\ DOMAIN isa.cells = 0 .. CacheSize - 1
  BY DEF Storing, CellsFollow, CacheWrite, Stored
<1>3. \A p \in PU : cache_q'[p] = isa'.cells2[IF p = 0 THEN CacheIndex(ST4_waddr')
                                              ELSE LineStart(ST4_waddr') + p]
  BY <1>1 DEF Storing, CellsFollow, CacheWrite, CacheRead, CacheIndex, LineStart
<1>4. ASSUME NEW x \in 0 .. CacheSize - 1
      PROVE  Stored(x)' = Cells(isa, ST5)[x]
  <2>1. Stored(x)' = IF x - (x % N) = LineStart(ST5_waddr) /\ Source(x % N)' # {}
                       THEN cache_wdata'[CHOOSE p \in Source(x % N)' : TRUE] ELSE isa.cells[x]
    <3>1. LineStart(cache_waddr)' = LineStart(ST5_waddr) /\ cache'[x] = isa.cells[x]
      BY <1>2 DEF Storing, CacheWrite, LineStart, CacheIndex
    <3>2. Stored(x)' = IF x - (x % N) = LineStart(cache_waddr)' /\ Source(x % N)' # {}
                         THEN cache_wdata'[CHOOSE p \in Source(x % N)' : TRUE] ELSE cache'[x]
      BY Zenon DEF Stored
    <3> QED BY <3>1, <3>2, Zenon
  <2>2. CASE ~ToCache(ST5)
    <3>1. ~WrCache(ST5)
      BY <2>2, Decoded DEF Storing, Decodes, PipelineTypes
    <3>2. Source(x % N)' = {}
      BY <3>1 DEF Storing, CacheWrite, Source
    <3> QED BY <2>1, <2>2, <3>2 DEF Cells
  <2>3. CASE ToCache(ST5)
    <3>1. Cells(isa, ST5)[x] = IF Writers(isa, ST5, x) # {}
            THEN Value(isa, ST5, CHOOSE p \in Writers(isa, ST5, x) : TRUE) ELSE isa.cells[x]
      BY <1>2, <2>3 DEF Cells
    <3>2. Source(x % N)' \subseteq PU /\ Writers(isa, ST5, x) \subseteq PU
      BY DEF Storing, CacheWrite, Source, Writers
    <3>3. \A q \in PU : (x - (x % N) = LineStart(ST5_waddr) /\ q \in Source(x % N)')
                          <=> q \in Writers(isa, ST5, x)
      BY <2>3, WriterIs DEF Storing
    <3>4. CASE Writers(isa, ST5, x) = {}
      BY <2>1, <3>1, <3>2, <3>3, <3>4
    <3>5. CASE Writers(isa, ST5, x) # {}
      <4>1. x - (x % N) = LineStart(ST5_waddr) /\ Source(x % N)' = Writers(isa, ST5, x)
        BY <3>2, <3>3, <3>5
      <4>2. PICK q \in PU : q = CHOOSE p \in Writers(isa, ST5, x) : TRUE
        BY <3>2, <3>5
      <4>3. q \in Writers(isa, ST5, x)
        BY <3>5, <4>2
      <4>4. Stored(x)' = cache_wdata'[q]
        BY <2>1, <3>5, <4>1, <4>2
      <4>5. cache_wdata'[q] = st5_res(q)
        BY DEF Storing, CacheWrite
      <4>6. q \in Seeing
        <5>1. q = 0 \/ ST5.all
          BY <4>3 DEF Writers
        <5>2. ST5.all => Unknown(isa, ST5) = {}
          BY <2>3 DEF Storing, Decodes, Defined
        <5> QED BY <5>1, <5>2, KnownShrinks DEF Storing, Decodes, Seeing
      <4>7. Value(isa, ST5, q) = st5_res(q)
        BY <2>3, <4>6, ValueIs DEF Storing
      <4> QED BY <3>1, <3>5, <4>2, <4>4, <4>5, <4>7
    <3> QED BY <3>4, <3>5
  <2> QED BY <2>2, <2>3
<1>5. Cells(isa, ST5) = [x \in 0 .. CacheSize - 1 |-> Cells(isa, ST5)[x]]
  <2>1. CASE ~ToCache(ST5)
    BY <2>1, Zenon DEF Cells, Storing, CellsFollow
  <2>2. CASE ToCache(ST5)
    <3> DEFINE e(x) == IF Writers(isa, ST5, x) # {}
                         THEN Value(isa, ST5, CHOOSE p \in Writers(isa, ST5, x) : TRUE)
                         ELSE isa.cells[x]
               S == 0 .. CacheSize - 1
               f == Cells(isa, ST5)
    <3>1. f = [x \in DOMAIN isa.cells |-> e(x)]
      BY <2>2, Zenon DEF Cells
    <3>2. DOMAIN isa.cells = S
      BY <1>2
    <3> HIDE DEF e, S, f
    <3>3. f = [x \in S |-> f[x]]
      BY <3>1, <3>2
    <3> QED BY <3>3 DEF S, f
  <2> QED BY <2>1, <2>2
<1>6. Cells(isa, ST5) = [x \in 0 .. CacheSize - 1 |-> Stored(x)']
  BY <1>4, <1>5
<1> QED BY <1>1, <1>2, <1>3, <1>6 DEF CellsFollow

-----------------------------------------------------------------------------
(* Flags and the address of memory. *)
LEMMA PcWraps ==
  ASSUME NEW x \in 0 .. IpRange - 1
  PROVE  x % IpRange = x
BY Sizes

\* A jump in stage 5 finds the fetch where its return address is computed from.
LEMMA JumpAt ==
  ASSUME MachineTypes, ControlFollows, ST5.op \in Jumps
  PROVE  /\ Executing /\ isa.slots = 0 /\ from[4] = isa.pc
         /\ drop_line <=> ST5.op = "DJUMP"
         /\ ip = IF drop_line THEN isa.pc ELSE (isa.pc + 4) % IpRange
         /\ ip_plus_1 = (isa.pc + (IF ST5.op = "DJUMP" THEN 1 ELSE 5)) % IpRange
<1>1. PICK o \in 0 .. 4, y \in 1 .. 4 : Line(o, y)
  BY DEF ControlFollows
<1>2. Stage(4) = ST5
  BY DEF Stage
<1>3. /\ from[4] = IF y <= 4 /\ 4 <= o THEN Ahead(o - 4) ELSE Bubble
      /\ isa.slots <= o - 4
      /\ drop_line <=> ST5.op = "DJUMP"
      /\ ip = IF drop_line THEN from[4] ELSE (from[4] + 4) % IpRange
  BY <1>1, <1>2 DEF Line
<1>4. isa.slots \in Nat /\ isa.pc \in 0 .. IpRange - 1
  BY DEF MachineTypes
<1>5. o = 4 /\ isa.slots = 0
  BY <1>3, <1>4
<1>6. from[4] = isa.pc /\ Executing
  BY <1>3, <1>4, <1>5, PcWraps DEF Ahead, Executing, Bubble
<1>7. isa.pc \in Int /\ IpRange \in Nat \ {0}
  BY <1>4, Sizes
<1>8. (((isa.pc + 4) % IpRange) + 1) % IpRange = (isa.pc + 5) % IpRange
  <2> DEFINE x == isa.pc + 4
             r == IpRange
  <2>0. x \in Int /\ r \in Nat \ {0} /\ 1 \in Int
    BY <1>7
  <2> HIDE DEF x, r
  <2>3. ((x % r) + 1) % r = (x + 1) % r
    BY <2>0, ModPlus
  <2>1. (((isa.pc + 4) % IpRange) + 1) % IpRange = ((isa.pc + 4) + 1) % IpRange
    BY <2>3 DEF x, r
  <2>2. (isa.pc + 4) + 1 = isa.pc + 5
    BY <1>7
  <2> QED BY <2>1, <2>2
<1>9. CASE drop_line
  BY <1>3, <1>5, <1>6, <1>9 DEF ip_plus_1
<1>10. CASE ~drop_line
  BY <1>3, <1>5, <1>6, <1>8, <1>10 DEF ip_plus_1
<1> QED BY <1>3, <1>5, <1>6, <1>9, <1>10

\* A port takes a word when it has room for it, in both.
LEMMA AcceptedIs ==
  ASSUME PipelineTypes, PortsFollow, IsOut(ST5)
  PROVE  /\ port_address = ST5.a /\ ~IsIn(ST5)
         /\ Room(port_address) <=> Accepted(isa, ST5)
         /\ port.wready = IF Accepted(isa, ST5) THEN {port_address} ELSE {}
<1>1. PortOf(ST5) = ST5.a /\ ~IsIn(ST5) /\ OnPort(ST5)
  BY Decoded DEF PipelineTypes, OnPort
<1>2. port_address = ST5.a /\ port.log = isa.log
  BY <1>1 DEF PortsFollow
<1> QED BY <1>1, <1>2 DEF PortsFollow, Room, Accepted

\* Flags and MEM_ADDR, the return address of a call included.
LEMMA FlagsStep ==
  ASSUME Decodes, Moves, FlagsFollow, PortsFollow, ControlFollows,
         flags' = [p \in PU |-> SetFlagsOf(p)], MemAddr
  PROVE  FlagsFollow'
<1>1. /\ isa'.flags = [p \in PU |-> FlagsAfter(isa, ST5, p)]
      /\ isa'.mem = Memory(isa, ST5)
  BY MachineMoves DEF Decodes
<1>2. Known' = Seeing /\ Seeing \subseteq Known /\ Known \subseteq PU /\ 0 \in Seeing
  BY KnownMoves, KnownShrinks DEF Decodes, Known
<1>3. \A p \in Known : st5_cond_met(p) <=> Met(isa, ST5, p)
  BY MetIs DEF Decodes
<1>4. ASSUME NEW p \in Seeing
      PROVE  SetFlagsOf(p) = FlagsAfter(isa, ST5, p)
  <2>1. p \in PU /\ flags[p] = isa.flags[p] /\ (st5_cond_met(p) <=> Met(isa, ST5, p))
    BY <1>2, <1>3 DEF FlagsFollow
  <2>2. CASE ~(st5_cond_met(p) /\ SetFlags(ST5))
    BY <2>1, <2>2 DEF SetFlagsOf, FlagsAfter, SetFlags
  <2>3. CASE st5_cond_met(p) /\ SetFlags(ST5) /\ OnPort(ST5) /\ p = 0
    <3>1. ~peripheral_success <=> IsOut(ST5) /\ ~Accepted(isa, ST5)
      <4>1. CASE IsIn(ST5)
        <5>1. ~IsOut(ST5)
          BY <4>1, Decoded DEF Decodes, PipelineTypes
        <5> QED BY <4>1, <5>1 DEF peripheral_success, PortsFollow
      <4>2. CASE IsOut(ST5)
        BY <4>2, AcceptedIs DEF peripheral_success, Decodes
      <4> QED BY <2>3, <4>1, <4>2 DEF OnPort
    <3> QED BY <2>1, <2>3, <3>1 DEF SetFlagsOf, FlagsAfter, SetFlags, OnPort
  <2>4. CASE st5_cond_met(p) /\ SetFlags(ST5) /\ ~(OnPort(ST5) /\ p = 0)
    <3>1. ST5.op \in Arithmetic /\ ~IsIn(ST5)
      BY <2>1, <2>4 DEF SetFlags, OnPort, Seeing, Unknown
    <3>2. /\ Result(isa, ST5, p) = st5_res(p)
          /\ CarryOut(isa, ST5, p) = st5_carry(p)
          /\ Overflow(isa, ST5, p) <=>
              (TopBit(st5_res(p)) + TopBit(arg1(p)) + TopBit(arg2(p)) + st5_carry(p)) % 2 = 1
      BY <3>1, ResultIs
    <3>3. SetFlagsOf(p) =
            [N |-> TopBit(st5_res(p)) = 1, Z |-> st5_res(p) = 0,
             V |-> (TopBit(st5_res(p)) + TopBit(arg1(p)) + TopBit(arg2(p))
                    + st5_carry(p)) % 2 = 1,
             C |-> st5_carry(p) = 1]
      BY <2>4, Zenon DEF SetFlagsOf
    <3>4. FlagsAfter(isa, ST5, p) =
            [N |-> TopBit(Result(isa, ST5, p)) = 1, Z |-> Result(isa, ST5, p) = 0,
             V |-> Overflow(isa, ST5, p), C |-> CarryOut(isa, ST5, p) = 1]
      <4>1. ST5.op \in Arithmetic /\ ST5.set /\ Met(isa, ST5, p)
            /\ ~((IsIn(ST5) \/ IsOut(ST5)) /\ p = 0)
        BY <2>1, <2>4 DEF SetFlags, OnPort
      <4> QED BY <4>1, Zenon DEF FlagsAfter
    <3>6. \A x, y \in BOOLEAN : (x <=> y) => x = y
      BY Zenon
    <3>7. Overflow(isa, ST5, p) \in BOOLEAN
      BY DEF Overflow
    <3> DEFINE v == (TopBit(st5_res(p)) + TopBit(arg1(p)) + TopBit(arg2(p))
                    + st5_carry(p)) % 2 = 1
    <3>8. v \in BOOLEAN
      BY Zenon
    <3>9. Overflow(isa, ST5, p) = v
      BY <3>2, <3>6, <3>7, <3>8, Zenon
    <3>10. /\ (TopBit(Result(isa, ST5, p)) = 1) = (TopBit(st5_res(p)) = 1)
           /\ (Result(isa, ST5, p) = 0) = (st5_res(p) = 0)
           /\ (CarryOut(isa, ST5, p) = 1) = (st5_carry(p) = 1)
      BY <3>2, Zenon
    <3> QED BY <3>3, <3>4, <3>9, <3>10, Zenon
  <2> QED BY <2>2, <2>3, <2>4
<1>5. mem_addr' = Memory(isa, ST5)
  <2>1. /\ st5_cond_met(0) <=> Met(isa, ST5, 0)
        /\ mem_addr = isa.mem
        /\ WrSreg(ST5) <=> ToSpecial(ST5)
    BY <1>2, <1>3, Decoded DEF FlagsFollow, Decodes, PipelineTypes
  <2>2. ToSpecial(ST5) => Value(isa, ST5, 0) = st5_mov_res(0)
    BY <1>2, ValueIs
  <2>3. CASE ST5.op \in Jumps
    <3>1. ~ToSpecial(ST5)
      BY <2>3 DEF ToSpecial, Jumps, Arithmetic, Sums
    <3>2. 2 * ip_plus_1 = ReturnAddress(isa, ST5)
      BY <2>3, JumpAt DEF ReturnAddress, Decodes
    <3> QED BY <2>1, <2>3, <3>1, <3>2 DEF Memory, MemAddr
  <2>4. CASE ST5.op \notin Jumps
    BY <2>1, <2>2, <2>4 DEF Memory, MemAddr, MEM_LO, MEM_HI
  <2> QED BY <2>3, <2>4
<1> QED BY <1>1, <1>2, <1>4, <1>5 DEF FlagsFollow

-----------------------------------------------------------------------------
(* Results. *)
Multiplying == /\ Decodes /\ Moves /\ FlagsFollow /\ ResultsFollow /\ ResultsInTurn
               /\ StagesApart /\ Multiply /\ Advance

\* Slow commands never meet in the multiplier.
LEMMA ResultsInTurnStep ==
  ASSUME ResultsInTurn, StagesApart, Multiply, Advance
  PROVE  ResultsInTurn'
<1> SUFFICES ASSUME NEW p \in PU
    PROVE
    /\ ST6_op'[p] \in Multiplications => ST4.op \notin {"SHL", "SHR", "WMUL"} /\ ST3.op # "WMUL"
    /\ ST6_op'[p] = "WMUL" => ST4.op \notin Slow /\ ST3.op \notin Slow
    /\ ST7_wmul'[p] => ST4.op \notin Slow /\ ST6_op'[p] = "NOP"
  BY DEF ResultsInTurn, Advance
<1>1. /\ ST6_op'[p] = IF st5_cond_met(p) /\ ST5.op \in Multiplications THEN ST5.op ELSE "NOP"
      /\ ST7_wmul'[p] <=> ST6_op[p] = "WMUL"
  BY DEF Multiply
<1>2. "NOP" \notin Multiplications /\ Multiplications \subseteq Slow /\ "WMUL" \in Multiplications
      /\ "SHL" \in Slow /\ "SHR" \in Slow
  BY DEF Multiplications, Slow
<1>3. /\ ST4.op \in {"SHL", "SHR"} => ST5.op \notin Multiplications
      /\ ST4.op \in Slow => ST5.op # "WMUL"
      /\ ST4.op = "WMUL" => ST5.op \notin Slow
      /\ ST3.op \in Slow => ST5.op # "WMUL"
      /\ ST3.op = "WMUL" => ST5.op \notin Slow
  BY DEF StagesApart, Apart1, Apart2
<1>4. ST6_op[p] = "WMUL" => ST5.op \notin Slow /\ ST4.op \notin Slow
  BY DEF ResultsInTurn
<1> QED BY <1>1, <1>2, <1>3, <1>4

\* Pairs of words.
LEMMA Products ==
  /\ WordRange * WordRange \in Nat \ {0} /\ (WordRange * WordRange) % WordRange = 0
  /\ \A x \in 0 .. WordRange * WordRange - 1 :
       High(x) \in Word /\ Low(x) \in Word /\ x = High(x) * WordRange + Low(x)
<1>1. WordRange \in Nat \ {0}
  BY Sizes
<1> DEFINE r == WordRange
<1>2. r \in Nat \ {0}
  BY <1>1
<1> HIDE DEF r
<1>3. r * r \in Nat \ {0}
  BY <1>2
<1>4. r * r = r * r + 0 /\ r * r \in Int /\ 0 \in 0 .. r - 1 /\ r \in Int
  BY <1>2, <1>3
<1>5. (r * r) % r = 0
  BY <1>2, <1>4, DivModUnique
<1>6. ASSUME NEW x \in 0 .. WordRange * WordRange - 1
      PROVE  High(x) \in Word /\ Low(x) \in Word /\ x = High(x) * WordRange + Low(x)
  <2>1. /\ x \div WordRange \in 0 .. WordRange - 1 /\ x % WordRange \in 0 .. WordRange - 1
        /\ x = (x \div WordRange) * WordRange + (x % WordRange)
    BY <1>1, PairBack
  <2>2. (x \div WordRange) % WordRange = x \div WordRange
    BY <2>1, WordBits DEF Word
  <2> QED BY <2>1, <2>2 DEF High, Low, Word
<1> QED BY <1>3, <1>5, <1>6 DEF r

LEMMA ProductBounds ==
  ASSUME PipelineTypes, NEW p \in PU
  PROVE  product(p) \in 0 .. WordRange * WordRange - 1
<1>1. ST6_p1[p] \in Word /\ ST6_p2[p] \in Word
  BY DEF PipelineTypes
<1>2. ST6_p1[p] \in Int /\ ST6_p2[p] \in Int /\ WordRange \in Int
  BY <1>1, Sizes DEF Word
<1>3. Signed(ST6_p1[p]) \in Int /\ Signed(ST6_p2[p]) \in Int
  BY <1>2 DEF Signed
<1> DEFINE v == IF ST6_op[p] = "SMUL" THEN Signed(ST6_p1[p]) * Signed(ST6_p2[p])
                                      ELSE ST6_p1[p] * ST6_p2[p]
           r == WordRange * WordRange
<1>4. v \in Int
  <2>1. \A x, y \in Int : x * y \in Int
    OBVIOUS
  <2> QED BY <1>2, <1>3, <2>1
<1>5. r \in Nat \ {0}
  BY Products
<1>6. product(p) = v % r
  BY DEF product
<1> HIDE DEF v, r
<1>7. v % r \in 0 .. r - 1
  BY <1>4, <1>5, DivMod
<1> QED BY <1>6, <1>7 DEF r

\* The multiplier has the product of the operands the manual says,
LEMMA ProductIs ==
  ASSUME Multiplying, NEW p \in Seeing, ST5.op \in Multiplications,
         Met(isa, ST5, p), ST6_op[p] # "WMUL"
  PROVE  /\ product(p)' = Product(isa, ST5, p)
         /\ ST6_op'[p] = ST5.op /\ ~ST7_wmul'[p]
         /\ ST6_p1'[p] = First(isa, ST5, p)
<1>1. p \in PU /\ p \in Known
  BY KnownShrinks DEF Multiplying, Decodes, Seeing
<1>2. /\ ST5.op \in HasOperand /\ ~MovArg1(ST5) /\ ~IsIn(ST5) /\ ST5.op \notin Arithmetic
  BY DEF HasOperand, Slow, Multiplications, MovArg1, Mov, IsIn, Arithmetic, Sums
<1>3. First(isa, ST5, p) = ST5_p1[p] /\ Last(isa, ST5, p) = ST5_p2[p]
  BY <1>2, FirstIs, LastIs DEF Multiplying
<1>4. arg2(p) = ST5_p2[p]
  BY <1>2 DEF arg2, Inv2
<1>5. st5_cond_met(p)
  BY <1>1, MetIs DEF Multiplying, Decodes
<1>6. /\ ST6_op'[p] = ST5.op /\ ~ST7_wmul'[p]
      /\ ST6_p1'[p] = First(isa, ST5, p) /\ ST6_p2'[p] = Last(isa, ST5, p)
  BY <1>1, <1>3, <1>4, <1>5 DEF Multiplying, Multiply
<1>7. product(p)' = (IF ST6_op'[p] = "SMUL" THEN Signed(ST6_p1'[p]) * Signed(ST6_p2'[p])
                         ELSE ST6_p1'[p] * ST6_p2'[p]) % (WordRange * WordRange)
  BY DEF product, Signed, TopBit
<1>8. \A x : Signed(x) = SignedOf(x)
  BY DEF Signed, SignedOf
<1> QED BY <1>6, <1>7, <1>8, Zenon DEF Product

\* the shifter what is shifted.
LEMMA ShiftIs ==
  ASSUME Multiplying, NEW p \in Seeing, ST5.op \in {"SHL", "SHR"}
  PROVE  Shifted(isa, ST5, p) = shift_res(p) /\ shift_res(p) \in Word
<1>1. p \in PU /\ p \in Known
  BY KnownShrinks DEF Multiplying, Decodes, Seeing
<1>2. /\ ST5.op \in HasOperand /\ ~MovArg1(ST5) /\ ~IsIn(ST5)
  BY DEF HasOperand, Slow, MovArg1, Mov, IsIn
<1>3. First(isa, ST5, p) = ST5_p1[p] /\ Last(isa, ST5, p) = ST5_p2[p]
  BY <1>2, FirstIs, LastIs DEF Multiplying
<1>4. ST5_p1[p] \in Word /\ ST5_p2[p] \in Word
  BY <1>1, ArgumentsAreWords DEF Multiplying, Decodes
<1>5. ST5_p2[p] < W
  BY <1>3 DEF Multiplying, Decodes, Defined, Seeing
<1>6. W \in Nat \ {0} /\ ST5_p2[p] \in 0 .. W - 1
  BY <1>4, <1>5, InstructionsAssumption, Sizes DEF Word
<1>7. ST5_p2[p] % W = ST5_p2[p]
  BY <1>6
<1>8. 2^ST5_p2[p] \in Nat \ {0}
  BY <1>6, PowersAssumption
<1>9. Shifted(isa, ST5, p) = shift_res(p)
  BY <1>3, <1>7, Zenon DEF Shifted, shift_res
<1> DEFINE x == ST5_p1[p]
           y == 2^ST5_p2[p]
           r == WordRange
<1>10. x \in 0 .. r - 1 /\ x \in Nat /\ y \in Nat \ {0} /\ r \in Nat \ {0}
  BY <1>4, <1>8, Sizes DEF Word
<1>11. shift_res(p) = IF ST5.op = "SHL" THEN (x * y) % r ELSE x \div y
  BY <1>7 DEF shift_res
<1> HIDE DEF x, y, r
<1>12. x * y \in Int
  BY <1>10
<1>13. (x * y) % r \in 0 .. r - 1
  BY <1>10, <1>12, DivMod
<1>14. x \div y \in 0 .. x
  BY <1>10, DivBound
<1>15. shift_res(p) \in 0 .. r - 1
  BY <1>10, <1>11, <1>13, <1>14
<1> QED BY <1>9, <1>15 DEF r, Word

\* The results the next four commands see, with what the multiplier has for them.
LEMMA SeenIs ==
  ASSUME Multiplying, NEW p \in Seeing
  PROVE  LET old == isa.seen[p]
             new == isa'.seen[p]
             met == st5_cond_met(p)
             shift == met /\ ST5.op \in {"SHL", "SHR"}
             split == [lo |-> Low(product(p)'), hi |-> High(product(p)')]
         IN /\ new = [i \in 1 .. 4 |-> new[i]]
            /\ new[1] = old[2]
            /\ new[2] = IF shift THEN [lo |-> shift_res(p), hi |-> old[3].hi] ELSE old[3]
            /\ new[3] = IF shift THEN [lo |-> shift_res(p), hi |-> old[4].hi]
                        ELSE IF met /\ ST5.op \in Multiplications THEN split ELSE old[4]
            /\ new[4] = IF shift THEN [lo |-> shift_res(p), hi |-> old[4].hi]
                        ELSE IF met /\ ST5.op = "WMUL"
                          THEN [lo |-> Low(High(product(p)')
                                           + Low(ST6_p1'[p] * old[2].hi)),
                                hi |-> High(product(p)')]
                        ELSE IF met /\ ST5.op \in Multiplications THEN split
                        ELSE old[4]
<1> DEFINE old == isa.seen[p]
           new == isa'.seen[p]
<1>1. p \in PU /\ p \in Known
  BY KnownShrinks DEF Multiplying, Decodes, Seeing
<1>2. new = Seen(isa, ST5, p)
  BY <1>1, MachineMoves DEF Multiplying, Decodes
<1>3. st5_cond_met(p) <=> Met(isa, ST5, p)
  BY <1>1, MetIs DEF Multiplying, Decodes
<1>4. ST5.op \in {"SHL", "SHR"} => Shifted(isa, ST5, p) = shift_res(p)
  BY ShiftIs
<1>5. ST5.op \in Multiplications => ST6_op[p] # "WMUL" /\ ST5.op \notin {"SHL", "SHR"}
  BY <1>1 DEF Multiplying, ResultsInTurn, Multiplications, Slow
<1>6. st5_cond_met(p) /\ ST5.op \in Multiplications =>
        /\ Product(isa, ST5, p) = product(p)'
        /\ First(isa, ST5, p) = ST6_p1'[p]
  BY <1>3, <1>5, ProductIs
<1>7. "WMUL" \in Multiplications
  BY DEF Multiplications
<1>8. new = [i \in 1 .. 4 |-> new[i]]
  BY <1>2 DEF Seen
<1> DEFINE later(i) == isa.seen[p][IF i = 4 THEN 4 ELSE i + 1]
           entry(i) ==
             IF ~Met(isa, ST5, p) THEN later(i)
             ELSE IF ST5.op \in {"SHL", "SHR"} /\ i >= 2
               THEN [lo |-> Shifted(isa, ST5, p), hi |-> later(i).hi]
             ELSE IF ST5.op = "WMUL" /\ i = 4
               THEN [lo |-> Low(High(Product(isa, ST5, p))
                                + Low(First(isa, ST5, p) * isa.seen[p][2].hi)),
                     hi |-> High(Product(isa, ST5, p))]
             ELSE IF ST5.op \in Multiplications /\ i >= 3
               THEN [lo |-> Low(Product(isa, ST5, p)), hi |-> High(Product(isa, ST5, p))]
             ELSE later(i)
<1>9. new = [i \in 1 .. 4 |-> entry(i)]
  BY <1>2 DEF Seen
<1>10. new[1] = entry(1) /\ new[2] = entry(2) /\ new[3] = entry(3) /\ new[4] = entry(4)
  <2> HIDE DEF entry, new
  <2> QED BY <1>9
<1>11. later(1) = old[2] /\ later(2) = old[3] /\ later(3) = old[4] /\ later(4) = old[4]
  OBVIOUS
<1> HIDE DEF later, old, new
<1>12. new[1] = old[2]
  BY <1>7, <1>10, <1>11
<1>13. new[2] = IF st5_cond_met(p) /\ ST5.op \in {"SHL", "SHR"}
                  THEN [lo |-> shift_res(p), hi |-> old[3].hi] ELSE old[3]
  BY <1>3, <1>4, <1>7, <1>10, <1>11
<1>14. new[3] = IF st5_cond_met(p) /\ ST5.op \in {"SHL", "SHR"}
                  THEN [lo |-> shift_res(p), hi |-> old[4].hi]
                ELSE IF st5_cond_met(p) /\ ST5.op \in Multiplications
                  THEN [lo |-> Low(product(p)'), hi |-> High(product(p)')] ELSE old[4]
  BY <1>3, <1>4, <1>5, <1>6, <1>7, <1>10, <1>11
<1>15. new[4] = IF st5_cond_met(p) /\ ST5.op \in {"SHL", "SHR"}
                  THEN [lo |-> shift_res(p), hi |-> old[4].hi]
                ELSE IF st5_cond_met(p) /\ ST5.op = "WMUL"
                  THEN [lo |-> Low(High(product(p)') + Low(ST6_p1'[p] * old[2].hi)),
                        hi |-> High(product(p)')]
                ELSE IF st5_cond_met(p) /\ ST5.op \in Multiplications
                  THEN [lo |-> Low(product(p)'), hi |-> High(product(p)')]
                ELSE old[4]
  BY <1>3, <1>4, <1>5, <1>6, <1>7, <1>10, <1>11 DEF old
<1> QED BY <1>8, <1>12, <1>13, <1>14, <1>15 DEF old, new

LEMMA SumOfWords ==
  ASSUME NEW x \in Int
  PROVE  x % WordRange \in Word /\ Low(x) \in Word
BY DivMod, Sizes DEF Low, Word

LEMMA ProductBoundsNext ==
  ASSUME PipelineTypes', NEW p \in PU
  PROVE  product(p)' \in 0 .. WordRange * WordRange - 1
<1>1. ST6_p1'[p] \in Word /\ ST6_p2'[p] \in Word
  BY DEF PipelineTypes
<1>2. ST6_p1'[p] \in Int /\ ST6_p2'[p] \in Int /\ WordRange \in Int
  BY <1>1, Sizes DEF Word
<1>3. SignedOf(ST6_p1'[p]) \in Int /\ SignedOf(ST6_p2'[p]) \in Int
  BY <1>2 DEF SignedOf
<1> DEFINE v == IF ST6_op'[p] = "SMUL" THEN SignedOf(ST6_p1'[p]) * SignedOf(ST6_p2'[p])
                                       ELSE ST6_p1'[p] * ST6_p2'[p]
           r == WordRange * WordRange
<1>4. v \in Int
  <2>1. \A x, y \in Int : x * y \in Int
    OBVIOUS
  <2> QED BY <1>2, <1>3, <2>1
<1>5. r \in Nat \ {0}
  BY Products
<1>6. product(p)' = v % r
  BY DEF product, Signed, SignedOf, TopBit
<1> HIDE DEF v, r
<1>7. v % r \in 0 .. r - 1
  BY <1>4, <1>5, DivMod
<1> QED BY <1>6, <1>7 DEF r

\* RESULT_LO and RESULT_HI appear one to three commands late, as promised.
LEMMA ResultsStep ==
  ASSUME Multiplying, PipelineTypes'
  PROVE  ResultsFollow'
<1> SUFFICES ASSUME NEW p \in Seeing
    PROVE
    /\ isa'.seen[p] \in [1 .. 4 -> ResultWords]
    /\ mult_res'[p] = isa'.seen[p][2].hi * WordRange + isa'.seen[p][2].lo
    /\ isa'.seen[p][3] =
         IF ST7_wmul'[p] THEN [hi |-> High(mult_res'[p]),
                               lo |-> Low(Low(product(p)') + High(mult_res'[p]))]
         ELSE IF ST6_op'[p] \in Multiplications
           THEN [hi |-> High(product(p)'), lo |-> Low(product(p)')]
         ELSE isa'.seen[p][2]
    /\ isa'.seen[p][4] =
         IF ST6_op'[p] = "WMUL"
           THEN [hi |-> High(product(p)'),
                 lo |-> Low(High(product(p)') + Low(ST6_p1'[p] * High(mult_res'[p])))]
           ELSE isa'.seen[p][3]
  <2>1. Known' = Seeing
    BY KnownMoves DEF Multiplying, Decodes
  <2> QED BY <2>1 DEF ResultsFollow, High, Low
<1> DEFINE old == isa.seen[p]
           new == isa'.seen[p]
           met == st5_cond_met(p)
           shift == met /\ ST5.op \in {"SHL", "SHR"}
           mult == met /\ ST5.op \in Multiplications
           now == product(p)
           next == product(p)'
           mr == mult_res[p]
<1>1. p \in PU /\ p \in Known
  BY KnownShrinks DEF Multiplying, Decodes, Seeing
<1>2. /\ new = [i \in 1 .. 4 |-> new[i]]
      /\ new[1] = old[2]
      /\ new[2] = IF shift THEN [lo |-> shift_res(p), hi |-> old[3].hi] ELSE old[3]
      /\ new[3] = IF shift THEN [lo |-> shift_res(p), hi |-> old[4].hi]
                  ELSE IF mult THEN [lo |-> Low(next), hi |-> High(next)] ELSE old[4]
      /\ new[4] = IF shift THEN [lo |-> shift_res(p), hi |-> old[4].hi]
                  ELSE IF met /\ ST5.op = "WMUL"
                    THEN [lo |-> Low(High(next) + Low(ST6_p1'[p] * old[2].hi)),
                          hi |-> High(next)]
                  ELSE IF mult THEN [lo |-> Low(next), hi |-> High(next)]
                  ELSE old[4]
  BY SeenIs
<1>3. /\ \A i \in 1 .. 4 : old[i] \in ResultWords
      /\ mr = old[2].hi * WordRange + old[2].lo
      /\ old[3] = IF ST7_wmul[p] THEN [hi |-> High(mr), lo |-> Low(Low(now) + High(mr))]
                  ELSE IF ST6_op[p] \in Multiplications
                    THEN [hi |-> High(now), lo |-> Low(now)]
                  ELSE old[2]
      /\ old[4] = IF ST6_op[p] = "WMUL"
                    THEN [hi |-> High(now),
                          lo |-> Low(High(now) + Low(ST6_p1[p] * High(mr)))]
                    ELSE old[3]
  BY <1>1 DEF ResultsFollow, Multiplying
<1>4. /\ mult_res'[p] = IF ST7_wmul[p] THEN High(mr) * WordRange
                                            + ((Low(now) + High(mr)) % WordRange)
                        ELSE IF ST6_op[p] \in Multiplications THEN now
                        ELSE IF shift THEN High(mr) * WordRange + shift_res(p)
                        ELSE mr
      /\ ST6_op'[p] = IF mult THEN ST5.op ELSE "NOP"
      /\ ST7_wmul'[p] <=> ST6_op[p] = "WMUL"
      /\ ST6_p1'[p] = IF ST6_op[p] = "WMUL" THEN ST6_p1[p] ELSE ST5_p1[p]
      /\ ST6_p2'[p] = IF ST6_op[p] = "WMUL" THEN High(mr) ELSE arg2(p)
  BY <1>1 DEF Multiplying, Multiply
<1>5. /\ ST6_op[p] \in Multiplications => ST5.op \notin {"SHL", "SHR", "WMUL"}
      /\ ST6_op[p] = "WMUL" => ST5.op \notin Slow
      /\ ST7_wmul[p] => ST5.op \notin Slow /\ ST6_op[p] = "NOP"
  BY <1>1 DEF Multiplying, ResultsInTurn
<1>6. /\ "NOP" \notin Multiplications /\ Multiplications \subseteq Slow
      /\ "WMUL" \in Multiplications /\ "SMUL" # "NOP" /\ "WMUL" # "NOP"
      /\ "SHL" \in Slow /\ "SHR" \in Slow
      /\ "SHL" \notin Multiplications /\ "SHR" \notin Multiplications
  BY DEF Multiplications, Slow
<1>7. /\ now \in 0 .. WordRange * WordRange - 1 /\ next \in 0 .. WordRange * WordRange - 1
      /\ mr \in 0 .. WordRange * WordRange - 1
      /\ ST6_p1[p] \in Int /\ ST6_p1'[p] \in Int
      /\ shift => shift_res(p) \in Word
  <2>1. now \in 0 .. WordRange * WordRange - 1
    BY <1>1, ProductBounds DEF Multiplying, Decodes
  <2>3. next \in 0 .. WordRange * WordRange - 1
    BY <1>1, ProductBoundsNext
  <2>4. mr \in 0 .. WordRange * WordRange - 1 /\ ST6_p1[p] \in Int
    BY <1>1 DEF Multiplying, Decodes, PipelineTypes, Word
  <2>5. ST6_p1'[p] \in Int
    BY <1>1 DEF PipelineTypes, Word
  <2> QED BY <2>1, <2>3, <2>4, <2>5, ShiftIs
<1> HIDE DEF old, new, now, next, mr, met
<1>8. /\ High(now) \in Word /\ Low(now) \in Word /\ now = High(now) * WordRange + Low(now)
      /\ High(next) \in Word /\ Low(next) \in Word
      /\ High(mr) \in Word /\ Low(mr) \in Word
  BY <1>7, Products
<1>9. /\ old[2].hi \in Word /\ old[2].lo \in Word /\ old[3].hi \in Word
      /\ old[4].hi \in Word
      /\ old[2] \in ResultWords /\ old[3] \in ResultWords /\ old[4] \in ResultWords
  <2>1. old[2] \in ResultWords /\ old[3] \in ResultWords /\ old[4] \in ResultWords
    BY <1>3
  <2> QED BY <2>1 DEF ResultWords
<1>10. High(mr) = old[2].hi
  BY <1>3, <1>9, PairOf
<1>11. ST6_p1'[p] * old[2].hi \in Int
  BY <1>7, <1>9 DEF Word
<1>12. Low(High(next) + Low(ST6_p1'[p] * old[2].hi)) \in Word
  <2>1. Low(ST6_p1'[p] * old[2].hi) \in Int
    BY <1>11, SumOfWords DEF Word
  <2>2. High(next) + Low(ST6_p1'[p] * old[2].hi) \in Int
    BY <1>8, <2>1 DEF Word
  <2> QED BY <2>2, SumOfWords
<1>13. new \in [1 .. 4 -> ResultWords]
  <2>1. new[1] \in ResultWords
    BY <1>2, <1>9
  <2>2. new[2] \in ResultWords
    BY <1>2, <1>7, <1>9 DEF ResultWords
  <2>3. new[3] \in ResultWords
    BY <1>2, <1>7, <1>8, <1>9 DEF ResultWords
  <2>4. new[4] \in ResultWords
    BY <1>2, <1>7, <1>8, <1>9, <1>12 DEF ResultWords
  <2>5. \A i \in 1 .. 4 : new[i] \in ResultWords
    BY <2>1, <2>2, <2>3, <2>4
  <2> QED BY <1>2, <2>5
<1>14. ASSUME TRUE PROVE mult_res'[p] = new[2].hi * WordRange + new[2].lo
  <2>1. CASE ST7_wmul[p]
    <3>1. ~shift
      BY <1>5, <1>6, <2>1
    <3>2. new[2] = [hi |-> High(mr), lo |-> Low(Low(now) + High(mr))]
      BY <1>2, <1>3, <2>1, <3>1
    <3> QED BY <1>4, <2>1, <3>2 DEF Low
  <2>2. CASE ~ST7_wmul[p] /\ ST6_op[p] \in Multiplications
    <3>1. ~shift
      BY <1>5, <2>2
    <3>2. new[2] = [hi |-> High(now), lo |-> Low(now)]
      BY <1>2, <1>3, <2>2, <3>1
    <3> QED BY <1>4, <1>8, <2>2, <3>2
  <2>3. CASE ~ST7_wmul[p] /\ ST6_op[p] \notin Multiplications
    BY <1>2, <1>3, <1>4, <1>10, <2>3
  <2> QED BY <2>1, <2>2, <2>3
<1>15. new[3] = IF ST7_wmul'[p] THEN [hi |-> High(mult_res'[p]),
                                      lo |-> Low(Low(next) + High(mult_res'[p]))]
                ELSE IF ST6_op'[p] \in Multiplications
                  THEN [hi |-> High(next), lo |-> Low(next)]
                ELSE new[2]
  <2>1. CASE ST6_op[p] = "WMUL"
    <3>1. ~shift /\ ~mult /\ ~ST7_wmul[p]
      BY <1>5, <1>6, <2>1
    <3>2. new[3] = [hi |-> High(now), lo |-> Low(High(now) + Low(ST6_p1[p] * High(mr)))]
      BY <1>2, <1>3, <2>1, <3>1
    <3>3. mult_res'[p] = now
      BY <1>4, <1>6, <2>1, <3>1
    <3>4. Low(next) = Low(ST6_p1[p] * High(mr))
      <4>1. next = (ST6_p1[p] * High(mr)) % (WordRange * WordRange)
        <5>1. ST6_op'[p] # "SMUL" /\ ST6_p1'[p] = ST6_p1[p] /\ ST6_p2'[p] = High(mr)
          BY <1>4, <1>6, <2>1, <3>1
        <5> QED BY <5>1 DEF next, product
      <4>2. ST6_p1[p] * High(mr) \in Int
        BY <1>7, <1>8 DEF Word
      <4>3. \A x \in Int : (x % (WordRange * WordRange)) % WordRange = x % WordRange
        <5> DEFINE r == WordRange
                   q == WordRange * WordRange
        <5>1. r \in Nat \ {0} /\ q \in Nat \ {0} /\ q % r = 0
          BY Products, Sizes
        <5> HIDE DEF r, q
        <5>2. \A x \in Int : (x % q) % r = x % r
          BY <5>1, ModMod
        <5> QED BY <5>2 DEF r, q
      <4> QED BY <4>1, <4>2, <4>3 DEF Low
    <3>5. Low(next) + High(now) = High(now) + Low(next)
      BY <1>8 DEF Word
    <3> QED BY <1>4, <2>1, <3>2, <3>3, <3>4, <3>5
  <2>2. CASE ST6_op[p] # "WMUL" /\ mult
    <3>1. ~shift
      BY <1>6, <2>2
    <3> QED BY <1>2, <1>4, <2>2, <3>1
  <2>3. CASE ST6_op[p] # "WMUL" /\ ~mult
    <3>1. ST6_op'[p] \notin Multiplications /\ ~ST7_wmul'[p]
      BY <1>4, <1>6, <2>3
    <3>2. old[4] = old[3]
      BY <1>3, <2>3
    <3>3. new[3] = new[2]
      BY <1>2, <2>3, <3>2
    <3> QED BY <3>1, <3>3
  <2> QED BY <2>1, <2>2, <2>3
<1>16. new[4] = IF ST6_op'[p] = "WMUL"
                  THEN [hi |-> High(next),
                        lo |-> Low(High(next) + Low(ST6_p1'[p] * High(mult_res'[p])))]
                  ELSE new[3]
  <2>1. CASE met /\ ST5.op = "WMUL"
    <3>1. mult /\ ~shift /\ ST6_op[p] \notin Multiplications /\ ~ST7_wmul[p]
      BY <1>5, <1>6, <2>1
    <3>2. mult_res'[p] = mr
      BY <1>4, <3>1
    <3> QED BY <1>2, <1>4, <1>10, <2>1, <3>1, <3>2
  <2>2. CASE ~(met /\ ST5.op = "WMUL")
    <3>1. ST6_op'[p] # "WMUL"
      BY <1>4, <1>6, <2>2
    <3> QED BY <1>2, <2>2, <3>1
  <2> QED BY <2>1, <2>2
<1> QED BY <1>13, <1>14, <1>15, <1>16 DEF new, next

-----------------------------------------------------------------------------
(* What is fetched, ports, requests. *)
Fetched(cmd) == \/ cmd = NOP
                \/ /\ ~drop_line /\ WellFormed(cmd)
                   /\ Spaced(<<ST2, ST3, ST4, ST5>>, cmd)

\* What Spaced says of a command and the two before it.
LEMMA SpacedTells ==
  ASSUME NEW cmd, Fetched(cmd)
  PROVE  /\ Apart1(cmd, ST2) /\ Apart2(cmd, ST3)
         /\ cmd.op \in Jumps => ST2.op \notin Jumps /\ ST3.op \notin Jumps
                                /\ ST4.op \notin Jumps /\ ST5.op \notin Jumps
<1>1. CASE cmd = NOP
  <2>1. /\ NOP.op \notin Slow /\ NOP.op # "WMUL" /\ NOP.op \notin {"SHL", "SHR"}
    BY NopDecoded DEF Slow, Multiplications
  <2> QED BY <1>1, <2>1, NopDecoded DEF Apart1, Apart2
<1>2. CASE Spaced(<<ST2, ST3, ST4, ST5>>, cmd)
  <2> DEFINE s == <<ST2, ST3, ST4, ST5>>
  <2>1. s[1] = ST2 /\ s[2] = ST3 /\ s[3] = ST4 /\ s[4] = ST5
    OBVIOUS
  <2>2. /\ cmd.op \in Jumps => \A i \in 1 .. 4 : s[i].op \notin Jumps
        /\ OnPort(cmd) => \A i \in 1 .. PortDelay - 1 :
                            OnPort(s[i]) => PortOf(s[i]) = PortOf(cmd)
        /\ IsOut(cmd) => ~IsOut(s[1])
        /\ cmd.op \in {"SHL", "SHR"} => s[1].op \notin Multiplications
        /\ cmd.op \in Slow => \A i \in 1 .. 2 : s[i].op # "WMUL"
        /\ cmd.op = "WMUL" => \A i \in 1 .. 2 : s[i].op \notin Slow
    BY <1>2 DEF Spaced
  <2> HIDE DEF s
  <2>3. 1 \in 1 .. PortDelay - 1 /\ 2 \in 1 .. PortDelay - 1
    BY CoSimulationAssumption
  <2>4. cmd.op \in Jumps => /\ ST2.op \notin Jumps /\ ST3.op \notin Jumps
                            /\ ST4.op \notin Jumps /\ ST5.op \notin Jumps
    BY <2>1, <2>2
  <2>5. /\ OnPort(cmd) /\ OnPort(ST2) => PortOf(ST2) = PortOf(cmd)
        /\ OnPort(cmd) /\ OnPort(ST3) => PortOf(ST3) = PortOf(cmd)
    BY <2>1, <2>2, <2>3
  <2>6. /\ cmd.op \in Slow => ST2.op # "WMUL" /\ ST3.op # "WMUL"
        /\ cmd.op = "WMUL" => ST2.op \notin Slow /\ ST3.op \notin Slow
    BY <2>1, <2>2
  <2> QED BY <2>1, <2>2, <2>4, <2>5, <2>6 DEF Apart1, Apart2
<1> QED BY <1>1, <1>2 DEF Fetched

LEMMA StagesApartStep ==
  ASSUME NEW cmd, Fetched(cmd), StagesApart, Advance, Fetch(cmd)
  PROVE  StagesApart'
<1>1. /\ ST2' = IF drop_line THEN NOP ELSE cmd
      /\ ST3' = ST2 /\ ST4' = ST3 /\ ST5' = ST4
  BY DEF Fetch, Advance
<1>2. ST2' = NOP \/ ST2' = cmd
  BY <1>1
<1>3. Fetched(NOP)
  BY DEF Fetched
<1>4. /\ Apart1(ST2', ST2) /\ Apart2(ST2', ST3)
      /\ ST2'.op \in Jumps => ST4.op \notin Jumps
  BY <1>2, <1>3, SpacedTells
<1>5. /\ Apart1(ST2', ST3') /\ Apart1(ST3', ST4') /\ Apart1(ST4', ST5')
      /\ Apart2(ST2', ST4') /\ Apart2(ST3', ST5')
      /\ ST2'.op \in Jumps => ST5'.op \notin Jumps
  BY <1>1, <1>4 DEF StagesApart
<1> QED BY <1>5 DEF StagesApart, Apart1, Apart2, OnPort, IsIn, IsOut, PortOf

\* Address, request and data of one port command stay together.
LEMMA PortsStep ==
  ASSUME Decodes, Moves, StagesApart, PortsFollow, PeripheralBus, Advance
  PROVE  PortsFollow'
<1>1. /\ OnPort(ST2) => port_address' = PortOf(ST2)
      /\ ~OnPort(ST2) => port_address' = port_address
  BY DEF PeripheralBus
<1>2. /\ OnPort(ST3) => port_address = PortOf(ST3)
      /\ OnPort(ST4) => port_address = PortOf(ST4)
      /\ OnPort(ST5) => port_address = PortOf(ST5)
      /\ port.rready <=> IsIn(ST4)
      /\ port.log = isa.log
  BY DEF PortsFollow
<1>3. /\ OnPort(ST2) /\ OnPort(ST3) => PortOf(ST3) = PortOf(ST2)
      /\ OnPort(ST2) /\ OnPort(ST4) => PortOf(ST4) = PortOf(ST2)
      /\ OnPort(ST3) /\ OnPort(ST4) => PortOf(ST4) = PortOf(ST3)
      /\ OnPort(ST3) /\ OnPort(ST5) => PortOf(ST5) = PortOf(ST3)
      /\ IsOut(ST4) => ~IsOut(ST5)
  BY DEF StagesApart, Apart1, Apart2
<1>4. /\ OnPort(ST3) => port_address' = PortOf(ST3)
      /\ OnPort(ST4) => port_address' = PortOf(ST4) /\ port_address' = port_address
  BY <1>1, <1>2, <1>3
<1>5. /\ port'.rready <=> IsIn(ST3)
      /\ port'.rd_ok <=> port.rready
      /\ port'.rdata = IF IsIn(ST3) THEN PortByte(port_address, port.taken[port_address]) ELSE 0
      /\ port'.taken = IF IsIn(ST3) THEN [port.taken EXCEPT ![port_address] = @ + 1]
                                    ELSE port.taken
      /\ port'.wready = IF IsOut(ST4) /\ Room(port_address) THEN {port_address} ELSE {}
      /\ port'.log = IF port_address \in port.wready /\ Room(port_address)
                       THEN [port.log EXCEPT ![port_address] = Append(@, st5_mov_res(0))]
                       ELSE port.log
  BY DEF PeripheralBus
<1>6. port'.log = isa'.log
  <2>1. isa'.log = Logged(isa, ST5)
    BY MachineMoves DEF Decodes
  <2>2. CASE IsOut(ST5)
    <3>1. /\ port_address = ST5.a
          /\ port_address \in port.wready /\ Room(port_address) <=> Accepted(isa, ST5)
      BY <2>2, AcceptedIs DEF Decodes
    <3>2. Value(isa, ST5, 0) = st5_mov_res(0)
      BY <2>2, ValueIs, KnownShrinks DEF Decodes
    <3>3. CASE Accepted(isa, ST5)
      <4>1. port'.log = [port.log EXCEPT ![port_address]
                                           = Append(port.log[port_address], st5_mov_res(0))]
        BY <1>5, <3>1, <3>3
      <4>2. isa'.log = [isa.log EXCEPT ![ST5.a] = Append(isa.log[ST5.a], Value(isa, ST5, 0))]
        BY <2>1, <2>2, <3>3 DEF Logged
      <4> QED BY <1>2, <3>1, <3>2, <4>1, <4>2, Zenon
    <3>4. CASE ~Accepted(isa, ST5)
      BY <1>2, <1>5, <2>1, <3>1, <3>4 DEF Logged
    <3> QED BY <3>3, <3>4
  <2>3. CASE ~IsOut(ST5)
    <3>1. port.wready = {}
      BY <2>3 DEF PortsFollow
    <3> QED BY <1>2, <1>5, <2>1, <2>3, <3>1 DEF Logged
  <2> QED BY <2>2, <2>3
<1>7. port'.wready = IF IsOut(ST4) /\ Room(port_address)' THEN {port_address'} ELSE {}
  <2>1. CASE IsOut(ST4)
    <3>1. ~IsOut(ST5) /\ port_address' = port_address
      BY <1>3, <1>4, <2>1 DEF OnPort
    <3>2. port.wready = {}
      BY <3>1 DEF PortsFollow
    <3>3. port'.log = port.log
      BY <1>5, <3>2
    <3>4. Room(port_address)' <=> Room(port_address)
      BY <3>1, <3>3 DEF Room
    <3> QED BY <1>5, <3>1, <3>4
  <2>2. CASE ~IsOut(ST4)
    BY <1>5, <2>2
  <2> QED BY <2>1, <2>2
<1>8. ASSUME NEW d \in Ports
      PROVE  port'.taken[d] = isa'.taken[d] + (IF IsIn(ST3) /\ PortOf(ST3) = d THEN 1 ELSE 0)
                                + (IF IsIn(ST4) /\ PortOf(ST4) = d THEN 1 ELSE 0)
  <2>1. /\ isa'.taken[d] = isa.taken[d] + (IF IsIn(ST5) /\ PortOf(ST5) = d THEN 1 ELSE 0)
        /\ isa.taken[d] \in Nat
    BY TakenMoves DEF Decodes, MachineTypes
  <2>2. /\ port.taken[d] = isa.taken[d] + (IF IsIn(ST4) /\ PortOf(ST4) = d THEN 1 ELSE 0)
                                        + (IF IsIn(ST5) /\ PortOf(ST5) = d THEN 1 ELSE 0)
        /\ port.taken \in [Ports -> Nat]
    BY DEF PortsFollow, Decodes, PipelineTypes
  <2>3. port'.taken[d] = port.taken[d] + (IF IsIn(ST3) /\ PortOf(ST3) = d THEN 1 ELSE 0)
    <3>1. IsIn(ST3) => port_address = PortOf(ST3)
      BY <1>2 DEF OnPort
    <3> QED BY <1>5, <2>2, <3>1
  <2> QED BY <2>1, <2>2, <2>3
<1>9. ASSUME IsIn(ST3)
      PROVE  port'.rdata = PortByte(PortOf(ST3), isa'.taken[PortOf(ST3)]
                                                 + (IF IsIn(ST4) THEN 1 ELSE 0))
  <2>1. port_address = PortOf(ST3) /\ PortOf(ST3) \in Ports
    BY <1>2, <1>9, Decoded DEF OnPort, Decodes, PipelineTypes
  <2>2. /\ isa'.taken[PortOf(ST3)] = isa.taken[PortOf(ST3)]
             + (IF IsIn(ST5) /\ PortOf(ST5) = PortOf(ST3) THEN 1 ELSE 0)
        /\ isa.taken[PortOf(ST3)] \in Nat
    BY <2>1, TakenMoves DEF Decodes, MachineTypes
  <2>3. port.taken[PortOf(ST3)] = isa.taken[PortOf(ST3)]
             + (IF IsIn(ST4) /\ PortOf(ST4) = PortOf(ST3) THEN 1 ELSE 0)
             + (IF IsIn(ST5) /\ PortOf(ST5) = PortOf(ST3) THEN 1 ELSE 0)
    BY <2>1 DEF PortsFollow
  <2>4. IsIn(ST4) => PortOf(ST4) = PortOf(ST3)
    BY <1>3, <1>9 DEF OnPort
  <2>5. port.taken[PortOf(ST3)] = isa'.taken[PortOf(ST3)] + (IF IsIn(ST4) THEN 1 ELSE 0)
    BY <2>2, <2>3, <2>4
  <2> QED BY <1>5, <1>9, <2>1, <2>5
<1>10. ST3' = ST2 /\ ST4' = ST3 /\ ST5' = ST4
  BY DEF Advance
<1>11. /\ \A d \in Ports : port'.taken[d] = isa'.taken[d]
            + (IF IsIn(ST4') /\ PortOf(ST4') = d THEN 1 ELSE 0)
            + (IF IsIn(ST5') /\ PortOf(ST5') = d THEN 1 ELSE 0)
       /\ IsIn(ST4') => port'.rdata = PortByte(PortOf(ST4'), isa'.taken[PortOf(ST4')]
                                                  + (IF IsIn(ST5') THEN 1 ELSE 0))
       /\ port'.wready = IF IsOut(ST5') /\ Room(port_address)' THEN {port_address'} ELSE {}
       /\ OnPort(ST3') => port_address' = PortOf(ST3')
       /\ OnPort(ST4') => port_address' = PortOf(ST4')
       /\ OnPort(ST5') => port_address' = PortOf(ST5')
       /\ port'.rready <=> IsIn(ST4')
       /\ port'.rd_ok <=> IsIn(ST5')
  BY <1>1, <1>2, <1>4, <1>5, <1>7, <1>8, <1>9, <1>10
<1> QED BY <1>6, <1>11 DEF PortsFollow, OnPort, IsIn, IsOut, PortOf, PortByte

\* A transfer is asked for with the operands and MEM_ADDR of its command.
LEMMA RequestStep ==
  ASSUME Decodes, Moves, FlagsFollow, FlagsFollow', Execute
  PROVE  RequestFollowsManual'
<1>1. /\ isa'.request = Request(isa, ST5) /\ isa'.mem = Memory(isa, ST5)
  BY MachineMoves DEF Decodes
<1>2. /\ sdram'.start <=> ST5.op = "RW" /\ st5_cond_met(0)
      /\ sdram'.wren = ST5.set /\ sdram'.cell = ST5_p1[0] /\ sdram'.count = ST5_p2[0]
      /\ sdram'.start \in BOOLEAN
  BY DEF Execute
<1>3. 0 \in Seeing /\ 0 \in Known
  BY KnownShrinks DEF Decodes
<1>4. st5_cond_met(0) <=> Met(isa, ST5, 0)
  BY <1>3, MetIs DEF Decodes
<1>5. CASE ST5.op = "RW" /\ Met(isa, ST5, 0)
  <2>1. ST5.op \in HasOperand /\ ~MovArg1(ST5) /\ ~IsIn(ST5) /\ ~ToSpecial(ST5)
        /\ ST5.op \notin Jumps
    BY <1>5 DEF HasOperand, MovArg1, Mov, IsIn, ToSpecial, Jumps, Arithmetic, Sums
  <2>2. First(isa, ST5, 0) = ST5_p1[0] /\ Last(isa, ST5, 0) = ST5_p2[0]
    BY <1>3, <2>1, FirstIs, LastIs
  <2>3. mem_addr' = isa.mem
    BY <1>1, <2>1 DEF FlagsFollow, Memory
  <2>4. isa'.request = [start |-> TRUE, write |-> ST5.set, address |-> isa.mem,
                        cell |-> ST5_p1[0], count |-> ST5_p2[0]]
    BY <1>1, <1>5, <2>2 DEF Request
  <2>5. isa'.request.start = TRUE /\ sdram'.start = TRUE
    BY <1>2, <1>4, <1>5, <2>4
  <2>6. /\ isa'.request.write = sdram'.wren /\ isa'.request.address = mem_addr'
        /\ isa'.request.cell = sdram'.cell /\ isa'.request.count = sdram'.count
    <3> DEFINE req == [start |-> TRUE, write |-> ST5.set, address |-> isa.mem,
                       cell |-> ST5_p1[0], count |-> ST5_p2[0]]
    <3>1. /\ req.address = isa.mem /\ req.cell = ST5_p1[0] /\ req.count = ST5_p2[0]
      OBVIOUS
    <3>2. req.write = ST5.set
      OBVIOUS
    <3>3. isa'.request = req
      BY <2>4
    <3> HIDE DEF req
    <3> QED BY <1>2, <2>3, <3>1, <3>2, <3>3
  <2> QED BY <2>5, <2>6, Zenon DEF RequestFollowsManual
<1>6. CASE ~(ST5.op = "RW" /\ Met(isa, ST5, 0))
  <2>1. isa'.request = NoRequest
    BY <1>1, <1>6 DEF Request
  <2>2. isa'.request.start = FALSE /\ sdram'.start = FALSE
    BY <1>2, <1>4, <1>6, <2>1 DEF NoRequest
  <2> QED BY <2>2, Zenon DEF RequestFollowsManual
<1> QED BY <1>5, <1>6

-----------------------------------------------------------------------------
(* Control: the stages hold the commands the manual executes next. *)
LEMMA AheadNext ==
  ASSUME MachineTypes, NEW j \in Nat, isa.slots = 0 \/ j >= isa.slots
  PROVE  Ahead(j + 1) = (Ahead(j) + 1) % IpRange /\ Ahead(j) \in 0 .. IpRange - 1
<1> DEFINE r == IpRange
           x == IF isa.slots # 0 THEN isa.target + (j - isa.slots) ELSE isa.pc + j
<1>1. /\ r \in Nat \ {0} /\ isa.slots \in 0 .. 4 /\ isa.pc \in Int /\ isa.target \in Int
  BY Sizes DEF MachineTypes
<1>2. x \in Int /\ 1 \in Int
  BY <1>1
<1>3. Ahead(j) = x % r
  BY <1>1 DEF Ahead
<1>4. Ahead(j + 1) = (x + 1) % r
  <2>1. CASE isa.slots # 0
    <3>1. j + 1 >= isa.slots /\ isa.target + ((j + 1) - isa.slots) = x + 1
      BY <1>1, <2>1
    <3> QED BY <2>1, <3>1 DEF Ahead
  <2>2. CASE isa.slots = 0
    <3>1. isa.pc + (j + 1) = x + 1
      BY <1>1, <2>2
    <3> QED BY <2>2, <3>1 DEF Ahead
  <2> QED BY <2>1, <2>2
<1> HIDE DEF x, r
<1>5. ((x % r) + 1) % r = (x + 1) % r
  BY <1>1, <1>2, ModPlus
<1>6. x % r \in 0 .. r - 1
  BY <1>1, <1>2, DivMod
<1> QED BY <1>3, <1>4, <1>5, <1>6 DEF r

LEMMA PcMoves ==
  ASSUME MachineTypes, Moves
  PROVE  /\ Executing /\ ~(ST5.op \in Jumps /\ Met(isa, ST5, 0)) /\ isa.slots = 1
              => isa'.pc = isa.target /\ isa'.slots = 0
         /\ Executing /\ ~(ST5.op \in Jumps /\ Met(isa, ST5, 0)) /\ isa.slots # 1
              => /\ isa'.pc = (isa.pc + 1) % IpRange /\ isa'.target = isa.target
                 /\ isa'.slots = IF isa.slots = 0 THEN 0 ELSE isa.slots - 1
         /\ Executing /\ ST5.op = "JUMP" /\ Met(isa, ST5, 0)
              => /\ isa'.pc = (isa.pc + 1) % IpRange
                 /\ isa'.slots = 4 /\ isa'.target = Target(isa, ST5)
         /\ Executing /\ ST5.op = "DJUMP" /\ Met(isa, ST5, 0)
              => isa'.pc = Target(isa, ST5) /\ isa'.slots = 0
         /\ ~Executing => /\ isa'.pc = isa.pc /\ isa'.slots = isa.slots
                          /\ isa'.target = isa.target
BY MachineMoves DEF Control, Jumps

\* Without a jump everything comes one command nearer.
LEMMA AheadMoves ==
  ASSUME MachineTypes, Moves, NEW j \in Nat,
         Executing, ~(ST5.op \in Jumps /\ Met(isa, ST5, 0))
  PROVE  Ahead(j)' = Ahead(j + 1)
<1>1. /\ IpRange \in Nat \ {0} /\ isa.slots \in 0 .. 4 /\ isa.pc \in Int /\ isa.target \in Int
  BY Sizes DEF MachineTypes
<1>2. CASE isa.slots = 1
  <2>1. isa'.pc = isa.target /\ isa'.slots = 0
    BY <1>2, PcMoves
  <2>2. Ahead(j)' = (isa.target + j) % IpRange
    BY <2>1 DEF Ahead
  <2>3. j + 1 >= isa.slots /\ isa.slots # 0 /\ isa.target + ((j + 1) - isa.slots) = isa.target + j
    BY <1>1, <1>2
  <2> QED BY <2>2, <2>3 DEF Ahead
<1>3. CASE isa.slots # 1
  <2>1. /\ isa'.pc = (isa.pc + 1) % IpRange /\ isa'.target = isa.target
        /\ isa'.slots = IF isa.slots = 0 THEN 0 ELSE isa.slots - 1
    BY <1>3, PcMoves
  <2>2. CASE isa.slots # 0 /\ j + 1 >= isa.slots
    <3>1. /\ isa'.slots # 0 /\ j >= isa'.slots
          /\ isa.target + ((j + 1) - isa.slots) = isa'.target + (j - isa'.slots)
      BY <1>1, <1>3, <2>1, <2>2
    <3> QED BY <2>2, <3>1 DEF Ahead
  <2>3. CASE ~(isa.slots # 0 /\ j + 1 >= isa.slots)
    <3>1. ~(isa'.slots # 0 /\ j >= isa'.slots)
      BY <1>1, <1>3, <2>1, <2>3
    <3>2. Ahead(j)' = (((isa.pc + 1) % IpRange) + j) % IpRange
      BY <2>1, <3>1 DEF Ahead
    <3>3. Ahead(j + 1) = (isa.pc + (j + 1)) % IpRange
      BY <2>3 DEF Ahead
    <3> DEFINE x == isa.pc + 1
               r == IpRange
    <3>4. x \in Int /\ j \in Int /\ r \in Nat \ {0} /\ isa.pc + (j + 1) = x + j
      BY <1>1
    <3> HIDE DEF x, r
    <3>5. ((x % r) + j) % r = (x + j) % r
      BY <3>4, ModPlus
    <3> QED BY <3>2, <3>3, <3>4, <3>5 DEF x, r
  <2> QED BY <2>2, <2>3
<1> QED BY <1>2, <1>3

LEMMA StageMoves ==
  ASSUME Advance
  PROVE  Stage(1)' = ST2' /\ \A i \in 2 .. 4 : Stage(i)' = Stage(i - 1)
<1>1. Stage(1)' = ST2' /\ Stage(2)' = ST2 /\ Stage(3)' = ST3 /\ Stage(4)' = ST4
  BY DEF Stage, Advance
<1>2. Stage(1) = ST2 /\ Stage(2) = ST3 /\ Stage(3) = ST4
  BY DEF Stage
<1> QED BY <1>1, <1>2

FromMoves == from' = <<IF drop_line THEN Bubble ELSE ip, from[1], from[2], from[3]>>
LEMMA FromIs ==
  ASSUME FromMoves
  PROVE  /\ from'[1] = IF drop_line THEN Bubble ELSE ip
         /\ \A i \in 2 .. 4 : from'[i] = from[i - 1]
BY DEF FromMoves

\* A clock in which no jump is taken and none leaves the pipeline.
Following(cmd) == /\ PipelineTypes /\ MachineTypes /\ Moves /\ Fetched(cmd) /\ Fetch(cmd)
                  /\ Advance /\ FromMoves /\ StagesApart /\ ControlFollows
\* Ahead after this clock.
AheadThen(j) ==
  IF isa'.slots # 0 /\ j >= isa'.slots THEN (isa'.target + (j - isa'.slots)) % IpRange
                                        ELSE (isa'.pc + j) % IpRange
Late == IF Executing THEN 1 ELSE 0

\* A command is executed when the oldest one has reached stage 5.
LEMMA OldestIs ==
  ASSUME NEW o \in 0 .. 4, NEW y \in 1 .. 4, Line(o, y), MachineTypes
  PROVE  /\ Executing <=> o = 4
         /\ ~Executing => isa.slots = 0
         /\ isa.slots \in 0 .. 4
         /\ (o + 1) - Late \in 0 .. 4
         /\ \A j \in 0 .. 5 : Ahead(j) # Bubble /\ Ahead(j) \in Int
<1>1. isa.slots \in 0 .. 4 /\ isa.pc \in Int /\ isa.target \in Int /\ IpRange \in Nat \ {0}
  BY Sizes DEF MachineTypes
<1>2. \A j \in 0 .. 5 : Ahead(j) # Bubble /\ Ahead(j) \in Int
  <2> SUFFICES ASSUME NEW j \in 0 .. 5 PROVE Ahead(j) # Bubble /\ Ahead(j) \in Int
    OBVIOUS
  <2> DEFINE x == IF isa.slots # 0 /\ j >= isa.slots THEN isa.target + (j - isa.slots)
                                                     ELSE isa.pc + j
             r == IpRange
  <2>1. x \in Int /\ r \in Nat \ {0}
    BY <1>1
  <2>2. Ahead(j) = x % r
    BY DEF Ahead
  <2> HIDE DEF x, r
  <2>3. x % r \in 0 .. r - 1
    BY <2>1, DivMod
  <2> QED BY <2>1, <2>2, <2>3 DEF Bubble
<1>3. from[4] = IF y <= 4 /\ 4 <= o THEN Ahead(o - 4) ELSE Bubble
  BY DEF Line
<1>4. Executing <=> o = 4
  <2>1. CASE o = 4
    <3>1. from[4] = Ahead(0)
      BY <1>3, <2>1
    <3> QED BY <1>2, <2>1, <3>1 DEF Executing
  <2>2. CASE o # 4
    BY <1>3, <2>2 DEF Executing
  <2> QED BY <2>1, <2>2
<1>5. isa.slots # 0 => o = 4
  BY DEF Line
<1> QED BY <1>1, <1>2, <1>4, <1>5 DEF Late

LEMMA AheadLate ==
  ASSUME MachineTypes, Moves, ST5.op \notin Jumps, NEW j \in Nat
  PROVE  /\ AheadThen(j) = Ahead(j + Late)
         /\ isa'.slots = IF isa.slots = 0 THEN 0 ELSE isa.slots - Late
<1>1. isa.slots \in 0 .. 4
  BY DEF MachineTypes
<1>2. CASE Executing
  <2>1. AheadThen(j) = Ahead(j)'
    BY DEF Ahead, AheadThen
  <2>2. Ahead(j)' = Ahead(j + 1) /\ Late = 1
    BY <1>2, AheadMoves DEF Late
  <2>3. isa'.slots = IF isa.slots = 0 THEN 0 ELSE isa.slots - 1
    BY <1>1, <1>2, PcMoves
  <2> QED BY <2>1, <2>2, <2>3
<1>3. CASE ~Executing
  <2>1. /\ isa'.pc = isa.pc /\ isa'.slots = isa.slots /\ isa'.target = isa.target
    BY <1>3, PcMoves
  <2>2. Late = 0 /\ j + Late = j
    BY <1>3 DEF Late
  <2> QED BY <1>1, <2>1, <2>2 DEF Ahead, AheadThen
<1> QED BY <1>2, <1>3

\* What stays in the pipeline moves up one stage.
LEMMA RestMoves ==
  ASSUME NEW cmd, Following(cmd), ST5.op \notin Jumps,
         NEW o \in 0 .. 4, NEW y \in 1 .. 4, Line(o, y), NEW i \in 2 .. 4
  PROVE  from'[i] = IF y + 1 <= i /\ i <= (o + 1) - Late
                      THEN AheadThen(((o + 1) - Late) - i) ELSE Bubble
<1>1. from'[i] = from[i - 1]
  BY FromIs DEF Following
<1>2. from[i - 1] = IF y <= i - 1 /\ i - 1 <= o THEN Ahead(o - (i - 1)) ELSE Bubble
  BY DEF Line
<1>3. /\ Executing <=> o = 4
      /\ (o + 1) - Late \in 0 .. 4
  BY OldestIs DEF Following
<1>4. CASE y <= i - 1 /\ i - 1 <= o
  <2>1. i <= (o + 1) - Late /\ ((o + 1) - Late) - i \in Nat
        /\ (((o + 1) - Late) - i) + Late = o - (i - 1)
    BY <1>3, <1>4 DEF Late
  <2> DEFINE j == ((o + 1) - Late) - i
  <2>2. j \in Nat
    BY <2>1
  <2>3. PICK k \in Nat : k = j
    BY <2>2
  <2>4. AheadThen(k) = Ahead(k + Late)
    BY AheadLate DEF Following
  <2> QED BY <1>1, <1>2, <1>4, <2>1, <2>3, <2>4
<1>5. CASE ~(y <= i - 1 /\ i - 1 <= o)
  <2>1. ~(y + 1 <= i /\ i <= (o + 1) - Late)
    BY <1>3, <1>5 DEF Late
  <2> QED BY <1>1, <1>2, <1>5, <2>1
<1> QED BY <1>4, <1>5

\* Line of the next state, said with what is known now.
LEMMA LineThen ==
  ASSUME NEW o \in 0 .. 4, NEW y \in 1 .. 4,
         \A i \in 1 .. 4 : from'[i] = IF y <= i /\ i <= o THEN AheadThen(o - i) ELSE Bubble,
         isa'.slots # 0 => o = 4,
         ip' = IF drop_line' THEN AheadThen(o - y) ELSE AheadThen(o),
         IF drop_line' THEN y <= o /\ Stage(y)'.op = "DJUMP" ELSE y = 1,
         \A i \in 1 .. 4 : Stage(i)'.op \in Jumps =>
           /\ isa'.slots <= o - i
           /\ drop_line' <=> Stage(i)'.op = "DJUMP"
           /\ ip' = IF drop_line' THEN from'[i] ELSE (from'[i] + i) % IpRange
  PROVE  Line(o, y)'
<1>1. \A j : Ahead(j)' = AheadThen(j)
  BY DEF Ahead, AheadThen
<1> QED BY <1>1 DEF Line

\* The line of commands stays in order while none of them jumps,
LEMMA LineAlong ==
  ASSUME NEW cmd, Following(cmd), ST5.op \notin Jumps,
         NEW o \in 0 .. 4, NEW y \in 1 .. 4, Line(o, y)
  PROVE  \E o2 \in 0 .. 4 : \E y2 \in 1 .. 4 : Line(o2, y2)'
<1>1. /\ Executing <=> o = 4
      /\ isa.slots \in 0 .. 4
      /\ (o + 1) - Late \in 0 .. 4
      /\ \A j \in 0 .. 5 : Ahead(j) # Bubble /\ Ahead(j) \in Int
      /\ isa.slots # 0 => o = 4
  BY OldestIs DEF Following, Line
<1>2. PICK o2 \in 0 .. 4 : o2 = (o + 1) - Late
  BY <1>1
<1>3. o2 \in 1 .. 4 /\ (o = 4 => o2 = 4 /\ Late = 1) /\ (o # 4 => o2 = o + 1 /\ Late = 0)
  BY <1>1, <1>2 DEF Late
<1>4. /\ \A i \in 1 .. 4 : from[i] = IF y <= i /\ i <= o THEN Ahead(o - i) ELSE Bubble
      /\ ip = IF drop_line THEN Ahead(o - y) ELSE Ahead(o)
      /\ IF drop_line THEN y <= o /\ Stage(y).op = "DJUMP" ELSE y = 1
      /\ \A i \in 1 .. 4 : Stage(i).op \in Jumps =>
           /\ isa.slots <= o - i
           /\ drop_line <=> Stage(i).op = "DJUMP"
           /\ ip = IF drop_line THEN from[i] ELSE (from[i] + i) % IpRange
  BY DEF Line
<1>5. \A j \in Nat : AheadThen(j) = Ahead(j + Late)
  BY AheadLate DEF Following
<1>6. isa'.slots = IF isa.slots = 0 THEN 0 ELSE isa.slots - Late
  BY AheadLate DEF Following
<1>7. \A i \in 2 .. 4 : from'[i] = IF y + 1 <= i /\ i <= o2 THEN AheadThen(o2 - i) ELSE Bubble
  BY <1>2, RestMoves
<1>8. isa'.slots # 0 => o2 = 4
  BY <1>1, <1>3, <1>6
<1>9. ASSUME NEW i \in 2 .. 4, Stage(i - 1).op \in Jumps
      PROVE  isa'.slots <= o2 - i
  <2>1. i - 1 \in 1 .. 4 /\ isa.slots <= o - (i - 1)
    BY <1>4, <1>9
  <2> QED BY <1>1, <1>3, <1>6, <2>1
<1>10. /\ Stage(1)' = ST2' /\ \A i \in 2 .. 4 : Stage(i)' = Stage(i - 1)
       /\ from'[1] = IF drop_line THEN Bubble ELSE ip
       /\ \A i \in 2 .. 4 : from'[i] = from[i - 1]
  BY StageMoves, FromIs DEF Following
<1>11. /\ ST2' = IF drop_line THEN NOP ELSE cmd
       /\ IF ~drop_line /\ cmd.op # "DJUMP" THEN ip' = ip_plus_1 /\ ~drop_line'
                                            ELSE ip' = ip /\ drop_line'
  BY DEF Following, Fetch, next_ip
<1>12. "DJUMP" \in Jumps /\ NOP.op \notin Jumps
  BY NopDecoded DEF Jumps
<1>13. CASE drop_line
  <2>1. Stage(4) = ST5
    BY DEF Stage
  <2>2. y <= o /\ y # 4 /\ Stage(y).op = "DJUMP"
    BY <1>4, <1>12, <1>13, <2>1
  <2>3. y + 1 \in 1 .. 4 /\ y + 1 \in 2 .. 4 /\ y + 1 <= o2
    BY <1>3, <2>2
  <2>4. PICK y2 \in 2 .. 4 : y2 = y + 1
    BY <2>3
  <2>5. \A i \in 1 .. 4 : from'[i] = IF y2 <= i /\ i <= o2 THEN AheadThen(o2 - i) ELSE Bubble
    BY <1>7, <1>10, <1>13, <2>4
  <2>6. ip' = AheadThen(o2 - y2)
    <3>1. o2 - y2 \in Nat /\ (o2 - y2) + Late = o - y
      BY <1>2, <1>3, <2>3, <2>4
    <3>2. AheadThen(o2 - y2) = Ahead(o - y)
      BY <1>5, <3>1
    <3> QED BY <1>4, <1>11, <1>13, <3>2
  <2>7. y2 <= o2 /\ Stage(y2)'.op = "DJUMP"
    <3>1. Stage(y2)' = Stage(y2 - 1) /\ y2 - 1 = y
      BY <1>10, <2>4
    <3> QED BY <2>2, <2>3, <2>4, <3>1
  <2>8. ASSUME NEW i \in 1 .. 4, Stage(i)'.op \in Jumps
        PROVE  /\ isa'.slots <= o2 - i
               /\ drop_line' <=> Stage(i)'.op = "DJUMP"
               /\ ip' = IF drop_line' THEN from'[i] ELSE (from'[i] + i) % IpRange
    <3>1. i \in 2 .. 4
      BY <1>10, <1>11, <1>12, <1>13, <2>8
    <3>2. Stage(i)' = Stage(i - 1) /\ from'[i] = from[i - 1] /\ i - 1 \in 1 .. 4
      BY <1>10, <3>1
    <3>3. /\ drop_line <=> Stage(i - 1).op = "DJUMP"
          /\ ip = IF drop_line THEN from[i - 1] ELSE (from[i - 1] + (i - 1)) % IpRange
      BY <1>4, <2>8, <3>2
    <3> QED BY <1>9, <1>11, <1>13, <2>8, <3>1, <3>2, <3>3
  <2>9. drop_line' /\ y2 \in 1 .. 4
    BY <1>11, <1>13, <2>4
  <2>10. Line(o2, y2)'
    BY <1>8, <2>5, <2>6, <2>7, <2>8, <2>9, LineThen
  <2> QED BY <2>9, <2>10
<1>14. CASE ~drop_line
  <2>1. y = 1 /\ ip = Ahead(o) /\ from'[1] = ip /\ ST2' = cmd
    BY <1>4, <1>10, <1>11, <1>14
  <2>2. from'[1] = AheadThen(o2 - 1)
    <3>1. o2 - 1 \in Nat /\ (o2 - 1) + Late = o
      BY <1>2, <1>3
    <3> QED BY <1>5, <2>1, <3>1
  <2>3. \A i \in 1 .. 4 : from'[i] = IF 1 <= i /\ i <= o2 THEN AheadThen(o2 - i) ELSE Bubble
    BY <1>3, <1>7, <2>1, <2>2
  <2>4. isa'.slots <= o2 - 1
    BY <1>1, <1>3, <1>6
  <2>5. Stage(1) = ST2 /\ Stage(2) = ST3 /\ Stage(3) = ST4
    BY DEF Stage
  <2>6. CASE cmd.op = "DJUMP"
    <3>1. drop_line' /\ ip' = ip
      BY <1>11, <2>6
    <3>2. \A i \in 2 .. 4 : Stage(i)'.op \notin Jumps
      <4>1. ST2.op \notin Jumps /\ ST3.op \notin Jumps /\ ST4.op \notin Jumps
        BY <1>12, <2>6, SpacedTells DEF Following
      <4> QED BY <1>10, <2>5, <4>1
    <3>3. Stage(1)'.op = "DJUMP"
      BY <1>10, <2>1, <2>6
    <3>4. \A i \in 1 .. 4 : Stage(i)'.op \in Jumps =>
            /\ isa'.slots <= o2 - i
            /\ drop_line' <=> Stage(i)'.op = "DJUMP"
            /\ ip' = IF drop_line' THEN from'[i] ELSE (from'[i] + i) % IpRange
      BY <2>1, <2>4, <3>1, <3>2, <3>3
    <3>5. ip' = AheadThen(o2 - 1) /\ 1 <= o2 /\ 1 \in 1 .. 4
      <4>1. 1 <= o2 /\ 1 \in 1 .. 4
        BY <1>3
      <4>2. ip' = AheadThen(o2 - 1)
        BY <2>1, <2>2, <3>1, Zenon
      <4> QED BY <4>1, <4>2
    <3>6. Line(o2, 1)'
      BY <1>8, <2>3, <3>1, <3>3, <3>4, <3>5, LineThen
    <3> QED BY <3>5, <3>6
  <2>7. CASE cmd.op # "DJUMP"
    <3>1. ~drop_line' /\ ip' = (ip + 1) % IpRange
      BY <1>11, <1>14, <2>7 DEF ip_plus_1
    <3>2. ip' = AheadThen(o2)
      <4>1. isa.slots = 0 \/ o >= isa.slots
        BY <1>1
      <4>2. Ahead(o + 1) = (Ahead(o) + 1) % IpRange
        BY <4>1, AheadNext DEF Following
      <4>3. o2 \in Nat /\ o2 + Late = o + 1
        BY <1>2, <1>3
      <4> QED BY <1>5, <2>1, <3>1, <4>2, <4>3
    <3>3. ASSUME NEW i \in 1 .. 4, Stage(i)'.op \in Jumps
          PROVE  /\ isa'.slots <= o2 - i
                 /\ drop_line' <=> Stage(i)'.op = "DJUMP"
                 /\ ip' = IF drop_line' THEN from'[i] ELSE (from'[i] + i) % IpRange
      <4>1. CASE i = 1
        <5>1. Stage(i)'.op # "DJUMP"
          BY <1>10, <2>1, <2>7, <4>1
        <5> QED BY <2>1, <2>4, <3>1, <4>1, <5>1
      <4>2. CASE i \in 2 .. 4
        <5>1. /\ Stage(i)' = Stage(i - 1) /\ from'[i] = from[i - 1]
              /\ i - 1 \in 1 .. 4 /\ i - 1 \in Int
          BY <1>10, <4>2
        <5>2. /\ Stage(i - 1).op # "DJUMP"
              /\ ip = (from[i - 1] + (i - 1)) % IpRange
          BY <1>4, <1>14, <3>3, <5>1
        <5>3. from[i - 1] \in Int
          <6>1. from[i - 1] = IF y <= i - 1 /\ i - 1 <= o THEN Ahead(o - (i - 1)) ELSE Bubble
            BY <1>4, <5>1
          <6>2. i - 1 <= o => o - (i - 1) \in 0 .. 5
            BY <5>1
          <6> QED BY <1>1, <6>1, <6>2 DEF Bubble
        <5> DEFINE x == from[i - 1] + (i - 1)
                   r == IpRange
        <5>4. x \in Int /\ r \in Nat \ {0} /\ 1 \in Int /\ x + 1 = from[i - 1] + i
          BY <5>1, <5>3, Sizes
        <5>5. ip = x % r /\ ip' = (ip + 1) % r
          BY <3>1, <5>2
        <5> HIDE DEF x, r
        <5>6. ip' = (x + 1) % r
          BY <5>4, <5>5, ModPlus
        <5>7. ip' = (from'[i] + i) % IpRange
          BY <5>1, <5>4, <5>6 DEF r
        <5> QED BY <1>9, <3>1, <3>3, <4>2, <5>1, <5>2, <5>7
      <4> QED BY <4>1, <4>2
    <3>4. Line(o2, 1)'
      BY <1>8, <2>3, <3>1, <3>2, <3>3, LineThen
    <3> QED BY <3>4
  <2> QED BY <2>6, <2>7
<1> QED BY <1>13, <1>14

\* (what is fetched after a jump)
LEMMA TargetIs ==
  ASSUME PipelineTypes, MachineTypes, FlagsFollow, ControlFollows, ST5.op \in Jumps
  PROVE  /\ next_ip = IF Met(isa, ST5, 0) THEN Target(isa, ST5) ELSE ip_plus_1
         /\ Met(isa, ST5, 0) => Target(isa, ST5) \in 0 .. IpRange - 1
<1>1. st5_cond_met(0) <=> Met(isa, ST5, 0)
  <2>1. 0 \in Known
    BY KnownShrinks
  <2> QED BY <2>1, MetIs
<1>2. /\ ST5.link => ST5.rel
      /\ mem_addr = isa.mem /\ mem_addr \in Nat
      /\ ST5.rel \in BOOLEAN /\ ST5.c \in Int
  BY Products DEF PipelineTypes, WellFormed, FlagsFollow, Commands
<1>3. ST5_ip_plus_const = (isa.pc + ST5.c + (IF ST5.op = "DJUMP" THEN 1 ELSE 4)) % IpRange
  BY DEF ControlFollows
<1>4. CASE ST5.rel
  <2>1. Target(isa, ST5) = ST5_ip_plus_const
    BY <1>3, <1>4 DEF Target
  <2>2. ST5_ip_plus_const \in 0 .. IpRange - 1
    BY DEF PipelineTypes
  <2> QED BY <1>1, <1>4, <2>1, <2>2 DEF next_ip
<1>5. CASE ~ST5.rel
  <2>1. Target(isa, ST5) = (mem_addr \div 2) % IpRange
    BY <1>2, <1>5 DEF Target
  <2>2. (mem_addr \div 2) % IpRange \in 0 .. IpRange - 1
    BY <1>2, Sizes
  <2> QED BY <1>1, <1>2, <1>5, <2>1, <2>2 DEF next_ip
<1> QED BY <1>4, <1>5

\* and when one does: four more commands, or for DJ none, then the target.
LEMMA LineJump ==
  ASSUME NEW cmd, Following(cmd), FlagsFollow, ST5.op \in Jumps
  PROVE  \E o2 \in 0 .. 4 : \E y2 \in 1 .. 4 : Line(o2, y2)'
<1>1. PICK o \in 0 .. 4, y \in 1 .. 4 : Line(o, y)
  BY DEF Following, ControlFollows
<1>2. /\ Executing /\ isa.slots = 0 /\ from[4] = isa.pc
      /\ drop_line <=> ST5.op = "DJUMP"
      /\ ip = IF drop_line THEN isa.pc ELSE (isa.pc + 4) % IpRange
      /\ ip_plus_1 = (isa.pc + (IF ST5.op = "DJUMP" THEN 1 ELSE 5)) % IpRange
  BY JumpAt DEF Following
<1>3. o = 4
  BY <1>1, <1>2, OldestIs DEF Following
<1>4. /\ ST2.op \notin Jumps /\ ST3.op \notin Jumps /\ ST4.op \notin Jumps
      /\ cmd.op \notin Jumps /\ NOP.op \notin Jumps
  BY SpacedTells, NopDecoded DEF Following, StagesApart, Apart1, Apart2
<1>5. /\ ~drop_line' /\ ip' = next_ip
      /\ ST2' = IF drop_line THEN NOP ELSE cmd
  BY DEF Following, Fetch
<1>6. /\ \A i \in 1 .. 4 : from[i] = IF y <= i /\ i <= 4 THEN Ahead(4 - i) ELSE Bubble
      /\ IF drop_line THEN Stage(y).op = "DJUMP" ELSE y = 1
  BY <1>1, <1>3 DEF Line
<1>7. /\ Stage(1)' = ST2' /\ \A i \in 2 .. 4 : Stage(i)' = Stage(i - 1)
      /\ from'[1] = IF drop_line THEN Bubble ELSE ip
      /\ \A i \in 2 .. 4 : from'[i] = from[i - 1]
  BY StageMoves, FromIs DEF Following
<1>8. Stage(1) = ST2 /\ Stage(2) = ST3 /\ Stage(3) = ST4
  BY DEF Stage
<1>9. \A i \in 1 .. 4 : Stage(i)'.op \notin Jumps
  BY <1>4, <1>5, <1>7, <1>8
<1>10. /\ ip' = IF Met(isa, ST5, 0) THEN Target(isa, ST5) ELSE ip_plus_1
       /\ Met(isa, ST5, 0) => Target(isa, ST5) \in 0 .. IpRange - 1
  BY <1>5, TargetIs DEF Following
<1>11. /\ IpRange \in Nat \ {0} /\ isa.pc \in Int
       /\ \A x \in 0 .. IpRange - 1 : x % IpRange = x
  BY Sizes, PcWraps DEF Following, MachineTypes
<1>12. /\ ST5.op = "JUMP" /\ Met(isa, ST5, 0)
            => /\ isa'.pc = (isa.pc + 1) % IpRange
               /\ isa'.slots = 4 /\ isa'.target = Target(isa, ST5)
       /\ ST5.op = "DJUMP" /\ Met(isa, ST5, 0)
            => isa'.pc = Target(isa, ST5) /\ isa'.slots = 0
       /\ ~Met(isa, ST5, 0) => isa'.pc = (isa.pc + 1) % IpRange /\ isa'.slots = 0
  BY <1>2, PcMoves DEF Following
<1>13. (isa.pc + 1) % IpRange \in 0 .. IpRange - 1
  BY <1>11
<1>14. CASE ST5.op = "DJUMP"
  <2>1. drop_line
    BY <1>2, <1>14
  <2>2. y = 4
    <3>1. "DJUMP" \in Jumps /\ y \in {1, 2, 3, 4}
      BY DEF Jumps
    <3> QED BY <1>4, <1>6, <1>8, <2>1, <3>1
  <2>3. \A i \in 1 .. 4 : from'[i] = Bubble
    <3>1. \A i \in 1 .. 3 : from[i] = Bubble
      BY <1>6, <2>2
    <3> QED BY <1>7, <2>1, <3>1
  <2>4. isa'.slots = 0 /\ isa'.pc \in 0 .. IpRange - 1 /\ ip' = isa'.pc
    BY <1>2, <1>10, <1>12, <1>13, <1>14
  <2>5. ip' = AheadThen(0)
    <3>1. isa'.pc + 0 = isa'.pc
      BY <2>4
    <3> QED BY <1>11, <2>4, <3>1 DEF AheadThen
  <2>6. \A i \in 1 .. 4 :
          from'[i] = IF 1 <= i /\ i <= 0 THEN AheadThen(0 - i) ELSE Bubble
    BY <2>3
  <2>7. Line(0, 1)'
    BY <1>5, <1>9, <2>4, <2>5, <2>6, LineThen
  <2> QED BY <2>7
<1>15. CASE ST5.op = "JUMP"
  <2>1. ~drop_line /\ y = 1 /\ ip = (isa.pc + 4) % IpRange
    <3>1. "JUMP" # "DJUMP"
      OBVIOUS
    <3> QED BY <1>2, <1>6, <1>15, <3>1
  <2>2. isa'.pc = (isa.pc + 1) % IpRange /\ isa'.slots \in {0, 4}
    BY <1>12, <1>15
  <2>3. ASSUME NEW j \in 0 .. 3 PROVE AheadThen(j) = (isa.pc + (1 + j)) % IpRange
    <3> DEFINE x == isa.pc + 1
               r == IpRange
    <3>1. x \in Int /\ r \in Nat \ {0} /\ j \in Int /\ isa.pc + (1 + j) = x + j
      BY <1>11
    <3>2. AheadThen(j) = ((x % r) + j) % r
      BY <2>2 DEF AheadThen
    <3> HIDE DEF x, r
    <3>3. AheadThen(j) = (x + j) % r
      BY <3>1, <3>2, ModPlus
    <3> QED BY <3>1, <3>3 DEF r
  <2>4. ASSUME NEW i \in 1 .. 4 PROVE from'[i] = AheadThen(4 - i)
    <3>1. 4 - i \in 0 .. 3 /\ isa.pc + (1 + (4 - i)) = isa.pc + (5 - i)
      BY <1>11
    <3>2. AheadThen(4 - i) = (isa.pc + (5 - i)) % IpRange
      BY <2>3, <3>1
    <3>3. CASE i = 1
      <4>1. isa.pc + (5 - i) = isa.pc + 4
        BY <1>11, <3>3
      <4> QED BY <1>7, <2>1, <3>2, <3>3, <4>1
    <3>4. CASE i \in 2 .. 4
      <4>1. from[i - 1] = Ahead(4 - (i - 1)) /\ 4 - (i - 1) = 5 - i
        BY <1>6, <2>1, <3>4
      <4>2. Ahead(5 - i) = (isa.pc + (5 - i)) % IpRange
        BY <1>2 DEF Ahead
      <4> QED BY <1>7, <3>2, <3>4, <4>1, <4>2
    <3> QED BY <3>3, <3>4
  <2>5. ip' = AheadThen(4)
    <3>1. CASE Met(isa, ST5, 0)
      <4>1. isa'.target = ip' /\ isa'.slots = 4 /\ ip' \in 0 .. IpRange - 1
        BY <1>10, <1>12, <1>15, <3>1
      <4>2. ip' % IpRange = ip'
        BY <1>11, <4>1, Zenon
      <4>5. ip' \in Int
        <5>1. IpRange \in Int
          BY <1>11
        <5> QED BY <4>1, <5>1
      <4>3. AheadThen(4) = (isa'.target + (4 - isa'.slots)) % IpRange
        BY <4>1 DEF AheadThen
      <4>4. isa'.target + (4 - isa'.slots) = ip' + (4 - 4) /\ ip' + (4 - 4) = ip'
        <5>1. ip' + (4 - 4) = ip'
          <6>1. \A x \in Int : x + 0 = x
            OBVIOUS
          <6>2. 4 - 4 = 0
            OBVIOUS
          <6> QED BY <4>5, <6>1, <6>2, Zenon
        <5> QED BY <4>1, <5>1, Zenon
      <4> QED BY <4>2, <4>3, <4>4, Zenon
    <3>2. CASE ~Met(isa, ST5, 0)
      <4>1. isa'.slots = 0
        BY <1>12, <3>2
      <4>2. ip' = (isa.pc + 5) % IpRange
        BY <1>2, <1>10, <1>15, <3>2
      <4> DEFINE x == isa.pc + 1
                 r == IpRange
      <4>3. x \in Int /\ r \in Nat \ {0} /\ 4 \in Int /\ isa.pc + 5 = x + 4
        BY <1>11
      <4>4. AheadThen(4) = ((x % r) + 4) % r
        BY <2>2, <4>1 DEF AheadThen
      <4> HIDE DEF x, r
      <4>5. AheadThen(4) = (x + 4) % r
        BY <4>3, <4>4, ModPlus
      <4> QED BY <4>2, <4>3, <4>5 DEF r
    <3> QED BY <3>1, <3>2
  <2>6. \A i \in 1 .. 4 :
          from'[i] = IF 1 <= i /\ i <= 4 THEN AheadThen(4 - i) ELSE Bubble
    BY <2>4
  <2>7. Line(4, 1)'
    BY <1>5, <1>9, <2>5, <2>6, LineThen
  <2> QED BY <2>7
<1> QED BY <1>14, <1>15 DEF Jumps

-----------------------------------------------------------------------------
(* Types. *)
LEMMA ControlTypes ==
  ASSUME Moves, PipelineTypes, MachineTypes, FlagsFollow, ControlFollows
  PROVE  isa'.pc \in 0 .. IpRange - 1 /\ isa'.target \in 0 .. IpRange - 1
         /\ isa'.slots \in 0 .. 4
<1>1. /\ isa.pc \in 0 .. IpRange - 1 /\ isa.target \in 0 .. IpRange - 1 /\ isa.slots \in 0 .. 4
      /\ (isa.pc + 1) % IpRange \in 0 .. IpRange - 1 /\ 0 \in 0 .. IpRange - 1
  BY Sizes DEF MachineTypes
<1>2. ST5.op \in Jumps /\ Met(isa, ST5, 0) => Target(isa, ST5) \in 0 .. IpRange - 1
  BY TargetIs
<1>3. CASE ~Executing
  BY <1>1, <1>3, MachineMoves
<1>4. CASE Executing
  <2>1. /\ isa'.pc = Control(isa, ST5).pc /\ isa'.slots = Control(isa, ST5).slots
        /\ isa'.target = Control(isa, ST5).target
    BY <1>4, MachineMoves
  <2>2. CASE ST5.op \in Jumps /\ Met(isa, ST5, 0)
    BY <1>1, <1>2, <2>1, <2>2 DEF Control
  <2>3. CASE ~(ST5.op \in Jumps /\ Met(isa, ST5, 0))
    BY <1>1, <2>1, <2>3 DEF Control
  <2> QED BY <2>2, <2>3
<1> QED BY <1>3, <1>4

LEMMA MachineTypesStep ==
  ASSUME Moves, PipelineTypes, MachineTypes, FlagsFollow, ControlFollows
  PROVE  MachineTypes'
<1>1. DOMAIN isa' = Fields /\ isa'.unknown = Unknown(isa, ST5) /\ isa'.age = Ages(isa, ST5)
  BY MachineMoves
<1>2. isa'.unknown \in SUBSET (PU \ {0})
  BY <1>1, KnownShrinks
<1>3. isa'.age \in [HiReg -> Nat \ {0}]
  <2>1. isa.age \in [HiReg -> Nat \ {0}]
    BY DEF MachineTypes
  <2> QED BY <1>1, <2>1 DEF Ages
<1>4. isa'.taken \in [Ports -> Nat]
  <2>1. isa.taken \in [Ports -> Nat] /\ isa'.taken = Taken(isa, ST5)
    BY MachineMoves DEF MachineTypes
  <2>2. PortOf(ST5) = PortNumber(ST5) /\ (IsIn(ST5) => PortOf(ST5) \in Ports)
    BY Decoded DEF PipelineTypes
  <2> QED BY <2>1, <2>2 DEF Taken
<1> QED BY <1>1, <1>2, <1>3, <1>4, ControlTypes DEF MachineTypes

\* A line lies within the cache.
LEMMA LineInCache ==
  ASSUME NEW x \in Int, NEW p \in PU
  PROVE  /\ CacheIndex(x) \in 0 .. CacheSize - 1
         /\ LineStart(x) + p \in 0 .. CacheSize - 1
<1> DEFINE c == CacheSize
           y == x % c
           k == c \div N
           q == y \div N
<1>1. c \in Nat \ {0} /\ N \in Nat \ {0} /\ c % N = 0 /\ p \in 0 .. N - 1
  BY Sizes DEF PU
<1>2. y \in 0 .. c - 1 /\ y \in Int
  BY <1>1, DivMod
<1>3. LineStart(x) = y - (y % N) /\ CacheIndex(x) = y
  BY DEF LineStart, CacheIndex
<1> HIDE DEF c, y
<1>4. /\ q \in Int /\ y % N \in 0 .. N - 1 /\ y = N * q + (y % N)
      /\ k \in Int /\ c = N * k + (c % N)
  BY <1>1, <1>2, DivMod
<1> HIDE DEF k, q
<1>5. LineStart(x) = N * q /\ c = N * k
  BY <1>1, <1>3, <1>4
<1>6. q < k
  <2>1. N * q < N * k
    BY <1>1, <1>2, <1>4, <1>5
  <2> QED BY <1>1, <1>4, <2>1
<1>7. N * q + N <= N * k
  <2>1. q + 1 <= k
    BY <1>4, <1>6
  <2>2. N * (q + 1) <= N * k
    BY <1>1, <1>4, <2>1
  <2>3. N * (q + 1) = N * q + N
    BY <1>1, <1>4
  <2> QED BY <2>2, <2>3
<1>8. N * q >= 0
  <2>1. q >= 0
    BY <1>1, <1>2, <1>4
  <2> QED BY <1>1, <1>4, <2>1
<1>9. N * q \in Int /\ N * k \in Int
  BY <1>1, <1>4
<1> QED BY <1>1, <1>2, <1>3, <1>5, <1>7, <1>8, <1>9 DEF c

LEMMA SpecialTypes ==
  ASSUME PipelineTypes, NEW p \in PU, NEW n \in Specials
  PROVE  sreg_in(n, p) \in Word
<1>1. FlagsWord(flags[p], p) \in Word
  <2> DEFINE x == p + (IF flags[p].N THEN 16 ELSE 0) + (IF flags[p].Z THEN 32 ELSE 0)
                    + (IF flags[p].V THEN 64 ELSE 0) + (IF flags[p].C THEN 128 ELSE 0)
  <2>1. x \in Int
    BY Sizes DEF PU
  <2>2. FlagsWord(flags[p], p) = x % WordRange
    BY DEF FlagsWord
  <2> HIDE DEF x
  <2> QED BY <2>1, <2>2, SumOfWords
<1>2. /\ High(mem_addr) \in Word /\ Low(mem_addr) \in Word
      /\ High(mult_res[p]) \in Word /\ Low(mult_res[p]) \in Word
  <2>1. /\ mem_addr \in 0 .. WordRange * WordRange - 1
        /\ mult_res[p] \in 0 .. WordRange * WordRange - 1
    BY DEF PipelineTypes
  <2> QED BY <2>1, Products
<1> QED BY <1>1, <1>2 DEF sreg_in, Specials, FLAGS, MEM_LO, MEM_HI, RESULT_LO, RESULT_HI

LEMMA RegisterTypes ==
  ASSUME PipelineTypes, NEW p \in PU, NEW n \in Reg
  PROVE  RegisterOf(p, n) \in Word /\ ST6_data[p] \in Word
<1>1. /\ lo_regs \in [PU -> [LoReg -> Word]] /\ hi_regs_out \in [HiReg -> Word]
      /\ hi_regs \in [HiReg -> Word] /\ ST6_data \in [PU -> Word]
  BY DEF PipelineTypes
<1>2. n \in LoReg => lo_regs[p][n] \in Word
  BY <1>1
<1>3. n \notin LoReg => n \in HiReg
  BY DEF Reg
<1> QED BY <1>1, <1>2, <1>3 DEF RegisterOf

\* The parts of the pipeline, one lemma each.
LEMMA OperandTypes ==
  ASSUME PipelineTypes, Operands
  PROVE  /\ ST5_p1' \in [PU -> Word] /\ ST5_p2' \in [PU -> Word]
         /\ ST5_add_carry' \in [PU -> {0, 1}]
<1>1. ASSUME NEW p \in PU PROVE st4_rb(p) \in Word
  <2>1. B(ST4) \in Reg /\ (BSreg(ST4) => B(ST4) \in Specials)
    BY StageFourFields
  <2>2. st5_res(p) \in Word
    BY SumIsWord
  <2> QED BY <2>1, <2>2, SpecialTypes, RegisterTypes DEF st4_rb
<1>2. ASSUME NEW p \in PU PROVE st4_p2(p) \in Word
  <2>1. /\ D(ST4) \in Reg /\ (P2Type(ST4) = "special" => D(ST4) \in Specials)
        /\ ST4.c \in Int /\ ST4.mode \in {"store", "load", "const", "reg"}
    BY StageFourFields DEF WellFormed, Commands
  <2>2. P2Type(ST4) \in {"cache", "port", "register", "special", "const"}
    BY <2>1 DEF P2Type
  <2>3. CASE P2Type(ST4) = "cache"
    <3>1. cache_q \in [PU -> Word] /\ 0 \in PU
      BY Sizes DEF PipelineTypes
    <3> QED BY <2>3, <3>1 DEF st4_p2, cache_rdata
  <2>4. CASE P2Type(ST4) = "port"
    <3>1. port.rdata \in Word /\ 0 \in Word
      BY Sizes DEF PipelineTypes, Word
    <3> QED BY <2>4, <3>1 DEF st4_p2
  <2>5. CASE P2Type(ST4) = "register"
    <3>1. st4_rd(p) \in Word
      BY <2>1, RegisterTypes DEF st4_rd
    <3> QED BY <2>5, <3>1 DEF st4_p2
  <2>6. CASE P2Type(ST4) = "special"
    <3>1. sreg_in(D(ST4), p) \in Word
      BY <2>1, <2>6, SpecialTypes
    <3> QED BY <2>6, <3>1 DEF st4_p2
  <2>7. CASE P2Type(ST4) = "const"
    <3>1. ST4.c % WordRange \in Word
      BY <2>1, SumOfWords
    <3> QED BY <2>7, <3>1 DEF st4_p2
  <2> QED BY <2>2, <2>3, <2>4, <2>5, <2>6, <2>7
<1>3. \A p \in PU : st5_carry(p) \in {0, 1}
  BY SumIsWord
<1> QED BY <1>1, <1>2, <1>3 DEF Operands

LEMMA WriteBackTypes ==
  ASSUME PipelineTypes, WriteBack
  PROVE  /\ lo_regs' \in [PU -> [LoReg -> Word]]
         /\ hi_regs_out' \in [HiReg -> Word] /\ hi_regs' \in [HiReg -> Word]
         /\ ST6_wr_reg' \in [PU -> BOOLEAN] /\ ST6_reg' \in Reg
         /\ ST6_data' \in [PU -> Word]
<1>1. /\ lo_regs \in [PU -> [LoReg -> Word]] /\ hi_regs_out \in [HiReg -> Word]
      /\ ST6_data \in [PU -> Word] /\ 0 \in PU
  BY Sizes DEF PipelineTypes
<1>2. \A p \in PU : st5_res(p) \in Word
  BY SumIsWord
<1>3. ST5.a \in Reg
  BY DEF PipelineTypes, WellFormed, Commands
<1>4. lo_regs' \in [PU -> [LoReg -> Word]]
  <2>1. \A p \in PU : [n \in LoReg |-> IF ST6_wr_reg[p] /\ ST6_reg = n THEN ST6_data[p]
                                       ELSE lo_regs[p][n]] \in [LoReg -> Word]
    BY <1>1
  <2> QED BY <2>1 DEF WriteBack
<1>5. hi_regs_out' \in [HiReg -> Word] /\ hi_regs' \in [HiReg -> Word]
  BY <1>1 DEF WriteBack
<1>6. ST6_wr_reg' \in [PU -> BOOLEAN]
  BY DEF WriteBack
<1>7. ST6_reg' \in Reg /\ ST6_data' \in [PU -> Word]
  BY <1>2, <1>3 DEF WriteBack
<1> QED BY <1>4, <1>5, <1>6, <1>7

LEMMA AddressTypes ==
  ASSUME PipelineTypes, AddressRegister, CacheRead, CacheWrite
  PROVE  /\ ST3_reg_r' \in Word /\ ST4_waddr' \in Word /\ ST5_waddr' \in Word
         /\ cache_waddr' \in Word
         /\ cache' \in [0 .. CacheSize - 1 -> Word] /\ cache_q' \in [PU -> Word]
         /\ cache_wen' \in SUBSET PU /\ cache_wdata' \in [PU -> Word]
<1>1. 0 \in PU /\ \A p \in PU : st5_res(p) \in Word
  BY SumIsWord, Sizes
<1>2. ST2.r \in Reg /\ ST3.off \in Nat /\ ST3_reg_r \in Word
  BY DEF PipelineTypes, WellFormed, Commands
<1>3. ST3_reg_r' \in Word
  BY <1>1, <1>2, RegisterTypes DEF AddressRegister
<1>4. core_raddr \in Word /\ core_raddr \in Int
  <2>1. ST3_reg_r + ST3.off \in Int
    BY <1>2 DEF Word
  <2>2. core_raddr \in Word
    BY <2>1, SumOfWords DEF core_raddr
  <2> QED BY <2>2 DEF Word
<1>5. cache \in [0 .. CacheSize - 1 -> Word] /\ cache_wdata \in [PU -> Word]
      /\ cache_wen \subseteq PU
  BY DEF PipelineTypes
<1>6. cache_q' \in [PU -> Word]
  BY <1>1, <1>4, <1>5, LineInCache DEF CacheRead
<1>7. cache' \in [0 .. CacheSize - 1 -> Word]
  <2>1. ASSUME NEW l, Source(l) # {} PROVE cache_wdata[CHOOSE p \in Source(l) : TRUE] \in Word
    <3>1. Source(l) \subseteq PU
      BY <1>5 DEF Source
    <3> QED BY <1>5, <2>1, <3>1
  <2> QED BY <1>5, <2>1 DEF CacheWrite
<1>8. cache_wen' \in SUBSET PU /\ cache_wdata' \in [PU -> Word]
  BY <1>1 DEF CacheWrite
<1>9. ST4_waddr' \in Word /\ ST5_waddr' \in Word /\ cache_waddr' \in Word
  BY <1>4 DEF CacheWrite, PipelineTypes
<1> QED BY <1>3, <1>6, <1>7, <1>8, <1>9

LEMMA MovedTypes ==
  ASSUME PipelineTypes, NEW p \in PU
  PROVE  st5_mov_res(p) \in Word
BY ArgumentsAreWords DEF st5_mov_res

LEMMA ShiftTypes ==
  ASSUME PipelineTypes, NEW p \in PU
  PROVE  shift_res(p) \in Word
<1>1. ST5_p1[p] \in Word /\ ST5_p2[p] \in Int
  BY ArgumentsAreWords DEF Word
<1>2. ST5_p2[p] % W \in 0 .. W - 1
  BY <1>1, InstructionsAssumption, DivMod
<1> DEFINE x == ST5_p1[p]
           y == 2^(ST5_p2[p] % W)
           r == WordRange
<1>3. x \in 0 .. r - 1 /\ x \in Nat /\ y \in Nat \ {0} /\ r \in Nat \ {0}
  BY <1>1, <1>2, PowersAssumption, Sizes DEF Word
<1>4. shift_res(p) = IF ST5.op = "SHL" THEN (x * y) % r ELSE x \div y
  BY DEF shift_res
<1> HIDE DEF x, y, r
<1>5. x * y \in Int
  BY <1>3
<1>6. (x * y) % r \in 0 .. r - 1
  BY <1>3, <1>5, DivMod
<1>7. x \div y \in 0 .. x
  BY <1>3, DivBound
<1>8. shift_res(p) \in 0 .. r - 1
  BY <1>3, <1>4, <1>6, <1>7
<1> QED BY <1>8 DEF r, Word

LEMMA FlagTypes ==
  ASSUME PipelineTypes, flags' = [p \in PU |-> SetFlagsOf(p)]
  PROVE  flags' \in [PU -> Flags]
<1>1. ASSUME NEW p \in PU PROVE SetFlagsOf(p) \in Flags
  <2>1. flags[p] \in Flags
    BY DEF PipelineTypes
  <2>2. peripheral_success \in BOOLEAN
    BY DEF peripheral_success, PipelineTypes
  <2> QED BY <2>1, <2>2 DEF SetFlagsOf, Flags
<1> QED BY <1>1

LEMMA MemAddrTypes ==
  ASSUME PipelineTypes, MemAddr
  PROVE  mem_addr' \in 0 .. WordRange * WordRange - 1
<1>1. /\ mem_addr \in 0 .. WordRange * WordRange - 1 /\ ip \in 0 .. IpRange - 1 /\ 0 \in PU
  BY Sizes DEF PipelineTypes
<1>2. High(mem_addr) \in Word /\ Low(mem_addr) \in Word /\ st5_mov_res(0) \in Word
  BY <1>1, Products, MovedTypes
<1>3. /\ High(mem_addr) * WordRange + st5_mov_res(0) \in 0 .. WordRange * WordRange - 1
      /\ st5_mov_res(0) * WordRange + Low(mem_addr) \in 0 .. WordRange * WordRange - 1
  BY <1>2, PairOf
<1>4. 2 * ip_plus_1 \in 0 .. WordRange * WordRange - 1
  <2>1. ip_plus_1 \in 0 .. IpRange - 1 /\ IpRange \in Nat
    BY <1>1, Sizes DEF ip_plus_1
  <2> DEFINE m == WordRange * WordRange
  <2>2. m \in Nat /\ 2 * IpRange <= m
    BY Products, InstructionsAssumption
  <2> HIDE DEF m
  <2>3. 2 * ip_plus_1 \in 0 .. m - 1
    BY <2>1, <2>2
  <2> QED BY <2>3 DEF m
<1> QED BY <1>1, <1>3, <1>4 DEF MemAddr

LEMMA MultiplyTypes ==
  ASSUME PipelineTypes, Multiply
  PROVE  /\ mult_res' \in [PU -> 0 .. WordRange * WordRange - 1]
         /\ ST6_op' \in [PU -> Multiplications \cup {"NOP"}] /\ ST7_wmul' \in [PU -> BOOLEAN]
         /\ ST6_p1' \in [PU -> Word] /\ ST6_p2' \in [PU -> Word]
<1> DEFINE M == 0 .. WordRange * WordRange - 1
<1>1. ASSUME NEW p \in PU
      PROVE  /\ mult_res[p] \in M /\ product(p) \in M
             /\ High(mult_res[p]) * WordRange
                + ((Low(product(p)) + High(mult_res[p])) % WordRange) \in M
             /\ High(mult_res[p]) * WordRange + shift_res(p) \in M
             /\ ST6_p1[p] \in Word /\ ST5_p1[p] \in Word /\ High(mult_res[p]) \in Word
             /\ arg2(p) \in Word
  <2>1. mult_res[p] \in M /\ product(p) \in M
    BY ProductBounds DEF PipelineTypes
  <2>2. High(mult_res[p]) \in Word /\ Low(product(p)) \in Word
    BY <2>1, Products
  <2>3. (Low(product(p)) + High(mult_res[p])) % WordRange \in Word
    <3>1. Low(product(p)) + High(mult_res[p]) \in Int
      BY <2>2 DEF Word
    <3> QED BY <3>1, SumOfWords
  <2>4. High(mult_res[p]) * WordRange
          + ((Low(product(p)) + High(mult_res[p])) % WordRange) \in M
    <3> DEFINE l == (Low(product(p)) + High(mult_res[p])) % WordRange
               h == High(mult_res[p])
    <3>1. l \in Word /\ h \in Word
      BY <2>2, <2>3
    <3> HIDE DEF l, h
    <3>2. h * WordRange + l \in M
      BY <3>1, PairOf
    <3> QED BY <3>2 DEF l, h
  <2>5. High(mult_res[p]) * WordRange + shift_res(p) \in M
    BY <2>2, ShiftTypes, PairOf
  <2>6. ST6_p1[p] \in Word /\ ST5_p1[p] \in Word /\ arg2(p) \in Word
    BY ArgumentsAreWords DEF PipelineTypes
  <2> QED BY <2>1, <2>2, <2>4, <2>5, <2>6
<1>2. mult_res' \in [PU -> M]
  <2>1. \A p \in PU : mult_res'[p] \in M
    BY <1>1 DEF Multiply
  <2>2. mult_res' = [p \in PU |-> mult_res'[p]]
    BY DEF Multiply
  <2> QED BY <2>1, <2>2
<1>3. ST6_op' \in [PU -> Multiplications \cup {"NOP"}]
  BY DEF Multiply
<1>4. ST7_wmul' \in [PU -> BOOLEAN]
  BY DEF Multiply
<1>5. ST6_p1' \in [PU -> Word] /\ ST6_p2' \in [PU -> Word]
  BY <1>1 DEF Multiply
<1> QED BY <1>2, <1>3, <1>4, <1>5

LEMMA BusTypes ==
  ASSUME PipelineTypes, PeripheralBus
  PROVE  /\ port_address' \in Ports
         /\ port' \in [rdata : Word, rready : BOOLEAN, rd_ok : BOOLEAN, taken : [Ports -> Nat],
                       wready : SUBSET Ports, log : [Ports -> Seq(Word)]]
<1>1. port_address \in Ports /\ (OnPort(ST2) => PortOf(ST2) \in Ports)
  BY Decoded DEF PipelineTypes
<1>2. port_address' \in Ports
  BY <1>1 DEF PeripheralBus
<1>3. /\ port.rready \in BOOLEAN /\ port.taken \in [Ports -> Nat]
      /\ port.log \in [Ports -> Seq(Word)] /\ st5_mov_res(0) \in Word
  BY MovedTypes, Sizes DEF PipelineTypes
<1>4. PortByte(port_address, port.taken[port_address]) \in Word /\ 0 \in Word
  <2>1. port_address \in Int /\ port.taken[port_address] \in Int
    BY <1>1, <1>3, InstructionsAssumption
  <2>2. 16 * port_address + port.taken[port_address] \in Int
    BY <2>1
  <2> QED BY <2>2, SumOfWords, Sizes DEF PortByte, Word
<1>5. port'.rdata \in Word /\ port'.wready \in SUBSET Ports
  BY <1>1, <1>4 DEF PeripheralBus
<1>6. port'.rready \in BOOLEAN /\ port'.rd_ok \in BOOLEAN
  BY <1>3 DEF PeripheralBus, IsIn
<1>7. port'.taken \in [Ports -> Nat]
  BY <1>1, <1>3, SMTT(30) DEF PeripheralBus
<1>8. port'.log \in [Ports -> Seq(Word)]
  <2>1. [port.log EXCEPT ![port_address] = Append(port.log[port_address], st5_mov_res(0))]
          \in [Ports -> Seq(Word)]
    BY <1>1, <1>3
  <2>2. port'.log = IF port_address \in port.wready /\ Room(port_address)
                      THEN [port.log EXCEPT ![port_address]
                                              = Append(port.log[port_address], st5_mov_res(0))]
                      ELSE port.log
    BY DEF PeripheralBus
  <2> QED BY <1>3, <2>1, <2>2
<1>9. port' = [rdata |-> port'.rdata, rready |-> port'.rready, rd_ok |-> port'.rd_ok,
               taken |-> port'.taken, wready |-> port'.wready, log |-> port'.log]
  BY DEF PeripheralBus
<1> QED BY <1>2, <1>5, <1>6, <1>7, <1>8, <1>9

LEMMA FetchTypes ==
  ASSUME PipelineTypes, NEW cmd, Fetch(cmd), Advance, Fetched(cmd)
  PROVE  /\ ip' \in 0 .. IpRange - 1 /\ drop_line' \in BOOLEAN
         /\ ST5_ip_plus_const' \in 0 .. IpRange - 1
         /\ WellFormed(ST2') /\ WellFormed(ST3') /\ WellFormed(ST4') /\ WellFormed(ST5')
<1>1. /\ ip \in 0 .. IpRange - 1 /\ ST5_ip_plus_const \in 0 .. IpRange - 1
      /\ drop_line \in BOOLEAN /\ ST4.c \in Int /\ IpRange \in Nat \ {0} /\ mem_addr \in Nat
      /\ WellFormed(ST2) /\ WellFormed(ST3) /\ WellFormed(ST4)
  BY Sizes, Products DEF PipelineTypes, WellFormed, Commands
<1>2. next_ip \in 0 .. IpRange - 1
  <2>1. ip_plus_1 \in 0 .. IpRange - 1
    BY <1>1 DEF ip_plus_1
  <2>2. (mem_addr \div 2) % IpRange \in 0 .. IpRange - 1
    BY <1>1
  <2> QED BY <1>1, <2>1, <2>2 DEF next_ip
<1>3. ip' \in 0 .. IpRange - 1 /\ drop_line' \in BOOLEAN
  BY <1>1, <1>2 DEF Fetch
<1>4. ST5_ip_plus_const' \in 0 .. IpRange - 1
  <2>1. ip + ST4.c + 1 \in Int
    BY <1>1
  <2>2. (ip + ST4.c + 1) % IpRange \in 0 .. IpRange - 1
    <3> DEFINE x == ip + ST4.c + 1
               r == IpRange
    <3>1. x \in Int /\ r \in Nat \ {0}
      BY <1>1, <2>1
    <3> HIDE DEF x, r
    <3>2. x % r \in 0 .. r - 1
      BY <3>1, DivMod
    <3> QED BY <3>2 DEF x, r
  <2> QED BY <1>1, <2>2 DEF Advance
<1>5. WellFormed(ST2')
  <2>1. WellFormed(NOP) /\ (~drop_line => WellFormed(cmd))
    BY NopDecoded DEF Fetched
  <2>2. ST2' = IF drop_line THEN NOP ELSE cmd
    BY DEF Fetch
  <2> QED BY <2>1, <2>2
<1> QED BY <1>1, <1>3, <1>4, <1>5 DEF Advance

LEMMA PipelineTypesStep ==
  ASSUME PipelineTypes, NEW cmd, Fetched(cmd), ProcessorClock(cmd)
  PROVE  PipelineTypes'
<1>1. /\ Fetch(cmd) /\ Advance /\ Operands /\ WriteBack /\ Execute
      /\ AddressRegister /\ CacheRead /\ CacheWrite /\ PeripheralBus
  BY DEF ProcessorClock
<1>2. flags' = [p \in PU |-> SetFlagsOf(p)] /\ MemAddr /\ Multiply
  BY <1>1 DEF Execute
<1> QED BY <1>1, <1>2, FetchTypes, OperandTypes, WriteBackTypes, AddressTypes, FlagTypes,
           MemAddrTypes, MultiplyTypes, BusTypes DEF PipelineTypes

LEMMA PcIsAddress ==
  ASSUME MachineTypes, Moves, ST5.op \notin Jumps
  PROVE  isa'.pc \in 0 .. IpRange - 1
<1>1. /\ isa.pc \in 0 .. IpRange - 1 /\ isa.target \in 0 .. IpRange - 1
      /\ (isa.pc + 1) % IpRange \in 0 .. IpRange - 1
  BY Sizes DEF MachineTypes
<1> QED BY <1>1, PcMoves

\* A command in stage 4 that jumps is the one the manual executes next.
LEMMA JumpNext ==
  ASSUME NEW cmd, Following(cmd), ST4.op \in Jumps
  PROVE  /\ from[3] = isa'.pc /\ isa'.pc \in Int
         /\ drop_line <=> ST4.op = "DJUMP"
         /\ ip = IF drop_line THEN from[3] ELSE (from[3] + 3) % IpRange
<1>1. PICK o \in 0 .. 4, y \in 1 .. 4 : Line(o, y)
  BY DEF Following, ControlFollows
<1>2. ST5.op \notin Jumps
  BY DEF Following, StagesApart, Apart1, Apart2
<1>3. Stage(3) = ST4
  BY DEF Stage
<1>4. from[3] # Bubble
  <2>1. ST4 # NOP
    BY NopDecoded
  <2> QED BY <1>3, <2>1 DEF Following, ControlFollows
<1>5. /\ y <= 3 /\ 3 <= o /\ from[3] = Ahead(o - 3)
      /\ isa.slots <= o - 3
      /\ drop_line <=> ST4.op = "DJUMP"
      /\ ip = IF drop_line THEN from[3] ELSE (from[3] + 3) % IpRange
  BY <1>1, <1>3, <1>4 DEF Line
<1>6. /\ Executing <=> o = 4
      /\ isa.slots \in 0 .. 4
      /\ \A j \in 0 .. 5 : Ahead(j) # Bubble /\ Ahead(j) \in Int
  BY <1>1, OldestIs DEF Following
<1>7. /\ AheadThen(0) = Ahead(0 + Late)
      /\ isa'.slots = IF isa.slots = 0 THEN 0 ELSE isa.slots - Late
  BY <1>2, AheadLate DEF Following
<1>8. 0 + Late = o - 3 /\ isa'.slots = 0
  BY <1>5, <1>6, <1>7 DEF Late
<1>9. from[3] = (isa'.pc + 0) % IpRange
  BY <1>5, <1>7, <1>8 DEF AheadThen
<1>10. (isa'.pc + 0) % IpRange = isa'.pc /\ isa'.pc \in Int
  <2>1. isa'.pc \in 0 .. IpRange - 1 /\ IpRange \in Nat
    BY <1>2, PcIsAddress, Sizes DEF Following
  <2>2. isa'.pc + 0 = isa'.pc
    BY <2>1
  <2> QED BY <2>1, <2>2, PcWraps
<1> QED BY <1>5, <1>9, <1>10

\* The stages hold the manual's next commands, and jumps compute its targets.
LEMMA ControlStep ==
  ASSUME NEW cmd, Following(cmd), FlagsFollow
  PROVE  ControlFollows'
<1>1. \E o2 \in 0 .. 4 : \E y2 \in 1 .. 4 : Line(o2, y2)'
  <2>1. CASE ST5.op \in Jumps
    BY <2>1, LineJump
  <2>2. CASE ST5.op \notin Jumps
    <3>1. PICK o \in 0 .. 4, y \in 1 .. 4 : Line(o, y)
      BY DEF Following, ControlFollows
    <3> QED BY <2>2, <3>1, LineAlong
  <2> QED BY <2>1, <2>2
<1>2. \A i \in 1 .. 4 : from'[i] = Bubble => Stage(i)' = NOP
  <2>1. /\ Stage(1)' = ST2' /\ \A i \in 2 .. 4 : Stage(i)' = Stage(i - 1)
        /\ from'[1] = IF drop_line THEN Bubble ELSE ip
        /\ \A i \in 2 .. 4 : from'[i] = from[i - 1]
    BY StageMoves, FromIs DEF Following
  <2>2. ST2' = IF drop_line THEN NOP ELSE cmd
    BY DEF Following, Fetch
  <2>3. ip # Bubble
    BY Sizes DEF Following, PipelineTypes, Bubble
  <2>4. \A i \in 1 .. 4 : from[i] = Bubble => Stage(i) = NOP
    BY DEF Following, ControlFollows
  <2>5. from'[1] = Bubble => Stage(1)' = NOP
    BY <2>1, <2>2, <2>3
  <2>6. ASSUME NEW i \in 2 .. 4, from'[i] = Bubble PROVE Stage(i)' = NOP
    BY <2>1, <2>4, <2>6
  <2>7. \A i \in 1 .. 4 : i = 1 \/ i \in 2 .. 4
    OBVIOUS
  <2> QED BY <2>5, <2>6, <2>7
<1>3. ASSUME ST4.op \in Jumps
      PROVE  ST5_ip_plus_const'
               = (isa'.pc + ST4.c + (IF ST4.op = "DJUMP" THEN 1 ELSE 4)) % IpRange
  <2>1. ST5_ip_plus_const' = (ip + ST4.c + 1) % IpRange
    BY <1>3 DEF Following, Advance
  <2>2. /\ from[3] = isa'.pc /\ isa'.pc \in Int
        /\ drop_line <=> ST4.op = "DJUMP"
        /\ ip = IF drop_line THEN from[3] ELSE (from[3] + 3) % IpRange
    BY <1>3, JumpNext
  <2>3. ST4.c \in Int /\ IpRange \in Nat \ {0}
    BY Sizes DEF Following, PipelineTypes, WellFormed, Commands
  <2>4. CASE ST4.op = "DJUMP"
    BY <2>1, <2>2, <2>4
  <2>5. CASE ST4.op # "DJUMP"
    <3> DEFINE x == isa'.pc + 3
               k == ST4.c + 1
               r == IpRange
    <3>1. x \in Int /\ k \in Int /\ r \in Nat \ {0} /\ x + k = isa'.pc + ST4.c + 4
      <4>1. \A a, c \in Int : a + 3 \in Int /\ c + 1 \in Int /\ (a + 3) + (c + 1) = a + c + 4
        OBVIOUS
      <4> QED BY <2>2, <2>3, <4>1, Zenon
    <3>2. ip = x % r
      BY <2>2, <2>5
    <3>3. ip + ST4.c + 1 = ip + k
      <4>1. ip \in Int
        BY Sizes DEF Following, PipelineTypes
      <4> QED BY <2>3, <4>1
    <3> HIDE DEF x, k, r
    <3>4. ((x % r) + k) % r = (x + k) % r
      BY <3>1, ModPlus
    <3>5. ST5_ip_plus_const' = (ip + k) % r
      BY <2>1, <3>3 DEF r
    <3> QED BY <2>5, <3>1, <3>2, <3>4, <3>5 DEF r
  <2> QED BY <2>4, <2>5
<1>4. ST5' = ST4
  BY DEF Following, Advance
<1> QED BY <1>1, <1>2, <1>3, <1>4 DEF ControlFollows

-----------------------------------------------------------------------------
(* The invariant is inductive. *)
LEMMA CommandMoves ==
  ASSUME Inv, NEW cmd, Clock(cmd)
  PROVE  Decodes /\ Moves /\ FromMoves /\ ProcessorClock(cmd)
<1>1. ~Executing => ST5 = NOP
  <2>1. ~Executing => Stage(4) = NOP
    BY DEF Inv, ControlFollows, Executing
  <2> QED BY <2>1 DEF Stage
<1>2. Defined(isa, NOP)
  BY DEF Defined, NOP
<1>3. Defined(isa, ST5)
  BY <1>1, <1>2 DEF Clock
<1> QED BY <1>1, <1>3 DEF Clock, Decodes, Moves, FromMoves, Inv

\* Every clock of the program keeps the invariant,
LEMMA ClockKeeps ==
  ASSUME Inv, NEW cmd, Clock(cmd), Fetched(cmd)
  PROVE  Inv'
<1>1. Decodes /\ Moves /\ FromMoves /\ ProcessorClock(cmd)
  BY CommandMoves
<1>2. /\ Fetch(cmd) /\ Advance /\ Operands /\ WriteBack /\ Execute
      /\ AddressRegister /\ CacheRead /\ CacheWrite /\ PeripheralBus
  BY <1>1 DEF ProcessorClock
<1>3. flags' = [p \in PU |-> SetFlagsOf(p)] /\ MemAddr /\ Multiply
  BY <1>2 DEF Execute
<1>4. Fetching /\ Storing /\ Multiplying /\ Following(cmd)
  BY <1>1, <1>2, <1>3 DEF Inv, Fetching, Storing, Multiplying, Following, CacheWrite
<1>5. PipelineTypes' /\ MachineTypes'
  BY <1>1, PipelineTypesStep, MachineTypesStep DEF Inv
<1>6. RegistersFollow' /\ AgesTell'
  BY <1>1, <1>2, RegistersStep DEF Inv
<1>7. FirstFollows' /\ SecondFollows' /\ CarryFollows' /\ AddressesFollow'
  BY <1>4, FirstStep, SecondStep, CarryStep, AddressesStep
<1>8. CellsFollow' /\ ResultsFollow'
  BY <1>4, <1>5, CellsStep, ResultsStep
<1>9. FlagsFollow'
  BY <1>1, <1>3, FlagsStep DEF Inv
<1>10. ResultsInTurn'
  BY <1>2, <1>3, ResultsInTurnStep DEF Inv
<1>11. StagesApart' /\ PortsFollow'
  BY <1>1, <1>2, StagesApartStep, PortsStep DEF Inv
<1>12. RequestFollowsManual'
  BY <1>1, <1>2, <1>9, RequestStep DEF Inv
<1>13. ControlFollows'
  BY <1>4, ControlStep DEF Inv
<1>14. (family \in Families)'
  BY DEF Inv, Clock
<1> QED BY <1>5, <1>6, <1>7, <1>8, <1>9, <1>10, <1>11, <1>12, <1>13, <1>14 DEF Inv

\* Everything Inv is about, left alone.
LEMMA RestKeeps ==
  ASSUME Inv, UNCHANGED <<processorVars, isa, from, family>>
  PROVE  Inv'
<1> USE DEF processorVars, controlVars, addressVars, cacheVars, registerVars, operandVars,
            resultVars, busVars
<1>1. PipelineTypes' /\ MachineTypes'
  BY DEF Inv, PipelineTypes, MachineTypes
<1>2. (RegistersFollow /\ AgesTell)'
  BY DEF Inv, RegistersFollow, AgesTell, Known, RegisterAt, RegisterOf
<1>3. FirstFollows' /\ CarryFollows'
  BY DEF Inv, FirstFollows, CarryFollows, Known, Readable
<1>4. SecondFollows'
  BY DEF Inv, SecondFollows, Known, Readable
<1>5. AddressesFollow' /\ FlagsFollow'
  BY DEF Inv, AddressesFollow, FlagsFollow, Known
<1>6. CellsFollow'
  BY DEF Inv, CellsFollow, Stored, Source
<1>7. (ResultsFollow /\ ResultsInTurn)'
  BY DEF Inv, ResultsFollow, ResultsInTurn, Known, product
<1>8. StagesApart' /\ PortsFollow'
  BY DEF Inv, StagesApart, PortsFollow, Room
<1>9. RequestFollowsManual'
  BY DEF Inv, RequestFollowsManual
<1>10. ControlFollows'
  BY SMTT(30) DEF Inv, ControlFollows, Line, Stage, Ahead
<1> QED BY <1>1, <1>2, <1>3, <1>4, <1>5, <1>6, <1>7, <1>8, <1>9, <1>10 DEF Inv

\* and so every step does.
LEMMA NextKeeps == Inv /\ [Next]_vars => Inv'
<1> SUFFICES ASSUME Inv, [Next]_vars PROVE Inv'
  OBVIOUS
<1>1. CASE \E cmd \in family : Issue(cmd)
  <2>1. PICK cmd \in family : Issue(cmd)
    BY <1>1
  <2>2. WellFormed(cmd)
    BY CoSimulationAssumption DEF Inv
  <2> QED BY <2>1, <2>2, ClockKeeps DEF Issue, Fetched
<1>2. CASE FetchNop
  BY <1>2, ClockKeeps DEF FetchNop, Fetched
<1>3. CASE Finish
  BY <1>3, RestKeeps DEF Finish
<1>4. CASE UNCHANGED vars
  BY <1>4, RestKeeps DEF vars
<1> QED BY <1>1, <1>2, <1>3, <1>4 DEF Next

-----------------------------------------------------------------------------
(* It holds at the start. *)
Regs0 == [p \in PU |-> [n \in Reg |-> IF n \in LoReg THEN InitialLo[p][n] ELSE InitialHi[n]]]

LEMMA InitialMachineIs ==
  ASSUME isa = InitialMachine(Start, InitialLo, InitialHi, InitialCells, InitialFlags)
  PROVE  /\ DOMAIN isa = Fields
         /\ isa.pc = Start /\ isa.slots = 0 /\ isa.target = 0
         /\ isa.regs = Regs0 /\ isa.regs1 = Regs0 /\ isa.base2 = Regs0[0]
         /\ isa.cells = InitialCells /\ isa.cells1 = InitialCells
         /\ isa.cells2 = InitialCells /\ isa.cells3 = InitialCells
         /\ isa.flags = InitialFlags /\ isa.mem = 0
         /\ isa.seen = [p \in PU |-> [i \in 1 .. 4 |-> [lo |-> 0, hi |-> 0]]]
         /\ isa.log = [d \in Ports |-> <<>>] /\ isa.taken = [d \in Ports |-> 0]
         /\ isa.age = [n \in HiReg |-> SharedDelay + 1] /\ isa.unknown = {}
         /\ isa.request = NoRequest
BY DEF InitialMachine, Fields, Regs0

LEMMA NopFields ==
  /\ NOP.op = "NOP" /\ NOP.r = 0 /\ NOP.off = 0 /\ NOP.c = 0 /\ NOP.b = 0
  /\ ~BSreg(NOP) /\ B(NOP) = 0 /\ P2Type(NOP) = "const"
  /\ NOP.op \notin Jumps /\ NOP.op \notin Slow /\ NOP.op \notin CarryIn
  /\ NOP.op \notin {"RSB", "SUB", "CMP"} /\ ~IsIn(NOP) /\ ~IsOut(NOP) /\ ~OnPort(NOP)
BY DEF NOP, BSreg, B, P2Type, MovArg1, Mov, IsIn, IsOut, OnPort, HasOperand, Arithmetic, Slow,
       Sums, Multiplications, Jumps, CarryIn

Starts ==
  /\ ProcessorInit(Start, InitialLo, InitialHi, InitialCells, InitialFlags)
  /\ isa = InitialMachine(Start, InitialLo, InitialHi, InitialCells, InitialFlags)
  /\ from = [i \in 1 .. 4 |-> Bubble]
  /\ family \in Families
InitialTypes ==
  /\ InitialLo \in [PU -> [LoReg -> Word]] /\ InitialHi \in [HiReg -> Word]
  /\ InitialCells \in [0 .. CacheSize - 1 -> Word] /\ InitialFlags \in [PU -> Flags]
  /\ Start \in 0 .. IpRange - 1 /\ SharedDelay \in Nat /\ SharedDelay >= 3
  /\ 0 \in PU /\ 0 \in LoReg /\ 0 \in Word /\ InitialLo[0][0] \in Word

LEMMA InitialValues == InitialTypes
<1>1. 0 \in PU /\ 0 \in LoReg /\ 0 \in Word
  BY Sizes DEF Word
<1>2. /\ InitialLo \in [PU -> [LoReg -> Word]] /\ InitialHi \in [HiReg -> Word]
      /\ InitialCells \in [0 .. CacheSize - 1 -> Word] /\ InitialFlags \in [PU -> Flags]
      /\ Start \in 0 .. IpRange - 1 /\ SharedDelay \in Nat /\ SharedDelay >= 3
  BY CoSimulationAssumption
<1> QED BY <1>1, <1>2 DEF InitialTypes

\* Its parts.
LEMMA InitTypes ==
  ASSUME Starts
  PROVE  PipelineTypes /\ MachineTypes
<1>1. InitialTypes
  BY InitialValues
<1>2. /\ ip \in 0 .. IpRange - 1 /\ drop_line \in BOOLEAN /\ ST5_ip_plus_const \in 0 .. IpRange - 1
      /\ WellFormed(ST2) /\ WellFormed(ST3) /\ WellFormed(ST4) /\ WellFormed(ST5)
  <2>1. /\ ip = Start /\ drop_line = FALSE /\ ST5_ip_plus_const = 0
        /\ ST2 = NOP /\ ST3 = NOP /\ ST4 = NOP /\ ST5 = NOP
    BY DEF Starts, ProcessorInit
  <2>2. Start \in 0 .. IpRange - 1 /\ 0 \in 0 .. IpRange - 1
    BY <1>1, Sizes DEF InitialTypes
  <2> QED BY <2>1, <2>2, NopDecoded
<1>3. /\ ST3_reg_r \in Word /\ ST4_waddr \in Word /\ ST5_waddr \in Word /\ cache_waddr \in Word
      /\ cache \in [0 .. CacheSize - 1 -> Word]
      /\ cache_wen \in SUBSET PU /\ cache_wdata \in [PU -> Word]
  BY <1>1 DEF Starts, ProcessorInit, InitialTypes
<1>4. cache_q \in [PU -> Word]
  <2>1. InitialLo[0][0] \in Int
    BY <1>1 DEF InitialTypes, Word
  <2> QED BY <1>1, <2>1, LineInCache DEF Starts, ProcessorInit, InitialTypes
<1>5. /\ lo_regs \in [PU -> [LoReg -> Word]]
      /\ hi_regs_out \in [HiReg -> Word] /\ hi_regs \in [HiReg -> Word]
      /\ ST6_wr_reg \in [PU -> BOOLEAN] /\ ST6_reg \in Reg /\ ST6_data \in [PU -> Word]
  BY <1>1 DEF Starts, ProcessorInit, InitialTypes, Reg
<1>6. /\ ST5_p1 \in [PU -> Word] /\ ST5_p2 \in [PU -> Word] /\ ST5_add_carry \in [PU -> {0, 1}]
      /\ flags \in [PU -> Flags]
  BY <1>1 DEF Starts, ProcessorInit, InitialTypes
<1>7. /\ mult_res \in [PU -> 0 .. WordRange * WordRange - 1]
      /\ mem_addr \in 0 .. WordRange * WordRange - 1
  <2> DEFINE m == WordRange * WordRange
  <2>1. m \in Nat \ {0}
    BY Products
  <2> HIDE DEF m
  <2>2. 0 \in 0 .. m - 1
    BY <2>1
  <2> QED BY <2>2 DEF Starts, ProcessorInit, m
<1>8. /\ ST6_op \in [PU -> Multiplications \cup {"NOP"}] /\ ST7_wmul \in [PU -> BOOLEAN]
      /\ ST6_p1 \in [PU -> Word] /\ ST6_p2 \in [PU -> Word]
  BY <1>1 DEF Starts, ProcessorInit, InitialTypes
<1>9. /\ port_address \in Ports
      /\ port \in [rdata : Word, rready : BOOLEAN, rd_ok : BOOLEAN, taken : [Ports -> Nat],
                   wready : SUBSET Ports, log : [Ports -> Seq(Word)]]
  BY <1>1 DEF Starts, ProcessorInit, InitialTypes
<1>10. PipelineTypes
  BY <1>2, <1>3, <1>4, <1>5, <1>6, <1>7, <1>8, <1>9 DEF PipelineTypes
<1>11. MachineTypes
  BY <1>1, InitialMachineIs, Sizes DEF Starts, MachineTypes, InitialTypes
<1> QED BY <1>10, <1>11

LEMMA InitOperands ==
  ASSUME Starts
  PROVE  /\ RegistersFollow /\ AgesTell /\ FirstFollows /\ SecondFollows /\ CarryFollows
         /\ AddressesFollow
<1>1. InitialTypes
  BY InitialValues
<1>2. /\ isa.regs = Regs0 /\ isa.regs1 = Regs0 /\ isa.base2 = Regs0[0]
      /\ isa.age = [n \in HiReg |-> SharedDelay + 1] /\ isa.unknown = {}
  BY InitialMachineIs DEF Starts
<1>3. /\ \A p \in PU : \A n \in LoReg : Regs0[p][n] = InitialLo[p][n]
      /\ \A p \in PU : \A n \in HiReg : Regs0[p][n] = InitialHi[n]
  BY InstructionsAssumption DEF Regs0, Reg
<1>4. /\ \A p \in PU : ~ST6_wr_reg[p]
      /\ lo_regs = InitialLo /\ hi_regs_out = InitialHi /\ hi_regs = InitialHi
      /\ \A p \in PU : ST5_p1[p] = InitialLo[p][0] /\ ST5_p2[p] = 0 /\ ST5_add_carry[p] = 0
      /\ ST3_reg_r = InitialLo[0][0] /\ ST4_waddr = InitialLo[0][0]
      /\ ST5_waddr = InitialLo[0][0]
      /\ ST3 = NOP /\ ST4 = NOP /\ ST5 = NOP
  BY DEF Starts, ProcessorInit
<1>5. Known = PU
  BY <1>2 DEF Known
<1>6. RegistersFollow
  <2>1. \A p \in PU : \A n \in LoReg : RegisterAt(p, n) = InitialLo[p][n]
    BY <1>4 DEF RegisterAt, RegisterOf
  <2>2. \A n \in HiReg : RegisterAt(0, n) = InitialHi[n]
    BY <1>1, <1>4, InstructionsAssumption DEF RegisterAt, RegisterOf, InitialTypes
  <2>3. 0 \in PU
    BY <1>1 DEF InitialTypes
  <2> QED BY <1>2, <1>3, <1>5, <2>1, <2>2, <2>3 DEF RegistersFollow
<1>7. AgesTell
  BY <1>1, <1>2, <1>3, <1>4 DEF AgesTell, InitialTypes
<1>8. FirstFollows
  BY <1>1, <1>2, <1>3, <1>4, <1>5, NopFields DEF FirstFollows, InitialTypes
<1>9. SecondFollows
  BY <1>4, <1>5, NopFields DEF SecondFollows
<1>10. CarryFollows
  BY <1>4, <1>5, NopFields DEF CarryFollows
<1>11. AddressesFollow
  <2>1. Regs0[0][0] = InitialLo[0][0] /\ InitialLo[0][0] \in Word
    BY <1>1, <1>3 DEF InitialTypes
  <2>2. (InitialLo[0][0] + 0) % WordRange = InitialLo[0][0]
    <3>1. InitialLo[0][0] + 0 = InitialLo[0][0]
      BY <2>1 DEF Word
    <3> QED BY <2>1, <3>1, WordBits
  <2> QED BY <1>2, <1>4, <2>1, <2>2, NopFields DEF AddressesFollow
<1> QED BY <1>6, <1>7, <1>8, <1>9, <1>10, <1>11

LEMMA InitResults ==
  ASSUME Starts
  PROVE  /\ CellsFollow /\ FlagsFollow /\ ResultsFollow /\ ResultsInTurn /\ StagesApart
         /\ PortsFollow /\ RequestFollowsManual
<1>1. InitialTypes
  BY InitialValues
<1>2. CellsFollow
  <2>1. /\ cache = InitialCells /\ isa.cells = InitialCells /\ isa.cells1 = InitialCells
        /\ isa.cells2 = InitialCells /\ cache_wen = {} /\ ST4_waddr = InitialLo[0][0]
        /\ cache_q = [p \in PU |-> InitialCells[IF p = 0 THEN CacheIndex(InitialLo[0][0])
                                                ELSE LineStart(InitialLo[0][0]) + p]]
    BY InitialMachineIs DEF Starts, ProcessorInit
  <2>2. \A x : Stored(x) = cache[x]
    BY <2>1 DEF Stored, Source
  <2>3. isa.cells = [x \in 0 .. CacheSize - 1 |-> Stored(x)]
    BY <1>1, <2>1, <2>2 DEF InitialTypes
  <2> QED BY <2>1, <2>3 DEF CellsFollow
<1>3. FlagsFollow
  BY InitialMachineIs DEF FlagsFollow, Starts, ProcessorInit
<1>4. ResultsFollow
  <2> SUFFICES ASSUME NEW p \in PU
               PROVE  /\ isa.seen[p] \in [1 .. 4 -> ResultWords]
                      /\ mult_res[p] = isa.seen[p][2].hi * WordRange + isa.seen[p][2].lo
                      /\ isa.seen[p][3] = isa.seen[p][2] /\ isa.seen[p][4] = isa.seen[p][3]
                      /\ ~ST7_wmul[p] /\ ST6_op[p] = "NOP"
    BY DEF ResultsFollow, Known, Multiplications
  <2>1. isa.seen[p] = [i \in 1 .. 4 |-> [lo |-> 0, hi |-> 0]]
    BY InitialMachineIs DEF Starts
  <2>2. mult_res[p] = 0 /\ ~ST7_wmul[p] /\ ST6_op[p] = "NOP"
    BY DEF Starts, ProcessorInit
  <2>3. 0 * WordRange + 0 = 0
    BY Sizes
  <2>4. [lo |-> 0, hi |-> 0] \in ResultWords
    BY <1>1 DEF InitialTypes, ResultWords
  <2> QED BY <2>1, <2>2, <2>3, <2>4
<1>5. ResultsInTurn
  BY DEF Starts, ProcessorInit, ResultsInTurn, Multiplications
<1>6. /\ ST2 = NOP /\ ST3 = NOP /\ ST4 = NOP /\ ST5 = NOP
  BY DEF Starts, ProcessorInit
<1>7. StagesApart
  BY <1>6, NopFields DEF StagesApart, Apart1, Apart2
<1>8. PortsFollow
  <2>1. /\ port.rready = FALSE /\ port.rd_ok = FALSE /\ port.wready = {}
        /\ port.log = [d \in Ports |-> <<>>] /\ port.taken = [d \in Ports |-> 0]
        /\ isa.log = [d \in Ports |-> <<>>] /\ isa.taken = [d \in Ports |-> 0]
    BY InitialMachineIs DEF Starts, ProcessorInit
  <2> QED BY <1>6, <2>1, NopFields DEF PortsFollow
<1>9. RequestFollowsManual
  <2>1. sdram.start = FALSE /\ isa.request.start = FALSE
    BY InitialMachineIs DEF Starts, ProcessorInit, NoRequest
  <2> QED BY <2>1, Zenon DEF RequestFollowsManual
<1> QED BY <1>2, <1>3, <1>4, <1>5, <1>7, <1>8, <1>9

LEMMA InitControl ==
  ASSUME Starts
  PROVE  ControlFollows
<1>1. /\ isa.pc = Start /\ isa.slots = 0 /\ ip = Start /\ ~drop_line
      /\ Start \in 0 .. IpRange - 1 /\ Start + 0 = Start
  BY InitialMachineIs, InitialValues, Sizes DEF Starts, ProcessorInit, InitialTypes
<1>2. \A i \in 1 .. 4 : from[i] = Bubble /\ Stage(i) = NOP
  BY DEF Starts, ProcessorInit, Stage
<1>3. ip = Ahead(0)
  BY <1>1, PcWraps DEF Ahead
<1>4. Line(0, 1)
  BY <1>1, <1>2, <1>3, NopFields DEF Line
<1>5. ST5.op \notin Jumps
  BY NopFields DEF Starts, ProcessorInit
<1> QED BY <1>2, <1>4, <1>5 DEF ControlFollows

LEMMA InitHolds == Init => Inv
<1> SUFFICES ASSUME Init PROVE Inv
  OBVIOUS
<1>1. Starts
  BY DEF Init, Starts
<1> QED BY <1>1, InitTypes, InitOperands, InitResults, InitControl DEF Inv, Starts

-----------------------------------------------------------------------------
(* What follows from it. *)
LEMMA InvFetch == Inv => FetchFollowsManual
<1> SUFFICES ASSUME Inv, Executing PROVE from[4] = isa.pc
  BY DEF FetchFollowsManual
<1>1. PICK o \in 0 .. 4, y \in 1 .. 4 : Line(o, y)
  BY DEF Inv, ControlFollows
<1>2. o = 4 /\ isa.slots \in 0 .. 4
  BY <1>1, OldestIs DEF Inv
<1>3. from[4] = Ahead(4 - 4)
  BY <1>1, <1>2 DEF Line
<1>4. isa.pc \in 0 .. IpRange - 1 /\ isa.pc + (4 - 4) = isa.pc
  BY Sizes DEF Inv, MachineTypes
<1>5. ~(isa.slots # 0 /\ 4 - 4 >= isa.slots)
  BY <1>2
<1> QED BY <1>3, <1>4, <1>5, PcWraps DEF Ahead

LEMMA InvProcessor == Inv => ProcessorFollowsManual
<1> SUFFICES ASSUME Inv PROVE ProcessorFollowsManual
  OBVIOUS
<1>1. \A p \in Known : /\ \A n \in LoReg : RegisterAt(p, n) = isa.regs[p][n]
                       /\ flags[p] = isa.flags[p]
                       /\ mult_res[p] = isa.seen[p][2].hi * WordRange + isa.seen[p][2].lo
  BY DEF Inv, RegistersFollow, FlagsFollow, ResultsFollow
<1>2. /\ \A n \in HiReg : RegisterAt(0, n) = isa.regs[0][n]
      /\ mem_addr = isa.mem
  BY DEF Inv, RegistersFollow, FlagsFollow
<1> QED BY <1>1, <1>2 DEF ProcessorFollowsManual, Known

LEMMA InvStores == Inv => StoresFollowManual
<1> SUFFICES ASSUME Inv PROVE StoresFollowManual
  OBVIOUS
<1>1. cache = isa.cells1
  BY DEF Inv, CellsFollow
<1>2. ASSUME NEW n \in HiReg, isa.age[n] > SharedDelay
      PROVE  hi_regs[n] = isa.regs[0][n]
  <2>1. isa.age[n] >= 3
    BY <1>2, CoSimulationAssumption DEF Inv, MachineTypes
  <2> QED BY <2>1 DEF Inv, AgesTell
<1> QED BY <1>1, <1>2 DEF StoresFollowManual

LEMMA InvPorts == Inv => PortsFollowManual
<1> SUFFICES ASSUME Inv PROVE PortsFollowManual
  OBVIOUS
<1>1. port.log = isa.log
  BY DEF Inv, PortsFollow
<1>2. ASSUME from = [i \in 1 .. 4 |-> Bubble] \/ ~\E s \in {ST3, ST4, ST5} : IsIn(s)
      PROVE  port.taken = isa.taken
  <2>1. ~IsIn(ST4) /\ ~IsIn(ST5)
    <3>1. CASE from = [i \in 1 .. 4 |-> Bubble]
      <4>1. Stage(3) = NOP /\ Stage(4) = NOP
        BY <3>1 DEF Inv, ControlFollows
      <4> QED BY <4>1, NopDecoded DEF Stage
    <3>2. CASE ~\E s \in {ST3, ST4, ST5} : IsIn(s)
      BY <3>2
    <3> QED BY <1>2, <3>1, <3>2
  <2>2. port.taken \in [Ports -> Nat] /\ isa.taken \in [Ports -> Nat]
    BY DEF Inv, PipelineTypes, MachineTypes
  <2>3. \A d \in Ports : port.taken[d] = isa.taken[d]
    BY <2>1, <2>2 DEF Inv, PortsFollow
  <2> QED BY <2>2, <2>3
<1> QED BY <1>1, <1>2 DEF PortsFollowManual

LEMMA InvRequest == Inv => RequestFollowsManual
BY DEF Inv

(***************************************************************************)
(* The invariant holds of every program the rules of the text allow, for   *)
(* every width of word, number of units, size of cache and memory, set of  *)
(* ports and initial contents.                                             *)
(***************************************************************************)
THEOREM PipelineInvariant == Spec => []Inv
<1>1. Init => Inv
  BY InitHolds
<1>2. Inv /\ [Next]_vars => Inv'
  BY NextKeeps
<1> QED BY <1>1, <1>2, PTL DEF Spec

\* The command in stage 5 is always the one at the manual's program counter.
THEOREM FetchIsManual == Spec => []FetchFollowsManual
BY PipelineInvariant, InvFetch, PTL

\* Registers, flags, results and MEM_ADDR are always the manual's.
THEOREM ProcessorIsManual == Spec => []ProcessorFollowsManual
BY PipelineInvariant, InvProcessor, PTL

\* The cache and the copy of the shared registers are always the manual's.
THEOREM StoresAreManual == Spec => []StoresFollowManual
BY PipelineInvariant, InvStores, PTL

\* The ports receive and give what the manual says, in order, nothing else.
THEOREM PortsAreManual == Spec => []PortsFollowManual
BY PipelineInvariant, InvPorts, PTL

\* Transfers are asked for as the manual says.
THEOREM RequestIsManual == Spec => []RequestFollowsManual
BY PipelineInvariant, InvRequest, PTL

-----------------------------------------------------------------------------
(***************************************************************************)
(* What module CoSimulation says of the simulator, whatever the program:   *)
(* its object keeps its types, the commands in its stages are the          *)
(* processor's at every clock of the program, nothing is behind a          *)
(* transfer, a transfer copies its block, and the object holds what the    *)
(* manual's machine does until the program uses something the simulator    *)
(* does otherwise.                                                         *)
(*                                                                         *)
(* handleNext is a dozen steps on an object of 45 fields.  First each step *)
(* is described by the fields it changes (ReadMemAddrIs .. HandleNextIs),  *)
(* then the types go through the steps, then the invariant SimBase through *)
(* the clock.  The second half relates the object to the manual's machine: *)
(* SimFollows says how, part by part, and a lemma .. Step takes each part  *)
(* through a clock in which the program uses nothing that differs          *)
(* (Agreed).                                                               *)
(***************************************************************************)

\* t is s but for some fields.
Same(s, t, fields) == \A f \in SimFields \ fields : t[f] = s[f]

LEMMA ReadMemAddrIs ==
  ASSUME NEW s, DOMAIN s = SimFields
  PROVE  LET t == Sim!ReadMemAddr(s) IN
         /\ DOMAIN t = SimFields
         /\ t.in_mem_lo = s.mem_lo /\ t.in_mem_hi = s.mem_hi
         /\ Same(s, t, {"in_mem_lo", "in_mem_hi"})
BY DEF Sim!ReadMemAddr, SimFields, Same

MemoryAfter(s) == IF s.ram_count # 0 /\ s.ram_write
                    THEN [s.memory EXCEPT ![s.ram_addr] = s.cache[s.ram_cache_addr]]
                    ELSE s.memory
CacheAfter(s) == IF s.ram_count # 0 /\ ~s.ram_write
                   THEN [s.cache EXCEPT ![s.ram_cache_addr] = s.memory[s.ram_addr]]
                   ELSE s.cache

LEMMA TransferIs ==
  ASSUME NEW s, DOMAIN s = SimFields
  PROVE  LET t == Sim!Transfer(s) IN
         /\ DOMAIN t = SimFields
         /\ t.memory = MemoryAfter(s) /\ t.cache = CacheAfter(s)
         /\ s.ram_count = 0 => t.ram_count = 0 /\ t.ram_addr = s.ram_addr /\ t.ram_cache_addr = s.ram_cache_addr
         /\ s.ram_count # 0 => /\ t.ram_count = s.ram_count - 1
                               /\ t.ram_addr = (s.ram_addr + 1) % MemorySize
                               /\ t.ram_cache_addr = (s.ram_cache_addr + 1) % CacheSize
         /\ Same(s, t, {"memory", "cache", "ram_count", "ram_addr", "ram_cache_addr"})
<1>1. CASE s.ram_count = 0
  BY <1>1 DEF Sim!Transfer, SimFields, Same, MemoryAfter, CacheAfter
<1>2. CASE s.ram_count # 0
  <2> DEFINE m == MemoryAfter(s)
             c == CacheAfter(s)
  <2>1. Sim!Transfer(s) = [s EXCEPT !.memory = m, !.cache = c, !.ram_addr = (@ + 1) % MemorySize,
              !.ram_cache_addr = (@ + 1) % CacheSize, !.ram_count = @ - 1]
    BY <1>2 DEF Sim!Transfer, MemoryAfter, CacheAfter
  <2> HIDE DEF m, c
  <2>2. LET t == Sim!Transfer(s) IN
         /\ DOMAIN t = SimFields
         /\ t.memory = m /\ t.cache = c
         /\ t.ram_count = s.ram_count - 1
                               /\ t.ram_addr = (s.ram_addr + 1) % MemorySize
                               /\ t.ram_cache_addr = (s.ram_cache_addr + 1) % CacheSize
         /\ Same(s, t, {"memory", "cache", "ram_count", "ram_addr", "ram_cache_addr"})
    BY <2>1, ZenonT(40) DEF SimFields, Same
  <2> QED BY <1>2, <2>2 DEF m, c
<1> QED BY <1>1, <1>2

ResultAfter(s) == [p \in PU |-> IF s.st7_mul[p] THEN s.st7_result[p]
                              ELSE IF s.st6_shift[p]
                                THEN [s.result[p] EXCEPT !.lo = s.st6_shift_result[p]]
                              ELSE s.result[p]]
ProductAfter(s) == [p \in PU |-> IF s.st6_wmul[p]
            THEN [s.st6_result[p] EXCEPT !.lo = (s.st6_result[p].hi
                                       + s.p1_st6[p] * ResultAfter(s)[p].hi) % WordRange]
            ELSE s.st6_result[p]]
Off == [p \in PU |-> FALSE]

LEMMA MulStageIs ==
  ASSUME NEW s, DOMAIN s = SimFields
  PROVE  LET t == Sim!MulStage(s) IN
         /\ DOMAIN t = SimFields
         /\ t.result = ResultAfter(s) /\ t.st7_result = s.st6_result
         /\ t.st6_result = ProductAfter(s) /\ t.st7_mul = s.st6_mul
         /\ t.st6_mul = s.st6_wmul /\ t.st6_wmul = Off /\ t.st6_shift = Off
         /\ Same(s, t, {"result", "st7_result", "st6_result", "st7_mul", "st6_mul",
                        "st6_wmul", "st6_shift"})
<1> DEFINE r == ResultAfter(s)
           q == ProductAfter(s)
           o == Off
<1>1. Sim!MulStage(s) = [s EXCEPT !.result = r, !.st7_result = s.st6_result,
                           !.st6_result = q, !.st7_mul = s.st6_mul, !.st6_mul = s.st6_wmul,
                           !.st6_wmul = o, !.st6_shift = o]
  BY Zenon DEF Sim!MulStage, ResultAfter, ProductAfter, Off, Sim!PU, PU, Sim!WordRange, WordRange
<1> HIDE DEF r, q, o
<1> DEFINE t == [s EXCEPT !.result = r, !.st7_result = s.st6_result,
                           !.st6_result = q, !.st7_mul = s.st6_mul, !.st6_mul = s.st6_wmul,
                           !.st6_wmul = o, !.st6_shift = o]
<1>2. DOMAIN t = SimFields
  OBVIOUS
<1>3. /\ t.result = r /\ t.st7_result = s.st6_result
      /\ t.st6_result = q /\ t.st7_mul = s.st6_mul
      /\ t.st6_mul = s.st6_wmul /\ t.st6_wmul = o /\ t.st6_shift = o
  BY DEF SimFields
<1>4. Same(s, t, {"result", "st7_result", "st6_result", "st7_mul", "st6_mul",
                        "st6_wmul", "st6_shift"})
  BY DEF Same
<1> HIDE DEF t
<1> QED BY <1>1, <1>2, <1>3, <1>4 DEF r, q, o, t

RegistersAfter(s) ==
  [p \in PU |-> [n \in Reg |->
                IF s.st6_wr_reg[p] /\ s.st6_reg = n THEN s.st6_data[p]
                ELSE IF n \in HiReg THEN Sim!SharedAfterWrite(s, n)
                ELSE s.regs[p][n]]]

LEMMA Stage6Is ==
  ASSUME NEW s, DOMAIN s = SimFields
  PROVE  LET t == Sim!Stage6(s) IN
         /\ DOMAIN t = SimFields
         /\ t.regs = RegistersAfter(s) /\ t.st6_wr_reg = Off
         /\ Same(s, t, {"regs", "st6_wr_reg"})
<1> DEFINE r == RegistersAfter(s)
           o == Off
<1>1. Sim!Stage6(s) = [s EXCEPT !.regs = r, !.st6_wr_reg = o]
  BY Zenon DEF Sim!Stage6, RegistersAfter, Off, Sim!PU, PU, Sim!Reg, Reg
<1> HIDE DEF r, o
<1>2. LET t == Sim!Stage6(s) IN
         /\ DOMAIN t = SimFields
         /\ t.regs = r /\ t.st6_wr_reg = o
         /\ Same(s, t, {"regs", "st6_wr_reg"})
  BY <1>1, ZenonT(40) DEF SimFields, Same
<1> QED BY <1>2 DEF r, o

MetAfter(s) == [p \in PU |-> Sim!check_cond(s.flags[p], s.st5.cond)]
FirstAfter(s) == [p \in PU |-> IF Sim!Inv1(s.st5) THEN Not(s.p1[p]) ELSE s.p1[p]]
SecondAfter(s) == [p \in PU |-> IF Sim!Inv2(s.st5) THEN Not(s.p2[p]) ELSE s.p2[p]]
LEMMA ArgsIs ==
  ASSUME NEW s, DOMAIN s = SimFields, NEW n
  PROVE  LET t == Sim!Args([s EXCEPT !.next_ip = n]) IN
         /\ DOMAIN t = SimFields /\ t.next_ip = n
         /\ t.cond_met = MetAfter(s) /\ t.p1 = FirstAfter(s) /\ t.p2 = SecondAfter(s)
         /\ Same(s, t, {"next_ip", "cond_met", "p1", "p2"})
<1> DEFINE u == [s EXCEPT !.next_ip = n]
           c == MetAfter(u)
           x == FirstAfter(u)
           y == SecondAfter(u)
<1>1. Sim!Args(u) = [u EXCEPT !.cond_met = c, !.p1 = x, !.p2 = y]
  BY Zenon DEF Sim!Args, MetAfter, FirstAfter, SecondAfter, Sim!PU, PU, Sim!Not, Not, Sim!WordRange, WordRange
<1>2. DOMAIN u = SimFields /\ u.next_ip = n /\ Same(s, u, {"next_ip"})
  BY DEF SimFields, Same
<1>3. u.flags = s.flags /\ u.st5 = s.st5 /\ u.p1 = s.p1 /\ u.p2 = s.p2
  BY <1>2 DEF SimFields, Same
<1>4. c = MetAfter(s) /\ x = FirstAfter(s) /\ y = SecondAfter(s)
  BY <1>3 DEF MetAfter, FirstAfter, SecondAfter
<1> HIDE DEF u, c, x, y
<1>5. LET t == [u EXCEPT !.cond_met = c, !.p1 = x, !.p2 = y] IN
         /\ DOMAIN t = SimFields /\ t.next_ip = n
         /\ t.cond_met = c /\ t.p1 = x /\ t.p2 = y
         /\ Same(s, t, {"next_ip", "cond_met", "p1", "p2"})
  BY <1>2 DEF SimFields, Same
<1> QED BY <1>1, <1>4, <1>5 DEF u

-----------------------------------------------------------------------------
(* What the operations of stage 5 do. *)
LEMMA SimJumpIs ==
  ASSUME NEW s, DOMAIN s = SimFields
  PROVE  LET t == Sim!Jump(s) IN
         /\ DOMAIN t = SimFields
         /\ ~s.cond_met[0] => t = s
         /\ s.cond_met[0] => /\ t.next_ip = Sim!JumpTarget(s)
                             /\ t.mem_lo = IF s.st5.link THEN Low(2 * (s.ip + 1)) ELSE s.mem_lo
                             /\ t.mem_hi = IF s.st5.link THEN High(2 * (s.ip + 1)) ELSE s.mem_hi
         /\ Same(s, t, {"next_ip", "mem_lo", "mem_hi"})
<1> DEFINE n == Sim!JumpTarget(s)
           l == IF s.st5.link THEN Low(2 * (s.ip + 1)) ELSE s.mem_lo
           h == IF s.st5.link THEN High(2 * (s.ip + 1)) ELSE s.mem_hi
           t == [s EXCEPT !.next_ip = n, !.mem_lo = l, !.mem_hi = h]
<1>1. CASE ~s.cond_met[0]
  BY <1>1 DEF Sim!Jump, Same
<1>2. CASE s.cond_met[0]
  <2>1. Sim!Jump(s) = t
    BY <1>2 DEF Sim!Jump, Sim!Low, Sim!High, Low, High, Sim!WordRange, WordRange
  <2> HIDE DEF n, l, h
  <2>2. DOMAIN t = SimFields
    OBVIOUS
  <2>3. t.next_ip = n /\ t.mem_lo = l /\ t.mem_hi = h
    BY DEF SimFields
  <2>4. Same(s, t, {"next_ip", "mem_lo", "mem_hi"})
    BY DEF Same
  <2> HIDE DEF t
  <2> QED BY <1>2, <2>1, <2>2, <2>3, <2>4 DEF n, l, h
<1> QED BY <1>1, <1>2

LEMMA SimPutSpecialIs ==
  ASSUME NEW s, DOMAIN s = SimFields, NEW n, NEW v
  PROVE  LET t == Sim!PutSpecial(s, n, v) IN
         /\ DOMAIN t = SimFields
         /\ t.mem_lo = IF n = MEM_LO THEN v ELSE s.mem_lo
         /\ t.mem_hi = IF n = MEM_HI THEN v ELSE s.mem_hi
         /\ Same(s, t, {"mem_lo", "mem_hi"})
<1>0. Sim!MEM_LO = MEM_LO /\ Sim!MEM_HI = MEM_HI /\ MEM_LO # MEM_HI
  BY DEF MEM_LO, MEM_HI, Sim!MEM_LO, Sim!MEM_HI
<1>1. CASE n = MEM_LO
  <2> DEFINE t == [s EXCEPT !.mem_lo = v]
  <2>1. Sim!PutSpecial(s, n, v) = t
    BY <1>0, <1>1 DEF Sim!PutSpecial
  <2>2. DOMAIN t = SimFields /\ t.mem_lo = v /\ t.mem_hi = s.mem_hi
    BY DEF SimFields
  <2>3. Same(s, t, {"mem_lo", "mem_hi"})
    BY DEF Same
  <2> HIDE DEF t
  <2> QED BY <1>0, <1>1, <2>1, <2>2, <2>3
<1>2. CASE n = MEM_HI
  <2> DEFINE t == [s EXCEPT !.mem_hi = v]
  <2>1. Sim!PutSpecial(s, n, v) = t
    BY <1>0, <1>2 DEF Sim!PutSpecial
  <2>2. DOMAIN t = SimFields /\ t.mem_hi = v /\ t.mem_lo = s.mem_lo
    BY DEF SimFields
  <2>3. Same(s, t, {"mem_lo", "mem_hi"})
    BY DEF Same
  <2> HIDE DEF t
  <2> QED BY <1>0, <1>2, <2>1, <2>2, <2>3
<1>3. CASE n # MEM_LO /\ n # MEM_HI
  BY <1>0, <1>3 DEF Sim!PutSpecial, Same
<1> QED BY <1>1, <1>2, <1>3

LEMMA SimStartTransferIs ==
  ASSUME NEW s, DOMAIN s = SimFields
  PROVE  LET t == Sim!StartTransfer(s) IN
         /\ DOMAIN t = SimFields
         /\ ~s.cond_met[0] => t = s
         /\ s.cond_met[0] => /\ t.ram_count = s.p2[0] /\ t.ram_write = s.st5.set
                             /\ t.ram_cache_addr = s.p1[0] % CacheSize
                             /\ t.ram_addr = (s.mem_hi * WordRange + s.mem_lo) % MemorySize
         /\ Same(s, t, {"ram_count", "ram_write", "ram_addr", "ram_cache_addr"})
<1> DEFINE c == s.p2[0]
           x == s.p1[0] % CacheSize
           a == (s.mem_hi * WordRange + s.mem_lo) % MemorySize
           t == [s EXCEPT !.ram_count = c, !.ram_cache_addr = x, !.ram_addr = a,
                          !.ram_write = s.st5.set]
<1>1. CASE ~s.cond_met[0]
  BY <1>1 DEF Sim!StartTransfer, Same
<1>2. CASE s.cond_met[0]
  <2>1. Sim!StartTransfer(s) = t
    BY <1>2 DEF Sim!StartTransfer, Sim!WordRange, WordRange
  <2> HIDE DEF c, x, a
  <2>2. DOMAIN t = SimFields
    OBVIOUS
  <2>3. t.ram_count = c /\ t.ram_cache_addr = x /\ t.ram_addr = a /\ t.ram_write = s.st5.set
    BY DEF SimFields
  <2>4. Same(s, t, {"ram_count", "ram_write", "ram_addr", "ram_cache_addr"})
    BY DEF Same
  <2> HIDE DEF t
  <2> QED BY <1>2, <2>1, <2>2, <2>3, <2>4 DEF c, x, a
<1> QED BY <1>1, <1>2

ConstantAfter(s) ==
  IF s.st5.t THEN s.regs
  ELSE [p \in PU |-> [n \in Reg |-> IF p \in Sim!Enabled(s) /\ n = s.st5.a THEN s.p2[0]
                                                                ELSE s.regs[p][n]]]
LEMMA SimLoadConstantIs ==
  ASSUME NEW s, DOMAIN s = SimFields
  PROVE  LET t == Sim!LoadConstant(s) IN
         /\ DOMAIN t = SimFields
         /\ t.regs = ConstantAfter(s)
         /\ t.mem_lo = IF s.st5.t /\ s.cond_met[0] /\ s.st5.a = MEM_LO THEN s.p2[0] ELSE s.mem_lo
         /\ t.mem_hi = IF s.st5.t /\ s.cond_met[0] /\ s.st5.a = MEM_HI THEN s.p2[0] ELSE s.mem_hi
         /\ Same(s, t, {"regs", "mem_lo", "mem_hi"})
<1>1. CASE s.st5.t /\ s.cond_met[0]
  <2> DEFINE n == s.st5.a
             v == s.p2[0]
             t == Sim!PutSpecial(s, n, v)
  <2>1. Sim!LoadConstant(s) = t
    BY <1>1 DEF Sim!LoadConstant
  <2> HIDE DEF n, v
  <2>2. DOMAIN t = SimFields /\ Same(s, t, {"mem_lo", "mem_hi"})
    BY SimPutSpecialIs
  <2>3. /\ t.mem_lo = IF n = MEM_LO THEN v ELSE s.mem_lo
        /\ t.mem_hi = IF n = MEM_HI THEN v ELSE s.mem_hi
    BY SimPutSpecialIs
  <2> HIDE DEF t
  <2>4. t.regs = s.regs
    BY <2>2 DEF Same, SimFields
  <2>5. Same(s, t, {"regs", "mem_lo", "mem_hi"})
    BY <2>2 DEF Same
  <2> QED BY <1>1, <2>1, <2>2, <2>3, <2>4, <2>5 DEF ConstantAfter, n, v
<1>2. CASE s.st5.t /\ ~s.cond_met[0]
  BY <1>2 DEF Sim!LoadConstant, ConstantAfter, Same
<1>3. CASE ~s.st5.t
  <2> DEFINE r == ConstantAfter(s)
             t == [s EXCEPT !.regs = r]
  <2>1. Sim!LoadConstant(s) = t
    BY <1>3, Zenon DEF Sim!LoadConstant, ConstantAfter, Sim!PU, PU, Sim!Reg, Reg
  <2> HIDE DEF r
  <2>2. DOMAIN t = SimFields
    OBVIOUS
  <2>3. t.regs = r /\ t.mem_lo = s.mem_lo /\ t.mem_hi = s.mem_hi
    BY DEF SimFields
  <2>4. Same(s, t, {"regs", "mem_lo", "mem_hi"})
    BY DEF Same
  <2> HIDE DEF t
  <2> QED BY <1>3, <2>1, <2>2, <2>3, <2>4 DEF r
<1> QED BY <1>1, <1>2, <1>3

LEMMA SimCacheConstantIs ==
  ASSUME NEW s, DOMAIN s = SimFields
  PROVE  LET t == Sim!CacheConstant(s) IN
         /\ DOMAIN t = SimFields
         /\ t.cache = IF s.cond_met[0]
                        THEN [s.cache EXCEPT ![(s.st5_reg_r + s.st5.off) % CacheSize] = s.p2[0]]
                        ELSE s.cache
         /\ Same(s, t, {"cache"})
<1> DEFINE c == [s.cache EXCEPT ![(s.st5_reg_r + s.st5.off) % CacheSize] = s.p2[0]]
           t == [s EXCEPT !.cache = c]
<1>1. CASE ~s.cond_met[0]
  BY <1>1 DEF Sim!CacheConstant, Same
<1>2. CASE s.cond_met[0]
  <2>1. Sim!CacheConstant(s) = t
    BY <1>2 DEF Sim!CacheConstant
  <2> HIDE DEF c
  <2>2. DOMAIN t = SimFields /\ t.cache = c
    BY DEF SimFields
  <2>4. Same(s, t, {"cache"})
    BY DEF Same
  <2> HIDE DEF t
  <2> QED BY <1>2, <2>1, <2>2, <2>4 DEF c
<1> QED BY <1>1, <1>2

LEMMA SimShiftIs ==
  ASSUME NEW s, DOMAIN s = SimFields
  PROVE  LET t == Sim!Shift(s) IN
         /\ DOMAIN t = SimFields
         /\ t.st6_shift = [p \in PU |-> p \in Sim!Enabled(s) \/ s.st6_shift[p]]
         /\ t.st6_shift_result = [p \in PU |-> IF p \in Sim!Enabled(s) THEN Sim!Shifted(s, p)
                                                           ELSE s.st6_shift_result[p]]
         /\ Same(s, t, {"st6_shift", "st6_shift_result"})
<1> DEFINE x == [p \in PU |-> p \in Sim!Enabled(s) \/ s.st6_shift[p]]
           r == [p \in PU |-> IF p \in Sim!Enabled(s) THEN Sim!Shifted(s, p)
                                                           ELSE s.st6_shift_result[p]]
           t == [s EXCEPT !.st6_shift = x, !.st6_shift_result = r]
<1>1. Sim!Shift(s) = t
  BY Zenon DEF Sim!Shift, Sim!PU, PU
<1> HIDE DEF x, r
<1>2. DOMAIN t = SimFields /\ t.st6_shift = x /\ t.st6_shift_result = r
  BY DEF SimFields
<1>3. Same(s, t, {"st6_shift", "st6_shift_result"})
  BY DEF Same
<1> HIDE DEF t
<1> QED BY <1>1, <1>2, <1>3 DEF x, r

LEMMA SimMultiplyIs ==
  ASSUME NEW s, DOMAIN s = SimFields
  PROVE  LET t == Sim!Multiply(s) IN
         /\ DOMAIN t = SimFields
         /\ t.st6_wmul = [p \in PU |-> (p \in Sim!Enabled(s) /\ s.st5.op = "WMUL") \/ s.st6_wmul[p]]
         /\ t.p1_st6 = [p \in PU |-> IF p \in Sim!Enabled(s) THEN s.p1[p] ELSE s.p1_st6[p]]
         /\ t.st6_result = [p \in PU |-> IF p \in Sim!Enabled(s)
                                           THEN [lo |-> Low(Sim!Product(s, p)),
                                                 hi |-> High(Sim!Product(s, p))]
                                           ELSE s.st6_result[p]]
         /\ t.st6_mul = [p \in PU |-> p \in Sim!Enabled(s) \/ s.st6_mul[p]]
         /\ Same(s, t, {"st6_wmul", "p1_st6", "st6_result", "st6_mul"})
<1> DEFINE w == [p \in PU |-> (p \in Sim!Enabled(s) /\ s.st5.op = "WMUL") \/ s.st6_wmul[p]]
           x == [p \in PU |-> IF p \in Sim!Enabled(s) THEN s.p1[p] ELSE s.p1_st6[p]]
           r == [p \in PU |-> IF p \in Sim!Enabled(s)
                                           THEN [lo |-> Low(Sim!Product(s, p)),
                                                 hi |-> High(Sim!Product(s, p))]
                                           ELSE s.st6_result[p]]
           m == [p \in PU |-> p \in Sim!Enabled(s) \/ s.st6_mul[p]]
           t == [s EXCEPT !.st6_wmul = w, !.p1_st6 = x, !.st6_result = r, !.st6_mul = m]
<1>1. Sim!Multiply(s) = t
  BY Zenon DEF Sim!Multiply, Sim!PU, PU, Sim!Low, Low, Sim!High, High, Sim!WordRange, WordRange
<1> HIDE DEF w, x, r, m
<1>2. DOMAIN t = SimFields
  OBVIOUS
<1>3. t.st6_wmul = w /\ t.p1_st6 = x /\ t.st6_result = r /\ t.st6_mul = m
  BY DEF SimFields
<1>4. Same(s, t, {"st6_wmul", "p1_st6", "st6_result", "st6_mul"})
  BY DEF Same
<1> HIDE DEF t
<1> QED BY <1>1, <1>2, <1>3, <1>4 DEF w, x, r, m

CarryAfter(s) == [p \in PU |-> IF p \in Sim!Enabled(s) THEN Sim!Sum(s, p) \div WordRange
                                                       ELSE s.st5_carry[p]]
DataAfter(s) == [p \in PU |-> IF p \in Sim!Enabled(s) THEN Sim!Res(s, p) ELSE s.st6_data[p]]
WrittenAfter(s) == [p \in PU |-> p \in Sim!Enabled(s) /\ Sim!WrReg(s.st5)]
LogAfter(s) == IF Sim!Written(s) THEN Sim!Logged(s) ELSE s.log
StoresAfter(s) == [x \in 0 .. CacheSize - 1 |->
                     IF Sim!Storing(s, x) # {}
                       THEN Sim!Res(s, CHOOSE p \in Sim!Storing(s, x) : TRUE) ELSE s.cache[x]]
SimFlagsAfter(s) == [p \in PU |-> IF p \in Sim!Enabled(s) /\ s.st5.set
                                    THEN Sim!FlagsOf(s, p, Sim!Sum(s, p), Sim!Written(s))
                                    ELSE s.flags[p]]
ToSpecialRegister(s, n) == Sim!WrSreg(s.st5) /\ 0 \in Sim!Enabled(s) /\ s.st5.a = n
LEMMA SimArithIs ==
  ASSUME NEW s, DOMAIN s = SimFields
  PROVE  LET t == Sim!Arith(s) IN
         /\ DOMAIN t = SimFields
         /\ t.st5_carry = CarryAfter(s) /\ t.st6_data = DataAfter(s)
         /\ t.st6_wr_reg = WrittenAfter(s)
         /\ t.st6_reg = IF Sim!Enabled(s) = {} THEN s.st6_reg ELSE s.st5.a
         /\ t.log = LogAfter(s) /\ t.cache = StoresAfter(s) /\ t.flags = SimFlagsAfter(s)
         /\ t.mem_lo = IF ToSpecialRegister(s, MEM_LO) THEN Sim!Res(s, 0) ELSE s.mem_lo
         /\ t.mem_hi = IF ToSpecialRegister(s, MEM_HI) THEN Sim!Res(s, 0) ELSE s.mem_hi
         /\ Same(s, t, {"st5_carry", "st6_data", "st6_wr_reg", "st6_reg", "log", "cache",
                        "flags", "mem_lo", "mem_hi"})
<1> DEFINE c == CarryAfter(s)
           d == DataAfter(s)
           w == WrittenAfter(s)
           r == IF Sim!Enabled(s) = {} THEN s.st6_reg ELSE s.st5.a
           l == LogAfter(s)
           x == StoresAfter(s)
           f == SimFlagsAfter(s)
           v == Sim!Res(s, 0)
           n == s.st5.a
           u == [s EXCEPT !.st5_carry = c, !.st6_data = d, !.st6_wr_reg = w, !.st6_reg = r,
                          !.log = l, !.cache = x, !.flags = f]
           t == IF Sim!WrSreg(s.st5) /\ 0 \in Sim!Enabled(s) THEN Sim!PutSpecial(u, n, v) ELSE u
<1>1. Sim!Arith(s) = t
  BY Zenon DEF Sim!Arith, Sim!PU, PU, Sim!WordRange, WordRange, CarryAfter, DataAfter,
               WrittenAfter, LogAfter, StoresAfter, SimFlagsAfter
<1> HIDE DEF c, d, w, r, l, x, f, v, n
<1>2. DOMAIN u = SimFields
  OBVIOUS
<1>3. /\ u.st5_carry = c /\ u.st6_data = d /\ u.st6_wr_reg = w /\ u.st6_reg = r
      /\ u.log = l /\ u.cache = x /\ u.flags = f /\ u.mem_lo = s.mem_lo /\ u.mem_hi = s.mem_hi
  BY DEF SimFields
<1>4. Same(s, u, {"st5_carry", "st6_data", "st6_wr_reg", "st6_reg", "log", "cache", "flags"})
  BY DEF Same
<1> HIDE DEF u
<1>5. DOMAIN t = SimFields /\ Same(u, t, {"mem_lo", "mem_hi"})
  <2>1. CASE Sim!WrSreg(s.st5) /\ 0 \in Sim!Enabled(s)
    BY <1>2, <2>1, SimPutSpecialIs
  <2>2. CASE ~(Sim!WrSreg(s.st5) /\ 0 \in Sim!Enabled(s))
    BY <1>2, <2>2 DEF Same
  <2> QED BY <2>1, <2>2
<1>6. /\ t.mem_lo = IF ToSpecialRegister(s, MEM_LO) THEN v ELSE s.mem_lo
      /\ t.mem_hi = IF ToSpecialRegister(s, MEM_HI) THEN v ELSE s.mem_hi
  <2>1. CASE Sim!WrSreg(s.st5) /\ 0 \in Sim!Enabled(s)
    <3>1. /\ t.mem_lo = IF n = MEM_LO THEN v ELSE u.mem_lo
          /\ t.mem_hi = IF n = MEM_HI THEN v ELSE u.mem_hi
      BY <1>2, <2>1, SimPutSpecialIs
    <3> QED BY <1>3, <2>1, <3>1 DEF ToSpecialRegister, n
  <2>2. CASE ~(Sim!WrSreg(s.st5) /\ 0 \in Sim!Enabled(s))
    BY <1>3, <2>2 DEF ToSpecialRegister
  <2> QED BY <2>1, <2>2
<1> HIDE DEF t
<1>7. /\ t.st5_carry = c /\ t.st6_data = d /\ t.st6_wr_reg = w /\ t.st6_reg = r
      /\ t.log = l /\ t.cache = x /\ t.flags = f
  BY <1>3, <1>5 DEF Same, SimFields
<1>8. Same(s, t, {"st5_carry", "st6_data", "st6_wr_reg", "st6_reg", "log", "cache",
                  "flags", "mem_lo", "mem_hi"})
  BY <1>4, <1>5 DEF Same
<1> QED BY <1>1, <1>5, <1>6, <1>7, <1>8 DEF c, d, w, r, l, x, f, v

-----------------------------------------------------------------------------
(* The stages before it: what an operation is given. *)
Leaving == Sim!Stage6(Sim!MulStage(Sim!Transfer(Sim!ReadMemAddr(sim))))
Begun == Sim!Args([Leaving EXCEPT !.next_ip = Leaving.ip + 1])
Kept == {"ip", "drop_mode", "st2", "st3", "st4", "st5", "st3_reg_r", "st4_reg_r", "st5_reg_r",
         "flags", "st5_carry", "mem_lo", "mem_hi", "p2type", "rd_ok", "st6_reg", "st6_data",
         "st6_shift_result", "p1_st6", "st3_from_cache", "st4_from_cache", "ram_write",
         "peripheralAddr", "taken", "log"}

LEMMA BegunIs ==
  ASSUME DOMAIN sim = SimFields
  PROVE  /\ DOMAIN Begun = SimFields
         /\ Begun.next_ip = sim.ip + 1 /\ Begun.regs = RegistersAfter(sim)
         /\ Begun.in_mem_lo = sim.mem_lo /\ Begun.in_mem_hi = sim.mem_hi
         /\ Begun.p1 = FirstAfter(sim) /\ Begun.p2 = SecondAfter(sim)
         /\ Begun.cond_met = MetAfter(sim) /\ Begun.st6_wr_reg = Off
         /\ Begun.st6_shift = Off /\ Begun.st6_mul = sim.st6_wmul /\ Begun.st6_wmul = Off
         /\ Begun.st7_mul = sim.st6_mul /\ Begun.st6_result = ProductAfter(sim)
         /\ Begun.st7_result = sim.st6_result /\ Begun.result = ResultAfter(sim)
         /\ Begun.cache = CacheAfter(sim) /\ Begun.memory = MemoryAfter(sim)
         /\ sim.ram_count = 0 => /\ Begun.ram_count = 0 /\ Begun.ram_addr = sim.ram_addr
                                 /\ Begun.ram_cache_addr = sim.ram_cache_addr
         /\ sim.ram_count # 0 => /\ Begun.ram_count = sim.ram_count - 1
                                 /\ Begun.ram_addr = (sim.ram_addr + 1) % MemorySize
                                 /\ Begun.ram_cache_addr = (sim.ram_cache_addr + 1) % CacheSize
         /\ \A f \in Kept : Begun[f] = sim[f]
<1> DEFINE a == Sim!ReadMemAddr(sim)
           b == Sim!Transfer(a)
           c == Sim!MulStage(b)
           d == Sim!Stage6(c)
           e == Sim!Args([d EXCEPT !.next_ip = d.ip + 1])
<1>1. /\ DOMAIN a = SimFields /\ a.in_mem_lo = sim.mem_lo /\ a.in_mem_hi = sim.mem_hi
      /\ Same(sim, a, {"in_mem_lo", "in_mem_hi"})
  BY ReadMemAddrIs
<1>2. MemoryAfter(a) = MemoryAfter(sim) /\ CacheAfter(a) = CacheAfter(sim)
  <2>1. /\ a.ram_count = sim.ram_count /\ a.ram_write = sim.ram_write /\ a.memory = sim.memory
        /\ a.ram_addr = sim.ram_addr /\ a.cache = sim.cache
        /\ a.ram_cache_addr = sim.ram_cache_addr
    BY <1>1 DEF Same, SimFields
  <2> QED BY <2>1 DEF MemoryAfter, CacheAfter
<1>3. /\ DOMAIN b = SimFields
      /\ b.memory = MemoryAfter(a) /\ b.cache = CacheAfter(a)
      /\ a.ram_count = 0 => b.ram_count = 0 /\ b.ram_addr = a.ram_addr /\ b.ram_cache_addr = a.ram_cache_addr
      /\ a.ram_count # 0 => /\ b.ram_count = a.ram_count - 1
                               /\ b.ram_addr = (a.ram_addr + 1) % MemorySize
                               /\ b.ram_cache_addr = (a.ram_cache_addr + 1) % CacheSize
      /\ Same(a, b, {"memory", "cache", "ram_count", "ram_addr", "ram_cache_addr"})
  BY <1>1, TransferIs
<1>4. /\ DOMAIN c = SimFields
      /\ c.result = ResultAfter(b) /\ c.st7_result = b.st6_result
      /\ c.st6_result = ProductAfter(b) /\ c.st7_mul = b.st6_mul
      /\ c.st6_mul = b.st6_wmul /\ c.st6_wmul = Off /\ c.st6_shift = Off
      /\ Same(b, c, {"result", "st7_result", "st6_result", "st7_mul", "st6_mul",
                     "st6_wmul", "st6_shift"})
  BY <1>3, MulStageIs
<1>5. /\ DOMAIN d = SimFields /\ d.regs = RegistersAfter(c) /\ d.st6_wr_reg = Off
      /\ Same(c, d, {"regs", "st6_wr_reg"})
  BY <1>4, Stage6Is
<1>6. /\ DOMAIN e = SimFields /\ e.next_ip = d.ip + 1
      /\ e.cond_met = MetAfter(d) /\ e.p1 = FirstAfter(d) /\ e.p2 = SecondAfter(d)
      /\ Same(d, e, {"next_ip", "cond_met", "p1", "p2"})
  BY <1>5, ArgsIs
<1>7. Begun = e
  BY DEF Begun, Leaving
<1> HIDE DEF a, b, c, d, e
<1>8. /\ b.st6_result = sim.st6_result /\ b.st6_mul = sim.st6_mul /\ b.st6_wmul = sim.st6_wmul
      /\ b.result = sim.result /\ b.st7_mul = sim.st7_mul /\ b.st7_result = sim.st7_result
      /\ b.st6_shift = sim.st6_shift /\ b.st6_shift_result = sim.st6_shift_result
      /\ b.p1_st6 = sim.p1_st6
  BY <1>1, <1>3 DEF Same, SimFields
<1>9. /\ c.st6_wr_reg = sim.st6_wr_reg /\ c.st6_reg = sim.st6_reg /\ c.st6_data = sim.st6_data
      /\ c.regs = sim.regs
  BY <1>1, <1>3, <1>4 DEF Same, SimFields
<1>10. d.ip = sim.ip /\ d.flags = sim.flags /\ d.st5 = sim.st5 /\ d.p1 = sim.p1 /\ d.p2 = sim.p2
  BY <1>1, <1>3, <1>4, <1>5 DEF Same, SimFields
<1>11. ResultAfter(b) = ResultAfter(sim)
  BY <1>8 DEF ResultAfter
<1>12. ProductAfter(b) = ProductAfter(sim)
  BY <1>8, <1>11 DEF ProductAfter
<1>13. RegistersAfter(c) = RegistersAfter(sim)
  BY <1>9 DEF RegistersAfter, Sim!SharedAfterWrite
<1>14. /\ MetAfter(d) = MetAfter(sim) /\ FirstAfter(d) = FirstAfter(sim)
       /\ SecondAfter(d) = SecondAfter(sim)
  BY <1>10 DEF MetAfter, FirstAfter, SecondAfter
<1>15. /\ e.in_mem_lo = a.in_mem_lo /\ e.in_mem_hi = a.in_mem_hi
       /\ e.regs = d.regs /\ e.st6_wr_reg = d.st6_wr_reg /\ e.st6_shift = c.st6_shift
       /\ e.st6_mul = c.st6_mul /\ e.st6_wmul = c.st6_wmul /\ e.st7_mul = c.st7_mul
       /\ e.st6_result = c.st6_result /\ e.st7_result = c.st7_result /\ e.result = c.result
       /\ e.cache = b.cache /\ e.memory = b.memory /\ e.ram_count = b.ram_count
       /\ e.ram_addr = b.ram_addr /\ e.ram_cache_addr = b.ram_cache_addr
  BY <1>3, <1>4, <1>5, <1>6 DEF Same, SimFields
<1>16. /\ a.ram_count = sim.ram_count /\ a.ram_addr = sim.ram_addr
       /\ a.ram_cache_addr = sim.ram_cache_addr
  BY <1>1 DEF Same, SimFields
<1>17. \A f \in Kept : e[f] = sim[f]
  <2> SUFFICES ASSUME NEW f \in Kept PROVE e[f] = sim[f]
    OBVIOUS
  <2>1. f \in SimFields /\ f \notin {"in_mem_lo", "in_mem_hi"} /\ f \notin {"next_ip", "cond_met", "p1", "p2"}
    BY DEF Kept, SimFields
  <2>2. f \notin {"memory", "cache", "ram_count", "ram_addr", "ram_cache_addr"} /\ f \notin {"regs", "st6_wr_reg"}
    BY DEF Kept
  <2>3. f \notin {"result", "st7_result", "st6_result", "st7_mul", "st6_mul", "st6_wmul", "st6_shift"}
    BY DEF Kept
  <2>4. a[f] = sim[f] /\ b[f] = a[f] /\ c[f] = b[f] /\ d[f] = c[f] /\ e[f] = d[f]
    BY <1>1, <1>3, <1>4, <1>5, <1>6, <2>1, <2>2, <2>3 DEF Same
  <2> QED BY <2>4
<1>18. /\ Begun.next_ip = sim.ip + 1 /\ Begun.regs = RegistersAfter(sim)
       /\ Begun.in_mem_lo = sim.mem_lo /\ Begun.in_mem_hi = sim.mem_hi
       /\ Begun.p1 = FirstAfter(sim) /\ Begun.p2 = SecondAfter(sim)
       /\ Begun.cond_met = MetAfter(sim) /\ Begun.st6_wr_reg = Off
  BY <1>1, <1>5, <1>6, <1>7, <1>10, <1>13, <1>14, <1>15
<1>19. /\ Begun.st6_shift = Off /\ Begun.st6_mul = sim.st6_wmul /\ Begun.st6_wmul = Off
       /\ Begun.st7_mul = sim.st6_mul /\ Begun.st6_result = ProductAfter(sim)
       /\ Begun.st7_result = sim.st6_result /\ Begun.result = ResultAfter(sim)
       /\ Begun.cache = CacheAfter(sim) /\ Begun.memory = MemoryAfter(sim)
  BY <1>2, <1>3, <1>4, <1>7, <1>8, <1>11, <1>12, <1>15
<1>20. /\ sim.ram_count = 0 => /\ Begun.ram_count = 0 /\ Begun.ram_addr = sim.ram_addr
                                 /\ Begun.ram_cache_addr = sim.ram_cache_addr
       /\ sim.ram_count # 0 => /\ Begun.ram_count = sim.ram_count - 1
                                 /\ Begun.ram_addr = (sim.ram_addr + 1) % MemorySize
                                 /\ Begun.ram_cache_addr = (sim.ram_cache_addr + 1) % CacheSize
  BY <1>3, <1>7, <1>15, <1>16
<1> QED BY <1>6, <1>7, <1>17, <1>18, <1>19, <1>20

-----------------------------------------------------------------------------
(* The stages after it. *)
PortAfter(s) == IF IsIn(s.st4) /\ s.st4.mode = "reg" THEN s.st4.r
                ELSE IF IsIn(s.st4) \/ IsOut(s.st4) THEN s.st4.a ELSE s.peripheralAddr
TakenAfter(s) == IF IsIn(s.st4) THEN [s.taken EXCEPT ![PortAfter(s)] = s.taken[PortAfter(s)] + 1]
                                ELSE s.taken
SimB(cmd) == IF Sim!MovArg1(cmd) THEN Sim!DField(cmd) ELSE cmd.b
SimBSreg(cmd) == IF Sim!MovArg1(cmd) THEN Sim!P2Type(cmd) = "special"
                                     ELSE cmd.mode = "const" /\ cmd.bs
SimFirst(s) == [p \in PU |-> IF SimBSreg(s.st4) THEN Sim!sreg_in(s, SimB(s.st4), p)
                             ELSE IF s.st6_wr_reg[p] /\ s.st6_reg = SimB(s.st4) THEN s.st6_data[p]
                             ELSE s.regs[p][SimB(s.st4)]]
SimSecondOf(s, p) ==
  CASE Sim!P2Type(s.st4) = "port" -> IF p = 0 THEN PortByte(PortAfter(s), s.taken[PortAfter(s)])
                                              ELSE s.p2[p]
    [] Sim!P2Type(s.st4) = "register" -> s.regs[p][Sim!DField(s.st4)]
    [] Sim!P2Type(s.st4) = "special" -> Sim!sreg_in(s, Sim!DField(s.st4), p)
    [] Sim!P2Type(s.st4) = "const" -> s.st4.c % WordRange
    [] Sim!P2Type(s.st4) = "cache" -> s.st4_from_cache[p]
SimSecond(s) == [p \in PU |-> SimSecondOf(s, p)]
AddressAfter(s) == IF s.st6_wr_reg[0] /\ s.st6_reg = s.st2.r THEN s.st6_data[0]
                                                             ELSE s.regs[0][s.st2.r]
LoadedAfter(s) == [p \in PU |-> s.cache[Sim!CellOf(AddressAfter(s) + s.st2.off,
                                                   IF s.st2.all THEN p ELSE 0)]]

LEMMA SimOperators ==
  /\ Sim!PU = PU /\ Sim!Reg = Reg /\ Sim!WordRange = WordRange /\ Sim!Word = Word
  /\ Sim!NOP = NOP /\ Sim!Jumps = Jumps /\ Sim!Multiplications = Multiplications
  /\ Sim!Slow = Slow /\ Sim!Sums = Sums /\ Sim!CarryIn = CarryIn
  /\ Sim!Arithmetic = Arithmetic /\ Sim!Tests = Tests /\ Sim!HasOperand = HasOperand
  /\ Sim!MEM_LO = MEM_LO /\ Sim!MEM_HI = MEM_HI /\ Sim!FLAGS = FLAGS
  /\ Sim!RESULT_LO = RESULT_LO /\ Sim!RESULT_HI = RESULT_HI
  /\ \A v : Sim!Low(v) = Low(v) /\ Sim!High(v) = High(v) /\ Sim!Not(v) = Not(v)
            /\ Sim!TopBit(v) = TopBit(v)
  /\ \A cmd : (Sim!IsIn(cmd) <=> IsIn(cmd)) /\ (Sim!IsOut(cmd) <=> IsOut(cmd))
  /\ \A d, k : Sim!PortByte(d, k) = PortByte(d, k)
  /\ \A fl, p : Sim!FlagsWord(fl, p) = FlagsWord(fl, p)
<1>1. /\ Sim!PU = PU /\ Sim!Reg = Reg /\ Sim!WordRange = WordRange /\ Sim!Word = Word
      /\ Sim!NOP = NOP
  BY DEF Sim!PU, PU, Sim!Reg, Reg, Sim!WordRange, WordRange, Sim!Word, Word, Sim!NOP, NOP
<1>2. /\ Sim!Jumps = Jumps /\ Sim!Multiplications = Multiplications
      /\ Sim!Sums = Sums /\ Sim!CarryIn = CarryIn /\ Sim!Tests = Tests
  BY Zenon DEF Sim!Jumps, Jumps, Sim!Multiplications, Multiplications, Sim!Sums, Sums, Sim!CarryIn,
         CarryIn, Sim!Tests, Tests
<1>3. Sim!Slow = Slow /\ Sim!Arithmetic = Arithmetic
  BY <1>2, Zenon DEF Sim!Slow, Slow, Sim!Arithmetic, Arithmetic
<1>4. Sim!HasOperand = HasOperand
  BY <1>3, Zenon DEF Sim!HasOperand, HasOperand
<1>5. /\ Sim!MEM_LO = MEM_LO /\ Sim!MEM_HI = MEM_HI /\ Sim!FLAGS = FLAGS
      /\ Sim!RESULT_LO = RESULT_LO /\ Sim!RESULT_HI = RESULT_HI
  BY DEF Sim!MEM_LO, MEM_LO, Sim!MEM_HI, MEM_HI, Sim!FLAGS, FLAGS, Sim!RESULT_LO, RESULT_LO,
         Sim!RESULT_HI, RESULT_HI
<1>6. \A v : Sim!Low(v) = Low(v) /\ Sim!High(v) = High(v) /\ Sim!Not(v) = Not(v)
            /\ Sim!TopBit(v) = TopBit(v)
  BY <1>1, Zenon DEF Sim!Low, Low, Sim!High, High, Sim!Not, Not, Sim!TopBit, TopBit
<1>7. \A cmd : (Sim!IsIn(cmd) <=> IsIn(cmd)) /\ (Sim!IsOut(cmd) <=> IsOut(cmd))
  BY Zenon DEF Sim!IsIn, IsIn, Sim!IsOut, IsOut
<1>8. /\ \A d, k : Sim!PortByte(d, k) = PortByte(d, k)
      /\ \A fl, p : Sim!FlagsWord(fl, p) = FlagsWord(fl, p)
  BY <1>1, ZenonT(40) DEF Sim!PortByte, PortByte, Sim!FlagsWord, FlagsWord
<1> QED BY <1>1, <1>2, <1>3, <1>4, <1>5, <1>6, <1>7, <1>8

LEMMA Stage4Is ==
  ASSUME NEW s, DOMAIN s = SimFields
  PROVE  LET t == Sim!Stage4(s) IN
         /\ DOMAIN t = SimFields
         /\ t.st5 = s.st4 /\ t.st5_reg_r = s.st4_reg_r /\ t.p2type = Sim!P2Type(s.st4)
         /\ t.peripheralAddr = PortAfter(s) /\ t.rd_ok = (IF IsIn(s.st4) THEN TRUE ELSE s.rd_ok)
         /\ t.taken = TakenAfter(s) /\ t.p1 = SimFirst(s) /\ t.p2 = SimSecond(s)
         /\ Same(s, t, {"st5", "st5_reg_r", "p2type", "peripheralAddr", "rd_ok", "taken", "p1", "p2"})
<1> DEFINE y == Sim!P2Type(s.st4)
           a == PortAfter(s)
           k == TakenAfter(s)
           q == SimFirst(s)
           r == SimSecond(s)
           b == IF IsIn(s.st4) THEN TRUE ELSE s.rd_ok
           t == [s EXCEPT !.st5 = s.st4, !.st5_reg_r = s.st4_reg_r, !.p2type = y,
                          !.peripheralAddr = a, !.rd_ok = b, !.taken = k, !.p1 = q, !.p2 = r]
<1>1. Sim!Stage4(s) = t
  BY Zenon DEF Sim!Stage4, PortAfter, TakenAfter, SimFirst, SimSecond, SimSecondOf, SimB, SimBSreg,
               Sim!IsIn, IsIn, Sim!IsOut, IsOut, Sim!PU, PU, Sim!PortByte, PortByte,
               Sim!WordRange, WordRange
<1> HIDE DEF y, a, k, q, r, b
<1>2. DOMAIN t = SimFields
  OBVIOUS
<1>3. /\ t.st5 = s.st4 /\ t.st5_reg_r = s.st4_reg_r /\ t.p2type = y
      /\ t.peripheralAddr = a /\ t.rd_ok = b
  BY DEF SimFields
<1>4. t.taken = k /\ t.p1 = q /\ t.p2 = r
  BY DEF SimFields
<1>5. Same(s, t, {"st5", "st5_reg_r", "p2type", "peripheralAddr", "rd_ok", "taken", "p1", "p2"})
  BY DEF Same
<1> HIDE DEF t
<1> QED BY <1>1, <1>2, <1>3, <1>4, <1>5 DEF y, a, k, q, r, b

LEMMA Stages32Is ==
  ASSUME NEW s, DOMAIN s = SimFields
  PROVE  LET t == Sim!Stages32(s) IN
         /\ DOMAIN t = SimFields
         /\ t.st4 = s.st3 /\ t.st4_reg_r = s.st3_reg_r /\ t.st3 = s.st2
         /\ t.st3_reg_r = AddressAfter(s) /\ t.st4_from_cache = s.st3_from_cache
         /\ t.st3_from_cache = LoadedAfter(s)
         /\ Same(s, t, {"st4", "st4_reg_r", "st3", "st3_reg_r", "st4_from_cache", "st3_from_cache"})
<1> DEFINE a == AddressAfter(s)
           l == LoadedAfter(s)
           t == [s EXCEPT !.st4 = s.st3, !.st4_reg_r = s.st3_reg_r, !.st3 = s.st2,
                          !.st3_reg_r = a, !.st4_from_cache = s.st3_from_cache,
                          !.st3_from_cache = l]
<1>1. Sim!Stages32(s) = t
  BY Zenon DEF Sim!Stages32, AddressAfter, LoadedAfter, Sim!PU, PU
<1> HIDE DEF a, l
<1>2. DOMAIN t = SimFields
  OBVIOUS
<1>3. /\ t.st4 = s.st3 /\ t.st4_reg_r = s.st3_reg_r /\ t.st3 = s.st2
      /\ t.st3_reg_r = a /\ t.st4_from_cache = s.st3_from_cache /\ t.st3_from_cache = l
  BY DEF SimFields
<1>4. Same(s, t, {"st4", "st4_reg_r", "st3", "st3_reg_r", "st4_from_cache", "st3_from_cache"})
  BY DEF Same
<1> HIDE DEF t
<1> QED BY <1>1, <1>2, <1>3, <1>4 DEF a, l

DropAfter(s, cmd) == IF s.drop_mode > 0 THEN s.drop_mode - 1
                     ELSE IF cmd.op = "DJUMP" THEN 4 ELSE 0
LEMMA Stage1Is ==
  ASSUME NEW s, DOMAIN s = SimFields, NEW cmd
  PROVE  LET t == Sim!Stage1(s, cmd) IN
         /\ DOMAIN t = SimFields
         /\ t.st2 = (IF s.drop_mode > 0 THEN NOP ELSE cmd) /\ t.drop_mode = DropAfter(s, cmd)
         /\ t.ip = IF DropAfter(s, cmd) = 0 THEN s.next_ip % IpRange ELSE s.ip
         /\ Same(s, t, {"st2", "drop_mode", "ip"})
<1> DEFINE a == IF s.drop_mode > 0 THEN NOP ELSE cmd
           d == DropAfter(s, cmd)
           n == IF d = 0 THEN s.next_ip % IpRange ELSE s.ip
           t == [s EXCEPT !.st2 = a, !.drop_mode = d, !.ip = n]
<1>1. Sim!Stage1(s, cmd) = t
  BY Zenon, SimOperators DEF Sim!Stage1, DropAfter
<1> HIDE DEF a, d, n
<1>2. DOMAIN t = SimFields
  OBVIOUS
<1>3. t.st2 = a /\ t.drop_mode = d /\ t.ip = n
  BY DEF SimFields
<1>4. Same(s, t, {"st2", "drop_mode", "ip"})
  BY DEF Same
<1> HIDE DEF t
<1> QED BY <1>1, <1>2, <1>3, <1>4 DEF a, d, n

\* What a state becomes in the stages before the fifth.
Afterwards(s, cmd) == Sim!Stage1(Sim!Stages32(Sim!Stage4(s)), cmd)
Passed(s, t, cmd) ==
  /\ DOMAIN t = SimFields
  /\ t.st5 = s.st4 /\ t.st5_reg_r = s.st4_reg_r /\ t.p2type = Sim!P2Type(s.st4)
  /\ t.peripheralAddr = PortAfter(s) /\ t.rd_ok = (IF IsIn(s.st4) THEN TRUE ELSE s.rd_ok)
  /\ t.taken = TakenAfter(s) /\ t.p1 = SimFirst(s) /\ t.p2 = SimSecond(s)
  /\ t.st4 = s.st3 /\ t.st4_reg_r = s.st3_reg_r /\ t.st3 = s.st2
  /\ t.st3_reg_r = AddressAfter(s) /\ t.st4_from_cache = s.st3_from_cache
  /\ t.st3_from_cache = LoadedAfter(s)
  /\ t.st2 = (IF s.drop_mode > 0 THEN NOP ELSE cmd) /\ t.drop_mode = DropAfter(s, cmd)
  /\ t.ip = (IF DropAfter(s, cmd) = 0 THEN s.next_ip % IpRange ELSE s.ip)
PassedFields == {"st5", "st5_reg_r", "p2type", "peripheralAddr", "rd_ok", "taken", "p1", "p2",
                "st4", "st4_reg_r", "st3", "st3_reg_r", "st4_from_cache", "st3_from_cache",
                "st2", "drop_mode", "ip"}
LEMMA AfterwardsIs ==
  ASSUME NEW s, DOMAIN s = SimFields, NEW cmd
  PROVE  Passed(s, Afterwards(s, cmd), cmd) /\ Same(s, Afterwards(s, cmd), PassedFields)
<1> DEFINE u == Sim!Stage4(s)
           v == Sim!Stages32(u)
           t == Sim!Stage1(v, cmd)
<1>1. /\ DOMAIN u = SimFields
      /\ u.st5 = s.st4 /\ u.st5_reg_r = s.st4_reg_r /\ u.p2type = Sim!P2Type(s.st4)
      /\ u.peripheralAddr = PortAfter(s) /\ u.rd_ok = (IF IsIn(s.st4) THEN TRUE ELSE s.rd_ok)
      /\ u.taken = TakenAfter(s) /\ u.p1 = SimFirst(s) /\ u.p2 = SimSecond(s)
      /\ Same(s, u, {"st5", "st5_reg_r", "p2type", "peripheralAddr", "rd_ok", "taken", "p1", "p2"})
  BY Stage4Is
<1>2. /\ DOMAIN v = SimFields
      /\ v.st4 = u.st3 /\ v.st4_reg_r = u.st3_reg_r /\ v.st3 = u.st2
      /\ v.st3_reg_r = AddressAfter(u) /\ v.st4_from_cache = u.st3_from_cache
      /\ v.st3_from_cache = LoadedAfter(u)
      /\ Same(u, v, {"st4", "st4_reg_r", "st3", "st3_reg_r", "st4_from_cache", "st3_from_cache"})
  BY <1>1, Stages32Is
<1>3. /\ DOMAIN t = SimFields
      /\ t.st2 = (IF v.drop_mode > 0 THEN NOP ELSE cmd) /\ t.drop_mode = DropAfter(v, cmd)
      /\ t.ip = IF DropAfter(v, cmd) = 0 THEN v.next_ip % IpRange ELSE v.ip
      /\ Same(v, t, {"st2", "drop_mode", "ip"})
  BY <1>2, Stage1Is
<1> HIDE DEF u, v, t
<1>4. /\ u.st3 = s.st3 /\ u.st2 = s.st2 /\ u.st3_reg_r = s.st3_reg_r
      /\ u.st3_from_cache = s.st3_from_cache /\ u.st6_wr_reg = s.st6_wr_reg
      /\ u.st6_reg = s.st6_reg /\ u.st6_data = s.st6_data /\ u.regs = s.regs
      /\ u.cache = s.cache
  BY <1>1 DEF Same, SimFields
<1>5. AddressAfter(u) = AddressAfter(s) /\ LoadedAfter(u) = LoadedAfter(s)
  BY <1>4 DEF AddressAfter, LoadedAfter
<1>6. v.drop_mode = s.drop_mode /\ v.next_ip = s.next_ip /\ v.ip = s.ip
  BY <1>1, <1>2 DEF Same, SimFields
<1>7. DropAfter(v, cmd) = DropAfter(s, cmd)
  BY <1>6 DEF DropAfter
<1>8. /\ t.st5 = v.st5 /\ t.st5_reg_r = v.st5_reg_r /\ t.p2type = v.p2type
      /\ t.peripheralAddr = v.peripheralAddr /\ t.rd_ok = v.rd_ok /\ t.taken = v.taken
      /\ t.p1 = v.p1 /\ t.p2 = v.p2 /\ t.st4 = v.st4 /\ t.st4_reg_r = v.st4_reg_r
      /\ t.st3 = v.st3 /\ t.st3_reg_r = v.st3_reg_r /\ t.st4_from_cache = v.st4_from_cache
      /\ t.st3_from_cache = v.st3_from_cache
  BY <1>3 DEF Same, SimFields
<1>9. /\ v.st5 = u.st5 /\ v.st5_reg_r = u.st5_reg_r /\ v.p2type = u.p2type
      /\ v.peripheralAddr = u.peripheralAddr /\ v.rd_ok = u.rd_ok /\ v.taken = u.taken
      /\ v.p1 = u.p1 /\ v.p2 = u.p2
  BY <1>2 DEF Same, SimFields
<1>10. Same(s, t, PassedFields)
  BY <1>1, <1>2, <1>3 DEF Same, PassedFields
<1>11. /\ t.st5 = s.st4 /\ t.st5_reg_r = s.st4_reg_r /\ t.p2type = Sim!P2Type(s.st4)
       /\ t.peripheralAddr = PortAfter(s) /\ t.rd_ok = (IF IsIn(s.st4) THEN TRUE ELSE s.rd_ok)
       /\ t.taken = TakenAfter(s) /\ t.p1 = SimFirst(s) /\ t.p2 = SimSecond(s)
  BY <1>1, <1>8, <1>9
<1>12. /\ t.st4 = s.st3 /\ t.st4_reg_r = s.st3_reg_r /\ t.st3 = s.st2
       /\ t.st3_reg_r = AddressAfter(s) /\ t.st4_from_cache = s.st3_from_cache
       /\ t.st3_from_cache = LoadedAfter(s)
  BY <1>2, <1>4, <1>5, <1>8
<1>13. t.st2 = (IF s.drop_mode > 0 THEN NOP ELSE cmd)
  BY <1>3, <1>6
<1>14. t.drop_mode = DropAfter(s, cmd)
  BY <1>3, <1>7
<1>15. t.ip = (IF DropAfter(s, cmd) = 0 THEN s.next_ip % IpRange ELSE s.ip)
  BY <1>3, <1>6, <1>7
<1>16. Passed(s, t, cmd)
  BY <1>3, <1>11, <1>12, <1>13, <1>14, <1>15, Zenon DEF Passed
<1>17. t = Afterwards(s, cmd)
  BY Zenon DEF t, v, u, Afterwards
<1> QED BY <1>10, <1>16, <1>17

-----------------------------------------------------------------------------
(* What stage 5 leaves of a state b it begins with, field by field. *)
Stage5Of(b) ==
  IF b.st5.op \in Jumps THEN Sim!Jump(b)
  ELSE IF b.st5.op = "RW" THEN Sim!StartTransfer(b)
  ELSE IF b.st5.op = "CMOV" THEN Sim!LoadConstant(b)
  ELSE IF b.st5.op = "CCMOV" THEN Sim!CacheConstant(b)
  ELSE IF b.st5.op \in {"SHL", "SHR"} THEN Sim!Shift(b)
  ELSE IF b.st5.op \in Multiplications THEN Sim!Multiply(b)
  ELSE IF b.st5.op \in Arithmetic THEN Sim!Arith(b)
  ELSE b
Stable == {"ip", "drop_mode", "st2", "st3", "st4", "st5", "st3_reg_r", "st4_reg_r",
           "st5_reg_r", "in_mem_lo", "in_mem_hi", "p1", "p2", "p2type", "rd_ok", "cond_met",
           "st7_mul", "st7_result", "result", "st3_from_cache", "st4_from_cache", "memory",
           "peripheralAddr", "taken"}
JumpFields == {"next_ip"}
RegisterFields == {"regs"}
ArithFields == {"st5_carry", "st6_data", "st6_wr_reg", "st6_reg", "log", "flags"}
CacheFields == {"cache"}
ShiftFields == {"st6_shift", "st6_shift_result"}
ProductFields == {"st6_wmul", "p1_st6", "st6_result", "st6_mul"}
TransferFields == {"ram_count", "ram_write", "ram_addr", "ram_cache_addr"}
AddressFields == {"mem_lo", "mem_hi"}

Jumping(b) == b.st5.op \in Jumps /\ b.cond_met[0]
JumpDone(b, d) == d.next_ip = IF Jumping(b) THEN Sim!JumpTarget(b) ELSE b.next_ip
RegisterDone(b, d) == d.regs = IF b.st5.op = "CMOV" THEN ConstantAfter(b) ELSE b.regs
ArithDone(b, d) ==
  IF b.st5.op \in Arithmetic
    THEN /\ d.st5_carry = CarryAfter(b) /\ d.st6_data = DataAfter(b)
         /\ d.st6_wr_reg = WrittenAfter(b) /\ d.log = LogAfter(b)
         /\ d.st6_reg = IF Sim!Enabled(b) = {} THEN b.st6_reg ELSE b.st5.a
         /\ d.flags = SimFlagsAfter(b)
    ELSE \A f \in ArithFields : d[f] = b[f]
CacheDone(b, d) ==
  d.cache = IF b.st5.op \in Arithmetic THEN StoresAfter(b)
            ELSE IF b.st5.op = "CCMOV" /\ b.cond_met[0]
              THEN [b.cache EXCEPT ![(b.st5_reg_r + b.st5.off) % CacheSize] = b.p2[0]]
            ELSE b.cache
ShiftDone(b, d) ==
  IF b.st5.op \in {"SHL", "SHR"}
    THEN /\ d.st6_shift = [p \in PU |-> p \in Sim!Enabled(b) \/ b.st6_shift[p]]
         /\ d.st6_shift_result = [p \in PU |-> IF p \in Sim!Enabled(b) THEN Sim!Shifted(b, p)
                                                           ELSE b.st6_shift_result[p]]
    ELSE \A f \in ShiftFields : d[f] = b[f]
ProductDone(b, d) ==
  IF b.st5.op \in Multiplications
    THEN /\ d.st6_wmul = [p \in PU |-> (p \in Sim!Enabled(b) /\ b.st5.op = "WMUL") \/ b.st6_wmul[p]]
         /\ d.p1_st6 = [p \in PU |-> IF p \in Sim!Enabled(b) THEN b.p1[p] ELSE b.p1_st6[p]]
         /\ d.st6_result = [p \in PU |-> IF p \in Sim!Enabled(b)
                                           THEN [lo |-> Low(Sim!Product(b, p)),
                                                 hi |-> High(Sim!Product(b, p))]
                                           ELSE b.st6_result[p]]
         /\ d.st6_mul = [p \in PU |-> p \in Sim!Enabled(b) \/ b.st6_mul[p]]
    ELSE \A f \in ProductFields : d[f] = b[f]
TransferDone(b, d) ==
  IF b.st5.op = "RW" /\ b.cond_met[0]
    THEN /\ d.ram_count = b.p2[0] /\ d.ram_write = b.st5.set
         /\ d.ram_cache_addr = b.p1[0] % CacheSize
         /\ d.ram_addr = (b.mem_hi * WordRange + b.mem_lo) % MemorySize
    ELSE \A f \in TransferFields : d[f] = b[f]
ToMemAddr(b, n) == \/ b.st5.op \in Arithmetic /\ ToSpecialRegister(b, n)
                   \/ b.st5.op = "CMOV" /\ b.st5.t /\ b.cond_met[0] /\ b.st5.a = n
ForMemAddr(b) == IF b.st5.op = "CMOV" THEN b.p2[0] ELSE Sim!Res(b, 0)
AddressDone(b, d) ==
  /\ d.mem_lo = IF Jumping(b) /\ b.st5.link THEN Low(2 * (b.ip + 1))
                ELSE IF ToMemAddr(b, MEM_LO) THEN ForMemAddr(b) ELSE b.mem_lo
  /\ d.mem_hi = IF Jumping(b) /\ b.st5.link THEN High(2 * (b.ip + 1))
                ELSE IF ToMemAddr(b, MEM_HI) THEN ForMemAddr(b) ELSE b.mem_hi
Stage5Done(b, d) ==
  /\ DOMAIN d = SimFields /\ \A f \in Stable : d[f] = b[f]
  /\ JumpDone(b, d) /\ RegisterDone(b, d) /\ ArithDone(b, d) /\ CacheDone(b, d)
  /\ ShiftDone(b, d) /\ ProductDone(b, d) /\ TransferDone(b, d) /\ AddressDone(b, d)

LEMMA FieldGroups ==
  /\ Stable \subseteq SimFields /\ JumpFields \subseteq SimFields
  /\ RegisterFields \subseteq SimFields /\ ArithFields \subseteq SimFields
  /\ CacheFields \subseteq SimFields /\ ShiftFields \subseteq SimFields
  /\ ProductFields \subseteq SimFields /\ TransferFields \subseteq SimFields
  /\ AddressFields \subseteq SimFields
BY DEF Stable, JumpFields, RegisterFields, ArithFields, CacheFields, ShiftFields,
       ProductFields, TransferFields, AddressFields, SimFields

\* The operations of stage 5 exclude one another.
LEMMA OneArm ==
  ASSUME NEW op
  PROVE  /\ op \in Jumps => /\ op \notin {"RW", "CMOV", "CCMOV", "SHL", "SHR"}
                            /\ op \notin Multiplications /\ op \notin Arithmetic
         /\ op \in {"RW", "CMOV", "CCMOV", "SHL", "SHR"} =>
              op \notin Multiplications /\ op \notin Arithmetic
         /\ op \in Multiplications => op \notin Arithmetic
BY DEF Jumps, Multiplications, Arithmetic, Sums

LEMMA JumpsArm ==
  ASSUME NEW b, DOMAIN b = SimFields, b.st5.op \in Jumps
  PROVE  Stage5Done(b, Sim!Jump(b))
<1> DEFINE d == Sim!Jump(b)
<1>1. DOMAIN d = SimFields /\ Same(b, d, {"next_ip", "mem_lo", "mem_hi"})
  BY SimJumpIs
<1>2. /\ ~b.cond_met[0] => d = b
      /\ b.cond_met[0] => /\ d.next_ip = Sim!JumpTarget(b)
                          /\ d.mem_lo = IF b.st5.link THEN Low(2 * (b.ip + 1)) ELSE b.mem_lo
                          /\ d.mem_hi = IF b.st5.link THEN High(2 * (b.ip + 1)) ELSE b.mem_hi
  BY SimJumpIs
<1> HIDE DEF d
<1>3. \A f \in Stable : d[f] = b[f]
  BY <1>1, FieldGroups DEF Same, Stable
<1>4. /\ \A f \in RegisterFields : d[f] = b[f]
      /\ \A f \in ArithFields : d[f] = b[f]
      /\ \A f \in CacheFields : d[f] = b[f]
      /\ \A f \in ShiftFields : d[f] = b[f]
      /\ \A f \in ProductFields : d[f] = b[f]
      /\ \A f \in TransferFields : d[f] = b[f]
  BY <1>1, FieldGroups DEF Same, RegisterFields, ArithFields, CacheFields, ShiftFields, ProductFields, TransferFields
<1>5. JumpDone(b, d)
  BY <1>2, OneArm DEF JumpDone, Jumping
<1>6. RegisterDone(b, d)
  BY <1>4, OneArm DEF RegisterDone, RegisterFields
<1>7. ArithDone(b, d)
  BY <1>4, OneArm DEF ArithDone, ArithFields
<1>8. CacheDone(b, d)
  BY <1>4, OneArm DEF CacheDone, CacheFields
<1>9. ShiftDone(b, d)
  BY <1>4, OneArm DEF ShiftDone, ShiftFields
<1>10. ProductDone(b, d)
  BY <1>4, OneArm DEF ProductDone, ProductFields
<1>11. TransferDone(b, d)
  BY <1>4, OneArm DEF TransferDone, TransferFields
<1>12. AddressDone(b, d)
  BY <1>2, OneArm DEF AddressDone, Jumping, ToMemAddr, ForMemAddr
<1> QED
  BY <1>1, <1>3, <1>5, <1>6, <1>7, <1>8, <1>9, <1>10, <1>11, <1>12 DEF Stage5Done, d

LEMMA TransferArm ==
  ASSUME NEW b, DOMAIN b = SimFields, b.st5.op = "RW"
  PROVE  Stage5Done(b, Sim!StartTransfer(b))
<1> DEFINE d == Sim!StartTransfer(b)
<1>1. DOMAIN d = SimFields /\ Same(b, d, {"ram_count", "ram_write", "ram_addr", "ram_cache_addr"})
  BY SimStartTransferIs
<1>2. /\ ~b.cond_met[0] => d = b
      /\ b.cond_met[0] => /\ d.ram_count = b.p2[0] /\ d.ram_write = b.st5.set
                          /\ d.ram_cache_addr = b.p1[0] % CacheSize
                          /\ d.ram_addr = (b.mem_hi * WordRange + b.mem_lo) % MemorySize
  BY SimStartTransferIs
<1> HIDE DEF d
<1>3. \A f \in Stable : d[f] = b[f]
  BY <1>1, FieldGroups DEF Same, Stable
<1>4. /\ \A f \in JumpFields : d[f] = b[f]
      /\ \A f \in RegisterFields : d[f] = b[f]
      /\ \A f \in ArithFields : d[f] = b[f]
      /\ \A f \in CacheFields : d[f] = b[f]
      /\ \A f \in ShiftFields : d[f] = b[f]
      /\ \A f \in ProductFields : d[f] = b[f]
      /\ \A f \in AddressFields : d[f] = b[f]
  BY <1>1, FieldGroups DEF Same, JumpFields, RegisterFields, ArithFields, CacheFields, ShiftFields, ProductFields, AddressFields
<1>5. JumpDone(b, d)
  BY <1>4, OneArm DEF JumpDone, JumpFields, Jumping
<1>6. RegisterDone(b, d)
  BY <1>4, OneArm DEF RegisterDone, RegisterFields
<1>7. ArithDone(b, d)
  BY <1>4, OneArm DEF ArithDone, ArithFields
<1>8. CacheDone(b, d)
  BY <1>4, OneArm DEF CacheDone, CacheFields
<1>9. ShiftDone(b, d)
  BY <1>4, OneArm DEF ShiftDone, ShiftFields
<1>10. ProductDone(b, d)
  BY <1>4, OneArm DEF ProductDone, ProductFields
<1>11. TransferDone(b, d)
  BY <1>2, OneArm DEF TransferDone
<1>12. AddressDone(b, d)
  BY <1>4, OneArm DEF AddressDone, AddressFields, Jumping, ToMemAddr, ForMemAddr
<1> QED
  BY <1>1, <1>3, <1>5, <1>6, <1>7, <1>8, <1>9, <1>10, <1>11, <1>12 DEF Stage5Done, d

LEMMA ConstantArm ==
  ASSUME NEW b, DOMAIN b = SimFields, b.st5.op = "CMOV"
  PROVE  Stage5Done(b, Sim!LoadConstant(b))
<1> DEFINE d == Sim!LoadConstant(b)
<1>1. DOMAIN d = SimFields /\ Same(b, d, {"regs", "mem_lo", "mem_hi"})
  BY SimLoadConstantIs
<1>2. /\ d.regs = ConstantAfter(b)
      /\ d.mem_lo = IF b.st5.t /\ b.cond_met[0] /\ b.st5.a = MEM_LO THEN b.p2[0] ELSE b.mem_lo
      /\ d.mem_hi = IF b.st5.t /\ b.cond_met[0] /\ b.st5.a = MEM_HI THEN b.p2[0] ELSE b.mem_hi
  BY SimLoadConstantIs
<1> HIDE DEF d
<1>3. \A f \in Stable : d[f] = b[f]
  BY <1>1, FieldGroups DEF Same, Stable
<1>4. /\ \A f \in JumpFields : d[f] = b[f]
      /\ \A f \in ArithFields : d[f] = b[f]
      /\ \A f \in CacheFields : d[f] = b[f]
      /\ \A f \in ShiftFields : d[f] = b[f]
      /\ \A f \in ProductFields : d[f] = b[f]
      /\ \A f \in TransferFields : d[f] = b[f]
  BY <1>1, FieldGroups DEF Same, JumpFields, ArithFields, CacheFields, ShiftFields, ProductFields, TransferFields
<1>5. JumpDone(b, d)
  BY <1>4, OneArm DEF JumpDone, JumpFields, Jumping
<1>6. RegisterDone(b, d)
  BY <1>2, OneArm DEF RegisterDone
<1>7. ArithDone(b, d)
  BY <1>4, OneArm DEF ArithDone, ArithFields
<1>8. CacheDone(b, d)
  BY <1>4, OneArm DEF CacheDone, CacheFields
<1>9. ShiftDone(b, d)
  BY <1>4, OneArm DEF ShiftDone, ShiftFields
<1>10. ProductDone(b, d)
  BY <1>4, OneArm DEF ProductDone, ProductFields
<1>11. TransferDone(b, d)
  BY <1>4, OneArm DEF TransferDone, TransferFields
<1>12. AddressDone(b, d)
  BY <1>2, OneArm DEF AddressDone, Jumping, ToMemAddr, ForMemAddr
<1> QED
  BY <1>1, <1>3, <1>5, <1>6, <1>7, <1>8, <1>9, <1>10, <1>11, <1>12 DEF Stage5Done, d

LEMMA CacheConstantArm ==
  ASSUME NEW b, DOMAIN b = SimFields, b.st5.op = "CCMOV"
  PROVE  Stage5Done(b, Sim!CacheConstant(b))
<1> DEFINE d == Sim!CacheConstant(b)
<1>1. DOMAIN d = SimFields /\ Same(b, d, {"cache"})
  BY SimCacheConstantIs
<1>2. /\ d.cache = IF b.cond_met[0]
                     THEN [b.cache EXCEPT ![(b.st5_reg_r + b.st5.off) % CacheSize] = b.p2[0]]
                     ELSE b.cache
  BY SimCacheConstantIs
<1> HIDE DEF d
<1>3. \A f \in Stable : d[f] = b[f]
  BY <1>1, FieldGroups DEF Same, Stable
<1>4. /\ \A f \in JumpFields : d[f] = b[f]
      /\ \A f \in RegisterFields : d[f] = b[f]
      /\ \A f \in ArithFields : d[f] = b[f]
      /\ \A f \in ShiftFields : d[f] = b[f]
      /\ \A f \in ProductFields : d[f] = b[f]
      /\ \A f \in TransferFields : d[f] = b[f]
      /\ \A f \in AddressFields : d[f] = b[f]
  BY <1>1, FieldGroups DEF Same, JumpFields, RegisterFields, ArithFields, ShiftFields, ProductFields, TransferFields, AddressFields
<1>5. JumpDone(b, d)
  BY <1>4, OneArm DEF JumpDone, JumpFields, Jumping
<1>6. RegisterDone(b, d)
  BY <1>4, OneArm DEF RegisterDone, RegisterFields
<1>7. ArithDone(b, d)
  BY <1>4, OneArm DEF ArithDone, ArithFields
<1>8. CacheDone(b, d)
  BY <1>2, OneArm DEF CacheDone
<1>9. ShiftDone(b, d)
  BY <1>4, OneArm DEF ShiftDone, ShiftFields
<1>10. ProductDone(b, d)
  BY <1>4, OneArm DEF ProductDone, ProductFields
<1>11. TransferDone(b, d)
  BY <1>4, OneArm DEF TransferDone, TransferFields
<1>12. AddressDone(b, d)
  BY <1>4, OneArm DEF AddressDone, AddressFields, Jumping, ToMemAddr, ForMemAddr
<1> QED
  BY <1>1, <1>3, <1>5, <1>6, <1>7, <1>8, <1>9, <1>10, <1>11, <1>12 DEF Stage5Done, d

LEMMA ShiftArm ==
  ASSUME NEW b, DOMAIN b = SimFields, b.st5.op \in {"SHL", "SHR"}
  PROVE  Stage5Done(b, Sim!Shift(b))
<1> DEFINE d == Sim!Shift(b)
<1>1. DOMAIN d = SimFields /\ Same(b, d, {"st6_shift", "st6_shift_result"})
  BY SimShiftIs
<1>2. /\ d.st6_shift = [p \in PU |-> p \in Sim!Enabled(b) \/ b.st6_shift[p]]
      /\ d.st6_shift_result = [p \in PU |-> IF p \in Sim!Enabled(b) THEN Sim!Shifted(b, p)
                                                        ELSE b.st6_shift_result[p]]
  BY SimShiftIs
<1> HIDE DEF d
<1>3. \A f \in Stable : d[f] = b[f]
  BY <1>1, FieldGroups DEF Same, Stable
<1>4. /\ \A f \in JumpFields : d[f] = b[f]
      /\ \A f \in RegisterFields : d[f] = b[f]
      /\ \A f \in ArithFields : d[f] = b[f]
      /\ \A f \in CacheFields : d[f] = b[f]
      /\ \A f \in ProductFields : d[f] = b[f]
      /\ \A f \in TransferFields : d[f] = b[f]
      /\ \A f \in AddressFields : d[f] = b[f]
  BY <1>1, FieldGroups DEF Same, JumpFields, RegisterFields, ArithFields, CacheFields, ProductFields, TransferFields, AddressFields
<1>5. JumpDone(b, d)
  BY <1>4, OneArm DEF JumpDone, JumpFields, Jumping
<1>6. RegisterDone(b, d)
  BY <1>4, OneArm DEF RegisterDone, RegisterFields
<1>7. ArithDone(b, d)
  BY <1>4, OneArm DEF ArithDone, ArithFields
<1>8. CacheDone(b, d)
  BY <1>4, OneArm DEF CacheDone, CacheFields
<1>9. ShiftDone(b, d)
  BY <1>2, OneArm DEF ShiftDone
<1>10. ProductDone(b, d)
  BY <1>4, OneArm DEF ProductDone, ProductFields
<1>11. TransferDone(b, d)
  BY <1>4, OneArm DEF TransferDone, TransferFields
<1>12. AddressDone(b, d)
  BY <1>4, OneArm DEF AddressDone, AddressFields, Jumping, ToMemAddr, ForMemAddr
<1> QED
  BY <1>1, <1>3, <1>5, <1>6, <1>7, <1>8, <1>9, <1>10, <1>11, <1>12 DEF Stage5Done, d

LEMMA MultiplyArm ==
  ASSUME NEW b, DOMAIN b = SimFields, b.st5.op \in Multiplications
  PROVE  Stage5Done(b, Sim!Multiply(b))
<1> DEFINE d == Sim!Multiply(b)
<1>1. DOMAIN d = SimFields /\ Same(b, d, {"st6_wmul", "p1_st6", "st6_result", "st6_mul"})
  BY SimMultiplyIs
<1>2. /\ d.st6_wmul = [p \in PU |-> (p \in Sim!Enabled(b) /\ b.st5.op = "WMUL") \/ b.st6_wmul[p]]
      /\ d.p1_st6 = [p \in PU |-> IF p \in Sim!Enabled(b) THEN b.p1[p] ELSE b.p1_st6[p]]
      /\ d.st6_result = [p \in PU |-> IF p \in Sim!Enabled(b)
                                        THEN [lo |-> Low(Sim!Product(b, p)),
                                              hi |-> High(Sim!Product(b, p))]
                                        ELSE b.st6_result[p]]
      /\ d.st6_mul = [p \in PU |-> p \in Sim!Enabled(b) \/ b.st6_mul[p]]
  BY SimMultiplyIs
<1> HIDE DEF d
<1>3. \A f \in Stable : d[f] = b[f]
  BY <1>1, FieldGroups DEF Same, Stable
<1>4. /\ \A f \in JumpFields : d[f] = b[f]
      /\ \A f \in RegisterFields : d[f] = b[f]
      /\ \A f \in ArithFields : d[f] = b[f]
      /\ \A f \in CacheFields : d[f] = b[f]
      /\ \A f \in ShiftFields : d[f] = b[f]
      /\ \A f \in TransferFields : d[f] = b[f]
      /\ \A f \in AddressFields : d[f] = b[f]
  BY <1>1, FieldGroups DEF Same, JumpFields, RegisterFields, ArithFields, CacheFields, ShiftFields, TransferFields, AddressFields
<1>5. JumpDone(b, d)
  BY <1>4, OneArm DEF JumpDone, JumpFields, Jumping
<1>6. RegisterDone(b, d)
  BY <1>4, OneArm DEF RegisterDone, RegisterFields
<1>7. ArithDone(b, d)
  BY <1>4, OneArm DEF ArithDone, ArithFields
<1>8. CacheDone(b, d)
  BY <1>4, OneArm DEF CacheDone, CacheFields
<1>9. ShiftDone(b, d)
  BY <1>4, OneArm DEF ShiftDone, ShiftFields
<1>10. ProductDone(b, d)
  BY <1>2, OneArm DEF ProductDone
<1>11. TransferDone(b, d)
  BY <1>4, OneArm DEF TransferDone, TransferFields
<1>12. AddressDone(b, d)
  BY <1>4, OneArm DEF AddressDone, AddressFields, Jumping, ToMemAddr, ForMemAddr
<1> QED
  BY <1>1, <1>3, <1>5, <1>6, <1>7, <1>8, <1>9, <1>10, <1>11, <1>12 DEF Stage5Done, d

LEMMA ArithArm ==
  ASSUME NEW b, DOMAIN b = SimFields, b.st5.op \in Arithmetic
  PROVE  Stage5Done(b, Sim!Arith(b))
<1> DEFINE d == Sim!Arith(b)
<1>1. DOMAIN d = SimFields /\ Same(b, d, {"st5_carry", "st6_data", "st6_wr_reg", "st6_reg", "log", "cache", "flags", "mem_lo", "mem_hi"})
  BY SimArithIs
<1>2. /\ d.st5_carry = CarryAfter(b) /\ d.st6_data = DataAfter(b)
      /\ d.st6_wr_reg = WrittenAfter(b)
      /\ d.st6_reg = IF Sim!Enabled(b) = {} THEN b.st6_reg ELSE b.st5.a
      /\ d.log = LogAfter(b) /\ d.cache = StoresAfter(b) /\ d.flags = SimFlagsAfter(b)
      /\ d.mem_lo = IF ToSpecialRegister(b, MEM_LO) THEN Sim!Res(b, 0) ELSE b.mem_lo
      /\ d.mem_hi = IF ToSpecialRegister(b, MEM_HI) THEN Sim!Res(b, 0) ELSE b.mem_hi
  BY SimArithIs
<1> HIDE DEF d
<1>3. \A f \in Stable : d[f] = b[f]
  BY <1>1, FieldGroups DEF Same, Stable
<1>4. /\ \A f \in JumpFields : d[f] = b[f]
      /\ \A f \in RegisterFields : d[f] = b[f]
      /\ \A f \in ShiftFields : d[f] = b[f]
      /\ \A f \in ProductFields : d[f] = b[f]
      /\ \A f \in TransferFields : d[f] = b[f]
  BY <1>1, FieldGroups DEF Same, JumpFields, RegisterFields, ShiftFields, ProductFields, TransferFields
<1>5. JumpDone(b, d)
  BY <1>4, OneArm DEF JumpDone, JumpFields, Jumping
<1>6. RegisterDone(b, d)
  BY <1>4, OneArm DEF RegisterDone, RegisterFields
<1>7. ArithDone(b, d)
  BY <1>2, OneArm DEF ArithDone
<1>8. CacheDone(b, d)
  BY <1>2, OneArm DEF CacheDone
<1>9. ShiftDone(b, d)
  BY <1>4, OneArm DEF ShiftDone, ShiftFields
<1>10. ProductDone(b, d)
  BY <1>4, OneArm DEF ProductDone, ProductFields
<1>11. TransferDone(b, d)
  BY <1>4, OneArm DEF TransferDone, TransferFields
<1>12. AddressDone(b, d)
  BY <1>2, OneArm DEF AddressDone, Jumping, ToMemAddr, ForMemAddr
<1> QED
  BY <1>1, <1>3, <1>5, <1>6, <1>7, <1>8, <1>9, <1>10, <1>11, <1>12 DEF Stage5Done, d

-----------------------------------------------------------------------------
(* One clock. *)
Done == Sim!Stage5(Leaving)

LEMMA DoneIs ==
  ASSUME DOMAIN sim = SimFields
  PROVE  Stage5Done(Begun, Done)
<1>1. DOMAIN Begun = SimFields
  BY BegunIs
<1>2. Done = Stage5Of(Begun)
  BY SimOperators, Zenon DEF Done, Begun, Sim!Stage5, Stage5Of
<1> DEFINE b == Begun
<1> HIDE DEF b
<1>3. Stage5Done(b, Stage5Of(b))
  <2>1. DOMAIN b = SimFields
    BY <1>1 DEF b
  <2>2. CASE b.st5.op \in Jumps
    BY <2>1, <2>2, JumpsArm DEF Stage5Of
  <2>3. CASE b.st5.op = "RW"
    BY <2>1, <2>3, TransferArm, OneArm DEF Stage5Of
  <2>4. CASE b.st5.op = "CMOV"
    BY <2>1, <2>4, ConstantArm, OneArm DEF Stage5Of
  <2>5. CASE b.st5.op = "CCMOV"
    BY <2>1, <2>5, CacheConstantArm, OneArm DEF Stage5Of
  <2>6. CASE b.st5.op \in {"SHL", "SHR"}
    BY <2>1, <2>6, ShiftArm, OneArm DEF Stage5Of
  <2>7. CASE b.st5.op \in Multiplications
    BY <2>1, <2>7, MultiplyArm, OneArm DEF Stage5Of
  <2>8. CASE b.st5.op \in Arithmetic
    BY <2>1, <2>8, ArithArm, OneArm DEF Stage5Of
  <2>9. CASE /\ b.st5.op \notin Jumps /\ b.st5.op # "RW" /\ b.st5.op # "CMOV" /\ b.st5.op # "CCMOV"
             /\ b.st5.op \notin {"SHL", "SHR"} /\ b.st5.op \notin Multiplications
             /\ b.st5.op \notin Arithmetic
    <3>1. Stage5Of(b) = b
      BY <2>9 DEF Stage5Of
    <3>2. JumpDone(b, b) /\ RegisterDone(b, b) /\ CacheDone(b, b) /\ AddressDone(b, b)
      BY <2>9, Zenon DEF JumpDone, RegisterDone, CacheDone, AddressDone, Jumping, ToMemAddr
    <3>3. ArithDone(b, b) /\ ShiftDone(b, b) /\ ProductDone(b, b) /\ TransferDone(b, b)
      BY <2>9, Zenon DEF ArithDone, ShiftDone, ProductDone, TransferDone
    <3> QED BY <2>1, <3>1, <3>2, <3>3 DEF Stage5Done
  <2> QED BY <2>2, <2>3, <2>4, <2>5, <2>6, <2>7, <2>8, <2>9
<1> QED BY <1>2, <1>3 DEF b

LEMMA HandleNextIs ==
  ASSUME DOMAIN sim = SimFields, NEW cmd
  PROVE  Sim!handleNext(sim, cmd) = Sim!Stage1(Sim!Stages32(Sim!Stage4(Done)), cmd)
BY DEF Sim!handleNext, Done, Leaving

-----------------------------------------------------------------------------
(* Its types, through the steps of handleNext. *)
\* Not, the halves of pairs and what the cells hold.
LEMMA Halves ==
  /\ \A v \in Int : Low(v) \in Word /\ High(v) \in Word
  /\ \A x \in Word : Not(x) \in Word
  /\ \A x \in Int : x % CacheSize \in 0 .. CacheSize - 1
<1> DEFINE r == WordRange
           c == CacheSize
<1>1. r \in Nat \ {0} /\ Word = 0 .. r - 1 /\ c \in Nat \ {0}
  BY Sizes DEF Word
<1> HIDE DEF r, c
<1>2. \A v \in Int : v \div r \in Int /\ v % r \in 0 .. r - 1
  BY <1>1, DivMod
<1>3. \A v \in Int : (v \div r) % r \in 0 .. r - 1
  BY <1>1, <1>2, DivMod
<1>4. \A x \in Int : x % c \in 0 .. c - 1
  BY <1>1, DivMod
<1> QED BY <1>1, <1>2, <1>3, <1>4, TopBits DEF r, c, Low, High

LEMMA SimCellIs ==
  ASSUME NEW a \in Int, NEW p \in PU
  PROVE  /\ Sim!CellOf(a, p) \in 0 .. CacheSize - 1
         /\ Sim!CellOf(a, 0) = a % CacheSize
         /\ (a % CacheSize) % N = 0 => Sim!CellOf(a, p) = (a % CacheSize) + p
<1> DEFINE x == a % CacheSize
           m == x % N
           y == (x + p) % N
<1>1. N \in Nat \ {0} /\ x \in Int /\ p \in Int
  BY Sizes, Halves DEF PU
<1>2. Sim!CellOf(a, p) = (x - m) + y /\ Sim!CellOf(a, 0) = (x - m) + ((x + 0) % N)
  BY DEF Sim!CellOf
<1>3. LineStart(a) = x - m
  BY DEF LineStart, CacheIndex
<1>4. m \in Int /\ y \in PU
  BY <1>1, DivMod DEF PU
<1>5. m = 0 => y = p
  <2> SUFFICES ASSUME m = 0 PROVE y = p
    OBVIOUS
  <2> DEFINE n == N
  <2>1. ((x % n) + p) % n = (x + p) % n
    BY <1>1, ModPlus
  <2>2. p \in 0 .. n - 1 /\ n \in Nat \ {0} /\ p \in Int
    BY <1>1 DEF PU
  <2>3. p = n * 0 + p
    BY <2>2
  <2>4. p % n = p
    BY <2>2, <2>3, DivModUnique
  <2> HIDE DEF x
  <2> QED BY <1>1, <2>1, <2>4
<1>6. LineStart(a) + y \in 0 .. CacheSize - 1
  BY <1>4, LineInCache
<1> HIDE DEF m, x
<1>7. x + 0 = x
  BY <1>1
<1>8. (x - m) + (x % N) = x
  BY <1>1, <1>4 DEF m
<1> HIDE DEF y
<1> QED BY <1>1, <1>2, <1>3, <1>4, <1>5, <1>6, <1>7, <1>8 DEF x, m

-----------------------------------------------------------------------------
(* Types: what stage 5 begins with, what it leaves, what the stages after it make. *)
LEMMA MetTypes ==
  ASSUME NEW fl, NEW c
  PROVE  Sim!check_cond(fl, c) \in BOOLEAN
BY DEF Sim!check_cond

LEMMA RegistersAfterTypes ==
  ASSUME SimOperands(sim)
  PROVE  RegistersAfter(sim) \in [PU -> [Reg -> Word]]
<1> DEFINE v(p, n) == IF sim.st6_wr_reg[p] /\ sim.st6_reg = n THEN sim.st6_data[p]
                ELSE IF n \in HiReg THEN Sim!SharedAfterWrite(sim, n)
                ELSE sim.regs[p][n]
<1>1. \A p \in PU : \A n \in Reg : v(p, n) \in Word
  BY Sizes DEF SimOperands, Sim!SharedAfterWrite
<1> HIDE DEF v
<1>2. [p \in PU |-> [n \in Reg |-> v(p, n)]] \in [PU -> [Reg -> Word]]
  BY <1>1
<1> QED BY <1>2 DEF RegistersAfter, v

LEMMA ResultTypes ==
  ASSUME SimPipes(sim)
  PROVE  /\ ResultAfter(sim) \in [PU -> ResultWords]
         /\ ProductAfter(sim) \in [PU -> ResultWords]
<1>1. \A p \in PU : /\ sim.st6_result[p] \in ResultWords /\ sim.st7_result[p] \in ResultWords
                    /\ sim.result[p] \in ResultWords /\ sim.st6_shift_result[p] \in Word
                    /\ sim.p1_st6[p] \in Word
  BY DEF SimPipes
<1>2. \A p \in PU : [sim.result[p] EXCEPT !.lo = sim.st6_shift_result[p]] \in ResultWords
  BY <1>1 DEF ResultWords
<1>3. ResultAfter(sim) \in [PU -> ResultWords]
  BY <1>1, <1>2 DEF ResultAfter
<1> DEFINE h(p) == (sim.st6_result[p].hi + sim.p1_st6[p] * ResultAfter(sim)[p].hi) % WordRange
<1>4. \A p \in PU : h(p) \in Word
  <2> SUFFICES ASSUME NEW p \in PU PROVE h(p) \in Word
    OBVIOUS
  <2> DEFINE a == sim.st6_result[p].hi
             b == sim.p1_st6[p]
             c == ResultAfter(sim)[p].hi
  <2>1. a \in Int /\ b \in Int /\ c \in Int
    BY <1>1, <1>3, Sizes DEF ResultWords, Word
  <2> HIDE DEF a, b, c
  <2>2. a + b * c \in Int
    BY <2>1
  <2> QED BY <2>2, SumOfWords DEF a, b, c
<1> HIDE DEF h
<1>5. \A p \in PU : [sim.st6_result[p] EXCEPT !.lo = h(p)] \in ResultWords
  BY <1>1, <1>4 DEF ResultWords
<1>6. [p \in PU |-> IF sim.st6_wmul[p] THEN [sim.st6_result[p] EXCEPT !.lo = h(p)]
                    ELSE sim.st6_result[p]] \in [PU -> ResultWords]
  BY <1>1, <1>5
<1> QED BY <1>3, <1>6 DEF ProductAfter, h

LEMMA BegunTypes ==
  ASSUME CoreTypes(sim)
  PROVE  CoreTypes(Begun)
<1> DEFINE b == Begun
<1>0. DOMAIN sim = SimFields
  BY DEF CoreTypes
<1>1. /\ DOMAIN b = SimFields
      /\ b.next_ip = sim.ip + 1 /\ b.regs = RegistersAfter(sim)
      /\ b.in_mem_lo = sim.mem_lo /\ b.in_mem_hi = sim.mem_hi
      /\ b.p1 = FirstAfter(sim) /\ b.p2 = SecondAfter(sim)
      /\ b.cond_met = MetAfter(sim) /\ b.st6_wr_reg = Off
      /\ b.st6_shift = Off /\ b.st6_mul = sim.st6_wmul /\ b.st6_wmul = Off
      /\ b.st7_mul = sim.st6_mul /\ b.st6_result = ProductAfter(sim)
      /\ b.st7_result = sim.st6_result /\ b.result = ResultAfter(sim)
      /\ b.cache = CacheAfter(sim) /\ b.memory = MemoryAfter(sim)
  BY <1>0, BegunIs
<1>2. /\ sim.ram_count = 0 => /\ b.ram_count = 0 /\ b.ram_addr = sim.ram_addr
                              /\ b.ram_cache_addr = sim.ram_cache_addr
      /\ sim.ram_count # 0 => /\ b.ram_count = sim.ram_count - 1
                              /\ b.ram_addr = (sim.ram_addr + 1) % MemorySize
                              /\ b.ram_cache_addr = (sim.ram_cache_addr + 1) % CacheSize
  BY <1>0, BegunIs
<1>3. /\ b.ip = sim.ip /\ b.drop_mode = sim.drop_mode /\ b.st2 = sim.st2 /\ b.st3 = sim.st3
      /\ b.st4 = sim.st4 /\ b.st5 = sim.st5 /\ b.p2type = sim.p2type /\ b.rd_ok = sim.rd_ok
      /\ b.peripheralAddr = sim.peripheralAddr /\ b.taken = sim.taken
  BY <1>0, BegunIs DEF Kept
<1>4. /\ b.st3_reg_r = sim.st3_reg_r /\ b.st4_reg_r = sim.st4_reg_r
      /\ b.st5_reg_r = sim.st5_reg_r /\ b.flags = sim.flags /\ b.st5_carry = sim.st5_carry
      /\ b.mem_lo = sim.mem_lo /\ b.mem_hi = sim.mem_hi
      /\ b.st6_reg = sim.st6_reg /\ b.st6_data = sim.st6_data
  BY <1>0, BegunIs DEF Kept
<1>5. /\ b.st6_shift_result = sim.st6_shift_result /\ b.p1_st6 = sim.p1_st6
      /\ b.st3_from_cache = sim.st3_from_cache /\ b.st4_from_cache = sim.st4_from_cache
      /\ b.ram_write = sim.ram_write
  BY <1>0, BegunIs DEF Kept
<1> HIDE DEF b
<1>6. Off \in [PU -> BOOLEAN] /\ MetAfter(sim) \in [PU -> BOOLEAN]
  BY MetTypes DEF Off, MetAfter
<1>7. SimCommands(b)
  BY <1>1, <1>3, <1>6 DEF CoreTypes, SimCommands
<1>8. FirstAfter(sim) \in [PU -> Word] /\ SecondAfter(sim) \in [PU -> Word]
  BY TopBits DEF CoreTypes, SimOperands, FirstAfter, SecondAfter
<1>9. SimOperands(b)
  BY <1>1, <1>4, <1>6, <1>8, RegistersAfterTypes DEF CoreTypes, SimOperands
<1>10. SimPipes(b)
  BY <1>1, <1>5, <1>6, ResultTypes DEF CoreTypes, SimPipes
<1>11. SimMemories(b)
  <2>1. MemorySize \in Nat \ {0} /\ CacheSize \in Nat \ {0}
    BY Sizes, CoSimulationAssumption
  <2>2. CacheAfter(sim) \in [0 .. CacheSize - 1 -> Word]
    BY <2>1 DEF CoreTypes, SimMemories, CacheAfter
  <2>3. MemoryAfter(sim) \in [0 .. MemorySize - 1 -> Word]
    BY <2>1 DEF CoreTypes, SimMemories, MemoryAfter
  <2>4. /\ (sim.ram_addr + 1) % MemorySize \in 0 .. MemorySize - 1
        /\ (sim.ram_cache_addr + 1) % CacheSize \in 0 .. CacheSize - 1
    <3> DEFINE m == MemorySize
               c == CacheSize
    <3>1. sim.ram_addr + 1 \in Int /\ sim.ram_cache_addr + 1 \in Int
      BY <2>1 DEF CoreTypes, SimMemories
    <3>2. m \in Nat \ {0} /\ c \in Nat \ {0}
      BY <2>1
    <3> HIDE DEF m, c
    <3>3. /\ (sim.ram_addr + 1) % m \in 0 .. m - 1
          /\ (sim.ram_cache_addr + 1) % c \in 0 .. c - 1
      BY <3>1, <3>2, DivMod
    <3> QED BY <3>3 DEF m, c
  <2>5. b.ram_count \in Nat /\ b.ram_addr \in 0 .. MemorySize - 1 /\ b.ram_cache_addr \in 0 .. CacheSize - 1
    BY <1>2, <2>4 DEF CoreTypes, SimMemories
  <2> QED BY <1>1, <1>5, <2>2, <2>3, <2>5 DEF CoreTypes, SimMemories
<1> QED BY <1>1, <1>7, <1>9, <1>10, <1>11 DEF CoreTypes, b

LEMMA ArithTypes ==
  ASSUME NEW b, CoreTypes(b), NEW p \in PU
  PROVE  /\ Sim!Sum(b, p) \in Int /\ Sim!Res(b, p) \in Word
         /\ Sim!Sum(b, p) \div WordRange \in {0, 1}
<1> DEFINE x == b.p1[p]
           y == b.p2[p]
           op == b.st5.op
           c == IF op \in CarryIn THEN b.st5_carry[p] ELSE IF op = "ADD" THEN 0 ELSE 1
<1>1. x \in Word /\ y \in Word /\ c \in {0, 1}
  BY DEF CoreTypes, SimOperands
<1>2. /\ And(x, y) \in Word /\ Or(x, y) \in Word /\ Xor(x, y) \in Word
      /\ Darker(y) \in Word /\ LighterWrapped(x, y) \in Word
  BY <1>1, OperationsAssumption
<1>3. Sim!Sum(b, p) = CASE op \in {"AND", "TST"} -> And(x, y)
                       [] op = "OR"  -> Or(x, y)
                       [] op = "XOR" -> Xor(x, y)
                       [] op = "RGBSHR" -> Darker(y)
                       [] op = "RGBADD" -> LighterWrapped(x, y)
                       [] op \in Sums -> x + y + c
                       [] OTHER -> IF Sim!MovArg1(b.st5) THEN x ELSE y
  BY SimOperators, Zenon DEF Sim!Sum
<1> DEFINE s == Sim!Sum(b, p)
<1> HIDE DEF x, y, c, op, s
<1>4. s \in Word \/ s = x + y + c
  BY <1>1, <1>2, <1>3 DEF s
<1>5. Word \subseteq 0 .. (2 * WordRange) - 1
  BY Sizes DEF Word
<1>6. x + y + c \in 0 .. (2 * WordRange) - 1
  BY <1>1, Sizes DEF Word
<1>7. s \in 0 .. (2 * WordRange) - 1
  BY <1>4, <1>5, <1>6
<1>8. s \in Int /\ s % WordRange \in Word /\ s \div WordRange \in {0, 1}
  BY <1>7, SumBits
<1>9. Sim!Res(b, p) = s % WordRange
  BY SimOperators DEF Sim!Res, s
<1> QED BY <1>8, <1>9 DEF s

LEMMA ArithCoreTypes ==
  ASSUME NEW b, CoreTypes(b)
  PROVE  /\ CarryAfter(b) \in [PU -> {0, 1}] /\ DataAfter(b) \in [PU -> Word]
         /\ WrittenAfter(b) \in [PU -> BOOLEAN] /\ SimFlagsAfter(b) \in [PU -> Flags]
         /\ StoresAfter(b) \in [0 .. CacheSize - 1 -> Word]
<1>1. \A p \in PU : Sim!Res(b, p) \in Word /\ Sim!Sum(b, p) \div WordRange \in {0, 1}
  BY ArithTypes
<1>2. CarryAfter(b) \in [PU -> {0, 1}] /\ DataAfter(b) \in [PU -> Word]
  BY <1>1 DEF CarryAfter, DataAfter, CoreTypes, SimOperands
<1>3. WrittenAfter(b) \in [PU -> BOOLEAN]
  BY DEF WrittenAfter, Sim!WrReg, Sim!Writes
<1>4. \A p \in PU : Sim!FlagsOf(b, p, Sim!Sum(b, p), Sim!Written(b)) \in Flags
  <2> SUFFICES ASSUME NEW p \in PU PROVE Sim!FlagsOf(b, p, Sim!Sum(b, p), Sim!Written(b)) \in Flags
    OBVIOUS
  <2>1. b.p2type = "port" \/ Sim!IsOut(b.st5) =>
          Sim!FlagsOf(b, p, Sim!Sum(b, p), Sim!Written(b)) \in Flags
    BY DEF Sim!FlagsOf, Flags, Sim!IsOut
  <2>2. ~(b.p2type = "port" \/ Sim!IsOut(b.st5)) =>
          Sim!FlagsOf(b, p, Sim!Sum(b, p), Sim!Written(b)) \in Flags
    BY DEF Sim!FlagsOf, Flags
  <2> QED BY <2>1, <2>2
<1>5. SimFlagsAfter(b) \in [PU -> Flags]
  BY <1>4 DEF SimFlagsAfter, CoreTypes, SimOperands
<1>6. \A x \in 0 .. CacheSize - 1 : Sim!Storing(b, x) # {} =>
        (CHOOSE p \in Sim!Storing(b, x) : TRUE) \in PU
  BY SimOperators DEF Sim!Storing, Sim!Enabled
<1>7. StoresAfter(b) \in [0 .. CacheSize - 1 -> Word]
  BY <1>1, <1>6 DEF StoresAfter, CoreTypes, SimMemories
<1> QED BY <1>2, <1>3, <1>5, <1>7

LEMMA TargetTypes ==
  ASSUME NEW b, CoreTypes(b)
  PROVE  Sim!JumpTarget(b) \in Int
<1>1. b.ip \in Int /\ b.st5.c \in Int /\ b.mem_hi \in Int /\ b.mem_lo \in Int
  BY Sizes DEF CoreTypes, SimCommands, SimOperands, WellFormed, Commands, Word
<1>2. Half \in Int /\ b.mem_lo \div 2 \in Int
  BY <1>1, Sizes
<1> DEFINE m == b.mem_hi * 2^(W - 1)
<1>3. m \in Int
  BY <1>1, <1>2 DEF Half
<1> HIDE DEF m
<1>4. Sim!JumpTarget(b) = IF b.st5.rel THEN b.ip + b.st5.c + (IF b.st5.op = "DJUMP" THEN 1 ELSE 0)
               ELSE m + b.mem_lo \div 2
  BY DEF Sim!JumpTarget, m
<1> QED BY <1>1, <1>2, <1>3, <1>4

LEMMA ShiftedTypes ==
  ASSUME NEW b, CoreTypes(b), NEW p \in PU
  PROVE  Sim!Shifted(b, p) \in Word
<1> DEFINE r == WordRange
           x == b.p1[p]
           y == b.p2[p]
           w == 2 * W
           d == y % w
           h == 2^d
<1>1. /\ r \in Nat \ {0} /\ Word = 0 .. r - 1 /\ x \in Word /\ y \in Word
      /\ W \in Nat \ {0} /\ w \in Nat \ {0} /\ x \in Nat /\ y \in Int
  BY Sizes, InstructionsAssumption DEF Word, CoreTypes, SimOperands
<1>2. d \in Nat
  <2> HIDE DEF w, y
  <2> QED BY <1>1, DivMod
<1> HIDE DEF w
<1>3. Sim!Shifted(b, p) = IF d >= W THEN 0 ELSE IF b.st5.op = "SHL" THEN (x * h) % r ELSE x \div h
  BY SimOperators DEF Sim!Shifted, w
<1> HIDE DEF d
<1>4. d < W => h \in Nat \ {0}
  <2> SUFFICES ASSUME d < W PROVE h \in Nat \ {0}
    OBVIOUS
  <2>1. d \in 0 .. W - 1
    BY <1>1, <1>2
  <2>2. 2^d \in Nat \ {0}
    BY <2>1, PowersAssumption
  <2> QED BY <2>2
<1> HIDE DEF r, x, y, h
<1>5. CASE d >= W
  BY <1>1, <1>3, <1>5
<1>6. CASE d < W
  <2>1. (x * h) % r \in 0 .. r - 1
    <3>1. x * h \in Int
      BY <1>1, <1>4, <1>6
    <3> QED BY <1>1, <3>1, DivMod
  <2>2. x \div h \in 0 .. x
    BY <1>1, <1>4, <1>6, DivBound
  <2> QED BY <1>1, <1>2, <1>3, <1>6, <2>1, <2>2
<1> QED BY <1>1, <1>2, <1>5, <1>6

LEMMA ProductTypes ==
  ASSUME NEW b, CoreTypes(b), NEW p \in PU
  PROVE  Sim!Product(b, p) \in 0 .. WordRange * WordRange - 1
<1> DEFINE r == WordRange * WordRange
           x == b.p1[p]
           y == b.p2[p]
           q == IF b.st5.op = "SMUL" THEN Sim!Short(x) * Sim!Short(y) ELSE x * y
<1>1. r \in Nat \ {0} /\ x \in Int /\ y \in Int /\ WordRange \in Int
  BY Products, Sizes DEF Word, CoreTypes, SimOperands
<1>2. Sim!Short(x) \in Int /\ Sim!Short(y) \in Int
  BY <1>1, SimOperators DEF Sim!Short
<1>3. Sim!Product(b, p) = q % r
  BY SimOperators DEF Sim!Product
<1> HIDE DEF r, x, y
<1>4. q \in Int
  BY <1>1, <1>2
<1> HIDE DEF q
<1> QED BY <1>1, <1>3, <1>4, DivMod DEF r

LEMMA DoneCommands ==
  ASSUME NEW b, NEW d, CoreTypes(b), Stage5Done(b, d)
  PROVE  SimCommands(d)
<1>1. /\ d.ip = b.ip /\ d.drop_mode = b.drop_mode /\ d.st2 = b.st2 /\ d.st3 = b.st3
      /\ d.st4 = b.st4 /\ d.st5 = b.st5 /\ d.p2type = b.p2type /\ d.rd_ok = b.rd_ok
      /\ d.peripheralAddr = b.peripheralAddr /\ d.taken = b.taken /\ d.cond_met = b.cond_met
  BY DEF Stage5Done, Stable
<1>2. d.next_ip \in Int
  BY TargetTypes DEF Stage5Done, JumpDone, CoreTypes, SimCommands
<1> QED BY <1>1, <1>2 DEF CoreTypes, SimCommands

LEMMA DoneOperands ==
  ASSUME NEW b, NEW d, CoreTypes(b), Stage5Done(b, d)
  PROVE  SimOperands(d)
<1>1. /\ d.st3_reg_r = b.st3_reg_r /\ d.st4_reg_r = b.st4_reg_r /\ d.st5_reg_r = b.st5_reg_r
      /\ d.in_mem_lo = b.in_mem_lo /\ d.in_mem_hi = b.in_mem_hi
      /\ d.p1 = b.p1 /\ d.p2 = b.p2
  BY DEF Stage5Done, Stable
<1>2. d.regs \in [PU -> [Reg -> Word]]
  <2> DEFINE v(p, n) == IF p \in Sim!Enabled(b) /\ n = b.st5.a THEN b.p2[0] ELSE b.regs[p][n]
  <2>1. \A p \in PU : \A n \in Reg : v(p, n) \in Word
    BY Sizes DEF CoreTypes, SimOperands
  <2> HIDE DEF v
  <2>2. [p \in PU |-> [n \in Reg |-> v(p, n)]] \in [PU -> [Reg -> Word]]
    BY <2>1
  <2>3. ConstantAfter(b) \in [PU -> [Reg -> Word]]
    BY <2>2 DEF ConstantAfter, v, CoreTypes, SimOperands
  <2> QED BY <2>3 DEF Stage5Done, RegisterDone, CoreTypes, SimOperands
<1>3. /\ d.st5_carry \in [PU -> {0, 1}] /\ d.st6_data \in [PU -> Word]
      /\ d.st6_wr_reg \in [PU -> BOOLEAN] /\ d.flags \in [PU -> Flags] /\ d.st6_reg \in Reg
  <2>1. b.st5.a \in Reg
    BY DEF CoreTypes, SimCommands, WellFormed, Commands
  <2>2. CASE b.st5.op \in Arithmetic
    BY <2>1, <2>2, ArithCoreTypes DEF Stage5Done, ArithDone, CoreTypes, SimOperands
  <2>3. CASE b.st5.op \notin Arithmetic
    BY <2>3 DEF Stage5Done, ArithDone, ArithFields, CoreTypes, SimOperands
  <2> QED BY <2>2, <2>3
<1>4. d.mem_lo \in Word /\ d.mem_hi \in Word
  <2>1. b.ip + 1 \in Int /\ 2 * (b.ip + 1) \in Int
    BY DEF CoreTypes, SimCommands
  <2>2. Low(2 * (b.ip + 1)) \in Word /\ High(2 * (b.ip + 1)) \in Word
    BY <2>1, Halves
  <2>3. ForMemAddr(b) \in Word
    <3>1. b.p2[0] \in Word /\ 0 \in PU
      BY Sizes DEF CoreTypes, SimOperands
    <3>2. Sim!Res(b, 0) \in Word
      BY <3>1, ArithTypes
    <3> QED BY <3>1, <3>2 DEF ForMemAddr
  <2> QED BY <2>2, <2>3 DEF Stage5Done, AddressDone, CoreTypes, SimOperands
<1> QED BY <1>1, <1>2, <1>3, <1>4 DEF SimOperands, CoreTypes

LEMMA DonePipes ==
  ASSUME NEW b, NEW d, CoreTypes(b), Stage5Done(b, d)
  PROVE  SimPipes(d)
<1>1. d.st7_mul = b.st7_mul /\ d.st7_result = b.st7_result /\ d.result = b.result
  BY DEF Stage5Done, Stable
<1>2. d.st6_shift \in [PU -> BOOLEAN] /\ d.st6_shift_result \in [PU -> Word]
  <2>1. CASE b.st5.op \in {"SHL", "SHR"}
    <3>1. /\ d.st6_shift = [p \in PU |-> p \in Sim!Enabled(b) \/ b.st6_shift[p]]
          /\ d.st6_shift_result = [p \in PU |-> IF p \in Sim!Enabled(b) THEN Sim!Shifted(b, p)
                                                           ELSE b.st6_shift_result[p]]
      BY <2>1 DEF Stage5Done, ShiftDone
    <3>2. \A p \in PU : Sim!Shifted(b, p) \in Word
      BY ShiftedTypes
    <3>3. b.st6_shift_result \in [PU -> Word]
      BY DEF CoreTypes, SimPipes
    <3> QED BY <3>1, <3>2, <3>3
  <2>2. CASE b.st5.op \notin {"SHL", "SHR"}
    BY <2>2 DEF Stage5Done, ShiftDone, ShiftFields, CoreTypes, SimPipes
  <2> QED BY <2>1, <2>2
<1>3. /\ d.st6_mul \in [PU -> BOOLEAN] /\ d.st6_wmul \in [PU -> BOOLEAN]
      /\ d.p1_st6 \in [PU -> Word] /\ d.st6_result \in [PU -> ResultWords]
  <2>1. CASE b.st5.op \in Multiplications
    <3> DEFINE q(p) == [lo |-> Low(Sim!Product(b, p)), hi |-> High(Sim!Product(b, p))]
    <3>1. \A p \in PU : q(p) \in ResultWords
      BY ProductTypes, Products DEF ResultWords
    <3> HIDE DEF q
    <3>2. \A p \in PU : b.st6_result[p] \in ResultWords
      BY DEF CoreTypes, SimPipes
    <3>3. [p \in PU |-> IF p \in Sim!Enabled(b) THEN q(p) ELSE b.st6_result[p]] \in [PU -> ResultWords]
      BY <3>1, <3>2
    <3>4. d.st6_result \in [PU -> ResultWords]
      BY <2>1, <3>3 DEF Stage5Done, ProductDone, q
    <3> HIDE DEF q
    <3>5. d.st6_mul \in [PU -> BOOLEAN] /\ d.st6_wmul \in [PU -> BOOLEAN]
      BY <2>1 DEF Stage5Done, ProductDone
    <3>6. d.p1_st6 \in [PU -> Word]
      <4>1. d.p1_st6 = [p \in PU |-> IF p \in Sim!Enabled(b) THEN b.p1[p] ELSE b.p1_st6[p]]
        BY <2>1 DEF Stage5Done, ProductDone
      <4>2. b.p1 \in [PU -> Word] /\ b.p1_st6 \in [PU -> Word]
        BY DEF CoreTypes, SimPipes, SimOperands
      <4> QED BY <4>1, <4>2
    <3> QED BY <3>4, <3>5, <3>6
  <2>2. CASE b.st5.op \notin Multiplications
    BY <2>2 DEF Stage5Done, ProductDone, ProductFields, CoreTypes, SimPipes
  <2> QED BY <2>1, <2>2
<1> QED BY <1>1, <1>2, <1>3 DEF SimPipes, CoreTypes

LEMMA DoneMemories ==
  ASSUME NEW b, NEW d, CoreTypes(b), Stage5Done(b, d)
  PROVE  SimMemories(d)
<1>1. /\ d.memory = b.memory /\ d.st3_from_cache = b.st3_from_cache
      /\ d.st4_from_cache = b.st4_from_cache
  BY DEF Stage5Done, Stable
<1>2. d.cache \in [0 .. CacheSize - 1 -> Word]
  <2>1. [b.cache EXCEPT ![(b.st5_reg_r + b.st5.off) % CacheSize] = b.p2[0]] \in [0 .. CacheSize - 1 -> Word]
    BY Sizes DEF CoreTypes, SimMemories, SimOperands
  <2> QED BY <2>1, ArithCoreTypes DEF Stage5Done, CacheDone, CoreTypes, SimMemories
<1>3. /\ d.ram_addr \in 0 .. MemorySize - 1 /\ d.ram_cache_addr \in 0 .. CacheSize - 1
      /\ d.ram_count \in Nat /\ d.ram_write \in BOOLEAN
  <2>1. CASE b.st5.op = "RW" /\ b.cond_met[0]
    <3>1. b.p2[0] \in Nat /\ b.st5.set \in BOOLEAN /\ b.p1[0] \in Int
      BY Sizes DEF CoreTypes, SimOperands, SimCommands, WellFormed, Commands, Word
    <3> DEFINE m == MemorySize
               a == b.mem_hi * WordRange + b.mem_lo
    <3>2. m \in Nat \ {0}
      BY CoSimulationAssumption
    <3>3. a \in Int
      <4>1. b.mem_hi \in Int /\ b.mem_lo \in Int /\ WordRange \in Int
        BY Sizes DEF CoreTypes, SimOperands, Word
      <4> QED BY <4>1
    <3> HIDE DEF m, a
    <3>4. a % m \in 0 .. m - 1
      BY <3>2, <3>3, DivMod
    <3> QED BY <2>1, <3>1, <3>4, Halves DEF Stage5Done, TransferDone, m, a
  <2>2. CASE ~(b.st5.op = "RW" /\ b.cond_met[0])
    BY <2>2 DEF Stage5Done, TransferDone, TransferFields, CoreTypes, SimMemories
  <2> QED BY <2>1, <2>2
<1> QED BY <1>1, <1>2, <1>3 DEF SimMemories, CoreTypes

LEMMA DoneTypes ==
  ASSUME CoreTypes(sim)
  PROVE  CoreTypes(Begun) /\ Stage5Done(Begun, Done) /\ CoreTypes(Done)
<1>1. CoreTypes(Begun) /\ Stage5Done(Begun, Done)
  BY BegunTypes, DoneIs DEF CoreTypes
<1>2. SimCommands(Done) /\ SimOperands(Done) /\ SimPipes(Done) /\ SimMemories(Done)
  BY <1>1, DoneCommands, DoneOperands, DonePipes, DoneMemories
<1> QED BY <1>1, <1>2 DEF CoreTypes, Stage5Done

-----------------------------------------------------------------------------
(* The simulator's decoder and the processor's. *)
LEMMA SimDecoded ==
  ASSUME NEW cmd, WellFormed(cmd)
  PROVE  /\ Sim!DField(cmd) = D(cmd) /\ (Sim!MovArg1(cmd) <=> MovArg1(cmd))
         /\ Sim!P2Type(cmd) = P2Type(cmd)
         /\ SimB(cmd) = B(cmd) /\ (SimBSreg(cmd) <=> BSreg(cmd))
         /\ (Sim!Inv1(cmd) <=> Inv1(cmd)) /\ (Sim!Inv2(cmd) <=> Inv2(cmd))
         /\ Sim!WrCache(cmd) <=> WrCache(cmd) /\ cmd.op # "CCMOV"
         /\ Sim!WrReg(cmd) <=> WrReg(cmd) /\ cmd.op # "CMOV"
         /\ Sim!WrSreg(cmd) <=> WrSreg(cmd) /\ cmd.op # "CMOV"
<1>1. /\ Sim!IsIn(cmd) <=> IsIn(cmd)
      /\ Sim!HasOperand = HasOperand /\ Sim!Arithmetic = Arithmetic /\ Sim!Tests = Tests
  BY SimOperators
<1>2. cmd.mode \in {"store", "load", "const", "reg"} /\ cmd.t \in BOOLEAN /\ cmd.f \in BOOLEAN
      /\ cmd.spec \in {"reg", "sreg", "in", "out"} /\ cmd.bs \in BOOLEAN /\ cmd.inv \in BOOLEAN
  BY DEF WellFormed, Commands
<1>3. Sim!DField(cmd) = D(cmd) /\ (Sim!MovArg1(cmd) <=> MovArg1(cmd))
  BY DEF Sim!DField, D, Sim!MovArg1, MovArg1, Mov
<1>4. Sim!P2Type(cmd) = P2Type(cmd)
  <2>1. CASE IsIn(cmd) \/ cmd.op \notin HasOperand
    BY <1>1, <2>1 DEF Sim!P2Type, P2Type
  <2>2. CASE ~(IsIn(cmd) \/ cmd.op \notin HasOperand)
    <3>1. CASE cmd.mode = "store"
      BY <1>1, <2>2, <3>1 DEF Sim!P2Type, P2Type, Mov
    <3>2. CASE cmd.mode = "load"
      BY <1>1, <2>2, <3>2 DEF Sim!P2Type, P2Type, Mov
    <3>3. CASE cmd.mode = "const"
      BY <1>1, <2>2, <3>3 DEF Sim!P2Type, P2Type, Mov
    <3>4. CASE cmd.mode = "reg"
      BY <1>1, <2>2, <3>4 DEF Sim!P2Type, P2Type, Mov
    <3> QED BY <1>2, <3>1, <3>2, <3>3, <3>4
  <2> QED BY <2>1, <2>2
<1>5. SimB(cmd) = B(cmd) /\ (SimBSreg(cmd) <=> BSreg(cmd))
  BY <1>3, <1>4 DEF SimB, B, SimBSreg, BSreg
<1>6. Sim!Inv2(cmd) <=> Inv2(cmd)
  BY <1>1 DEF Sim!Inv2, Inv2
<1>7. Sim!Inv1(cmd) <=> Inv1(cmd)
  BY <1>3, <1>6 DEF Sim!Inv1, Inv1
<1>8. "CMOV" \notin Arithmetic /\ "CCMOV" \notin Arithmetic
  BY DEF Arithmetic, Sums
<1>9. Sim!WrCache(cmd) <=> WrCache(cmd) /\ cmd.op # "CCMOV"
  BY <1>1, <1>8 DEF Sim!WrCache, WrCache
<1>10. Sim!Writes(cmd) <=> Writes(cmd)
  BY <1>1 DEF Sim!Writes, Writes, Sim!WrCache
<1>11. Sim!WrReg(cmd) <=> WrReg(cmd) /\ cmd.op # "CMOV"
  BY <1>1, <1>8, <1>10 DEF Sim!WrReg, WrReg, Mov, Writes
<1>12. Sim!WrSreg(cmd) <=> WrSreg(cmd) /\ cmd.op # "CMOV"
  BY <1>1, <1>2, <1>8, <1>10, <1>11 DEF Sim!WrSreg, Sim!WrReg, WrSreg, Mov, Writes
<1> QED BY <1>3, <1>4, <1>5, <1>6, <1>7, <1>9, <1>11, <1>12

\* The number of a port where it is used.
LEMMA PortAfterIs ==
  ASSUME NEW s, WellFormed(s.st4), OnPort(s.st4)
  PROVE  PortAfter(s) = PortOf(s.st4) /\ PortOf(s.st4) \in Ports
BY DEF PortAfter, PortOf, OnPort, WellFormed, IsIn, IsOut

LEMMA SimSpecialTypes ==
  ASSUME NEW s, CoreTypes(s), NEW p \in PU, NEW n \in Specials
  PROVE  Sim!sreg_in(s, n, p) \in Word
<1>1. Sim!FlagsWord(s.flags[p], p) \in Word
  <2> DEFINE fl == s.flags[p]
             x == p + (IF fl.N THEN 16 ELSE 0) + (IF fl.Z THEN 32 ELSE 0)
                    + (IF fl.V THEN 64 ELSE 0) + (IF fl.C THEN 128 ELSE 0)
  <2>1. x \in Int
    BY Sizes DEF PU
  <2>2. Sim!FlagsWord(fl, p) = x % WordRange
    BY SimOperators DEF FlagsWord
  <2> HIDE DEF x
  <2> QED BY <2>1, <2>2, SumOfWords
<1>2. s.in_mem_lo \in Word /\ s.in_mem_hi \in Word
  BY DEF CoreTypes, SimOperands
<1>3. s.result[p].lo \in Word /\ s.result[p].hi \in Word
  <2>1. s.result[p] \in ResultWords
    BY DEF CoreTypes, SimPipes
  <2> QED BY <2>1 DEF ResultWords
<1>4. /\ FLAGS = 0 /\ MEM_LO = 1 /\ MEM_HI = 2 /\ RESULT_LO = 5 /\ RESULT_HI = 6
      /\ Specials = {0, 1, 2, 5, 6}
  BY DEF Specials, FLAGS, MEM_LO, MEM_HI, RESULT_LO, RESULT_HI
<1>5. /\ Sim!FLAGS = 0 /\ Sim!MEM_LO = 1 /\ Sim!MEM_HI = 2 /\ Sim!RESULT_LO = 5
      /\ Sim!RESULT_HI = 6
  BY <1>4, SimOperators
<1> QED BY <1>1, <1>2, <1>3, <1>4, <1>5 DEF Sim!sreg_in

\* The kinds of second operand.
LEMMA Kinds ==
  ASSUME NEW cmd, WellFormed(cmd)
  PROVE  P2Type(cmd) \in {"port", "register", "special", "const", "cache"}
<1>1. cmd.mode \in {"store", "load", "const", "reg"}
  BY DEF WellFormed, Commands
<1>2. CASE IsIn(cmd) \/ cmd.op \notin HasOperand
  BY <1>2 DEF P2Type
<1>3. CASE ~(IsIn(cmd) \/ cmd.op \notin HasOperand)
  <2>1. CASE cmd.mode = "store"
    BY <1>3, <2>1 DEF P2Type
  <2>2. CASE cmd.mode = "load"
    BY <1>3, <2>2 DEF P2Type
  <2>3. CASE cmd.mode = "const"
    BY <1>3, <2>3 DEF P2Type
  <2>4. CASE cmd.mode = "reg"
    BY <1>3, <2>4 DEF P2Type
  <2> QED BY <1>1, <2>1, <2>2, <2>3, <2>4
<1> QED BY <1>2, <1>3

\* The operands, addresses and cache words the stages fetch.
LEMMA FetchedTypes ==
  ASSUME NEW s, CoreTypes(s)
  PROVE  /\ SimFirst(s) \in [PU -> Word] /\ SimSecond(s) \in [PU -> Word]
         /\ AddressAfter(s) \in Word /\ LoadedAfter(s) \in [PU -> Word]
<1>1. /\ WellFormed(s.st4) /\ WellFormed(s.st2)
      /\ s.regs \in [PU -> [Reg -> Word]] /\ s.st6_data \in [PU -> Word]
      /\ s.p2 \in [PU -> Word] /\ s.st4_from_cache \in [PU -> Word]
      /\ s.cache \in [0 .. CacheSize - 1 -> Word]
  BY DEF CoreTypes, SimCommands, SimOperands, SimMemories
<1>2. /\ s.st4 \in Commands /\ s.st4.a \in Reg /\ s.st4.b \in Reg /\ s.st4.r \in Reg
      /\ s.st4.c \in Int /\ s.st2.r \in Reg /\ s.st2.off \in Int
  BY <1>1 DEF WellFormed, Commands
<1>3. D(s.st4) \in Reg /\ B(s.st4) \in Reg
  BY <1>2 DEF D, B
<1>4. BSreg(s.st4) => B(s.st4) \in Specials
  BY <1>1 DEF WellFormed
<1>5. P2Type(s.st4) = "special" => D(s.st4) \in Specials
  BY <1>1 DEF WellFormed
<1>6. /\ SimB(s.st4) = B(s.st4) /\ (SimBSreg(s.st4) <=> BSreg(s.st4))
      /\ Sim!P2Type(s.st4) = P2Type(s.st4) /\ Sim!DField(s.st4) = D(s.st4)
  BY <1>1, SimDecoded
<1>7. SimFirst(s) \in [PU -> Word]
  <2>1. \A p \in PU : BSreg(s.st4) => Sim!sreg_in(s, B(s.st4), p) \in Word
    BY <1>4, SimSpecialTypes
  <2> DEFINE v(p) == IF SimBSreg(s.st4) THEN Sim!sreg_in(s, SimB(s.st4), p)
                             ELSE IF s.st6_wr_reg[p] /\ s.st6_reg = SimB(s.st4) THEN s.st6_data[p]
                             ELSE s.regs[p][SimB(s.st4)]
  <2>2. \A p \in PU : v(p) \in Word
    BY <1>1, <1>3, <1>6, <2>1
  <2> HIDE DEF v
  <2>3. [p \in PU |-> v(p)] \in [PU -> Word]
    BY <2>2
  <2> QED BY <2>3 DEF SimFirst, v
<1>8. SimSecond(s) \in [PU -> Word]
  <2>1. \A p \in PU : P2Type(s.st4) = "special" => Sim!sreg_in(s, D(s.st4), p) \in Word
    BY <1>5, SimSpecialTypes
  <2>2. \A d, k : PortByte(d, k) = (16 * d + k) % WordRange
    BY DEF PortByte
  <2>3. P2Type(s.st4) = "port" => PortByte(PortAfter(s), s.taken[PortAfter(s)]) \in Word
    <3> SUFFICES ASSUME P2Type(s.st4) = "port"
                 PROVE  PortByte(PortAfter(s), s.taken[PortAfter(s)]) \in Word
      OBVIOUS
    <3>1. IsIn(s.st4)
      BY <1>1 DEF P2Type, WellFormed, Commands
    <3>2. PortAfter(s) \in Ports
      BY <1>1, <3>1, PortAfterIs DEF OnPort
    <3> DEFINE d == PortAfter(s)
               k == s.taken[d]
               y == (16 * d) + k
    <3>3. d \in Int /\ k \in Int
      <4>1. s.taken \in [Ports -> Nat] /\ Ports \subseteq Nat
        BY InstructionsAssumption DEF CoreTypes, SimCommands
      <4>2. \A e \in Ports : e \in Int /\ s.taken[e] \in Int
        BY <4>1
      <4> QED BY <3>2, <4>2, Zenon
    <3>4. PortByte(d, k) = y % WordRange
      BY DEF PortByte
    <3> HIDE DEF d, k
    <3>5. y \in Int
      BY <3>3
    <3> HIDE DEF y
    <3> QED BY <3>4, <3>5, SumOfWords DEF d, k
  <2>4. s.st4.c % WordRange \in Word
    BY <1>2, SumOfWords
  <2>5. P2Type(s.st4) \in {"port", "register", "special", "const", "cache"}
    BY <1>1, Kinds
  <2> DEFINE v(p) == SimSecondOf(s, p)
  <2>6. ASSUME NEW p \in PU PROVE v(p) \in Word
    <3>1. v(p) = CASE P2Type(s.st4) = "port" ->
                        IF p = 0 THEN PortByte(PortAfter(s), s.taken[PortAfter(s)]) ELSE s.p2[p]
                   [] P2Type(s.st4) = "register" -> s.regs[p][D(s.st4)]
                   [] P2Type(s.st4) = "special" -> Sim!sreg_in(s, D(s.st4), p)
                   [] P2Type(s.st4) = "const" -> s.st4.c % WordRange
                   [] P2Type(s.st4) = "cache" -> s.st4_from_cache[p]
      BY <1>6, Zenon DEF SimSecondOf
    <3> HIDE DEF v
    <3>2. CASE P2Type(s.st4) = "port"
      BY <3>1, <3>2, <2>3, <1>1
    <3>3. CASE P2Type(s.st4) = "register"
      BY <3>1, <3>3, <1>1, <1>3
    <3>4. CASE P2Type(s.st4) = "special"
      BY <3>1, <3>4, <2>1
    <3>5. CASE P2Type(s.st4) = "const"
      BY <3>1, <3>5, <2>4
    <3>6. CASE P2Type(s.st4) = "cache"
      BY <3>1, <3>6, <1>1
    <3> QED BY <2>5, <3>2, <3>3, <3>4, <3>5, <3>6
  <2>7. SimSecond(s) = [p \in PU |-> v(p)]
    BY DEF SimSecond
  <2> HIDE DEF v
  <2> QED BY <2>6, <2>7
<1>9. AddressAfter(s) \in Word
  BY <1>1, <1>2, Sizes DEF AddressAfter
<1>10. LoadedAfter(s) \in [PU -> Word]
  <2>1. AddressAfter(s) + s.st2.off \in Int
    BY <1>2, <1>9, Sizes DEF Word
  <2> DEFINE a == AddressAfter(s) + s.st2.off
             v(p) == s.cache[Sim!CellOf(a, IF s.st2.all THEN p ELSE 0)]
  <2>2. \A p \in PU : v(p) \in Word
    <3> SUFFICES ASSUME NEW p \in PU PROVE v(p) \in Word
      OBVIOUS
    <3>1. (IF s.st2.all THEN p ELSE 0) \in PU
      BY Sizes
    <3> HIDE DEF a
    <3>2. Sim!CellOf(a, IF s.st2.all THEN p ELSE 0) \in 0 .. CacheSize - 1
      BY <2>1, <3>1, SimCellIs DEF a
    <3> QED BY <1>1, <3>2
  <2> HIDE DEF v
  <2>3. [p \in PU |-> v(p)] \in [PU -> Word]
    BY <2>2
  <2> QED BY <2>3 DEF LoadedAfter, v, a
<1> QED BY <1>7, <1>8, <1>9, <1>10

LEMMA AfterTypes ==
  ASSUME NEW s, CoreTypes(s), NEW cmd, WellFormed(cmd)
  PROVE  CoreTypes(Afterwards(s, cmd))
<1> DEFINE t == Afterwards(s, cmd)
<1>0. DOMAIN s = SimFields
  BY DEF CoreTypes
<1>1. Passed(s, t, cmd) /\ Same(s, t, PassedFields)
  BY <1>0, AfterwardsIs
<1> HIDE DEF t
<1>2. /\ t.next_ip = s.next_ip /\ t.cond_met = s.cond_met /\ t.regs = s.regs /\ t.flags = s.flags
      /\ t.st5_carry = s.st5_carry /\ t.mem_lo = s.mem_lo /\ t.mem_hi = s.mem_hi
      /\ t.in_mem_lo = s.in_mem_lo /\ t.in_mem_hi = s.in_mem_hi /\ t.st6_reg = s.st6_reg
      /\ t.st6_wr_reg = s.st6_wr_reg /\ t.st6_data = s.st6_data
  BY <1>1 DEF Same, SimFields, PassedFields
<1>3. /\ t.st6_shift = s.st6_shift /\ t.st6_shift_result = s.st6_shift_result
      /\ t.st6_mul = s.st6_mul /\ t.st6_wmul = s.st6_wmul /\ t.st7_mul = s.st7_mul
      /\ t.p1_st6 = s.p1_st6 /\ t.st6_result = s.st6_result /\ t.st7_result = s.st7_result
      /\ t.result = s.result
  BY <1>1 DEF Same, SimFields, PassedFields
<1>4. /\ t.cache = s.cache /\ t.memory = s.memory /\ t.ram_addr = s.ram_addr
      /\ t.ram_cache_addr = s.ram_cache_addr /\ t.ram_count = s.ram_count
      /\ t.ram_write = s.ram_write
  BY <1>1 DEF Same, SimFields, PassedFields
<1>5. /\ t.st5 = s.st4 /\ t.st4 = s.st3 /\ t.st3 = s.st2 /\ t.p2type = Sim!P2Type(s.st4)
      /\ t.st2 = (IF s.drop_mode > 0 THEN NOP ELSE cmd)
      /\ t.ip = (IF DropAfter(s, cmd) = 0 THEN s.next_ip % IpRange ELSE s.ip)
      /\ t.drop_mode = DropAfter(s, cmd) /\ t.peripheralAddr = PortAfter(s)
      /\ t.taken = TakenAfter(s) /\ t.rd_ok = (IF IsIn(s.st4) THEN TRUE ELSE s.rd_ok)
      /\ DOMAIN t = SimFields
  BY <1>1 DEF Passed
<1>6. SimCommands(t)
  <2>1. t.ip \in 0 .. IpRange - 1
    <3> DEFINE r == IpRange
    <3>1. r \in Nat \ {0} /\ s.next_ip \in Int
      BY Sizes DEF CoreTypes, SimCommands
    <3> HIDE DEF r
    <3>2. s.next_ip % r \in 0 .. r - 1
      BY <3>1, DivMod
    <3> QED BY <1>5, <3>2 DEF r, CoreTypes, SimCommands
  <2>2. t.drop_mode \in 0 .. 4
    BY <1>5 DEF DropAfter, CoreTypes, SimCommands
  <2>3. t.taken \in [Ports -> Nat]
    <3>1. s.taken \in [Ports -> Nat] /\ WellFormed(s.st4)
      BY DEF CoreTypes, SimCommands
    <3>2. IsIn(s.st4) => PortAfter(s) \in Ports
      BY <3>1, PortAfterIs DEF OnPort
    <3> QED BY <1>5, <3>1, <3>2 DEF TakenAfter
  <2>4. OnPort(t.st5) => t.peripheralAddr = PortOf(t.st5)
    BY <1>5, PortAfterIs DEF CoreTypes, SimCommands
  <2>5. IsIn(t.st5) => t.rd_ok
    BY <1>5
  <2>6. WellFormed(t.st2) /\ WellFormed(t.st3) /\ WellFormed(t.st4) /\ WellFormed(t.st5)
    BY <1>5, NopDecoded DEF CoreTypes, SimCommands
  <2> QED BY <1>2, <1>5, <2>1, <2>2, <2>3, <2>4, <2>5, <2>6 DEF CoreTypes, SimCommands
<1>7. SimOperands(t)
  <2>1. /\ t.p1 \in [PU -> Word] /\ t.p2 \in [PU -> Word]
        /\ t.st3_reg_r \in Word /\ t.st4_reg_r \in Word /\ t.st5_reg_r \in Word
    BY <1>1, FetchedTypes DEF Passed, CoreTypes, SimOperands
  <2> QED BY <1>2, <2>1 DEF CoreTypes, SimOperands
<1>8. SimPipes(t)
  BY <1>3 DEF CoreTypes, SimPipes
<1>9. SimMemories(t)
  <2>1. t.st3_from_cache \in [PU -> Word] /\ t.st4_from_cache \in [PU -> Word]
    BY <1>1, FetchedTypes DEF Passed, CoreTypes, SimMemories
  <2> QED BY <1>4, <2>1 DEF CoreTypes, SimMemories
<1> QED BY <1>5, <1>6, <1>7, <1>8, <1>9 DEF CoreTypes, t

\* One clock of the simulator.
LEMMA SimTypesStep ==
  ASSUME CoreTypes(sim), NEW cmd, WellFormed(cmd), sim' = Sim!handleNext(sim, cmd)
  PROVE  /\ CoreTypes(sim') /\ CoreTypes(Begun) /\ CoreTypes(Done) /\ Stage5Done(Begun, Done)
         /\ Passed(Done, sim', cmd) /\ Same(Done, sim', PassedFields)
<1>1. DOMAIN sim = SimFields
  BY DEF CoreTypes
<1>2. sim' = Afterwards(Done, cmd)
  BY <1>1, HandleNextIs DEF Afterwards
<1>3. CoreTypes(Begun) /\ CoreTypes(Done) /\ Stage5Done(Begun, Done)
  BY DoneTypes
<1>4. DOMAIN Done = SimFields
  BY <1>3 DEF CoreTypes
<1> QED BY <1>2, <1>3, <1>4, AfterTypes, AfterwardsIs

-----------------------------------------------------------------------------
(* The commands in the stages. *)
Given(cmd) == Clock(cmd) /\ Fetched(cmd) /\ (cmd = NOP \/ ~block.start)

LEMMA FetchedCommand ==
  ASSUME NEW cmd, Fetched(cmd)
  PROVE  /\ WellFormed(cmd)
         /\ cmd # NOP => ST2.op # "RW" /\ ST3.op # "RW" /\ ST4.op # "RW" /\ ST5.op # "RW"
<1>1. WellFormed(cmd)
  BY NopDecoded DEF Fetched
<1>2. CASE Spaced(<<ST2, ST3, ST4, ST5>>, cmd)
  <2> DEFINE s == <<ST2, ST3, ST4, ST5>>
  <2>1. s[1] = ST2 /\ s[2] = ST3 /\ s[3] = ST4 /\ s[4] = ST5
    OBVIOUS
  <2>2. \A i \in 1 .. 4 : s[i].op # "RW"
    BY <1>2, Zenon DEF Spaced
  <2> HIDE DEF s
  <2> QED BY <1>1, <2>1, <2>2
<1> QED BY <1>1, <1>2 DEF Fetched

\* What a clock makes of the simulator's stages.
LEMMA SimCommandsMove ==
  ASSUME CoreTypes(sim), NEW cmd, Given(cmd)
  PROVE  /\ CoreTypes(sim')
         /\ sim'.st2 = IF sim.drop_mode > 0 THEN NOP ELSE cmd
         /\ sim'.st3 = sim.st2 /\ sim'.st4 = sim.st3 /\ sim'.st5 = sim.st4
         /\ sim'.drop_mode = DropAfter(sim, cmd)
<1>1. WellFormed(cmd) /\ sim' = Sim!handleNext(sim, cmd)
  BY FetchedCommand DEF Given, Clock
<1>2. /\ CoreTypes(sim') /\ CoreTypes(Begun) /\ Stage5Done(Begun, Done)
      /\ Passed(Done, sim', cmd)
  BY <1>1, SimTypesStep
<1>3. /\ Done.st2 = Begun.st2 /\ Done.st3 = Begun.st3 /\ Done.st4 = Begun.st4
      /\ Done.drop_mode = Begun.drop_mode
  BY <1>2 DEF Stage5Done, Stable
<1>4. /\ Begun.st2 = sim.st2 /\ Begun.st3 = sim.st3 /\ Begun.st4 = sim.st4
      /\ Begun.drop_mode = sim.drop_mode
  BY BegunIs DEF CoreTypes, Kept
<1>5. DropAfter(Done, cmd) = DropAfter(sim, cmd)
  BY <1>3, <1>4 DEF DropAfter
<1> QED BY <1>2, <1>3, <1>4, <1>5 DEF Passed

LEMMA SimStagesStep ==
  ASSUME Inv, CoreTypes(sim), SimStages, NEW cmd, Given(cmd)
  PROVE  SimStages'
<1>1. Fetched(cmd) /\ Fetch(cmd) /\ Advance
  BY DEF Given, Clock, ProcessorClock
<1>2. /\ sim'.st2 = IF sim.drop_mode > 0 THEN NOP ELSE cmd
      /\ sim'.st3 = sim.st2 /\ sim'.st4 = sim.st3 /\ sim'.st5 = sim.st4
      /\ sim'.drop_mode = DropAfter(sim, cmd)
  BY SimCommandsMove
<1>3. sim'.st2 = ST2' /\ sim'.st3 = ST3' /\ sim'.st4 = ST4' /\ sim'.st5 = ST5'
  BY <1>1, <1>2 DEF SimStages, Fetch, Advance
<1>4. sim.drop_mode \in 0 .. 4 /\ drop_line \in BOOLEAN
  BY DEF CoreTypes, SimCommands, Inv, PipelineTypes
<1>5. /\ Stage(1) = ST2 /\ Stage(2) = ST3 /\ Stage(3) = ST4 /\ Stage(4) = ST5
      /\ Stage(1)' = ST2' /\ \A i \in 2 .. 4 : Stage(i)' = Stage(i - 1)
  BY <1>1, StageMoves DEF Stage
<1>10. PICK d \in 0 .. 4 : d = sim.drop_mode
  BY <1>4
<1>6. "DJUMP" \in Jumps
  BY DEF Jumps
<1>7. CASE ST5.op \in Jumps
  <2>1. ~drop_line'
    BY <1>1, <1>7 DEF Fetch
  <2>2. drop_line => d = 1
    <3>1. ST2.op \notin Jumps /\ ST3.op \notin Jumps /\ ST4.op \notin Jumps
      BY <1>7 DEF Inv, StagesApart, Apart1, Apart2
    <3>2. drop_line => d \in 1 .. 4 /\ Stage(5 - d).op \in Jumps
      BY <1>4, <1>6, <1>10 DEF SimStages
    <3>3. \A i \in 1 .. 3 : Stage(i).op \notin Jumps
      BY <1>5, <3>1
    <3> QED BY <3>2, <3>3
  <2>3. cmd.op \notin Jumps
    BY <1>1, <1>7, SpacedTells
  <2>4. sim'.drop_mode = 0
    BY <1>2, <1>4, <1>6, <1>10, <2>2, <2>3 DEF SimStages, DropAfter
  <2> QED BY <1>3, <2>1, <2>4 DEF SimStages
<1>8. CASE ST5.op \notin Jumps /\ drop_line
  <2>1. drop_line'
    BY <1>1, <1>8 DEF Fetch
  <2>2. d \in 1 .. 4 /\ Stage(5 - d).op = "DJUMP"
    BY <1>4, <1>8, <1>10 DEF SimStages
  <2>3. d # 1
    BY <1>5, <1>6, <1>8, <2>2
  <2>4. sim'.drop_mode = d - 1
    BY <1>2, <1>10, <2>2 DEF DropAfter
  <2>5. Stage(6 - d)' = Stage(5 - d)
    <3>1. 6 - d \in 2 .. 4 /\ (6 - d) - 1 = 5 - d
      BY <2>2, <2>3
    <3> QED BY <1>5, <3>1
  <2>6. 5 - sim'.drop_mode = 6 - d /\ sim'.drop_mode > 0
    BY <2>2, <2>3, <2>4
  <2>7. Stage(6 - d)'.op = "DJUMP"
    BY <2>2, <2>5
  <2>8. Stage(5 - sim.drop_mode)' = Stage(6 - d)'
    BY <2>6
  <2> QED BY <1>3, <2>1, <2>6, <2>7, <2>8 DEF SimStages
<1>9. CASE ST5.op \notin Jumps /\ ~drop_line
  <2>1. d = 0 /\ sim'.drop_mode = IF cmd.op = "DJUMP" THEN 4 ELSE 0
    BY <1>2, <1>4, <1>9, <1>10 DEF SimStages, DropAfter
  <2>2. drop_line' <=> cmd.op = "DJUMP"
    BY <1>1, <1>9 DEF Fetch
  <2>3. ST2' = cmd
    BY <1>1, <1>9 DEF Fetch
  <2>4. cmd.op = "DJUMP" => 5 - sim'.drop_mode = 1
    BY <2>1
  <2>5. cmd.op = "DJUMP" => Stage(5 - sim.drop_mode)' = Stage(1)'
    BY <2>4
  <2> QED BY <1>3, <1>5, <2>1, <2>2, <2>3, <2>5 DEF SimStages
<1> QED BY <1>4, <1>7, <1>8, <1>9

-----------------------------------------------------------------------------
(* Nothing is behind a transfer. *)
LEMMA SimDrainsStep ==
  ASSUME Inv, CoreTypes(sim), SimStages, SimDrains, NEW cmd, Given(cmd)
  PROVE  SimDrains'
<1>1. /\ sim'.st2 = IF sim.drop_mode > 0 THEN NOP ELSE cmd
      /\ sim'.st3 = sim.st2 /\ sim'.st4 = sim.st3 /\ sim'.st5 = sim.st4
  BY SimCommandsMove
<1>2. sim'.st2 # NOP => /\ sim.st2.op # "RW" /\ sim.st3.op # "RW" /\ sim.st4.op # "RW"
                        /\ sim.st5.op # "RW" /\ ~block.start
  BY <1>1, FetchedCommand DEF Given, SimStages
<1>3. NOP.op # "RW"
  BY NopDecoded
<1> DEFINE starts == sim.st5.op = "RW" /\ Sim!check_cond(sim.flags[0], sim.st5.cond)
<1>4. block' = IF starts
                THEN [start |-> TRUE, memory |-> sim.memory, cache |-> sim.cache,
                      write |-> ST5.set, count |-> sim'.ram_count,
                      word |-> sim'.ram_addr, cell |-> sim'.ram_cache_addr]
                ELSE block
  BY DEF Given, Clock
<1>5. block'.start => block.start \/ sim.st5.op = "RW"
  BY <1>4
<1>6. sim'.ram_count > 0 => sim.ram_count > 0 \/ starts
  <2>1. /\ CoreTypes(Begun) /\ Stage5Done(Begun, Done)
        /\ Passed(Done, sim', cmd) /\ Same(Done, sim', PassedFields)
    BY FetchedCommand, SimTypesStep DEF Given, Clock
  <2>2. sim'.ram_count = Done.ram_count
    BY <2>1 DEF Same, PassedFields, SimFields
  <2>3. Begun.st5 = sim.st5 /\ Begun.cond_met[0] <=> Sim!check_cond(sim.flags[0], sim.st5.cond)
    <3>1. Begun.st5 = sim.st5 /\ Begun.cond_met = MetAfter(sim)
      BY BegunIs DEF CoreTypes, Kept
    <3> QED BY <3>1, Sizes DEF MetAfter
  <2>4. ~starts => Done.ram_count = Begun.ram_count
    <3>1. Begun.st5 = sim.st5
      BY BegunIs DEF CoreTypes, Kept
    <3> QED BY <2>1, <2>3, <3>1 DEF Stage5Done, TransferDone, TransferFields
  <2>5. Begun.ram_count > 0 => sim.ram_count > 0
    BY BegunIs DEF CoreTypes, SimMemories
  <2> QED BY <2>2, <2>4, <2>5
<1>7. sim'.ram_count > 0 => block'.start
  <2>1. sim.ram_count > 0 => block.start
    BY DEF SimDrains
  <2>2. starts => block'.start
    BY <1>4
  <2>3. ~starts => block' = block
    BY <1>4
  <2> QED BY <1>6, <2>1, <2>2, <2>3
<1>8. block.start => sim'.st2 = NOP /\ sim.st2 = NOP /\ sim.st3 = NOP /\ sim.st4 = NOP
  BY <1>2 DEF SimDrains
<1>9. sim.st5.op = "RW" => sim'.st2 = NOP /\ sim.st2 = NOP /\ sim.st3 = NOP /\ sim.st4 = NOP
  BY <1>2 DEF SimDrains
<1>10. /\ sim'.st3.op = "RW" => sim'.st2 = NOP
       /\ sim'.st4.op = "RW" => sim'.st2 = NOP /\ sim'.st3 = NOP
       /\ sim'.st5.op = "RW" => sim'.st2 = NOP /\ sim'.st3 = NOP /\ sim'.st4 = NOP
  BY <1>1, <1>2 DEF SimDrains
<1>11. block'.start => sim'.st2 = NOP /\ sim'.st3 = NOP /\ sim'.st4 = NOP /\ sim'.st5 = NOP
  BY <1>1, <1>5, <1>8, <1>9
<1> QED BY <1>7, <1>10, <1>11 DEF SimDrains

-----------------------------------------------------------------------------
(* The transfer of the simulator. *)
LEMMA CopyingNone ==
  ASSUME NEW size \in Nat \ {0}, NEW S, NEW to \in [0 .. size - 1 -> S], NEW at \in Int,
         NEW words
  PROVE  Copying(to, at, size, words, 0) = to
<1>1. ASSUME NEW x \in 0 .. size - 1
      PROVE  Copying(to, at, size, words, 0)[x] = to[x]
  <2>1. x - at \in Int
    OBVIOUS
  <2>2. (x - at) % size \in 0 .. size - 1
    BY <2>1, DivMod
  <2>3. ~((x - at) % size < 0)
    BY <2>2
  <2> QED BY <2>3 DEF Copying
<1>2. \E f : Copying(to, at, size, words, 0) = [x \in 0 .. size - 1 |-> f[x]]
  <2> DEFINE f == Copying(to, at, size, words, 0)
  <2>1. f = [x \in 0 .. size - 1 |-> f[x]]
    BY DEF Copying
  <2> QED BY <2>1
<1> DEFINE g == Copying(to, at, size, words, 0)
<1>3. g = [x \in 0 .. size - 1 |-> g[x]]
  BY DEF Copying
<1> HIDE DEF g
<1>4. to = [x \in 0 .. size - 1 |-> to[x]]
  OBVIOUS
<1> QED BY <1>1, <1>3, <1>4 DEF g

\* The word that goes to x in k steps, and in one more.
LEMMA LastWord ==
  ASSUME NEW size \in Nat \ {0}, NEW k \in Nat, NEW i \in 0 .. size - 1
  PROVE  /\ i = k % size => i <= k /\ i + size * ((k - i) \div size) = k
         /\ i # k % size => /\ i < k + 1 <=> i < k
                            /\ i < k => (k - i) \div size = ((k - 1) - i) \div size
<1>1. k \div size \in Int /\ k % size \in 0 .. size - 1 /\ k = size * (k \div size) + (k % size)
  BY DivMod
<1>2. ASSUME i = k % size PROVE i <= k /\ i + size * ((k - i) \div size) = k
  <2> DEFINE q == k \div size
  <2>1. q \in Int /\ k = size * q + i
    BY <1>1, <1>2
  <2> HIDE DEF q
  <2>2. q >= 0
    <3> SUFFICES ASSUME q <= -1 PROVE FALSE
      BY <2>1
    <3>1. size * q <= -size
      BY <2>1
    <3> QED BY <2>1, <3>1
  <2>3. size * q >= 0 /\ size * q \in Int
    BY <2>1, <2>2
  <2>4. k - i = size * q + 0 /\ k - i \in Int /\ 0 \in 0 .. size - 1
    BY <2>1, <2>3
  <2>5. (k - i) \div size = q
    BY <2>1, <2>4, DivModUnique
  <2> QED BY <2>1, <2>3, <2>5
<1>3. ASSUME i # k % size PROVE /\ i < k + 1 <=> i < k
                                /\ i < k => (k - i) \div size = ((k - 1) - i) \div size
  <2>1. i # k
    <3> SUFFICES ASSUME i = k PROVE FALSE
      OBVIOUS
    <3>1. k = size * 0 + k /\ k \in 0 .. size - 1
      OBVIOUS
    <3>2. k % size = k
      BY <3>1, DivModUnique
    <3> QED BY <1>3, <3>2
  <2>2. ASSUME i < k PROVE (k - i) \div size = ((k - 1) - i) \div size
    <3> DEFINE q == (k - i) \div size
               m == (k - i) % size
    <3>1. q \in Int /\ m \in 0 .. size - 1 /\ k - i = size * q + m
      <4>1. k - i \in Int
        OBVIOUS
      <4> QED BY <4>1, DivMod
    <3> HIDE DEF q, m
    <3>2. m # 0
      <4> SUFFICES ASSUME m = 0 PROVE FALSE
        OBVIOUS
      <4>1. k = size * q + i
        BY <3>1
      <4>2. k % size = i
        BY <3>1, <4>1, DivModUnique
      <4> QED BY <1>3, <4>2
    <3>3. (k - 1) - i = size * q + (m - 1) /\ m - 1 \in 0 .. size - 1 /\ (k - 1) - i \in Int
      BY <3>1, <3>2
    <3>4. ((k - 1) - i) \div size = q
      BY <3>1, <3>3, DivModUnique
    <3> QED BY <3>4 DEF q
  <2> QED BY <2>1, <2>2
<1> QED BY <1>2, <1>3

LEMMA CopyingNext ==
  ASSUME NEW to, NEW at \in Int, NEW size \in Nat \ {0}, NEW words,
         NEW k \in Nat, NEW y, y = (at + k) % size
  PROVE  Copying(to, at, size, words, k + 1)
         = [Copying(to, at, size, words, k) EXCEPT ![y] = words[k]]
<1> DEFINE g(j, x) == LET i == (x - at) % size
                          last == i + size * ((j - 1 - i) \div size)
                      IN IF i < j THEN words[last] ELSE to[x]
<1>1. ASSUME NEW x \in 0 .. size - 1
      PROVE  g(k + 1, x) = IF x = y THEN words[k] ELSE g(k, x)
  <2> DEFINE i == (x - at) % size
  <2>1. x - at \in Int /\ at + k \in Int
    OBVIOUS
  <2>2. i \in 0 .. size - 1
    BY <2>1, DivMod
  <2>3. x = y <=> i = k % size
    <3> DEFINE a == (x - at) \div size
               b == k \div size
               c == (at + k) \div size
               m == k % size
    <3>1. a \in Int /\ x - at = size * a + i
      BY <2>1, DivMod
    <3>2. b \in Int /\ m \in 0 .. size - 1 /\ k = size * b + m
      BY DivMod
    <3>3. c \in Int /\ y \in 0 .. size - 1 /\ at + k = size * c + y
      BY <2>1, DivMod
    <3>4. ASSUME x = y PROVE i = m
      <4> HIDE DEF a, b, c, m, i
      <4>1. size * (c + a) = size * c + size * a /\ size * c \in Int /\ size * a \in Int
        BY <3>1, <3>3
      <4>2. k = size * (c + a) + i
        BY <2>2, <3>1, <3>3, <3>4, <4>1
      <4>3. c + a \in Int
        BY <3>1, <3>3
      <4>4. k \in Int
        OBVIOUS
      <4>5. k % size = i
        BY <2>2, <4>2, <4>3, <4>4, DivModUnique
      <4> QED BY <4>5 DEF m
    <3>5. ASSUME i = m PROVE x = y
      <4> HIDE DEF a, b, c, m, i
      <4>1. size * (b - a) = size * b - size * a /\ size * b \in Int /\ size * a \in Int
        BY <3>1, <3>2
      <4>2. at + k = size * (b - a) + x
        BY <2>2, <3>1, <3>2, <3>5, <4>1
      <4>3. b - a \in Int
        BY <3>1, <3>2
      <4> QED BY <2>1, <4>2, <4>3, DivModUnique
    <3> QED BY <3>4, <3>5
  <2>4. /\ g(k + 1, x) = IF i < k + 1
                           THEN words[i + size * (((k + 1) - 1 - i) \div size)]
                           ELSE to[x]
        /\ g(k, x) = IF i < k THEN words[i + size * ((k - 1 - i) \div size)]
                              ELSE to[x]
    OBVIOUS
  <2> HIDE DEF g, i
  <2>5. (k + 1) - 1 - i = k - i
    BY <2>2
  <2>6. CASE x = y
    <3>1. i <= k /\ i + size * ((k - i) \div size) = k
      BY <2>2, <2>3, <2>6, LastWord
    <3>2. i < k + 1
      BY <2>2, <3>1
    <3> QED BY <2>4, <2>5, <2>6, <3>1, <3>2
  <2>7. CASE x # y
    <3>1. /\ i < k + 1 <=> i < k
          /\ i < k => (k - i) \div size = ((k - 1) - i) \div size
      BY <2>2, <2>3, <2>7, LastWord
    <3> QED BY <2>4, <2>5, <2>7, <3>1
  <2> QED BY <2>6, <2>7
<1>2. /\ Copying(to, at, size, words, k) = [x \in 0 .. size - 1 |-> g(k, x)]
      /\ Copying(to, at, size, words, k + 1) = [x \in 0 .. size - 1 |-> g(k + 1, x)]
  BY DEF Copying
<1> HIDE DEF g
<1>3. [[x \in 0 .. size - 1 |-> g(k, x)] EXCEPT ![y] = words[k]]
      = [x \in 0 .. size - 1 |-> IF x = y THEN words[k] ELSE g(k, x)]
  OBVIOUS
<1>4. [x \in 0 .. size - 1 |-> g(k + 1, x)]
      = [x \in 0 .. size - 1 |-> IF x = y THEN words[k] ELSE g(k, x)]
  BY <1>1
<1> QED BY <1>2, <1>3, <1>4

\* A clock moves what it moves of a transfer before stage 5.
LEMMA SimMemoriesMove ==
  ASSUME CoreTypes(sim), NEW cmd, WellFormed(cmd), sim' = Sim!handleNext(sim, cmd),
         sim.st5.op \notin Arithmetic, sim.st5.op # "CCMOV"
  PROVE  sim'.memory = MemoryAfter(sim) /\ sim'.cache = CacheAfter(sim)
<1>1. /\ CoreTypes(Begun) /\ Stage5Done(Begun, Done)
      /\ Passed(Done, sim', cmd) /\ Same(Done, sim', PassedFields)
  BY SimTypesStep
<1>2. sim'.memory = Done.memory /\ sim'.cache = Done.cache
  BY <1>1 DEF Same, PassedFields, SimFields
<1>3. Begun.st5 = sim.st5 /\ Begun.memory = MemoryAfter(sim) /\ Begun.cache = CacheAfter(sim)
  BY BegunIs DEF CoreTypes, Kept
<1>4. Done.memory = Begun.memory
  BY <1>1 DEF Stage5Done, Stable
<1>5. Done.cache = Begun.cache
  BY <1>1, <1>3 DEF Stage5Done, CacheDone
<1> QED BY <1>2, <1>3, <1>4, <1>5

\* ... and its registers.
LEMMA SimTransferMoves ==
  ASSUME CoreTypes(sim), NEW cmd, WellFormed(cmd), sim' = Sim!handleNext(sim, cmd),
         ~(sim.st5.op = "RW" /\ Sim!check_cond(sim.flags[0], sim.st5.cond))
  PROVE  /\ sim'.ram_write = sim.ram_write
         /\ sim.ram_count = 0 => /\ sim'.ram_count = 0 /\ sim'.ram_addr = sim.ram_addr
                                 /\ sim'.ram_cache_addr = sim.ram_cache_addr
         /\ sim.ram_count # 0 => /\ sim'.ram_count = sim.ram_count - 1
                                 /\ sim'.ram_addr = (sim.ram_addr + 1) % MemorySize
                                 /\ sim'.ram_cache_addr = (sim.ram_cache_addr + 1) % CacheSize
<1>1. /\ CoreTypes(Begun) /\ Stage5Done(Begun, Done)
      /\ Passed(Done, sim', cmd) /\ Same(Done, sim', PassedFields)
  BY SimTypesStep
<1>2. /\ sim'.ram_count = Done.ram_count /\ sim'.ram_addr = Done.ram_addr
      /\ sim'.ram_cache_addr = Done.ram_cache_addr /\ sim'.ram_write = Done.ram_write
  BY <1>1 DEF Same, PassedFields, SimFields
<1>3. Begun.st5 = sim.st5 /\ (Begun.cond_met[0] <=> Sim!check_cond(sim.flags[0], sim.st5.cond))
  <2>1. Begun.st5 = sim.st5 /\ Begun.cond_met = MetAfter(sim)
    BY BegunIs DEF CoreTypes, Kept
  <2> QED BY <2>1, Sizes DEF MetAfter
<1>4. /\ Done.ram_count = Begun.ram_count /\ Done.ram_addr = Begun.ram_addr
      /\ Done.ram_cache_addr = Begun.ram_cache_addr /\ Done.ram_write = Begun.ram_write
  BY <1>1, <1>3 DEF Stage5Done, TransferDone, TransferFields
<1>5. Begun.ram_write = sim.ram_write
  BY BegunIs DEF CoreTypes, Kept
<1>6. /\ sim.ram_count = 0 => /\ Begun.ram_count = 0 /\ Begun.ram_addr = sim.ram_addr
                                 /\ Begun.ram_cache_addr = sim.ram_cache_addr
      /\ sim.ram_count # 0 => /\ Begun.ram_count = sim.ram_count - 1
                                 /\ Begun.ram_addr = (sim.ram_addr + 1) % MemorySize
                                 /\ Begun.ram_cache_addr = (sim.ram_cache_addr + 1) % CacheSize
  BY BegunIs DEF CoreTypes
<1> QED BY <1>2, <1>4, <1>5, <1>6

\* The transfer goes on, one word a clock.
LEMMA TransferGoesOn ==
  ASSUME CoreTypes(sim), SimTransfers, block.start, sim.st5 = NOP, block' = block,
         NEW cmd, WellFormed(cmd), sim' = Sim!handleNext(sim, cmd)
  PROVE  SimTransfers'
<1>1. NOP.op \notin Arithmetic /\ NOP.op # "CCMOV" /\ NOP.op # "RW"
  BY DEF NOP, Arithmetic, Sums
<1>2. sim'.memory = MemoryAfter(sim) /\ sim'.cache = CacheAfter(sim)
  BY <1>1, SimMemoriesMove
<1>3. /\ sim'.ram_write = sim.ram_write
      /\ sim.ram_count = 0 => /\ sim'.ram_count = 0 /\ sim'.ram_addr = sim.ram_addr
                              /\ sim'.ram_cache_addr = sim.ram_cache_addr
      /\ sim.ram_count # 0 => /\ sim'.ram_count = sim.ram_count - 1
                              /\ sim'.ram_addr = (sim.ram_addr + 1) % MemorySize
                              /\ sim'.ram_cache_addr = (sim.ram_cache_addr + 1) % CacheSize
  BY <1>1, SimTransferMoves
<1>4. sim.ram_count \in Nat
  BY DEF CoreTypes, SimMemories
<1>5. CASE sim.ram_count = 0
  <2>1. sim'.memory = sim.memory /\ sim'.cache = sim.cache
    BY <1>2, <1>5 DEF MemoryAfter, CacheAfter
  <2> QED BY <1>3, <1>5, <2>1 DEF SimTransfers
<1>6. CASE sim.ram_count # 0
  <2> DEFINE M == MemorySize
             C == CacheSize
             w == block.word
             c == block.cell
             k == block.count - sim.ram_count
  <2>1. M \in Nat \ {0} /\ C \in Nat \ {0}
    BY CoSimulationAssumption, Sizes
  <2>2. /\ block.write \in BOOLEAN /\ block.count \in Nat /\ k \in Nat
        /\ w \in 0 .. M - 1 /\ c \in 0 .. C - 1
        /\ block.memory \in [0 .. MemorySize - 1 -> Word] /\ block.cache \in [0 .. CacheSize - 1 -> Word]
        /\ sim.ram_write = block.write
        /\ sim.ram_addr = (w + k) % M
        /\ sim.ram_cache_addr = (c + k) % C
    BY DEF SimTransfers
  <2>3. block'.count - sim'.ram_count = k + 1
    BY <1>3, <1>4, <1>6, <2>2
  <2>4. sim'.ram_addr = (w + (k + 1)) % M /\ sim'.ram_cache_addr = (c + (k + 1)) % C
    <3>1. sim'.ram_addr = (((w + k) % M) + 1) % M /\ sim'.ram_cache_addr = (((c + k) % C) + 1) % C
      BY <1>3, <1>6, <2>2
    <3> HIDE DEF M, C, w, c, k
    <3>2. w \in Int /\ c \in Int /\ k \in Int
      BY <2>1, <2>2
    <3>3. w + k \in Int /\ c + k \in Int /\ (w + k) + 1 = w + (k + 1) /\ (c + k) + 1 = c + (k + 1)
      BY <3>2
    <3>4. (((w + k) % M) + 1) % M = ((w + k) + 1) % M /\ (((c + k) % C) + 1) % C = ((c + k) + 1) % C
      BY <2>1, <3>3, ModPlus
    <3> QED BY <3>1, <3>3, <3>4
  <2>5. CASE block.write
    <3>1. /\ sim.memory = Copying(block.memory, w, M, WordsFrom(block.cache, c, C), k)
          /\ sim.cache = block.cache
      BY <2>5 DEF SimTransfers
    <3>2. /\ sim'.memory = [sim.memory EXCEPT ![(w + k) % M] = block.cache[(c + k) % C]]
          /\ sim'.cache = block.cache
      BY <1>2, <1>6, <2>2, <2>5, <3>1 DEF MemoryAfter, CacheAfter
    <3> HIDE DEF M, C, w, c, k
    <3>4. w \in Int /\ c \in Int
      BY <2>2
    <3>5. Copying(block.memory, w, M, WordsFrom(block.cache, c, C), k + 1)
          = [Copying(block.memory, w, M, WordsFrom(block.cache, c, C), k) EXCEPT
               ![(w + k) % M] = block.cache[(c + k) % C]]
      <4> DEFINE f == block.memory
                 words == WordsFrom(block.cache, c, C)
                 y == (w + k) % M
      <4>1. words[k] = block.cache[(c + k) % C]
        BY <2>2 DEF WordsFrom
      <4>2. k \in Nat
        BY <2>2
      <4> HIDE DEF f, words, y
      <4>3. Copying(f, w, M, words, k + 1) = [Copying(f, w, M, words, k) EXCEPT ![y] = words[k]]
        BY <2>1, <3>4, <4>2, CopyingNext DEF y
      <4> QED BY <4>1, <4>3 DEF f, words, y
    <3>3. sim'.memory = Copying(block.memory, w, M, WordsFrom(block.cache, c, C), k + 1)
      BY <3>1, <3>2, <3>5
    <3> QED BY <1>3, <2>2, <2>3, <2>4, <2>5, <3>2, <3>3 DEF SimTransfers, M, C, w, c
  <2>6. CASE ~block.write
    <3>1. /\ sim.cache = Copying(block.cache, c, C, WordsFrom(block.memory, w, M), k)
          /\ sim.memory = block.memory
      BY <2>6 DEF SimTransfers
    <3>2. /\ sim'.cache = [sim.cache EXCEPT ![(c + k) % C] = block.memory[(w + k) % M]]
          /\ sim'.memory = block.memory
      BY <1>2, <1>6, <2>2, <2>6, <3>1 DEF MemoryAfter, CacheAfter
    <3> HIDE DEF M, C, w, c, k
    <3>4. w \in Int /\ c \in Int
      BY <2>2
    <3>5. Copying(block.cache, c, C, WordsFrom(block.memory, w, M), k + 1)
          = [Copying(block.cache, c, C, WordsFrom(block.memory, w, M), k) EXCEPT
               ![(c + k) % C] = block.memory[(w + k) % M]]
      <4> DEFINE f == block.cache
                 words == WordsFrom(block.memory, w, M)
                 y == (c + k) % C
      <4>1. words[k] = block.memory[(w + k) % M]
        BY <2>2 DEF WordsFrom
      <4>2. k \in Nat
        BY <2>2
      <4> HIDE DEF f, words, y
      <4>3. Copying(f, c, C, words, k + 1) = [Copying(f, c, C, words, k) EXCEPT ![y] = words[k]]
        BY <2>1, <3>4, <4>2, CopyingNext DEF y
      <4> QED BY <4>1, <4>3 DEF f, words, y
    <3>3. sim'.cache = Copying(block.cache, c, C, WordsFrom(block.memory, w, M), k + 1)
      BY <3>1, <3>2, <3>5
    <3> QED BY <1>3, <2>2, <2>3, <2>4, <2>6, <3>2, <3>3 DEF SimTransfers, M, C, w, c
  <2> QED BY <2>5, <2>6
<1> QED BY <1>5, <1>6

\* The transfer begins with nothing copied.
LEMMA TransferBegins ==
  ASSUME CoreTypes(sim), SimDrains, sim.st5 = ST5, NEW cmd, WellFormed(cmd),
         sim' = Sim!handleNext(sim, cmd),
         sim.st5.op = "RW", Sim!check_cond(sim.flags[0], sim.st5.cond),
         block' = [start |-> TRUE, memory |-> sim.memory, cache |-> sim.cache,
                   write |-> ST5.set, count |-> sim'.ram_count,
                   word |-> sim'.ram_addr, cell |-> sim'.ram_cache_addr]
  PROVE  SimTransfers'
<1>1. "RW" \notin Arithmetic /\ "RW" # "CCMOV"
  BY DEF Arithmetic, Sums
<1>2. sim'.memory = MemoryAfter(sim) /\ sim'.cache = CacheAfter(sim)
  BY <1>1, SimMemoriesMove
<1>3. sim.ram_count = 0
  <2>1. ~block.start
    BY NopDecoded DEF SimDrains
  <2> QED BY <2>1 DEF SimDrains, CoreTypes, SimMemories
<1>4. sim'.memory = sim.memory /\ sim'.cache = sim.cache
  BY <1>2, <1>3 DEF MemoryAfter, CacheAfter
<1>5. /\ CoreTypes(sim') /\ CoreTypes(Begun) /\ Stage5Done(Begun, Done)
      /\ Passed(Done, sim', cmd) /\ Same(Done, sim', PassedFields)
  BY SimTypesStep
<1>6. /\ sim'.ram_addr \in 0 .. MemorySize - 1 /\ sim'.ram_cache_addr \in 0 .. CacheSize - 1
      /\ sim'.ram_count \in Nat
  BY <1>5 DEF CoreTypes, SimMemories
<1>7. /\ sim.memory \in [0 .. MemorySize - 1 -> Word] /\ sim.cache \in [0 .. CacheSize - 1 -> Word]
  BY DEF CoreTypes, SimMemories
<1>8. sim'.ram_write = ST5.set /\ ST5.set \in BOOLEAN
  <2>1. sim'.ram_write = Done.ram_write
    BY <1>5 DEF Same, PassedFields, SimFields
  <2>2. Begun.st5 = sim.st5 /\ Begun.cond_met[0]
    <3>1. Begun.st5 = sim.st5 /\ Begun.cond_met = MetAfter(sim)
      BY BegunIs DEF CoreTypes, Kept
    <3> QED BY <3>1, Sizes DEF MetAfter
  <2>3. Done.ram_write = ST5.set
    BY <1>5, <2>2 DEF Stage5Done, TransferDone
  <2>4. ST5.set \in BOOLEAN
    BY DEF CoreTypes, SimCommands, WellFormed, Commands
  <2> QED BY <2>1, <2>3, <2>4
<1>9. /\ block'.start /\ block'.memory = sim.memory /\ block'.cache = sim.cache
      /\ block'.write = ST5.set /\ block'.count = sim'.ram_count
      /\ block'.word = sim'.ram_addr /\ block'.cell = sim'.ram_cache_addr
  OBVIOUS
<1>10. block'.count - sim'.ram_count = 0
  BY <1>6, <1>9
<1> DEFINE M == MemorySize
           C == CacheSize
           w == block'.word
           c == block'.cell
<1>11. M \in Nat \ {0} /\ C \in Nat \ {0}
  BY CoSimulationAssumption, Sizes
<1>12. /\ w \in 0 .. M - 1 /\ c \in 0 .. C - 1
  BY <1>6, <1>9
<1>13. /\ sim'.ram_addr = (w + 0) % M /\ sim'.ram_cache_addr = (c + 0) % C
  <2>1. sim'.ram_addr = w /\ sim'.ram_cache_addr = c
    BY <1>9
  <2> HIDE DEF M, C, w, c
  <2>2. w + 0 = w /\ c + 0 = c /\ w = M * 0 + w /\ c = C * 0 + c /\ w \in Int /\ c \in Int
    BY <1>11, <1>12
  <2>3. w % M = w /\ c % C = c
    BY <1>11, <1>12, <2>2, DivModUnique
  <2> QED BY <2>1, <2>2, <2>3
<1>14. /\ Copying(sim.memory, w, M, WordsFrom(sim.cache, c, C), 0) = sim.memory
       /\ Copying(sim.cache, c, C, WordsFrom(sim.memory, w, M), 0) = sim.cache
  <2> HIDE DEF w, c
  <2>1. w \in Int /\ c \in Int
    BY <1>12
  <2>2. sim.memory \in [0 .. M - 1 -> Word] /\ sim.cache \in [0 .. C - 1 -> Word]
    BY <1>7
  <2> HIDE DEF M, C
  <2>3. Copying(sim.memory, w, M, WordsFrom(sim.cache, c, C), 0) = sim.memory
    <3> DEFINE f == sim.memory
               words == WordsFrom(sim.cache, c, C)
    <3>1. f \in [0 .. M - 1 -> Word]
      BY <2>2
    <3> HIDE DEF f, words
    <3>2. Copying(f, w, M, words, 0) = f
      BY <1>11, <2>1, <3>1, CopyingNone
    <3> QED BY <3>2 DEF f, words
  <2>4. Copying(sim.cache, c, C, WordsFrom(sim.memory, w, M), 0) = sim.cache
    <3> DEFINE f == sim.cache
               words == WordsFrom(sim.memory, w, M)
    <3>1. f \in [0 .. C - 1 -> Word]
      BY <2>2
    <3> HIDE DEF f, words
    <3>2. Copying(f, c, C, words, 0) = f
      BY <1>11, <2>1, <3>1, CopyingNone
    <3> QED BY <3>2 DEF f, words
  <2> QED BY <2>3, <2>4
<1> QED BY <1>4, <1>6, <1>7, <1>8, <1>9, <1>10, <1>13, <1>14 DEF SimTransfers

\* A clock of the transfer: before it, at its command and after it.
LEMMA SimTransfersStep ==
  ASSUME Inv, CoreTypes(sim), SimStages, SimDrains, SimTransfers, NEW cmd, Given(cmd)
  PROVE  SimTransfers'
<1>1. WellFormed(cmd) /\ sim' = Sim!handleNext(sim, cmd)
  BY FetchedCommand DEF Given, Clock
<1>2. block' = IF sim.st5.op = "RW" /\ Sim!check_cond(sim.flags[0], sim.st5.cond)
                THEN [start |-> TRUE, memory |-> sim.memory, cache |-> sim.cache,
                      write |-> ST5.set, count |-> sim'.ram_count,
                      word |-> sim'.ram_addr, cell |-> sim'.ram_cache_addr]
                ELSE block
  BY DEF Given, Clock
<1>3. CASE block.start
  <2>1. sim.st5 = NOP /\ NOP.op # "RW"
    BY <1>3, NopDecoded DEF SimDrains
  <2>2. block' = block
    BY <1>2, <2>1
  <2> QED BY <1>1, <1>3, <2>1, <2>2, TransferGoesOn
<1>4. CASE sim.st5.op = "RW" /\ Sim!check_cond(sim.flags[0], sim.st5.cond)
  <2>1. sim.st5 = ST5
    BY DEF SimStages
  <2> QED BY <1>1, <1>2, <1>4, <2>1, TransferBegins
<1>5. CASE ~block.start /\ ~(sim.st5.op = "RW" /\ Sim!check_cond(sim.flags[0], sim.st5.cond))
  <2>1. ~block'.start
    BY <1>2, <1>5
  <2> QED BY <2>1 DEF SimTransfers
<1> QED BY <1>3, <1>4, <1>5

-----------------------------------------------------------------------------
(* What holds of the simulator whatever the program. *)
LEMMA SimClockKeeps ==
  ASSUME Inv, SimBase, NEW cmd, Given(cmd)
  PROVE  SimBase'
<1>1. Running /\ clock' = clock + 1
  BY DEF Given, Clock, Running
<1>2. SimStages'
  BY <1>1, SimStagesStep DEF SimBase
<1>3. SimDrains'
  BY <1>1, SimDrainsStep DEF SimBase
<1>4. SimTransfers'
  BY <1>1, SimTransfersStep DEF SimBase
<1>5. CoreTypes(sim')
  BY SimCommandsMove DEF SimBase
<1>6. clock' \in Nat
  BY <1>1 DEF SimBase
<1> QED BY <1>2, <1>3, <1>4, <1>5, <1>6 DEF SimBase

\* The simulator alone.
LEMMA FinishKeeps ==
  ASSUME SimBase, Finish
  PROVE  SimBase'
<1>1. /\ sim' = Sim!handleNext(sim, NOP) /\ WellFormed(NOP) /\ NOP.op # "RW" /\ NOP.op # "DJUMP"
      /\ block' = block /\ clock' = clock /\ ~Running /\ sim.ram_count > 0
  BY NopDecoded DEF Finish, Running, Jumps
<1>2. block.start
  BY <1>1 DEF SimBase, SimDrains
<1>3. sim.st2 = NOP /\ sim.st3 = NOP /\ sim.st4 = NOP /\ sim.st5 = NOP
  BY <1>2 DEF SimBase, SimDrains
<1>4. /\ CoreTypes(sim') /\ CoreTypes(Begun) /\ Stage5Done(Begun, Done)
      /\ Passed(Done, sim', NOP)
  BY <1>1, SimTypesStep DEF SimBase
<1>5. /\ Done.st2 = Begun.st2 /\ Done.st3 = Begun.st3 /\ Done.st4 = Begun.st4
  BY <1>4 DEF Stage5Done, Stable
<1>6. /\ Begun.st2 = sim.st2 /\ Begun.st3 = sim.st3 /\ Begun.st4 = sim.st4
  BY BegunIs DEF SimBase, CoreTypes, Kept
<1>7. sim'.st2 = NOP /\ sim'.st3 = NOP /\ sim'.st4 = NOP /\ sim'.st5 = NOP
  BY <1>3, <1>4, <1>5, <1>6 DEF Passed
<1>8. SimDrains'
  BY <1>1, <1>2, <1>7 DEF SimDrains
<1>9. SimTransfers'
  BY <1>1, <1>2, <1>3, TransferGoesOn DEF SimBase
<1>10. ~Running'
  BY <1>1 DEF Running
<1> QED BY <1>1, <1>4, <1>8, <1>9, <1>10 DEF SimBase

LEMMA SimNextKeeps == Inv /\ SimBase /\ [Next]_vars => SimBase'
<1> SUFFICES ASSUME Inv, SimBase, [Next]_vars PROVE SimBase'
  OBVIOUS
<1>1. CASE \E cmd \in family : Issue(cmd)
  <2>1. PICK cmd \in family : Issue(cmd)
    BY <1>1
  <2>2. WellFormed(cmd)
    BY CoSimulationAssumption DEF Inv
  <2>3. Given(cmd)
    BY <2>1, <2>2 DEF Issue, Fetched, Given
  <2> QED BY <2>3, SimClockKeeps
<1>2. CASE FetchNop
  <2>1. Given(NOP)
    BY <1>2 DEF FetchNop, Fetched, Given
  <2> QED BY <2>1, SimClockKeeps
<1>3. CASE Finish
  BY <1>3, FinishKeeps
<1>4. CASE UNCHANGED vars
  BY <1>4 DEF vars, processorVars, controlVars, SimBase, SimDrains, SimTransfers, Running,
              SimStages, Stage
<1> QED BY <1>1, <1>2, <1>3, <1>4 DEF Next

-----------------------------------------------------------------------------
(* The start. *)
LEMMA InitialCoreTypes ==
  ASSUME sim = Sim!InitialCore(Start, InitialLo, InitialHi, InitialCells, InitialFlags,
                               InitialMemory)
  PROVE  /\ CoreTypes(sim)
         /\ sim.st2 = NOP /\ sim.st3 = NOP /\ sim.st4 = NOP /\ sim.st5 = NOP
         /\ sim.ram_count = 0 /\ sim.drop_mode = 0
<1> DEFINE zero == [p \in PU |-> 0]
           none == [p \in PU |-> FALSE]
           empty == [p \in PU |-> [lo |-> 0, hi |-> 0]]
<1>1. sim = [ip |-> Start, next_ip |-> Start, drop_mode |-> 0,
                st2 |-> NOP, st3 |-> NOP, st4 |-> NOP, st5 |-> NOP,
                st3_reg_r |-> 0, st4_reg_r |-> 0, st5_reg_r |-> 0,
                regs |-> Regs0, flags |-> InitialFlags, st5_carry |-> zero,
                mem_lo |-> 0, mem_hi |-> 0, in_mem_lo |-> 0, in_mem_hi |-> 0,
                p1 |-> zero, p2 |-> zero, p2type |-> "const",
                rd_ok |-> FALSE, cond_met |-> [p \in PU |-> TRUE],
                st6_reg |-> 0, st6_wr_reg |-> none, st6_data |-> zero,
                st6_shift |-> none, st6_shift_result |-> zero,
                st6_mul |-> none, st6_wmul |-> none,
                st7_mul |-> none, p1_st6 |-> zero,
                st6_result |-> empty, st7_result |-> empty, result |-> empty,
                cache |-> InitialCells, st3_from_cache |-> zero, st4_from_cache |-> zero,
                memory |-> InitialMemory, ram_addr |-> 0, ram_cache_addr |-> 0, ram_count |-> 0,
                ram_write |-> FALSE, peripheralAddr |-> 0,
                taken |-> [d \in Ports |-> 0], log |-> [d \in Ports |-> <<>>]]
  <2>1. /\ Sim!NOP = NOP /\ Sim!PU = PU /\ Sim!Reg = Reg
    BY SimOperators
  <2> QED BY <2>1, SMTT(30) DEF Sim!InitialCore, Regs0
<1>10. DOMAIN sim = SimFields
  BY <1>1 DEF SimFields
<1>2. InitialTypes /\ InitialMemory \in [0 .. MemorySize - 1 -> Word]
  BY InitialValues, CoSimulationAssumption
<1>3. /\ 0 \in Word /\ 0 \in Reg /\ 0 \in 0 .. MemorySize - 1 /\ 0 \in 0 .. CacheSize - 1
      /\ Reg = LoReg \cup HiReg
  BY <1>2, Sizes, CoSimulationAssumption DEF InitialTypes, Reg
<1>9. /\ zero \in [PU -> Word] /\ zero \in [PU -> {0, 1}] /\ none \in [PU -> BOOLEAN]
      /\ empty \in [PU -> ResultWords] /\ Regs0 \in [PU -> [Reg -> Word]]
      /\ [p \in PU |-> TRUE] \in [PU -> BOOLEAN] /\ [d \in Ports |-> 0] \in [Ports -> Nat]
  BY <1>2, <1>3 DEF InitialTypes, ResultWords, Regs0
<1> HIDE DEF zero, none, empty
<1>4. SimCommands(sim)
  <2>1. /\ sim.ip = Start /\ sim.next_ip = Start /\ sim.drop_mode = 0
        /\ sim.st2 = NOP /\ sim.st3 = NOP /\ sim.st4 = NOP /\ sim.st5 = NOP
        /\ sim.cond_met = [p \in PU |-> TRUE] /\ sim.p2type = "const"
        /\ sim.taken = [d \in Ports |-> 0]
    BY <1>1
  <2>2. Sim!P2Type(NOP) = "const"
    BY NopDecoded, NopFields, SimDecoded
  <2>3. Start \in 0 .. IpRange - 1 /\ Start \in Int
    BY <1>2, Sizes DEF InitialTypes
  <2>4. WellFormed(NOP) /\ ~OnPort(NOP) /\ ~IsIn(NOP)
    BY NopDecoded
  <2>5. ~OnPort(sim.st5) /\ ~IsIn(sim.st5) /\ sim.p2type = Sim!P2Type(sim.st5)
    BY <2>1, <2>2, <2>4
  <2> QED BY <1>9, <2>1, <2>3, <2>4, <2>5 DEF SimCommands
<1>5. SimOperands(sim)
  <2>1. /\ sim.st3_reg_r = 0 /\ sim.st4_reg_r = 0 /\ sim.st5_reg_r = 0
        /\ sim.regs = Regs0 /\ sim.flags = InitialFlags /\ sim.st5_carry = zero
        /\ sim.mem_lo = 0 /\ sim.mem_hi = 0 /\ sim.in_mem_lo = 0 /\ sim.in_mem_hi = 0
        /\ sim.p1 = zero /\ sim.p2 = zero
        /\ sim.st6_reg = 0 /\ sim.st6_wr_reg = none /\ sim.st6_data = zero
    BY <1>1
  <2> QED BY <1>2, <1>3, <1>9, <2>1 DEF SimOperands, InitialTypes
<1>6. SimPipes(sim)
  BY <1>1, <1>3, <1>9 DEF SimPipes
<1>7. SimMemories(sim)
  BY <1>1, <1>2, <1>3, <1>9 DEF SimMemories, InitialTypes
<1>8. /\ sim.st2 = NOP /\ sim.st3 = NOP /\ sim.st4 = NOP /\ sim.st5 = NOP
      /\ sim.ram_count = 0 /\ sim.drop_mode = 0
  BY <1>1
<1> QED BY <1>10, <1>4, <1>5, <1>6, <1>7, <1>8 DEF CoreTypes

LEMMA SimInitHolds == Init => SimBase
<1> SUFFICES ASSUME Init PROVE SimBase
  OBVIOUS
<1>1. /\ CoreTypes(sim)
      /\ sim.st2 = NOP /\ sim.st3 = NOP /\ sim.st4 = NOP /\ sim.st5 = NOP
      /\ sim.ram_count = 0 /\ sim.drop_mode = 0
  BY InitialCoreTypes DEF Init
<1>2. /\ ST2 = NOP /\ ST3 = NOP /\ ST4 = NOP /\ ST5 = NOP /\ ~drop_line
      /\ ~block.start /\ clock = 0
  BY DEF Init, ProcessorInit, NoBlock
<1>3. SimDrains /\ SimTransfers
  BY <1>1, <1>2, NopDecoded DEF SimDrains, SimTransfers
<1>4. SimStages
  BY <1>1, <1>2 DEF SimStages
<1> QED BY <1>1, <1>2, <1>3, <1>4 DEF SimBase

-----------------------------------------------------------------------------
LEMMA CopyingIsCopied ==
  ASSUME SimTransfers, block.start, sim.ram_count = 0
  PROVE  TransferCopiesBlock
<1> DEFINE k == block.count - sim.ram_count
<1>1. k = block.count /\ k \in Nat /\ block.word \in Int /\ block.cell \in Int
  BY DEF SimTransfers
<1>2. MemorySize \in Nat \ {0} /\ CacheSize \in Nat \ {0}
  BY CoSimulationAssumption, Sizes
<1>3. ASSUME NEW to, NEW at \in Int, NEW size \in Nat \ {0}, NEW source, NEW start, NEW length
      PROVE  Copying(to, at, size, WordsFrom(source, start, length), k)
             = Copied(to, at, size, source, start, length)
  <2>1. ASSUME NEW x \in 0 .. size - 1
        PROVE  LET i == (x - at) % size
                   last == i + size * ((k - 1 - i) \div size)
               IN WordsFrom(source, start, length)[last] = source[(start + last) % length]
    <3> DEFINE i == (x - at) % size
               last == i + size * ((k - 1 - i) \div size)
    <3>1. x - at \in Int
      OBVIOUS
    <3>2. i \in Int
      BY <3>1, DivMod
    <3> HIDE DEF i, k
    <3>3. (k - 1) - i \in Int /\ (k - 1 - i) \div size \in Int
      BY <1>1, <3>2, DivMod
    <3>4. last \in Int
      BY <3>2, <3>3
    <3> QED BY <3>4 DEF WordsFrom, i
  <2> QED BY <1>1, <2>1 DEF Copying, Copied
<1>4. CASE block.write
  BY <1>1, <1>2, <1>3, <1>4 DEF SimTransfers, TransferCopiesBlock
<1>5. CASE ~block.write
  BY <1>1, <1>2, <1>3, <1>5 DEF SimTransfers, TransferCopiesBlock
<1> QED BY <1>4, <1>5

THEOREM SimulatorInvariant == Spec => []SimBase
<1>1. Init => SimBase
  BY SimInitHolds
<1>2. Inv /\ SimBase /\ [Next]_vars => SimBase'
  BY SimNextKeeps
<1> QED BY <1>1, <1>2, PipelineInvariant, PTL DEF Spec

\* A transfer of the simulator copies its block and nothing else.
THEOREM TransferIsExact == Spec => []TransferCopiesBlock
<1>1. SimBase => TransferCopiesBlock
  BY CopyingIsCopied DEF SimBase, TransferCopiesBlock
<1> QED BY <1>1, SimulatorInvariant, PTL

\* Every register, flag, result and memory word has its width.
THEOREM CoSimulationTypes == Spec => []TypeOK
<1>1. Inv /\ SimBase => TypeOK
  BY DEF Inv, PipelineTypes, SimBase, CoreTypes, SimCommands, SimOperands, SimMemories, TypeOK
<1> QED BY <1>1, PipelineInvariant, SimulatorInvariant, PTL

-----------------------------------------------------------------------------
(* A clock in which the program uses nothing the simulator does otherwise. *)
Agreed(cmd) == /\ Inv /\ SimBase /\ SimFollows /\ Given(cmd) /\ Running /\ ~beyond'.differs

\* What is known of it: the processor, ...
LEMMA ProcessorAgreed ==
  ASSUME NEW cmd, Agreed(cmd)
  PROVE  /\ Inv' /\ Decodes /\ Moves /\ ProcessorClock(cmd) /\ Fetched(cmd)
         /\ PipelineTypes /\ MachineTypes /\ FlagsFollow /\ Known' = Seeing
         /\ Seeing \subseteq Known /\ Known \subseteq PU /\ 0 \in Seeing
<1>1. Inv /\ Clock(cmd) /\ Fetched(cmd)
  BY DEF Agreed, Given
<1>2. Inv'
  BY <1>1, ClockKeeps
<1>3. Decodes /\ Moves /\ ProcessorClock(cmd)
  BY <1>1, CommandMoves
<1>4. PipelineTypes /\ MachineTypes /\ FlagsFollow
  BY <1>1 DEF Inv
<1>5. Known' = Seeing
  BY <1>3, <1>4, KnownMoves
<1>6. Seeing \subseteq Known /\ 0 \in Seeing
  BY <1>4, KnownShrinks
<1> QED BY <1>1, <1>2, <1>3, <1>4, <1>5, <1>6 DEF Known

\* ... the simulator, ...
LEMMA SimulatorAgreed ==
  ASSUME NEW cmd, Agreed(cmd)
  PROVE  /\ CoreTypes(sim) /\ CoreTypes(sim') /\ CoreTypes(Begun) /\ CoreTypes(Done)
         /\ Stage5Done(Begun, Done) /\ Passed(Done, sim', cmd) /\ Same(Done, sim', PassedFields)
         /\ SimStages /\ SimStages' /\ SimDrains
<1>1. Inv /\ CoreTypes(sim) /\ SimStages /\ SimDrains /\ Given(cmd)
  BY DEF Agreed, SimBase
<1>2. WellFormed(cmd) /\ sim' = Sim!handleNext(sim, cmd)
  BY <1>1, FetchedCommand DEF Given, Clock
<1>3. SimStages'
  BY <1>1, SimStagesStep
<1> QED BY <1>1, <1>2, <1>3, SimTypesStep

\* ... and what the program does not use.
LEMMA ProgramAgreed ==
  ASSUME NEW cmd, Agreed(cmd)
  PROVE  /\ ~Differs(beyond, ST5)
         /\ beyond'.afterSum <=> ST5.op \in Arithmetic /\ ST5.cond = 0
         /\ beyond'.afterConstant = IF ST5.op = "CMOV" /\ ~ST5.t THEN {ST5.a} ELSE {}
<1>1. beyond' = After(ST5)
  BY DEF Agreed, Given, Clock
<1>2. ~beyond'.differs
  BY DEF Agreed
<1> QED BY <1>1, <1>2 DEF After

-----------------------------------------------------------------------------
\* What stage 5 begins with.
LEMMA Beginning ==
  ASSUME NEW cmd, Agreed(cmd)
  PROVE  /\ Begun.st2 = ST2 /\ Begun.st4 = ST4 /\ Begun.st5 = ST5
         /\ Begun.ip = sim.ip /\ Begun.next_ip = sim.ip + 1 /\ Begun.drop_mode = sim.drop_mode
         /\ Begun.mem_lo = sim.mem_lo /\ Begun.mem_hi = sim.mem_hi
         /\ Begun.in_mem_lo = sim.mem_lo /\ Begun.in_mem_hi = sim.mem_hi
         /\ Begun.flags = sim.flags /\ Begun.st5_carry = sim.st5_carry
         /\ Begun.regs = RegistersAfter(sim) /\ Begun.st5_reg_r = sim.st5_reg_r
         /\ Begun.st6_data = sim.st6_data /\ Begun.st6_reg = sim.st6_reg
         /\ Begun.log = sim.log /\ Begun.peripheralAddr = sim.peripheralAddr
         /\ Begun.taken = sim.taken /\ Begun.rd_ok = sim.rd_ok /\ Begun.p2type = sim.p2type
         /\ Begun.p1 = FirstAfter(sim) /\ Begun.p2 = SecondAfter(sim)
         /\ Begun.cond_met = MetAfter(sim) /\ Begun.st6_wr_reg = Off
         /\ Begun.st6_shift = Off /\ Begun.st6_mul = sim.st6_wmul /\ Begun.st6_wmul = Off
         /\ Begun.st6_shift_result = sim.st6_shift_result /\ Begun.p1_st6 = sim.p1_st6
         /\ Begun.st7_mul = sim.st6_mul /\ Begun.st6_result = ProductAfter(sim)
         /\ Begun.st7_result = sim.st6_result /\ Begun.result = ResultAfter(sim)
         /\ Begun.cache = CacheAfter(sim)
<1>1. DOMAIN sim = SimFields /\ SimStages
  BY SimulatorAgreed DEF CoreTypes
<1>2. \A f \in Kept : Begun[f] = sim[f]
  BY <1>1, BegunIs
<1>3. Begun.st2 = ST2 /\ Begun.st4 = ST4 /\ Begun.st5 = ST5
  BY <1>1, <1>2 DEF SimStages, Kept
<1>4. /\ Begun.ip = sim.ip /\ Begun.drop_mode = sim.drop_mode
      /\ Begun.mem_lo = sim.mem_lo /\ Begun.mem_hi = sim.mem_hi
      /\ Begun.flags = sim.flags /\ Begun.st5_carry = sim.st5_carry
      /\ Begun.st5_reg_r = sim.st5_reg_r
      /\ Begun.st6_data = sim.st6_data /\ Begun.st6_reg = sim.st6_reg
      /\ Begun.log = sim.log /\ Begun.peripheralAddr = sim.peripheralAddr
      /\ Begun.taken = sim.taken /\ Begun.rd_ok = sim.rd_ok /\ Begun.p2type = sim.p2type
      /\ Begun.st6_shift_result = sim.st6_shift_result /\ Begun.p1_st6 = sim.p1_st6
  BY <1>2 DEF Kept
<1>5. /\ Begun.next_ip = sim.ip + 1 /\ Begun.regs = RegistersAfter(sim)
      /\ Begun.in_mem_lo = sim.mem_lo /\ Begun.in_mem_hi = sim.mem_hi
      /\ Begun.p1 = FirstAfter(sim) /\ Begun.p2 = SecondAfter(sim)
      /\ Begun.cond_met = MetAfter(sim) /\ Begun.st6_wr_reg = Off
      /\ Begun.st6_shift = Off /\ Begun.st6_mul = sim.st6_wmul /\ Begun.st6_wmul = Off
      /\ Begun.st7_mul = sim.st6_mul /\ Begun.st6_result = ProductAfter(sim)
      /\ Begun.st7_result = sim.st6_result /\ Begun.result = ResultAfter(sim)
      /\ Begun.cache = CacheAfter(sim)
  BY <1>1, BegunIs
<1> QED BY <1>3, <1>4, <1>5

\* What it leaves alone, and so do the stages after it.
LEMMA Ending ==
  ASSUME NEW cmd, Agreed(cmd)
  PROVE  /\ Done.st2 = ST2 /\ Done.st4 = ST4 /\ Done.ip = sim.ip
         /\ Done.in_mem_lo = sim.mem_lo /\ Done.in_mem_hi = sim.mem_hi
         /\ Done.st3_reg_r = sim.st3_reg_r /\ Done.st4_reg_r = sim.st4_reg_r
         /\ Done.st3_from_cache = sim.st3_from_cache /\ Done.st4_from_cache = sim.st4_from_cache
         /\ Done.taken = sim.taken /\ Done.result = ResultAfter(sim)
         /\ Done.st7_mul = sim.st6_mul /\ Done.st7_result = sim.st6_result
         /\ sim'.st7_mul = sim.st6_mul /\ sim'.st7_result = sim.st6_result
         /\ sim'.result = ResultAfter(sim)
<1>1. DOMAIN sim = SimFields /\ SimStages /\ Stage5Done(Begun, Done) /\ Same(Done, sim', PassedFields)
  BY SimulatorAgreed DEF CoreTypes
<1>2. \A f \in Kept : Begun[f] = sim[f]
  BY <1>1, BegunIs
<1>3. \A f \in Stable : Done[f] = Begun[f]
  BY <1>1 DEF Stage5Done
<1>4. /\ Done.ip = sim.ip /\ Done.st2 = sim.st2 /\ Done.st4 = sim.st4
      /\ Done.st3_reg_r = sim.st3_reg_r /\ Done.st4_reg_r = sim.st4_reg_r
      /\ Done.st3_from_cache = sim.st3_from_cache /\ Done.st4_from_cache = sim.st4_from_cache
      /\ Done.taken = sim.taken
  BY <1>2, <1>3 DEF Kept, Stable
<1>5. /\ Done.in_mem_lo = Begun.in_mem_lo /\ Done.in_mem_hi = Begun.in_mem_hi
      /\ Done.result = Begun.result /\ Done.st7_mul = Begun.st7_mul
      /\ Done.st7_result = Begun.st7_result
  BY <1>3 DEF Stable
<1>6. sim'.st7_mul = Done.st7_mul /\ sim'.st7_result = Done.st7_result /\ sim'.result = Done.result
  BY <1>1 DEF Same, PassedFields, SimFields
<1>7. sim.st2 = ST2 /\ sim.st4 = ST4
  BY <1>1 DEF SimStages
<1> QED BY <1>4, <1>5, <1>6, <1>7, Beginning

\* What stage 5 makes of the object the stages before it leave to the next clock.
LEMMA Leaves ==
  ASSUME NEW cmd, Agreed(cmd)
  PROVE  /\ sim'.regs = Done.regs /\ sim'.st6_wr_reg = Done.st6_wr_reg
         /\ sim'.st6_reg = Done.st6_reg /\ sim'.st6_data = Done.st6_data
         /\ sim'.st5_carry = Done.st5_carry /\ sim'.log = Done.log /\ sim'.flags = Done.flags
         /\ sim'.cache = Done.cache /\ sim'.mem_lo = Done.mem_lo /\ sim'.mem_hi = Done.mem_hi
         /\ sim'.st6_shift = Done.st6_shift /\ sim'.st6_shift_result = Done.st6_shift_result
         /\ sim'.st6_wmul = Done.st6_wmul /\ sim'.p1_st6 = Done.p1_st6
         /\ sim'.st6_result = Done.st6_result /\ sim'.st6_mul = Done.st6_mul
         /\ sim'.ram_count = Done.ram_count /\ sim'.ram_write = Done.ram_write
         /\ sim'.ram_addr = Done.ram_addr /\ sim'.ram_cache_addr = Done.ram_cache_addr
<1>1. Same(Done, sim', PassedFields)
  BY SimulatorAgreed
<1> QED BY <1>1 DEF Same, PassedFields, SimFields

-----------------------------------------------------------------------------
(* The condition. *)
LEMMA SimConditions ==
  ASSUME NEW p \in PU, sim.flags[p] = flags[p], sim.st5 = ST5
  PROVE  Sim!check_cond(sim.flags[p], ST5.cond) <=> st5_cond_met(p)
BY DEF Sim!check_cond, st5_cond_met

\* A unit the manual describes executes the command where the manual says so.
LEMMA SimMetIs ==
  ASSUME NEW cmd, Agreed(cmd), NEW p \in Known
  PROVE  /\ Begun.cond_met[p] <=> st5_cond_met(p)
         /\ p \in Sim!Enabled(Begun) <=> st5_cond_met(p)
         /\ st5_cond_met(p) <=> Met(isa, ST5, p)
<1>1. p \in PU /\ PipelineTypes /\ FlagsFollow
  BY ProcessorAgreed
<1>2. sim.flags[p] = flags[p]
  BY DEF Agreed, SimFollows, SimState, Inv, FlagsFollow
<1>3. sim.st5 = ST5 /\ Begun.cond_met = MetAfter(sim)
  BY SimulatorAgreed, Beginning DEF SimStages
<1>4. Begun.cond_met[p] <=> st5_cond_met(p)
  <2>1. Begun.cond_met[p] = Sim!check_cond(sim.flags[p], ST5.cond)
    BY <1>1, <1>3 DEF MetAfter
  <2> QED BY <2>1, <1>1, <1>2, <1>3, SimConditions
<1>5. p \in Sim!Enabled(Begun) <=> Begun.cond_met[p]
  <2>1. Sim!PU = PU
    BY SimOperators
  <2> QED BY <1>1, <2>1 DEF Sim!Enabled
<1>6. st5_cond_met(p) <=> Met(isa, ST5, p)
  BY <1>1, MetIs
<1> QED BY <1>4, <1>5, <1>6

-----------------------------------------------------------------------------
(* The operands. *)
\* What each kind of second operand says of the command.
LEMMA KindTells ==
  ASSUME NEW cmd, WellFormed(cmd)
  PROVE  /\ P2Type(cmd) = "port" => IsIn(cmd)
         /\ P2Type(cmd) = "cache" => cmd.op \in HasOperand /\ ~IsIn(cmd) /\ cmd.mode = "load"
         /\ P2Type(cmd) = "register" =>
              /\ cmd.op \in HasOperand /\ ~IsIn(cmd)
              /\ \/ cmd.mode = "store" /\ ~(Mov(cmd) /\ cmd.spec \in {"sreg", "out"})
                 \/ cmd.mode = "reg" /\ ~cmd.f
         /\ P2Type(cmd) = "special" =>
              /\ cmd.op \in HasOperand /\ ~IsIn(cmd)
              /\ \/ cmd.mode = "store" /\ Mov(cmd) /\ cmd.spec \in {"sreg", "out"}
                 \/ cmd.mode = "reg" /\ cmd.f
<1>1. cmd.mode \in {"store", "load", "const", "reg"}
  BY DEF WellFormed, Commands
<1>2. CASE IsIn(cmd)
  BY <1>2 DEF P2Type
<1>3. CASE ~IsIn(cmd) /\ cmd.op \notin HasOperand
  BY <1>3 DEF P2Type
<1>4. CASE ~IsIn(cmd) /\ cmd.op \in HasOperand /\ cmd.mode = "store"
  BY <1>4 DEF P2Type
<1>5. CASE ~IsIn(cmd) /\ cmd.op \in HasOperand /\ cmd.mode = "load"
  BY <1>5 DEF P2Type
<1>6. CASE ~IsIn(cmd) /\ cmd.op \in HasOperand /\ cmd.mode = "const"
  BY <1>6 DEF P2Type
<1>7. CASE ~IsIn(cmd) /\ cmd.op \in HasOperand /\ cmd.mode = "reg"
  BY <1>7 DEF P2Type
<1> QED BY <1>1, <1>2, <1>3, <1>4, <1>5, <1>6, <1>7

\* A command that reads FLAGS reads what both have.
LEMMA FlagsAlike ==
  ASSUME NEW cmd, Agreed(cmd), NEW p \in PU, NEW n, ST5.op \in HasOperand,
         \/ BSreg(ST5) /\ n = B(ST5)
         \/ P2Type(ST5) = "special" /\ n = D(ST5)
  PROVE  SimSpecial(n, p) = Special(isa, n, p)
<1>1. WellFormed(ST5) /\ ~(Reads(ST5, FLAGS) /\ isa.flags # isa.flags1)
  BY ProcessorAgreed, ProgramAgreed DEF PipelineTypes, Differs
<1>2. CASE n = FLAGS
  <2>1. Reads(ST5, FLAGS)
    <3>1. CASE P2Type(ST5) = "special" /\ n = D(ST5)
      <4>1. \/ ST5.mode = "store" /\ Mov(ST5) /\ ST5.spec = "sreg"
            \/ ST5.mode = "reg" /\ ST5.f
        BY <1>1, <3>1, KindTells DEF WellFormed, IsOut, Mov
      <4> QED BY <1>2, <3>1, <4>1 DEF Reads, D, Mov
    <3>2. CASE BSreg(ST5) /\ n = B(ST5) /\ MovArg1(ST5)
      BY <3>1, <3>2 DEF BSreg, B
    <3>3. CASE BSreg(ST5) /\ n = B(ST5) /\ ~MovArg1(ST5)
      BY <1>2, <3>3 DEF Reads, BSreg, B
    <3> QED BY <3>1, <3>2, <3>3
  <2>2. isa.flags = isa.flags1
    BY <1>1, <2>1
  <2>3. Special(isa, n, p) = FlagsWord(isa.flags1[p], p)
    BY <1>2 DEF Special, FLAGS, MEM_LO, MEM_HI, RESULT_LO, RESULT_HI
  <2> QED BY <1>2, <2>2, <2>3 DEF SimSpecial
<1>3. CASE n # FLAGS
  BY <1>3 DEF SimSpecial
<1> QED BY <1>2, <1>3

\* The registers the operands come from are old enough.
LEMMA RegistersReadable ==
  ASSUME NEW cmd, Agreed(cmd), NEW p \in Seeing, ST5.op \in HasOperand
  PROVE  /\ ~BSreg(ST5) => Readable(p, B(ST5))
         /\ P2Type(ST5) = "register" => Readable(p, D(ST5))
<1>1. WellFormed(ST5) /\ MachineTypes
  BY ProcessorAgreed DEF PipelineTypes
<1>2. ST5.a \in Reg /\ ST5.b \in Reg /\ ST5.r \in Reg
  BY <1>1 DEF WellFormed, Commands
<1>3. ASSUME ~BSreg(ST5) PROVE Readable(p, B(ST5))
  <2>1. CASE ST5.op = "MOV" /\ ~MovArg1(ST5)
    <3>1. ST5.b \in LoReg
      BY <1>1, <2>1 DEF WellFormed
    <3> QED BY <2>1, <3>1 DEF Readable, B
  <2>2. CASE MovArg1(ST5)
    <3>1. B(ST5) \in OperandRegisters(ST5) /\ B(ST5) \in Reg
      BY <1>1, <1>2, <1>3, <2>2
      DEF OperandRegisters, B, D, BSreg, P2Type, MovArg1, Mov, IsIn, IsOut, WellFormed, Commands, HasOperand, Arithmetic
    <3> QED BY <1>1, <3>1, OperandReadable
  <2>3. CASE ST5.op # "MOV"
    <3>1. B(ST5) \in OperandRegisters(ST5) /\ B(ST5) \in Reg
      BY <1>2, <1>3, <2>3 DEF OperandRegisters, B, BSreg, MovArg1, Mov
    <3> QED BY <1>1, <3>1, OperandReadable
  <2> QED BY <2>1, <2>2, <2>3
<1>4. ASSUME P2Type(ST5) = "register" PROVE Readable(p, D(ST5))
  <2>1. D(ST5) \in OperandRegisters(ST5) /\ D(ST5) \in Reg
    BY <1>1, <1>2, <1>4 DEF OperandRegisters, D, P2Type, Mov, IsIn, IsOut, WellFormed, Commands
  <2> QED BY <1>1, <2>1, OperandReadable
<1> QED BY <1>3, <1>4

\* The first operand.
LEMMA SimFirstIs ==
  ASSUME NEW cmd, Agreed(cmd), NEW p \in Seeing, ST5.op \in HasOperand
  PROVE  sim.p1[p] = ST5_p1[p]
<1>1. p \in Known /\ p \in PU /\ SimFirstFollows /\ FirstFollows
  BY ProcessorAgreed DEF Agreed, SimFollows, Decodes
<1>2. CASE BSreg(ST5)
  BY <1>1, <1>2, FlagsAlike DEF SimFirstFollows, FirstFollows
<1>3. CASE ~BSreg(ST5)
  <2>1. Readable(p, B(ST5))
    BY <1>3, RegistersReadable
  <2> QED BY <1>1, <1>3, <2>1 DEF SimFirstFollows, FirstFollows
<1> QED BY <1>2, <1>3

\* The cell a unit loads from or stores to.
LEMMA CellIs ==
  ASSUME NEW cmd, Agreed(cmd), NEW p \in PU
  PROVE  SimCell(isa.base2[ST5.r], ST5, p) = Cell(isa, ST5, p)
<1>1. isa.base2[ST5.r] \in Word /\ WellFormed(ST5) /\ Defined(isa, ST5)
  BY ProcessorAgreed DEF Decodes, AddressesFollow, PipelineTypes
<1> DEFINE a == isa.base2[ST5.r] + ST5.off
<1>2. a \in Int
  BY <1>1, Sizes DEF WellFormed, Commands, Word
<1>3. Address(isa, ST5) = a % CacheSize
  BY DEF Address
<1>4. 0 \in PU
  BY Sizes
<1>5. Sim!CellOf(a, 0) = a % CacheSize /\ ((a % CacheSize) % N = 0 => Sim!CellOf(a, p) = (a % CacheSize) + p)
  BY <1>2, SimCellIs
<1>6. SimCell(isa.base2[ST5.r], ST5, p) = Sim!CellOf(a, IF ST5.all THEN p ELSE 0)
  BY DEF SimCell
<1> HIDE DEF a
<1>7. CASE ST5.all
  BY <1>1, <1>3, <1>5, <1>6, <1>7 DEF Defined, Cell
<1>8. CASE ~ST5.all
  BY <1>3, <1>5, <1>6, <1>8 DEF Cell
<1> QED BY <1>7, <1>8

\* The second operand.
LEMMA SimSecondIs ==
  ASSUME NEW cmd, Agreed(cmd), NEW p \in Seeing, ST5.op \in HasOperand
  PROVE  sim.p2[p] = ST5_p2[p]
<1>1. p \in Known /\ p \in PU /\ SimSecondFollows /\ SecondFollows /\ WellFormed(ST5) /\ Decodes
  BY ProcessorAgreed DEF Agreed, SimFollows, Decodes, PipelineTypes
<1>2. ~Differs(beyond, ST5)
  BY ProgramAgreed
<1>3. CASE P2Type(ST5) = "cache"
  <2>1. ST5.mode = "load" /\ ~IsIn(ST5)
    BY <1>1, <1>3, KindTells
  <2>2. sim.p2[p] = isa.cells2[Cell(isa, ST5, p)]
    BY <1>1, <1>3, CellIs DEF SimSecondFollows
  <2>3. isa.cells3[Cell(isa, ST5, p)] = isa.cells2[Cell(isa, ST5, p)]
    BY <1>1, <1>2, <2>1 DEF Differs
  <2>4. p = 0 \/ ~Parallel(ST5) \/ ST5.all
    BY DEF Parallel
  <2>5. ST5_p2[p] = isa.cells3[Cell(isa, ST5, p)]
    BY <1>1, <1>3, <2>4, LaneIsCell DEF SecondFollows
  <2> QED BY <2>2, <2>3, <2>5
<1>4. CASE P2Type(ST5) = "port"
  <2>1. IsIn(ST5)
    BY <1>1, <1>4, KindTells
  <2>2. p = 0
    BY <1>1, <2>1, InputIs
  <2> QED BY <1>1, <1>4, <2>2 DEF SimSecondFollows, SecondFollows
<1>5. CASE P2Type(ST5) = "register"
  <2>1. Readable(p, D(ST5))
    BY <1>5, RegistersReadable
  <2>2. D(ST5) \notin beyond.afterConstant
    <3>1. ST5.mode = "store" \/ (ST5.mode = "reg" /\ ~ST5.f)
      BY <1>1, <1>5, KindTells
    <3> QED BY <1>2, <3>1 DEF Differs, D
  <2> QED BY <1>1, <1>5, <2>1, <2>2 DEF SimSecondFollows, SecondFollows
<1>6. CASE P2Type(ST5) = "special"
  BY <1>1, <1>6, FlagsAlike DEF SimSecondFollows, SecondFollows
<1>7. CASE P2Type(ST5) = "const"
  <2>1. ST5.op \notin Jumps
    BY DEF HasOperand, Arithmetic, Sums, Slow, Multiplications, Jumps
  <2> QED BY <1>1, <1>7, <2>1 DEF SimSecondFollows, SecondFollows
<1> QED BY <1>1, <1>3, <1>4, <1>5, <1>6, <1>7, Kinds

\* A constant.
LEMMA SimConstantIs ==
  ASSUME NEW cmd, Agreed(cmd), ST5.op \in {"CMOV", "CCMOV"}
  PROVE  /\ Begun.p2[0] = ST5.c /\ st5_res(0) = ST5.c /\ st5_mov_res(0) = ST5.c
         /\ Value(isa, ST5, 0) = ST5.c
<1>1. 0 \in Known /\ 0 \in PU /\ SimSecondFollows /\ WellFormed(ST5) /\ Decodes
  BY ProcessorAgreed DEF Agreed, SimFollows, Decodes, PipelineTypes
<1>2. P2Type(ST5) = "const" /\ ST5.op \notin Jumps /\ ~Inv2(ST5)
  BY DEF P2Type, IsIn, HasOperand, Arithmetic, Sums, Slow, Multiplications, Jumps, Inv2
<1>3. sim.p2[0] = ST5.c
  BY <1>1, <1>2 DEF SimSecondFollows
<1>4. Begun.p2 = SecondAfter(sim) /\ sim.st5 = ST5 /\ ~Sim!Inv2(ST5)
  BY <1>1, <1>2, Beginning, SimulatorAgreed, SimDecoded DEF SimStages
<1>5. Begun.p2[0] = ST5.c
  BY <1>1, <1>3, <1>4 DEF SecondAfter
<1>6. st5_res(0) = ST5.c /\ st5_mov_res(0) = ST5.c
  BY <1>1, ConstantIs
<1> QED BY <1>5, <1>6 DEF Value

-----------------------------------------------------------------------------
(* What stage 5 computes. *)
\* The arguments, inverted or not.
LEMMA SimArgumentsAre ==
  ASSUME NEW cmd, Agreed(cmd), NEW p \in Seeing, ST5.op \in HasOperand
  PROVE  Begun.p1[p] = arg1(p) /\ Begun.p2[p] = arg2(p)
<1>1. p \in PU /\ WellFormed(ST5) /\ sim.st5 = ST5
  BY ProcessorAgreed, SimulatorAgreed DEF PipelineTypes, SimStages
<1>2. sim.p1[p] = ST5_p1[p] /\ sim.p2[p] = ST5_p2[p]
  BY SimFirstIs, SimSecondIs
<1>3. Begun.p1 = FirstAfter(sim) /\ Begun.p2 = SecondAfter(sim)
  BY Beginning
<1>4. (Sim!Inv1(ST5) <=> Inv1(ST5)) /\ (Sim!Inv2(ST5) <=> Inv2(ST5))
  BY <1>1, SimDecoded
<1> QED BY <1>1, <1>2, <1>3, <1>4 DEF FirstAfter, SecondAfter, arg1, arg2

\* The result, with the carry above it.
LEMMA SimSumIs ==
  ASSUME NEW cmd, Agreed(cmd), NEW p \in Seeing, ST5.op \in Arithmetic
  PROVE  /\ Sim!Sum(Begun, p) = sum(p) /\ Sim!Res(Begun, p) = st5_res(p)
         /\ Sim!Sum(Begun, p) \div WordRange = st5_carry(p)
<1>1. /\ p \in PU /\ p \in Known /\ WellFormed(ST5) /\ Decodes /\ ST5.op \in HasOperand
      /\ ~Differs(beyond, ST5)
  BY ProcessorAgreed, ProgramAgreed DEF PipelineTypes, HasOperand
<1> DEFINE x == arg1(p)
           y == arg2(p)
           op == ST5.op
           c == IF op \in CarryIn THEN Begun.st5_carry[p] ELSE IF op = "ADD" THEN 0 ELSE 1
<1>2. Begun.p1[p] = x /\ Begun.p2[p] = y /\ Begun.st5 = ST5 /\ Begun.st5_carry = sim.st5_carry
  BY <1>1, SimArgumentsAre, Beginning
<1>3. op \in Sums => c = ST5_add_carry[p]
  <2>1. op \in CarryIn => Begun.st5_carry[p] = isa.carry[p]
    BY <1>1, <1>2 DEF Differs, Agreed, SimFollows, SimCarryFollows
  <2>2. ST5_add_carry[p] = IF op \in CarryIn THEN isa.carry[p]
                           ELSE IF op \in {"RSB", "SUB", "CMP"} THEN 1 ELSE 0
    BY <1>1 DEF Decodes, CarryFollows
  <2> QED BY <2>1, <2>2 DEF Sums, CarryIn
<1>4. Sim!Sum(Begun, p) = CASE op \in {"AND", "TST"} -> And(x, y)
                       [] op = "OR"  -> Or(x, y)
                       [] op = "XOR" -> Xor(x, y)
                       [] op = "RGBSHR" -> Darker(y)
                       [] op = "RGBADD" -> LighterWrapped(x, y)
                       [] op \in Sums -> x + y + c
                       [] OTHER -> IF Sim!MovArg1(ST5) THEN x ELSE y
  <2> HIDE DEF x, y
  <2> QED BY <1>2, SimOperators, Zenon DEF Sim!Sum
<1>5. op = "RGBADD" => Lighter(x, y) = LighterWrapped(x, y)
  <2> SUFFICES ASSUME op = "RGBADD" PROVE Lighter(x, y) = LighterWrapped(x, y)
    OBVIOUS
  <2>1. ~MovArg1(ST5) /\ ~IsIn(ST5) /\ ~Inv1(ST5)
    BY DEF MovArg1, Mov, IsIn, Inv1
  <2>2. First(isa, ST5, p) = x
    BY <1>1, <2>1, FirstIs DEF arg1
  <2>3. Last(isa, ST5, p) = ST5_p2[p]
    BY <1>1, <2>1, LastIs
  <2>4. Inv2(ST5) <=> ST5.mode = "reg" /\ ST5.inv
    BY DEF Inv2
  <2>5. Inverted(ST5, Last(isa, ST5, p)) = y
    BY <2>3, <2>4 DEF Inverted, arg2
  <2> HIDE DEF x, y
  <2> QED BY <1>1, <2>2, <2>5 DEF Differs
<1>6. op = "RGBSHR" => st5_mov_res(p) = y
  BY DEF st5_mov_res, MovArg1, Mov
<1>7. Sim!MovArg1(ST5) <=> MovArg1(ST5)
  BY <1>1, SimDecoded
<1>8. sum(p) = CASE op \in {"AND", "TST"} -> And(x, y)
                       [] op = "OR"  -> Or(x, y)
                       [] op = "XOR" -> Xor(x, y)
                       [] op = "RGBADD" -> Lighter(x, y)
                       [] op = "RGBSHR" -> Darker(st5_mov_res(p))
                       [] op \in Sums -> x + y + ST5_add_carry[p]
                       [] OTHER -> st5_mov_res(p)
  BY DEF sum
<1>9. st5_mov_res(p) = IF MovArg1(ST5) THEN x ELSE y
  BY DEF st5_mov_res
<1> HIDE DEF x, y, c, op
<1>10. Sim!Sum(Begun, p) = sum(p)
  <2>1. CASE op \in Sums
    BY <1>3, <1>4, <1>8, <2>1 DEF Sums
  <2>2. CASE op \notin Sums
    BY <1>4, <1>5, <1>6, <1>7, <1>8, <1>9, <2>2
  <2> QED BY <2>1, <2>2
<1>11. Sim!Res(Begun, p) = Sim!Sum(Begun, p) % WordRange
  BY SimOperators DEF Sim!Res
<1> QED BY <1>10, <1>11 DEF st5_res, st5_carry

\* The word of a port or a special register is the result.
LEMMA MovResultIs ==
  ASSUME PipelineTypes, NEW p \in PU, ST5.op = "MOV"
  PROVE  st5_mov_res(p) = st5_res(p) /\ st5_carry(p) = 0
<1>1. sum(p) = st5_mov_res(p) /\ ST5.op \notin Sums
  BY DEF sum, Sums
<1> QED BY <1>1, SumIsWord

\* A port takes a word from both or from none.
LEMMA SimWrittenIs ==
  ASSUME NEW cmd, Agreed(cmd), IsOut(ST5)
  PROVE  (Sim!Written(Begun) <=> Accepted(isa, ST5)) /\ Begun.peripheralAddr = ST5.a
<1>1. WellFormed(ST5) /\ OnPort(ST5) /\ 0 \in Known
  BY ProcessorAgreed DEF PipelineTypes, OnPort
<1>2. ST5.cond = 0 /\ PortOf(ST5) = ST5.a
  BY <1>1, Decoded DEF WellFormed
<1>3. 0 \in Sim!Enabled(Begun)
  BY <1>1, <1>2, SimMetIs DEF st5_cond_met
<1>4. Begun.st5 = ST5 /\ Begun.log = sim.log /\ sim.log = isa.log
  BY Beginning DEF Agreed, SimFollows, SimPorts
<1>5. Begun.peripheralAddr = ST5.a
  BY <1>1, <1>2, <1>4, SimulatorAgreed DEF CoreTypes, SimCommands
<1> QED BY <1>3, <1>4, <1>5, SimOperators DEF Sim!Written, Accepted

-----------------------------------------------------------------------------
(* Registers. *)
\* What the write of stage 6 leaves.
LEMMA WrittenBack ==
  ASSUME NEW cmd, Agreed(cmd), NEW p \in Known, NEW n \in Reg, n \in LoReg \/ p = 0
  PROVE  RegistersAfter(sim)[p][n] = isa.regs[p][n]
<1>1. p \in PU /\ LoReg \cap HiReg = {} /\ SimRegisters
  BY ProcessorAgreed, InstructionsAssumption DEF Agreed, SimFollows
<1>2. SimulatedRegister(p, n) = isa.regs[p][n]
  BY <1>1 DEF SimRegisters, Reg
<1>3. RegistersAfter(sim)[p][n] = SimulatedRegister(p, n)
  <2>1. RegistersAfter(sim)[p][n] =
          IF sim.st6_wr_reg[p] /\ sim.st6_reg = n THEN sim.st6_data[p]
          ELSE IF n \in HiReg THEN Sim!SharedAfterWrite(sim, n) ELSE sim.regs[p][n]
    BY <1>1 DEF RegistersAfter
  <2>2. CASE n \in LoReg
    BY <1>1, <2>1, <2>2 DEF SimulatedRegister
  <2>3. CASE n \in HiReg /\ p = 0
    BY <2>1, <2>3 DEF SimulatedRegister, Sim!SharedAfterWrite
  <2> QED BY <2>2, <2>3 DEF Reg
<1> QED BY <1>2, <1>3

\* A shared register that is old enough is the same in every unit.
LEMMA SharedAlike ==
  ASSUME NEW cmd, Agreed(cmd), NEW p \in PU, NEW n \in HiReg, isa.age[n] # 1
  PROVE  RegistersAfter(sim)[p][n] = isa.regs[0][n]
<1>1. 0 \in PU /\ SimRegisters
  BY Sizes DEF Agreed, SimFollows
<1>2. ~(sim.st6_wr_reg[p] /\ sim.st6_reg = n) /\ ~(sim.st6_wr_reg[0] /\ sim.st6_reg = n)
  BY <1>1 DEF SimRegisters
<1>3. sim.regs[0][n] = isa.regs[0][n]
  BY <1>1, <1>2 DEF SimRegisters, SimulatedRegister
<1>4. RegistersAfter(sim)[p][n] = Sim!SharedAfterWrite(sim, n)
  BY <1>2 DEF RegistersAfter, Reg
<1> QED BY <1>2, <1>3, <1>4 DEF Sim!SharedAfterWrite

\* What stage 5 hands to stage 6.
LEMMA HandedOn ==
  ASSUME NEW cmd, Agreed(cmd), NEW p \in Seeing
  PROVE  /\ sim'.st6_wr_reg[p] <=> /\ st5_cond_met(p) /\ ToRegister(ST5) /\ ST5.op # "CMOV"
         /\ sim'.st6_wr_reg[p] => sim'.st6_reg = ST5.a /\ sim'.st6_data[p] = st5_res(p)
<1>1. p \in PU /\ p \in Known /\ WellFormed(ST5) /\ Stage5Done(Begun, Done) /\ Begun.st5 = ST5
  BY ProcessorAgreed, SimulatorAgreed, Beginning DEF PipelineTypes
<1>2. p \in Sim!Enabled(Begun) <=> st5_cond_met(p)
  BY <1>1, SimMetIs
<1>3. /\ sim'.st6_wr_reg = Done.st6_wr_reg /\ sim'.st6_reg = Done.st6_reg
      /\ sim'.st6_data = Done.st6_data
  BY Leaves
<1>4. CASE ST5.op \in Arithmetic
  <2>1. /\ Done.st6_wr_reg = WrittenAfter(Begun) /\ Done.st6_data = DataAfter(Begun)
        /\ Done.st6_reg = IF Sim!Enabled(Begun) = {} THEN Begun.st6_reg ELSE ST5.a
    BY <1>1, <1>4 DEF Stage5Done, ArithDone
  <2>2. Sim!WrReg(ST5) <=> ToRegister(ST5)
    BY <1>1, <1>4, SimDecoded, Decoded DEF Arithmetic, Sums
  <2>3. ST5.op # "CMOV"
    BY <1>4 DEF Arithmetic, Sums
  <2>4. Sim!Res(Begun, p) = st5_res(p)
    BY <1>4, SimSumIs
  <2>5. Done.st6_wr_reg[p] = (p \in Sim!Enabled(Begun) /\ Sim!WrReg(ST5))
    BY <1>1, <2>1 DEF WrittenAfter
  <2>6. p \in Sim!Enabled(Begun) => Done.st6_reg = ST5.a /\ Done.st6_data[p] = st5_res(p)
    BY <1>1, <2>1, <2>4 DEF DataAfter
  <2> QED BY <1>2, <1>3, <2>2, <2>3, <2>5, <2>6
<1>5. CASE ST5.op \notin Arithmetic
  <2>1. Done.st6_wr_reg = Begun.st6_wr_reg
    BY <1>1, <1>5 DEF Stage5Done, ArithDone, ArithFields
  <2>2. ~Done.st6_wr_reg[p]
    BY <1>1, <2>1, Beginning DEF Off
  <2>3. ~(ToRegister(ST5) /\ ST5.op # "CMOV")
    BY <1>5 DEF ToRegister
  <2> QED BY <1>3, <2>2, <2>3
<1> QED BY <1>4, <1>5

\* What stage 5 itself leaves in the registers.
LEMMA RegistersLeft ==
  ASSUME NEW cmd, Agreed(cmd), NEW p \in PU, NEW n \in Reg
  PROVE  /\ ~(ST5.op = "CMOV" /\ ~ST5.t /\ n = ST5.a) =>
              sim'.regs[p][n] = RegistersAfter(sim)[p][n]
         /\ ST5.op = "CMOV" /\ ~ST5.t /\ n = ST5.a /\ p \in Known =>
              sim'.regs[p][n] = IF st5_cond_met(p) THEN ST5.c ELSE RegistersAfter(sim)[p][n]
<1>1. Stage5Done(Begun, Done) /\ Begun.st5 = ST5 /\ Begun.regs = RegistersAfter(sim) /\ sim'.regs = Done.regs
  BY SimulatorAgreed, Beginning, Leaves
<1>2. Done.regs = IF ST5.op = "CMOV" THEN ConstantAfter(Begun) ELSE RegistersAfter(sim)
  BY <1>1 DEF Stage5Done, RegisterDone
<1>3. CASE ST5.op = "CMOV" /\ ~ST5.t
  <2>1. sim'.regs[p][n] = IF p \in Sim!Enabled(Begun) /\ n = ST5.a THEN Begun.p2[0]
                                                                   ELSE RegistersAfter(sim)[p][n]
    BY <1>1, <1>2, <1>3 DEF ConstantAfter
  <2>2. Begun.p2[0] = ST5.c
    BY <1>3, SimConstantIs
  <2>3. p \in Known => (p \in Sim!Enabled(Begun) <=> st5_cond_met(p))
    BY SimMetIs
  <2> QED BY <1>3, <2>1, <2>2, <2>3
<1>4. CASE ~(ST5.op = "CMOV" /\ ~ST5.t)
  BY <1>1, <1>2, <1>4 DEF ConstantAfter
<1> QED BY <1>3, <1>4

\* After a clock every register a unit has is the manual's.
LEMMA SimRegisterMoves ==
  ASSUME NEW cmd, Agreed(cmd), NEW p \in Seeing, NEW n \in Reg, n \in LoReg \/ p = 0
  PROVE  (IF sim'.st6_wr_reg[p] /\ sim'.st6_reg = n THEN sim'.st6_data[p] ELSE sim'.regs[p][n])
         = isa'.regs[p][n]
<1>1. /\ p \in PU /\ p \in Known /\ WellFormed(ST5) /\ Decodes /\ Moves /\ MachineTypes
      /\ LoReg \cap HiReg = {}
  BY ProcessorAgreed, InstructionsAssumption DEF PipelineTypes
<1>2. st5_cond_met(p) <=> Met(isa, ST5, p)
  BY <1>1, SimMetIs
<1>3. isa'.regs[p][n] = IF ToRegister(ST5) /\ n = ST5.a /\ st5_cond_met(p)
                          THEN Value(isa, ST5, p) ELSE isa.regs[p][n]
  <2>1. n \in HiReg => p = 0
    BY <1>1
  <2>2. isa'.regs[p][n] = IF ToRegister(ST5) /\ n = ST5.a /\ Met(isa, ST5, IF n \in HiReg THEN 0 ELSE p)
                          THEN Value(isa, ST5, IF n \in HiReg THEN 0 ELSE p)
                          ELSE isa.regs[IF n \in HiReg THEN 0 ELSE p][n]
    BY <1>1, RegisterMoves
  <2>3. (IF n \in HiReg THEN 0 ELSE p) = p
    BY <2>1
  <2> QED BY <1>2, <2>2, <2>3
<1>4. ToRegister(ST5) => Value(isa, ST5, p) = st5_res(p)
  BY <1>1, ValueIs
<1>5. RegistersAfter(sim)[p][n] = isa.regs[p][n]
  BY <1>1, WrittenBack
<1>6. CASE ST5.op = "CMOV"
  <2>1. ~sim'.st6_wr_reg[p]
    BY <1>6, HandedOn
  <2>2. ToRegister(ST5) <=> ~ST5.t
    BY <1>6 DEF ToRegister, ToSpecial, IsOut
  <2>3. Value(isa, ST5, p) = ST5.c
    BY <1>6 DEF Value
  <2>4. sim'.regs[p][n] = IF ~ST5.t /\ n = ST5.a /\ st5_cond_met(p) THEN ST5.c ELSE isa.regs[p][n]
    BY <1>1, <1>5, <1>6, RegistersLeft
  <2> QED BY <1>3, <2>1, <2>2, <2>3, <2>4
<1>7. CASE ST5.op # "CMOV"
  <2>1. sim'.regs[p][n] = isa.regs[p][n]
    BY <1>1, <1>5, <1>7, RegistersLeft
  <2>2. sim'.st6_wr_reg[p] <=> st5_cond_met(p) /\ ToRegister(ST5)
    BY <1>7, HandedOn
  <2>3. sim'.st6_wr_reg[p] => sim'.st6_reg = ST5.a /\ sim'.st6_data[p] = st5_res(p)
    BY HandedOn
  <2> QED BY <1>3, <1>4, <2>1, <2>2, <2>3
<1> QED BY <1>6, <1>7

\* A shared register some unit is about to write is as young as it can be.
LEMMA SharedWriters ==
  ASSUME NEW cmd, Agreed(cmd), NEW p \in PU, NEW n \in HiReg,
         sim'.st6_wr_reg[p], sim'.st6_reg = n
  PROVE  isa'.age[n] = 1
<1>1. WellFormed(ST5) /\ Stage5Done(Begun, Done) /\ Begun.st5 = ST5 /\ Begun.st6_wr_reg = Off /\ MachineTypes /\ Moves
  BY ProcessorAgreed, SimulatorAgreed, Beginning DEF PipelineTypes
<1>2. sim'.st6_wr_reg = Done.st6_wr_reg /\ sim'.st6_reg = Done.st6_reg
  BY Leaves
<1>3. ST5.op \in Arithmetic
  <2> SUFFICES ASSUME ST5.op \notin Arithmetic PROVE FALSE
    OBVIOUS
  <2>1. Done.st6_wr_reg = Begun.st6_wr_reg
    BY <1>1 DEF Stage5Done, ArithDone, ArithFields
  <2> QED BY <1>1, <1>2, <2>1 DEF Off
<1>4. /\ Done.st6_wr_reg = WrittenAfter(Begun)
      /\ Done.st6_reg = IF Sim!Enabled(Begun) = {} THEN Begun.st6_reg ELSE ST5.a
  BY <1>1, <1>3 DEF Stage5Done, ArithDone
<1>5. p \in Sim!Enabled(Begun) /\ Sim!WrReg(ST5)
  BY <1>1, <1>2, <1>4 DEF WrittenAfter
<1>6. ToRegister(ST5) /\ ST5.a = n
  BY <1>1, <1>2, <1>3, <1>4, <1>5, SimDecoded, Decoded DEF Arithmetic, Sums
<1> QED BY <1>1, <1>6, AgeMoves

LEMMA SimRegistersStep ==
  ASSUME NEW cmd, Agreed(cmd)
  PROVE  SimRegisters'
<1>1. Known' = Seeing /\ 0 \in Seeing /\ Decodes /\ Moves /\ MachineTypes /\ Seeing \subseteq Known
  BY ProcessorAgreed
<1>2. \A p \in Known' : \A n \in LoReg : SimulatedRegister(p, n)' = isa'.regs[p][n]
  BY <1>1, SimRegisterMoves DEF SimulatedRegister, Reg
<1>3. ASSUME NEW n \in HiReg
      PROVE  /\ SimulatedRegister(0, n)' = isa'.regs[0][n]
             /\ \A p \in PU : sim'.st6_wr_reg[p] /\ sim'.st6_reg = n => isa'.age[n] = 1
             /\ isa'.age[n] >= 3 => \A p \in PU : sim'.regs[p][n] = isa'.regs[0][n]
  <2>1. SimulatedRegister(0, n)' = isa'.regs[0][n]
    BY <1>1, SimRegisterMoves DEF SimulatedRegister, Reg
  <2>2. \A p \in PU : sim'.st6_wr_reg[p] /\ sim'.st6_reg = n => isa'.age[n] = 1
    BY SharedWriters
  <2>3. ASSUME isa'.age[n] >= 3, NEW p \in PU PROVE sim'.regs[p][n] = isa'.regs[0][n]
    <3>1. isa.age[n] \in Nat \ {0} /\ SharedDelay \in Nat /\ SharedDelay >= 3
      BY <1>1, CoSimulationAssumption DEF MachineTypes
    <3>2. isa'.age[n] = IF ToRegister(ST5) /\ ST5.a = n THEN 1
                        ELSE IF isa.age[n] > SharedDelay THEN isa.age[n] ELSE isa.age[n] + 1
      BY <1>1, AgeMoves
    <3>3. ~(ToRegister(ST5) /\ ST5.a = n) /\ isa.age[n] # 1
      BY <2>3, <3>1, <3>2
    <3>4. RegistersAfter(sim)[p][n] = isa.regs[0][n]
      BY <3>3, SharedAlike
    <3>5. ~(ST5.op = "CMOV" /\ ~ST5.t /\ n = ST5.a)
      BY <3>3 DEF ToRegister, ToSpecial, IsOut
    <3>6. sim'.regs[p][n] = isa.regs[0][n]
      BY <3>4, <3>5, RegistersLeft DEF Reg
    <3>7. 0 \in PU
      BY Sizes
    <3>8. isa'.regs[0][n] = isa.regs[0][n]
      BY <1>1, <3>3, <3>7, RegisterMoves DEF Reg
    <3> QED BY <3>6, <3>8
  <2> QED BY <2>1, <2>2, <2>3
<1> QED BY <1>2, <1>3 DEF SimRegisters

-----------------------------------------------------------------------------
(* Operands and addresses of the next command. *)
\* What the stages after the fifth hand on.
LEMMA HandsOn ==
  ASSUME NEW cmd, Agreed(cmd)
  PROVE  /\ sim'.p1 = SimFirst(Done) /\ sim'.p2 = SimSecond(Done) /\ Done.st4 = ST4 /\ ST5' = ST4
         /\ sim'.st5_reg_r = sim.st4_reg_r /\ sim'.st4_reg_r = sim.st3_reg_r
         /\ sim'.st3_reg_r = AddressAfter(Done) /\ sim'.st3_from_cache = LoadedAfter(Done)
         /\ sim'.st4_from_cache = sim.st3_from_cache
         /\ ST4' = ST3 /\ ST3' = ST2 /\ Done.st2 = ST2
         /\ WellFormed(ST4) /\ WellFormed(ST3) /\ WellFormed(ST2)
<1>1. Passed(Done, sim', cmd)
  BY SimulatorAgreed
<1>2. Advance /\ PipelineTypes
  BY ProcessorAgreed DEF ProcessorClock
<1> QED BY <1>1, <1>2, Ending DEF Passed, Advance, PipelineTypes

\* SimSpecial of the next state.
SimSpecialThen(n, p) == IF n = FLAGS THEN FlagsWord(isa'.flags[p], p) ELSE Special(isa', n, p)

\* The flags and the results the next command sees.
LEMMA SimSpecialIs ==
  ASSUME NEW cmd, Agreed(cmd), NEW p \in Seeing, NEW n \in Specials,
         sim'.flags[p] = isa'.flags[p]
  PROVE  Sim!sreg_in(Done, n, p) = SimSpecialThen(n, p)
<1>1. p \in PU /\ p \in Known /\ Decodes /\ Moves /\ MachineTypes /\ CoreTypes(sim)
  BY ProcessorAgreed, SimulatorAgreed
<1>2. Done.flags[p] = isa'.flags[p]
  BY Leaves
<1>3. isa'.mem1 = isa.mem /\ isa'.seen = [q \in PU |-> Seen(isa, ST5, q)]
  BY <1>1, MachineMoves
<1>4. Done.in_mem_lo = Low(isa'.mem1) /\ Done.in_mem_hi = High(isa'.mem1)
  <2>1. sim.mem_lo \in Word /\ sim.mem_hi \in Word
    BY <1>1 DEF CoreTypes, SimOperands
  <2>2. isa.mem = sim.mem_hi * WordRange + sim.mem_lo
    BY DEF Agreed, SimFollows, SimState
  <2> QED BY <1>3, <2>1, <2>2, PairOf, Ending
<1>5. Done.result[p] = isa'.seen[p][1]
  <2>1. Done.result[p] = ResultAfter(sim)[p]
    BY Ending
  <2>2. ResultAfter(sim)[p] = isa.seen[p][2]
    <3>1. SimResults
      BY DEF Agreed, SimFollows
    <3> QED BY <1>1, <3>1 DEF SimResults, ResultAfter
  <2>3. Multiplying
    BY ProcessorAgreed DEF Multiplying, Agreed, Inv, ProcessorClock, Execute
  <2>4. isa'.seen[p][1] = isa.seen[p][2]
    BY <2>3, SeenIs
  <2> QED BY <2>1, <2>2, <2>4
<1>6. n \in {FLAGS, MEM_LO, MEM_HI, RESULT_LO, RESULT_HI}
  BY DEF Specials
<1>7. Sim!sreg_in(Done, n, p) = CASE n = FLAGS -> FlagsWord(Done.flags[p], p)
                      [] n = MEM_LO -> Done.in_mem_lo
                      [] n = MEM_HI -> Done.in_mem_hi
                      [] n = RESULT_LO -> Done.result[p].lo
                      [] n = RESULT_HI -> Done.result[p].hi
  BY SimOperators, Zenon DEF Sim!sreg_in
<1>8. CASE n = FLAGS
  <2>1. Sim!sreg_in(Done, n, p) = FlagsWord(Done.flags[p], p)
    BY <1>7, <1>8 DEF FLAGS, MEM_LO, MEM_HI, RESULT_LO, RESULT_HI
  <2> QED BY <1>2, <1>8, <2>1 DEF SimSpecialThen
<1>9. CASE n # FLAGS
  BY <1>4, <1>5, <1>6, <1>7, <1>9 DEF SimSpecialThen, Special, FLAGS, MEM_LO, MEM_HI, RESULT_LO, RESULT_HI
<1> QED BY <1>8, <1>9

\* Registers as the command in stage 4 reads them.
LEMMA SimReads ==
  ASSUME NEW cmd, Agreed(cmd), NEW p \in Seeing, NEW n \in Reg, ReadableThen(p, n)
  PROVE  /\ RegistersAfter(sim)[p][n] = isa.regs[p][n]
         /\ (IF sim'.st6_wr_reg[p] /\ sim'.st6_reg = n THEN sim'.st6_data[p] ELSE sim'.regs[p][n])
            = isa'.regs[p][n]
<1>1. /\ p \in PU /\ p \in Known /\ 0 \in Seeing /\ Inv /\ Inv' /\ MachineTypes /\ Moves
      /\ 0 \in PU
  BY ProcessorAgreed, Sizes DEF Agreed
<1>2. CASE n \in LoReg \/ p = 0
  BY <1>1, <1>2, WrittenBack, SimRegisterMoves
<1>3. CASE ~(n \in LoReg \/ p = 0)
  <2>1. n \in HiReg /\ isa'.age[n] > SharedDelay
    BY <1>3 DEF ReadableThen, Reg
  <2>2. isa.age[n] \in Nat \ {0} /\ SharedDelay \in Nat /\ SharedDelay >= 3
    BY <1>1, <2>1, CoSimulationAssumption DEF MachineTypes
  <2>3. isa'.age[n] = IF ToRegister(ST5) /\ ST5.a = n THEN 1
                      ELSE IF isa.age[n] > SharedDelay THEN isa.age[n] ELSE isa.age[n] + 1
    BY <1>1, <2>1, AgeMoves
  <2>4. isa'.age[n] >= 3 /\ isa'.age[n] # 1 /\ isa.age[n] # 1
    BY <2>1, <2>2, <2>3
  <2>5. RegistersAfter(sim)[p][n] = isa.regs[0][n]
    BY <1>1, <2>1, <2>4, SharedAlike
  <2>6. isa.regs[p][n] = isa.regs[0][n] /\ isa'.regs[p][n] = isa'.regs[0][n]
    BY <1>1, <2>1 DEF Inv, RegistersFollow
  <2>7. SimRegisters'
    BY SimRegistersStep
  <2>8. sim'.regs[p][n] = isa'.regs[0][n] /\ ~(sim'.st6_wr_reg[p] /\ sim'.st6_reg = n)
    BY <1>1, <2>1, <2>4, <2>7 DEF SimRegisters
  <2> QED BY <2>5, <2>6, <2>8
<1> QED BY <1>2, <1>3

LEMMA SimFirstStep ==
  ASSUME NEW cmd, Agreed(cmd), \A p \in Seeing : sim'.flags[p] = isa'.flags[p]
  PROVE  SimFirstFollows'
<1> SUFFICES ASSUME ST4.op \in HasOperand, NEW p \in Seeing
             PROVE  IF BSreg(ST4) THEN sim'.p1[p] = SimSpecialThen(B(ST4), p)
                    ELSE ReadableThen(p, B(ST4)) => sim'.p1[p] = isa'.regs[p][B(ST4)]
  <2>1. Known' = Seeing /\ ST5' = ST4
    BY ProcessorAgreed, HandsOn
  <2> QED BY <2>1 DEF SimFirstFollows, Readable, ReadableThen, SimSpecial, SimSpecialThen
<1>1. p \in PU /\ PipelineTypes /\ WellFormed(ST4)
  BY ProcessorAgreed, HandsOn
<1>2. sim'.p1[p] = IF BSreg(ST4) THEN Sim!sreg_in(Done, B(ST4), p)
                   ELSE IF Done.st6_wr_reg[p] /\ Done.st6_reg = B(ST4) THEN Done.st6_data[p]
                   ELSE Done.regs[p][B(ST4)]
  <2>1. sim'.p1 = SimFirst(Done) /\ Done.st4 = ST4
    BY HandsOn
  <2>2. SimB(ST4) = B(ST4) /\ (SimBSreg(ST4) <=> BSreg(ST4))
    BY <1>1, SimDecoded
  <2>3. sim'.p1[p] = IF SimBSreg(ST4) THEN Sim!sreg_in(Done, SimB(ST4), p)
                     ELSE IF Done.st6_wr_reg[p] /\ Done.st6_reg = SimB(ST4) THEN Done.st6_data[p]
                     ELSE Done.regs[p][SimB(ST4)]
    BY <1>1, <2>1 DEF SimFirst
  <2> QED BY <2>2, <2>3
<1>3. B(ST4) \in Reg /\ (BSreg(ST4) => B(ST4) \in Specials)
  BY <1>1, StageFourFields
<1>4. CASE BSreg(ST4)
  BY <1>2, <1>3, <1>4, SimSpecialIs
<1>5. CASE ~BSreg(ST4)
  <2> SUFFICES ASSUME ReadableThen(p, B(ST4)) PROVE sim'.p1[p] = isa'.regs[p][B(ST4)]
    BY <1>5
  <2>1. (IF sim'.st6_wr_reg[p] /\ sim'.st6_reg = B(ST4) THEN sim'.st6_data[p] ELSE sim'.regs[p][B(ST4)])
            = isa'.regs[p][B(ST4)]
    BY <1>3, SimReads
  <2> QED BY <1>2, <1>5, <2>1, Leaves
<1> QED BY <1>4, <1>5

LEMMA SimSecondStep ==
  ASSUME NEW cmd, Agreed(cmd), \A p \in Seeing : sim'.flags[p] = isa'.flags[p]
  PROVE  SimSecondFollows'
<1>1. /\ Known' = Seeing /\ PipelineTypes /\ MachineTypes /\ Moves /\ WellFormed(ST4)
      /\ sim'.p2 = SimSecond(Done) /\ Done.st4 = ST4 /\ ST5' = ST4 /\ Seeing \subseteq PU
  BY ProcessorAgreed, HandsOn
<1>2. Sim!P2Type(ST4) = P2Type(ST4) /\ Sim!DField(ST4) = D(ST4)
  BY <1>1, SimDecoded
<1>3. \A p \in Seeing : sim'.p2[p] = SimSecondOf(Done, p)
  BY <1>1 DEF SimSecond
<1>4. /\ isa'.cells2 = isa.cells1 /\ isa'.base2 = isa.regs1[0] /\ isa'.regs1 = isa.regs
  BY <1>1, MachineMoves
<1>5. D(ST4) \in Reg /\ (P2Type(ST4) = "special" => D(ST4) \in Specials)
  BY <1>1, StageFourFields
<1> SUFFICES ASSUME NEW p \in Seeing
             PROVE  /\ P2Type(ST4) = "cache" =>
                         sim'.p2[p] = isa'.cells2[SimCell(isa'.base2[ST4.r], ST4, p)]
                    /\ P2Type(ST4) = "port" /\ p = 0 =>
                         sim'.p2[p] = PortByte(PortOf(ST4), isa'.taken[PortOf(ST4)])
                    /\ P2Type(ST4) = "register" /\ ReadableThen(p, D(ST4))
                         /\ D(ST4) \notin beyond'.afterConstant =>
                         sim'.p2[p] = isa'.regs1[p][D(ST4)]
                    /\ P2Type(ST4) = "special" => sim'.p2[p] = SimSpecialThen(D(ST4), p)
                    /\ P2Type(ST4) = "const" /\ ST4.op \notin Jumps => sim'.p2[p] = ST4.c
  <2> QED BY <1>1 DEF SimSecondFollows, Readable, ReadableThen, SimSpecial, SimSpecialThen, SimCell
<1>6. p \in PU /\ p \in Known
  BY ProcessorAgreed
<1>7. CASE P2Type(ST4) = "cache"
  <2>1. sim'.p2[p] = sim.st4_from_cache[p]
    BY <1>2, <1>3, <1>7, <1>1, Ending DEF SimSecondOf
  <2>2. sim.st4_from_cache[p] = isa.cells1[SimCell(isa.regs1[0][ST4.r], ST4, p)]
    BY <1>6, <1>7 DEF Agreed, SimFollows, SimLoads
  <2> QED BY <1>4, <1>7, <2>1, <2>2
<1>8. CASE P2Type(ST4) = "port"
  <2> SUFFICES ASSUME p = 0
               PROVE  sim'.p2[p] = PortByte(PortOf(ST4), isa'.taken[PortOf(ST4)])
    BY <1>8
  <2>1. IsIn(ST4) /\ OnPort(ST4)
    BY <1>1, <1>8, KindTells DEF OnPort
  <2>2. PortAfter(Done) = PortOf(ST4) /\ PortOf(ST4) \in Ports
    BY <1>1, <2>1, PortAfterIs
  <2>3. sim'.p2[p] = PortByte(PortOf(ST4), sim.taken[PortOf(ST4)])
    BY <1>1, <1>2, <1>3, <1>8, <2>2, Ending DEF SimSecondOf
  <2>4. sim.taken[PortOf(ST4)] = isa.taken[PortOf(ST4)]
                                 + (IF IsIn(ST5) /\ PortOf(ST5) = PortOf(ST4) THEN 1 ELSE 0)
    BY <2>2 DEF Agreed, SimFollows, SimPorts
  <2>5. isa'.taken[PortOf(ST4)] = isa.taken[PortOf(ST4)]
                                 + (IF IsIn(ST5) /\ PortOf(ST5) = PortOf(ST4) THEN 1 ELSE 0)
    BY <1>1, <2>2, TakenMoves
  <2> QED BY <2>3, <2>4, <2>5
<1>9. CASE P2Type(ST4) = "register"
  <2> SUFFICES ASSUME ReadableThen(p, D(ST4)), D(ST4) \notin beyond'.afterConstant
               PROVE  sim'.p2[p] = isa'.regs1[p][D(ST4)]
    BY <1>9
  <2>1. sim'.p2[p] = sim'.regs[p][D(ST4)]
    BY <1>1, <1>2, <1>3, <1>9, Leaves DEF SimSecondOf
  <2>2. ~(ST5.op = "CMOV" /\ ~ST5.t /\ D(ST4) = ST5.a)
    BY ProgramAgreed
  <2>3. sim'.regs[p][D(ST4)] = RegistersAfter(sim)[p][D(ST4)]
    BY <1>5, <1>6, <2>2, RegistersLeft
  <2>4. RegistersAfter(sim)[p][D(ST4)] = isa.regs[p][D(ST4)]
    BY <1>5, SimReads
  <2> QED BY <1>4, <2>1, <2>3, <2>4
<1>10. CASE P2Type(ST4) = "special"
  <2>1. sim'.p2[p] = Sim!sreg_in(Done, D(ST4), p)
    BY <1>1, <1>2, <1>3, <1>10 DEF SimSecondOf
  <2>2. Sim!sreg_in(Done, D(ST4), p) = SimSpecialThen(D(ST4), p)
    BY <1>5, <1>10, SimSpecialIs
  <2> QED BY <1>10, <2>1, <2>2
<1>11. CASE P2Type(ST4) = "const"
  <2> SUFFICES ASSUME ST4.op \notin Jumps PROVE sim'.p2[p] = ST4.c
    BY <1>11
  <2>1. sim'.p2[p] = ST4.c % WordRange
    BY <1>1, <1>2, <1>3, <1>11, SimOperators DEF SimSecondOf
  <2>2. ST4.c \in Word
    BY <1>1 DEF WellFormed
  <2> QED BY <2>1, <2>2, WordBits
<1> QED BY <1>1, <1>7, <1>8, <1>9, <1>10, <1>11, Kinds

LEMMA SimCarryStep ==
  ASSUME NEW cmd, Agreed(cmd)
  PROVE  SimCarryFollows'
<1> SUFFICES ASSUME ST5.op \in Arithmetic, ST5.cond = 0, NEW p \in Seeing
             PROVE  sim'.st5_carry[p] = isa'.carry[p]
  BY ProcessorAgreed, ProgramAgreed DEF SimCarryFollows
<1>1. /\ p \in PU /\ p \in Known /\ Decodes /\ MachineTypes /\ Moves /\ PipelineTypes
      /\ Stage5Done(Begun, Done) /\ Begun.st5 = ST5
  BY ProcessorAgreed, SimulatorAgreed, Beginning
<1>2. p \in Sim!Enabled(Begun)
  BY <1>1, SimMetIs DEF st5_cond_met
<1>3. Done.st5_carry = CarryAfter(Begun)
  BY <1>1 DEF Stage5Done, ArithDone
<1>4. sim'.st5_carry[p] = Sim!Sum(Begun, p) \div WordRange
  BY <1>1, <1>2, <1>3, Leaves DEF CarryAfter
<1>5. sim'.st5_carry[p] = st5_carry(p)
  BY <1>4, SimSumIs
<1>6. isa'.carry[p] = CarryOut(isa, ST5, p)
  BY <1>1, MachineMoves
<1>7. CASE IsIn(ST5)
  <2>1. ST5.op \notin Sums
    BY <1>7 DEF IsIn, Sums
  <2> QED BY <1>1, <1>5, <1>6, <2>1, SumIsWord DEF CarryOut
<1>8. CASE ~IsIn(ST5)
  BY <1>1, <1>5, <1>6, <1>8, ResultIs
<1> QED BY <1>7, <1>8

LEMMA SimAddressesStep ==
  ASSUME NEW cmd, Agreed(cmd)
  PROVE  SimAddresses'
<1>1. /\ isa'.base2 = isa.regs1[0] /\ isa'.regs1 = isa.regs
      /\ ST5' = ST4 /\ ST4' = ST3 /\ ST3' = ST2 /\ SimAddresses /\ 0 \in Seeing
  BY ProcessorAgreed, MachineMoves, HandsOn DEF Agreed, SimFollows
<1>2. sim'.st5_reg_r = sim.st4_reg_r /\ sim'.st4_reg_r = sim.st3_reg_r
  BY HandsOn
<1>3. sim'.st3_reg_r = isa'.regs[0][ST2.r]
  <2>1. ST2.r \in Reg
    BY HandsOn DEF WellFormed, Commands
  <2>2. (IF sim'.st6_wr_reg[0] /\ sim'.st6_reg = ST2.r THEN sim'.st6_data[0] ELSE sim'.regs[0][ST2.r])
        = isa'.regs[0][ST2.r]
    BY <1>1, <2>1, SimRegisterMoves
  <2>3. sim'.st3_reg_r = AddressAfter(Done) /\ Done.st2 = ST2
    BY HandsOn
  <2> QED BY <2>2, <2>3, Leaves DEF AddressAfter
<1>4. Addressing(ST5)' = Addressing(ST4) /\ Addressing(ST4)' = Addressing(ST3)
  BY <1>1 DEF Addressing
<1> QED BY <1>1, <1>2, <1>3, <1>4 DEF SimAddresses

-----------------------------------------------------------------------------
(* Flags, ports, requests. *)
LEMMA FlagOrder ==
  ASSUME NEW n, NEW z, NEW v, NEW c
  PROVE  [N |-> n, Z |-> z, C |-> c, V |-> v] = [N |-> n, Z |-> z, V |-> v, C |-> c]
OBVIOUS

LEMMA SimFlagsStep ==
  ASSUME NEW cmd, Agreed(cmd), NEW p \in Seeing
  PROVE  sim'.flags[p] = isa'.flags[p]
<1>1. /\ p \in PU /\ p \in Known /\ p \in Known' /\ Inv' /\ WellFormed(ST5) /\ Decodes
      /\ Stage5Done(Begun, Done) /\ Begun.st5 = ST5 /\ Begun.flags = sim.flags
      /\ Begun.p2type = sim.p2type /\ Begun.rd_ok = sim.rd_ok
  BY ProcessorAgreed, SimulatorAgreed, Beginning DEF PipelineTypes
<1>2. flags'[p] = isa'.flags[p] /\ flags'[p] = SetFlagsOf(p)
  BY <1>1, ProcessorAgreed DEF Inv, FlagsFollow, ProcessorClock, Execute
<1>3. sim.flags[p] = flags[p]
  BY <1>1 DEF Agreed, SimFollows, SimState, Inv, FlagsFollow
<1>4. p \in Sim!Enabled(Begun) <=> st5_cond_met(p)
  BY <1>1, SimMetIs
<1> SUFFICES sim'.flags[p] = SetFlagsOf(p)
  BY <1>2
<1>5. CASE ~(st5_cond_met(p) /\ SetFlags(ST5))
  <2>1. SetFlagsOf(p) = sim.flags[p]
    BY <1>3, <1>5 DEF SetFlagsOf
  <2>2. CASE ST5.op \in Arithmetic
    <3>1. Done.flags = SimFlagsAfter(Begun)
      BY <1>1, <2>2 DEF Stage5Done, ArithDone
    <3>2. ~(p \in Sim!Enabled(Begun) /\ ST5.set)
      BY <1>4, <1>5, <2>2 DEF SetFlags
    <3>3. Done.flags[p] = sim.flags[p]
      BY <1>1, <3>1, <3>2 DEF SimFlagsAfter
    <3> QED BY <2>1, <3>3, Leaves
  <2>3. CASE ST5.op \notin Arithmetic
    <3>1. Done.flags = Begun.flags
      BY <1>1, <2>3 DEF Stage5Done, ArithDone, ArithFields
    <3> QED BY <1>1, <2>1, <3>1, Leaves
  <2> QED BY <2>2, <2>3
<1>6. CASE st5_cond_met(p) /\ SetFlags(ST5)
  <2>1. ST5.op \in Arithmetic /\ ST5.set
    BY <1>6 DEF SetFlags
  <2>2. Done.flags = SimFlagsAfter(Begun)
    BY <1>1, <2>1 DEF Stage5Done, ArithDone
  <2>3. sim'.flags[p] = Sim!FlagsOf(Begun, p, Sim!Sum(Begun, p), Sim!Written(Begun))
    BY <1>1, <1>4, <1>6, <2>1, <2>2, Leaves DEF SimFlagsAfter
  <2>4. sim.p2type = P2Type(ST5) /\ (IsIn(ST5) => sim.rd_ok)
    BY <1>1, SimulatorAgreed, SimDecoded DEF CoreTypes, SimCommands, SimStages
  <2>5. P2Type(ST5) = "port" <=> IsIn(ST5)
    BY <1>1, KindTells DEF P2Type
  <2>6. OnPort(ST5) => p = 0
    BY <2>1 DEF OnPort, Seeing, Unknown
  <2>7. CASE OnPort(ST5)
    <3>1. Sim!FlagsOf(Begun, p, Sim!Sum(Begun, p), Sim!Written(Begun)) =
            [N |-> IF IsOut(ST5) THEN ~(p = 0 /\ Sim!Written(Begun)) ELSE ~Begun.rd_ok,
             Z |-> FALSE, V |-> FALSE, C |-> FALSE]
      <4>1. Begun.p2type = "port" \/ Sim!IsOut(ST5)
        BY <1>1, <2>4, <2>5, <2>7, SimOperators DEF OnPort
      <4>2. Sim!IsOut(ST5) <=> IsOut(ST5)
        BY SimOperators
      <4> QED BY <1>1, <4>1, <4>2 DEF Sim!FlagsOf
    <3>2. SetFlagsOf(p) = [N |-> ~peripheral_success, Z |-> FALSE, V |-> FALSE, C |-> FALSE]
      BY <1>6, <2>6, <2>7 DEF SetFlagsOf
    <3>3. PortsFollow
      BY DEF Agreed, Inv
    <3>4. CASE IsIn(ST5)
      <4>1. ~IsOut(ST5) /\ peripheral_success /\ Begun.rd_ok
        BY <1>1, <2>4, <3>3, <3>4, Decoded DEF peripheral_success, PortsFollow
      <4> QED BY <2>3, <3>1, <3>2, <4>1
    <3>5. CASE IsOut(ST5)
      <4>1. Sim!Written(Begun) <=> Accepted(isa, ST5)
        BY <3>5, SimWrittenIs
      <4>2. peripheral_success <=> Accepted(isa, ST5)
        BY <1>1, <3>3, <3>5, AcceptedIs DEF peripheral_success, Decodes
      <4> QED BY <2>3, <2>6, <2>7, <3>1, <3>2, <3>5, <4>1, <4>2
    <3> QED BY <2>7, <3>4, <3>5 DEF OnPort
  <2>8. CASE ~OnPort(ST5)
    <3> DEFINE r == st5_res(p)
               v == TopBit(st5_res(p)) + TopBit(arg1(p)) + TopBit(arg2(p)) + st5_carry(p)
    <3>1. SetFlagsOf(p) = [N |-> TopBit(r) = 1, Z |-> r = 0, V |-> v % 2 = 1, C |-> st5_carry(p) = 1]
      BY <1>6, <2>8, Zenon DEF SetFlagsOf
    <3>2. ~(Begun.p2type = "port" \/ Sim!IsOut(Begun.st5))
      BY <1>1, <2>4, <2>5, <2>8, SimOperators DEF OnPort
    <3>3. /\ Begun.p1[p] = arg1(p) /\ Begun.p2[p] = arg2(p)
          /\ Sim!Sum(Begun, p) \div WordRange = st5_carry(p)
          /\ Sim!Sum(Begun, p) % WordRange = r
      <4>1. ST5.op \in HasOperand
        BY <2>1 DEF HasOperand
      <4> QED BY <2>1, <4>1, SimArgumentsAre, SimSumIs DEF st5_res
    <3>4. Sim!FlagsOf(Begun, p, Sim!Sum(Begun, p), Sim!Written(Begun)) =
            [N |-> TopBit(r) = 1, Z |-> r = 0, V |-> v % 2 = 1, C |-> st5_carry(p) = 1]
      <4> DEFINE s == Sim!Sum(Begun, p)
      <4>1. Sim!FlagsOf(Begun, p, s, Sim!Written(Begun)) =
              [N |-> TopBit(s % WordRange) = 1, Z |-> s % WordRange = 0,
               C |-> s \div WordRange = 1,
               V |-> (TopBit(s % WordRange) + TopBit(Begun.p1[p]) + TopBit(Begun.p2[p])
                      + s \div WordRange) % 2 = 1]
        <5> HIDE DEF s
        <5> QED BY <3>2, SimOperators, Zenon DEF Sim!FlagsOf
      <4>2. /\ s % WordRange = r /\ s \div WordRange = st5_carry(p)
        BY <3>3
      <4>3. (TopBit(s % WordRange) + TopBit(Begun.p1[p]) + TopBit(Begun.p2[p])
             + s \div WordRange) = v
        <5> HIDE DEF s
        <5> QED BY <3>3, <4>2, Zenon
      <4> HIDE DEF s, r, v
      <4>4. Sim!FlagsOf(Begun, p, s, Sim!Written(Begun)) =
              [N |-> TopBit(r) = 1, Z |-> r = 0, C |-> st5_carry(p) = 1, V |-> v % 2 = 1]
        BY <4>1, <4>2, <4>3, Zenon
      <4>5. [N |-> TopBit(r) = 1, Z |-> r = 0, C |-> st5_carry(p) = 1, V |-> v % 2 = 1]
            = [N |-> TopBit(r) = 1, Z |-> r = 0, V |-> v % 2 = 1, C |-> st5_carry(p) = 1]
        BY FlagOrder, Zenon
      <4> QED BY <4>4, <4>5, Zenon DEF s
    <3> QED BY <2>3, <3>1, <3>4
  <2> QED BY <2>7, <2>8
<1> QED BY <1>5, <1>6

-----------------------------------------------------------------------------
\* A word goes to a port in both or in none.
LEMMA SimLogStep ==
  ASSUME NEW cmd, Agreed(cmd)
  PROVE  sim'.log = isa'.log
<1>1. /\ 0 \in PU /\ 0 \in Seeing /\ WellFormed(ST5) /\ Decodes /\ MachineTypes /\ Moves
      /\ Stage5Done(Begun, Done) /\ Begun.st5 = ST5 /\ Begun.log = sim.log
      /\ sim'.log = Done.log
  BY ProcessorAgreed, SimulatorAgreed, Beginning, Leaves, Sizes DEF PipelineTypes
<1>2. isa'.log = Logged(isa, ST5)
  BY <1>1, MachineMoves
<1>3. sim.log = isa.log
  BY DEF Agreed, SimFollows, SimPorts
<1>4. CASE IsOut(ST5)
  <2>1. ST5.op = "MOV" /\ ST5.op \in Arithmetic
    BY <1>4 DEF IsOut, Arithmetic
  <2>2. Done.log = LogAfter(Begun)
    BY <1>1, <2>1 DEF Stage5Done, ArithDone
  <2>3. (Sim!Written(Begun) <=> Accepted(isa, ST5)) /\ Begun.peripheralAddr = ST5.a
    BY <1>4, SimWrittenIs
  <2>4. Sim!Res(Begun, 0) = Value(isa, ST5, 0)
    <3>1. Sim!Res(Begun, 0) = st5_res(0)
      BY <1>1, <2>1, SimSumIs
    <3>2. st5_mov_res(0) = st5_res(0)
      BY <1>1, <2>1, MovResultIs DEF Decodes
    <3>3. Value(isa, ST5, 0) = st5_mov_res(0)
      BY <1>1, <1>4, ValueIs
    <3> QED BY <3>1, <3>2, <3>3
  <2>5. Sim!Logged(Begun) = [isa.log EXCEPT ![ST5.a] = Append(@, Value(isa, ST5, 0))]
    BY <1>1, <1>3, <2>3, <2>4 DEF Sim!Logged
  <2> QED BY <1>1, <1>2, <1>3, <1>4, <2>2, <2>3, <2>5 DEF LogAfter, Logged
<1>5. CASE ~IsOut(ST5)
  <2>1. isa'.log = isa.log
    BY <1>2, <1>5 DEF Logged
  <2>2. CASE ST5.op \in Arithmetic
    <3>1. Done.log = LogAfter(Begun)
      BY <1>1, <2>2 DEF Stage5Done, ArithDone
    <3>2. ~Sim!Written(Begun)
      BY <1>1, <1>5, SimOperators DEF Sim!Written
    <3> QED BY <1>1, <1>3, <2>1, <3>1, <3>2 DEF LogAfter
  <2>3. CASE ST5.op \notin Arithmetic
    <3>1. Done.log = Begun.log
      BY <1>1, <2>3 DEF Stage5Done, ArithDone, ArithFields
    <3> QED BY <1>1, <1>3, <2>1, <3>1
  <2> QED BY <2>2, <2>3
<1> QED BY <1>4, <1>5

LEMMA SimPortsStep ==
  ASSUME NEW cmd, Agreed(cmd)
  PROVE  SimPorts'
<1>1. sim'.log = isa'.log
  BY SimLogStep
<1>2. ASSUME NEW d \in Ports
      PROVE  sim'.taken[d] = isa'.taken[d] + (IF IsIn(ST5') /\ PortOf(ST5') = d THEN 1 ELSE 0)
  <2>1. /\ isa'.taken[d] = isa.taken[d] + (IF IsIn(ST5) /\ PortOf(ST5) = d THEN 1 ELSE 0)
        /\ MachineTypes
    BY ProcessorAgreed, TakenMoves
  <2>2. sim.taken[d] = isa.taken[d] + (IF IsIn(ST5) /\ PortOf(ST5) = d THEN 1 ELSE 0)
    BY DEF Agreed, SimFollows, SimPorts
  <2>3. sim'.taken = TakenAfter(Done) /\ Done.st4 = ST4 /\ Done.taken = sim.taken
    BY SimulatorAgreed, Ending DEF Passed
  <2>4. ST5' = ST4 /\ WellFormed(ST4)
    BY HandsOn
  <2>5. sim.taken \in [Ports -> Nat]
    BY SimulatorAgreed DEF CoreTypes, SimCommands
  <2>6. CASE IsIn(ST4)
    <3>1. PortAfter(Done) = PortOf(ST4) /\ PortOf(ST4) \in Ports
      BY <2>3, <2>4, <2>6, PortAfterIs DEF OnPort
    <3>2. sim'.taken = [sim.taken EXCEPT ![PortOf(ST4)] = sim.taken[PortOf(ST4)] + 1]
      BY <2>3, <2>6, <3>1 DEF TakenAfter
    <3> QED BY <2>1, <2>2, <2>4, <2>5, <2>6, <3>1, <3>2
  <2>7. CASE ~IsIn(ST4)
    <3>1. sim'.taken = sim.taken
      BY <2>3, <2>7 DEF TakenAfter
    <3>2. sim.taken[d] \in Nat
      BY <2>5
    <3> QED BY <2>1, <2>2, <2>4, <2>7, <3>1, <3>2
  <2> QED BY <2>6, <2>7
<1> QED BY <1>1, <1>2 DEF SimPorts, IsIn, PortOf

\* A transfer is started with what the manual says.
LEMMA SimRequestStep ==
  ASSUME NEW cmd, Agreed(cmd)
  PROVE  SimRequest'
<1>1. /\ 0 \in PU /\ 0 \in Seeing /\ 0 \in Known /\ WellFormed(ST5) /\ Decodes /\ MachineTypes
      /\ Moves /\ Stage5Done(Begun, Done) /\ Begun.st5 = ST5
      /\ Begun.mem_lo = sim.mem_lo /\ Begun.mem_hi = sim.mem_hi
  BY ProcessorAgreed, SimulatorAgreed, Beginning, Sizes DEF PipelineTypes
<1>2. isa'.request = Request(isa, ST5)
  BY <1>1, MachineMoves
<1> SUFFICES ASSUME isa'.request.start
             PROVE  SimRequest'
  BY DEF SimRequest
<1>3. ST5.op = "RW" /\ Met(isa, ST5, 0)
  BY <1>2 DEF Request, NoRequest
<1>4. ST5.op \in HasOperand /\ ~IsIn(ST5) /\ ~MovArg1(ST5)
  BY <1>3 DEF HasOperand, IsIn, MovArg1, Mov
<1>5. isa'.request = [start |-> TRUE, write |-> ST5.set, address |-> isa.mem,
                      cell |-> First(isa, ST5, 0), count |-> Last(isa, ST5, 0)]
  BY <1>2, <1>3 DEF Request
<1>6. /\ isa'.request.write = ST5.set /\ isa'.request.address = isa.mem
      /\ isa'.request.cell = First(isa, ST5, 0) /\ isa'.request.count = Last(isa, ST5, 0)
  BY <1>5
<1>7. First(isa, ST5, 0) = ST5_p1[0] /\ Last(isa, ST5, 0) = ST5_p2[0]
  BY <1>1, <1>4, FirstIs, LastIs
<1>8. Begun.p1[0] = arg1(0) /\ Begun.p2[0] = arg2(0)
  BY <1>1, <1>4, SimArgumentsAre
<1>9. ~Inv1(ST5) /\ ~Inv2(ST5)
  BY <1>3 DEF Inv1, Inv2, MovArg1, Mov, Arithmetic, Sums
<1>10. Begun.cond_met[0]
  BY <1>1, <1>3, SimMetIs
<1>11. /\ Done.ram_count = Begun.p2[0] /\ Done.ram_write = ST5.set
       /\ Done.ram_cache_addr = Begun.p1[0] % CacheSize
       /\ Done.ram_addr = (Begun.mem_hi * WordRange + Begun.mem_lo) % MemorySize
  BY <1>1, <1>3, <1>10 DEF Stage5Done, TransferDone
<1>12. sim.mem_hi * WordRange + sim.mem_lo = isa.mem
  BY DEF Agreed, SimFollows, SimState
<1>13. /\ sim'.ram_count = Done.ram_count /\ sim'.ram_write = Done.ram_write
       /\ sim'.ram_cache_addr = Done.ram_cache_addr /\ sim'.ram_addr = Done.ram_addr
  BY Leaves
<1>14. arg1(0) = ST5_p1[0] /\ arg2(0) = ST5_p2[0]
  BY <1>9 DEF arg1, arg2
<1>15. sim'.ram_addr = isa'.request.address % MemorySize
  BY <1>1, <1>6, <1>11, <1>12, <1>13
<1>16. sim'.ram_count = isa'.request.count /\ sim'.ram_write = isa'.request.write
  BY <1>6, <1>7, <1>8, <1>11, <1>13, <1>14
<1>17. sim'.ram_cache_addr = isa'.request.cell % CacheSize
  BY <1>6, <1>7, <1>8, <1>11, <1>13, <1>14
<1> QED BY <1>15, <1>16, <1>17 DEF SimRequest

-----------------------------------------------------------------------------
(* MEM_ADDR, the return address of a call included. *)
LEMMA SimReturn ==
  ASSUME NEW cmd, Agreed(cmd), ST5.op \in Jumps, ST5.link
  PROVE  /\ 2 * (sim.ip + 1) = 2 * ip_plus_1
         /\ 2 * (sim.ip + 1) \in 0 .. WordRange * WordRange - 1
<1>1. MachineTypes /\ ControlFollows /\ ip \in 0 .. IpRange - 1
  BY ProcessorAgreed DEF Agreed, Inv, PipelineTypes
<1>2. sim.ip = ip
  BY DEF Agreed, SimFollows, SimState
<1>3. ReturnAddress(isa, ST5) # 0
  BY ProgramAgreed DEF Differs
<1>4. 2 * ip_plus_1 # 0
  BY <1>1, <1>3, JumpAt DEF ReturnAddress
<1>5. IpRange \in Nat \ {0}
  BY Sizes
<1>6. ip + 1 # IpRange
  BY <1>1, <1>4, <1>5 DEF ip_plus_1
<1>7. ip + 1 \in 0 .. IpRange - 1
  BY <1>1, <1>5, <1>6
<1>8. ip_plus_1 = ip + 1
  BY <1>7, PcWraps DEF ip_plus_1
<1>9. 2 * IpRange <= WordRange * WordRange
  BY InstructionsAssumption
<1> DEFINE M == WordRange * WordRange
<1>10. M \in Nat
  BY Products
<1> HIDE DEF M
<1>11. 2 * IpRange <= M
  BY <1>9 DEF M
<1>12. 2 * (ip + 1) \in 0 .. M - 1
  BY <1>5, <1>7, <1>10, <1>11
<1> QED BY <1>2, <1>8, <1>12 DEF M

\* What a special register of the simulator is given.
LEMMA SimForMemAddr ==
  ASSUME NEW cmd, Agreed(cmd), NEW n \in {MEM_LO, MEM_HI}
  PROVE  /\ ToMemAddr(Begun, n) <=> st5_cond_met(0) /\ WrSreg(ST5) /\ ST5.a = n
         /\ ToMemAddr(Begun, n) => ForMemAddr(Begun) = st5_mov_res(0)
<1>1. /\ 0 \in PU /\ 0 \in Seeing /\ 0 \in Known /\ WellFormed(ST5) /\ PipelineTypes
      /\ Begun.st5 = ST5
  BY ProcessorAgreed, Beginning, Sizes DEF PipelineTypes
<1>2. (Begun.cond_met[0] <=> st5_cond_met(0)) /\ (0 \in Sim!Enabled(Begun) <=> st5_cond_met(0))
  BY <1>1, SimMetIs
<1>3. Sim!WrSreg(ST5) <=> WrSreg(ST5) /\ ST5.op # "CMOV"
  BY <1>1, SimDecoded
<1>4. WrSreg(ST5) => (ST5.op = "CMOV" /\ ST5.t) \/ ST5.op \in Arithmetic
  BY DEF WrSreg, Writes
<1>5. "CMOV" \notin Arithmetic
  BY DEF Arithmetic, Sums
<1>6. ToMemAddr(Begun, n) <=> st5_cond_met(0) /\ WrSreg(ST5) /\ ST5.a = n
  <2>1. CASE ST5.op = "CMOV"
    <3>1. WrSreg(ST5) <=> ST5.t
      BY <1>5, <2>1 DEF WrSreg, Writes
    <3> QED BY <1>1, <1>2, <1>5, <2>1, <3>1 DEF ToMemAddr
  <2>2. CASE ST5.op # "CMOV"
    BY <1>1, <1>2, <1>3, <1>4, <2>2 DEF ToMemAddr, ToSpecialRegister
  <2> QED BY <2>1, <2>2
<1>7. ASSUME ToMemAddr(Begun, n) PROVE ForMemAddr(Begun) = st5_mov_res(0)
  <2>1. CASE ST5.op = "CMOV"
    <3>1. Begun.p2[0] = ST5.c /\ st5_mov_res(0) = ST5.c
      BY <2>1, SimConstantIs
    <3> QED BY <1>1, <2>1, <3>1 DEF ForMemAddr
  <2>2. CASE ST5.op # "CMOV"
    <3>1. ST5.op \in Arithmetic /\ WrSreg(ST5)
      BY <1>4, <1>6, <1>7, <2>2
    <3>2. ST5.op = "MOV"
      BY <1>1, <2>2, <3>1 DEF WrSreg, WellFormed, Mov
    <3>3. Sim!Res(Begun, 0) = st5_res(0)
      BY <1>1, <3>1, SimSumIs
    <3>4. st5_mov_res(0) = st5_res(0)
      BY <1>1, <3>2, MovResultIs
    <3> QED BY <1>1, <2>2, <3>3, <3>4 DEF ForMemAddr
  <2> QED BY <2>1, <2>2
<1> QED BY <1>6, <1>7

LEMMA SimMemAddrStep ==
  ASSUME NEW cmd, Agreed(cmd)
  PROVE  sim'.mem_hi * WordRange + sim'.mem_lo = isa'.mem
<1>1. /\ 0 \in PU /\ 0 \in Seeing /\ 0 \in Known /\ WellFormed(ST5) /\ PipelineTypes
      /\ Stage5Done(Begun, Done) /\ Begun.st5 = ST5 /\ Begun.ip = sim.ip
      /\ Begun.mem_lo = sim.mem_lo /\ Begun.mem_hi = sim.mem_hi
      /\ sim'.mem_lo = Done.mem_lo /\ sim'.mem_hi = Done.mem_hi
  BY ProcessorAgreed, SimulatorAgreed, Beginning, Leaves, Sizes DEF PipelineTypes
<1>2. isa'.mem = mem_addr' /\ mem_addr = isa.mem /\ MemAddr
  BY ProcessorAgreed DEF Inv, FlagsFollow, ProcessorClock, Execute
<1>3. sim.mem_hi * WordRange + sim.mem_lo = mem_addr
  BY <1>2 DEF Agreed, SimFollows, SimState
<1>4. sim.mem_hi \in Word /\ sim.mem_lo \in Word
  BY SimulatorAgreed DEF CoreTypes, SimOperands
<1>5. High(mem_addr) = sim.mem_hi /\ Low(mem_addr) = sim.mem_lo
  BY <1>3, <1>4, PairOf
<1>6. Begun.cond_met[0] <=> st5_cond_met(0)
  BY <1>1, SimMetIs
<1>7. ST5.link => ST5.rel
  BY <1>1 DEF WellFormed
<1>8. ST5.op \in Jumps => ~WrSreg(ST5)
  BY DEF Jumps, WrSreg, Writes, Arithmetic, Sums
<1> DEFINE jumping == st5_cond_met(0) /\ ST5.op \in Jumps /\ ST5.link
           lo == st5_cond_met(0) /\ WrSreg(ST5) /\ ST5.a = MEM_LO
           hi == st5_cond_met(0) /\ WrSreg(ST5) /\ ST5.a = MEM_HI
           R == st5_mov_res(0)
           A == 2 * (sim.ip + 1)
<1>9. Jumping(Begun) /\ ST5.link <=> jumping
  BY <1>1, <1>6 DEF Jumping
<1>10. /\ ToMemAddr(Begun, MEM_LO) <=> lo
       /\ ToMemAddr(Begun, MEM_HI) <=> hi
       /\ (lo \/ hi) => ForMemAddr(Begun) = R
  BY SimForMemAddr
<1>11. /\ sim'.mem_lo = IF jumping THEN Low(A) ELSE IF lo THEN R ELSE sim.mem_lo
       /\ sim'.mem_hi = IF jumping THEN High(A) ELSE IF hi THEN R ELSE sim.mem_hi
  <2> HIDE DEF jumping, lo, hi, R
  <2> QED BY <1>1, <1>9, <1>10 DEF Stage5Done, AddressDone
<1>12. mem_addr' = IF lo THEN sim.mem_hi * WordRange + R
                   ELSE IF hi THEN R * WordRange + sim.mem_lo
                   ELSE IF jumping THEN 2 * ip_plus_1
                   ELSE mem_addr
  BY <1>2, <1>5, <1>7 DEF MemAddr
<1>13. jumping => A = 2 * ip_plus_1 /\ A = High(A) * WordRange + Low(A) /\ ~lo /\ ~hi
  <2> SUFFICES ASSUME jumping PROVE A = 2 * ip_plus_1 /\ A = High(A) * WordRange + Low(A) /\ ~lo /\ ~hi
    OBVIOUS
  <2>1. A = 2 * ip_plus_1 /\ A \in 0 .. WordRange * WordRange - 1
    BY SimReturn
  <2>2. A = High(A) * WordRange + Low(A)
    <3> HIDE DEF A
    <3> QED BY <2>1, Products
  <2> QED BY <1>8, <2>1, <2>2
<1>14. ~(lo /\ hi)
  BY DEF MEM_LO, MEM_HI
<1> HIDE DEF jumping, lo, hi, R, A
<1> QED BY <1>2, <1>3, <1>11, <1>12, <1>13, <1>14

-----------------------------------------------------------------------------
(* The cache. *)
\* Before a transfer is asked for, nothing but the program changes it.
LEMMA SimCellsBegin ==
  ASSUME NEW cmd, Agreed(cmd), ~block.start
  PROVE  /\ Begun.cache = isa.cells /\ isa.cells \in [0 .. CacheSize - 1 -> Word]
<1>1. sim.cache = isa.cells
  BY DEF Agreed, SimFollows, SimState
<1>2. sim.ram_count = 0 /\ sim.cache \in [0 .. CacheSize - 1 -> Word]
  BY SimulatorAgreed DEF SimDrains, CoreTypes, SimMemories
<1>3. Begun.cache = CacheAfter(sim)
  BY Beginning
<1> QED BY <1>1, <1>2, <1>3 DEF CacheAfter

\* The units that write a cell.
LEMMA SimWritersAre ==
  ASSUME NEW cmd, Agreed(cmd), ST5.op \in Arithmetic, WrCache(ST5), NEW x
  PROVE  /\ Sim!Storing(Begun, x) = Writers(isa, ST5, x)
         /\ Writers(isa, ST5, x) \subseteq Seeing
<1>1. /\ WellFormed(ST5) /\ Decodes /\ Begun.st5 = ST5 /\ Begun.st5_reg_r = sim.st5_reg_r
      /\ 0 \in Seeing /\ Seeing \subseteq Known /\ Known \subseteq PU /\ 0 \in PU
  BY ProcessorAgreed, Beginning, Sizes DEF PipelineTypes
<1>2. ST5.op # "CCMOV" /\ Sim!WrCache(ST5) /\ ToCache(ST5)
  <2>1. ST5.op # "CCMOV"
    BY DEF Arithmetic, Sums
  <2> QED BY <1>1, <2>1, SimDecoded, Decoded
<1>3. Begun.st5_reg_r = isa.base2[ST5.r]
  BY <1>1 DEF Agreed, SimFollows, SimAddresses, Addressing
<1> DEFINE a == isa.base2[ST5.r] + ST5.off
<1>4. ASSUME NEW p \in PU, p = 0 \/ ST5.all
      PROVE  /\ p \in Seeing
             /\ p \in Sim!Enabled(Begun) <=> Met(isa, ST5, p)
             /\ Sim!CellOf(a, p) = Cell(isa, ST5, p)
  <2>1. p \in Seeing
    <3>1. CASE p = 0
      BY <1>1, <3>1
    <3>2. CASE ST5.all
      BY <1>1, <1>2, <3>2 DEF Decodes, Defined, Seeing
    <3> QED BY <1>4, <3>1, <3>2
  <2>2. p \in Sim!Enabled(Begun) <=> Met(isa, ST5, p)
    BY <1>1, <2>1, SimMetIs
  <2>3. SimCell(isa.base2[ST5.r], ST5, p) = Cell(isa, ST5, p)
    BY CellIs
  <2>4. SimCell(isa.base2[ST5.r], ST5, p) = Sim!CellOf(a, IF ST5.all THEN p ELSE 0)
    BY DEF SimCell
  <2>5. (IF ST5.all THEN p ELSE 0) = p
    BY <1>4
  <2> QED BY <2>1, <2>2, <2>3, <2>4, <2>5
<1> HIDE DEF a
<1>5. Begun.st5_reg_r + Begun.st5.off = a
  BY <1>1, <1>3 DEF a
<1>6. Sim!Enabled(Begun) \subseteq PU
  BY SimOperators DEF Sim!Enabled
<1>7. Sim!Storing(Begun, x) = {p \in Sim!Enabled(Begun) : (p = 0 \/ ST5.all) /\ x = Sim!CellOf(a, p)}
  BY <1>1, <1>2, <1>5 DEF Sim!Storing
<1>8. Writers(isa, ST5, x) = {p \in PU : Met(isa, ST5, p) /\ (p = 0 \/ ST5.all) /\ x = Cell(isa, ST5, p)}
  BY <1>2 DEF Writers
<1>9. Sim!Storing(Begun, x) = Writers(isa, ST5, x)
  BY <1>4, <1>6, <1>7, <1>8
<1>10. Writers(isa, ST5, x) \subseteq Seeing
  BY <1>4, <1>8
<1> QED BY <1>9, <1>10

\* What stage 5 leaves in the cache.
LEMMA SimCellsAre ==
  ASSUME NEW cmd, Agreed(cmd), ~block.start
  PROVE  Done.cache = isa'.cells
<1>1. /\ WellFormed(ST5) /\ Decodes /\ MachineTypes /\ Moves /\ Stage5Done(Begun, Done)
      /\ Begun.st5 = ST5 /\ Begun.st5_reg_r = sim.st5_reg_r
      /\ 0 \in Seeing /\ 0 \in Known /\ 0 \in PU
  BY ProcessorAgreed, SimulatorAgreed, Beginning, Sizes DEF PipelineTypes
<1>2. isa'.cells = Cells(isa, ST5)
  BY <1>1, MachineMoves
<1>3. Begun.cache = isa.cells /\ isa.cells \in [0 .. CacheSize - 1 -> Word]
  BY SimCellsBegin
<1>4. WrCache(ST5) <=> ToCache(ST5)
  BY <1>1, Decoded
<1>5. CASE ST5.op \in Arithmetic /\ WrCache(ST5)
  <2>1. Done.cache = StoresAfter(Begun)
    BY <1>1, <1>5 DEF Stage5Done, CacheDone
  <2>2. ASSUME NEW x \in 0 .. CacheSize - 1
        PROVE  (IF Sim!Storing(Begun, x) # {}
                  THEN Sim!Res(Begun, CHOOSE p \in Sim!Storing(Begun, x) : TRUE)
                  ELSE Begun.cache[x])
               = (IF Writers(isa, ST5, x) # {}
                    THEN Value(isa, ST5, CHOOSE p \in Writers(isa, ST5, x) : TRUE)
                    ELSE isa.cells[x])
    <3>1. Sim!Storing(Begun, x) = Writers(isa, ST5, x) /\ Writers(isa, ST5, x) \subseteq Seeing
      BY <1>5, SimWritersAre
    <3> DEFINE S == Writers(isa, ST5, x)
               q == CHOOSE p \in S : TRUE
    <3>2. S # {} => q \in S
      OBVIOUS
    <3>3. S # {} => Sim!Res(Begun, q) = Value(isa, ST5, q)
      <4> SUFFICES ASSUME S # {} PROVE Sim!Res(Begun, q) = Value(isa, ST5, q)
        OBVIOUS
      <4>1. q \in Seeing
        BY <3>1, <3>2
      <4> HIDE DEF q
      <4>2. Sim!Res(Begun, q) = st5_res(q)
        BY <1>5, <4>1, SimSumIs
      <4>3. Value(isa, ST5, q) = st5_res(q)
        BY <1>1, <1>4, <1>5, <4>1, ValueIs
      <4> QED BY <4>2, <4>3
    <3> QED BY <1>3, <3>1, <3>3
  <2>3. isa'.cells = [x \in 0 .. CacheSize - 1 |->
                        IF Writers(isa, ST5, x) # {}
                          THEN Value(isa, ST5, CHOOSE p \in Writers(isa, ST5, x) : TRUE)
                          ELSE isa.cells[x]]
    BY <1>2, <1>3, <1>4, <1>5 DEF Cells
  <2> QED BY <2>1, <2>2, <2>3 DEF StoresAfter
<1>6. CASE ST5.op = "CCMOV"
  <2>1. ~ST5.all /\ ST5.op \notin Arithmetic /\ ToCache(ST5) /\ WrCache(ST5)
    BY <1>1, <1>6 DEF WellFormed, Arithmetic, Sums, ToCache, WrCache
  <2> DEFINE a == Address(isa, ST5)
  <2>2. (Begun.st5_reg_r + Begun.st5.off) % CacheSize = a
    BY <1>1, <2>1 DEF Address, Agreed, SimFollows, SimAddresses, Addressing
  <2>3. Begun.cond_met[0] <=> Met(isa, ST5, 0)
    BY <1>1, SimMetIs
  <2>4. Begun.p2[0] = ST5.c /\ Value(isa, ST5, 0) = ST5.c
    BY <1>6, SimConstantIs
  <2>5. Done.cache = IF Met(isa, ST5, 0) THEN [isa.cells EXCEPT ![a] = ST5.c] ELSE isa.cells
    BY <1>1, <1>3, <1>6, <2>1, <2>2, <2>3, <2>4 DEF Stage5Done, CacheDone
  <2>6. \A p \in PU : Cell(isa, ST5, p) = a
    BY <2>1 DEF Cell
  <2>7. ASSUME NEW x \in 0 .. CacheSize - 1
        PROVE  Writers(isa, ST5, x) = IF Met(isa, ST5, 0) /\ x = a THEN {0} ELSE {}
    <3> HIDE DEF a
    <3> QED BY <1>1, <1>6, <2>6 DEF Writers
  <2>8. (CHOOSE p \in {0} : TRUE) = 0
    OBVIOUS
  <2>9. isa'.cells = [x \in 0 .. CacheSize - 1 |->
                        IF Writers(isa, ST5, x) # {}
                          THEN Value(isa, ST5, CHOOSE p \in Writers(isa, ST5, x) : TRUE)
                          ELSE isa.cells[x]]
    BY <1>2, <1>3, <2>1 DEF Cells
  <2>10. \A x \in 0 .. CacheSize - 1 :
           isa'.cells[x] = IF Met(isa, ST5, 0) /\ x = a THEN ST5.c ELSE isa.cells[x]
    <3> TAKE x \in 0 .. CacheSize - 1
    <3>1. CASE Met(isa, ST5, 0) /\ x = a
      BY <2>4, <2>7, <2>8, <2>9, <3>1
    <3>2. CASE ~(Met(isa, ST5, 0) /\ x = a)
      BY <2>7, <2>9, <3>2
    <3> QED BY <3>1, <3>2
  <2> HIDE DEF a
  <2> QED BY <1>3, <2>5, <2>9, <2>10, ZenonT(40)
<1>7. CASE ~WrCache(ST5)
  <2>1. isa'.cells = isa.cells
    BY <1>2, <1>4, <1>7 DEF Cells
  <2>2. CASE ST5.op \in Arithmetic
    <3>1. Done.cache = StoresAfter(Begun)
      BY <1>1, <2>2 DEF Stage5Done, CacheDone
    <3>2. ~Sim!WrCache(ST5)
      BY <1>1, <1>7, SimDecoded
    <3>3. \A x : Sim!Storing(Begun, x) = {}
      BY <1>1, <3>2 DEF Sim!Storing
    <3> QED BY <1>3, <2>1, <3>1, <3>3 DEF StoresAfter
  <2>3. CASE ST5.op \notin Arithmetic
    <3>1. ST5.op # "CCMOV"
      BY <1>7 DEF WrCache
    <3>2. Done.cache = Begun.cache
      BY <1>1, <2>3, <3>1 DEF Stage5Done, CacheDone
    <3> QED BY <1>3, <2>1, <3>2
  <2> QED BY <2>2, <2>3
<1> QED BY <1>5, <1>6, <1>7 DEF WrCache

\* A transfer begun is not yet in the cache.
LEMMA SimCacheStep ==
  ASSUME NEW cmd, Agreed(cmd), isa'.request.start \/ ~block'.start
  PROVE  sim'.cache = isa'.cells
<1>1. MachineTypes /\ Moves /\ SimDrains /\ SimStages /\ Clock(cmd)
  BY ProcessorAgreed, SimulatorAgreed DEF Agreed, Given
<1>2. ~block.start
  <2>1. ASSUME block.start, isa'.request.start PROVE FALSE
    <3>1. isa'.request = Request(isa, ST5)
      BY <1>1, MachineMoves
    <3>2. ST5.op = "RW"
      BY <2>1, <3>1 DEF Request, NoRequest
    <3>3. ST5 = NOP
      BY <1>1, <2>1 DEF SimDrains, SimStages
    <3> QED BY <3>2, <3>3, NopDecoded
  <2>2. ASSUME block.start, ~block'.start PROVE FALSE
    <3>1. sim.st5 = NOP
      BY <1>1, <2>2 DEF SimDrains
    <3>2. sim.st5.op # "RW"
      BY <3>1, NopDecoded
    <3>3. block' = block
      BY <1>1, <3>2 DEF Clock
    <3> QED BY <2>2, <3>3
  <2> QED BY <2>1, <2>2
<1> QED BY <1>2, SimCellsAre, Leaves

\* What the next commands have loaded.
LEMMA SimLoadsStep ==
  ASSUME NEW cmd, Agreed(cmd)
  PROVE  SimLoads'
<1>1. /\ MachineTypes /\ Moves /\ SimDrains /\ SimStages /\ CoreTypes(Done)
  BY ProcessorAgreed, SimulatorAgreed
<1>2. /\ sim'.st3_reg_r = AddressAfter(Done) /\ sim'.st3_from_cache = LoadedAfter(Done)
      /\ sim'.st4_from_cache = sim.st3_from_cache
      /\ ST4' = ST3 /\ ST3' = ST2 /\ Done.st2 = ST2
  BY HandsOn
<1>3. isa'.cells1 = isa.cells /\ isa'.regs1 = isa.regs
  BY <1>1, MachineMoves
<1>4. ASSUME P2Type(ST2) = "cache", NEW p \in PU
      PROVE  sim'.st3_from_cache[p] = isa'.cells[SimCell(isa'.regs[0][ST2.r], ST2, p)]
  <2>1. ST2 # NOP
    BY <1>4 DEF P2Type, NOP, IsIn, HasOperand, Arithmetic, Sums, Slow, Multiplications
  <2>2. ~block.start
    BY <1>1, <2>1 DEF SimDrains, SimStages
  <2>3. Done.cache = isa'.cells
    BY <2>2, SimCellsAre
  <2>4. AddressAfter(Done) = isa'.regs[0][ST2.r]
    <3>1. Addressing(ST3)'
      BY <1>2, <1>4 DEF Addressing, P2Type, IsIn, Mov
    <3>2. sim'.st3_reg_r = isa'.regs[0][ST3'.r]
      BY <3>1, SimAddressesStep DEF SimAddresses
    <3> QED BY <1>2, <3>2
  <2> QED BY <1>2, <1>4, <2>3, <2>4 DEF LoadedAfter, SimCell
<1>5. ASSUME P2Type(ST3) = "cache", NEW p \in PU
      PROVE  sim'.st4_from_cache[p] = isa'.cells1[SimCell(isa'.regs1[0][ST3.r], ST3, p)]
  BY <1>2, <1>3, <1>5 DEF Agreed, SimFollows, SimLoads
<1>6. P2Type(ST3)' = P2Type(ST2) /\ P2Type(ST4)' = P2Type(ST3)
  BY <1>2 DEF P2Type, IsIn, Mov
<1> QED BY <1>2, <1>4, <1>5, <1>6 DEF SimLoads, SimCell

-----------------------------------------------------------------------------
(* The next address. *)
\* A return goes to the command whose address in memory MEM_ADDR holds.
LEMMA HalfAddress ==
  ASSUME NEW hi \in Word, NEW lo \in Word
  PROVE  (hi * WordRange + lo) \div 2 = hi * Half + (lo \div 2)
<1> DEFINE q == lo \div 2
           m == lo % 2
           k == hi * Half
           x == hi * WordRange + lo
<1>1. q \in Int /\ m \in 0 .. 1 /\ lo = 2 * q + m
  BY DivMod, Sizes DEF Word
<1>2. k \in Int /\ hi * WordRange = 2 * k /\ x \in Int
  BY Sizes DEF Word
<1> HIDE DEF q, m, k
<1>3. x = 2 * (k + q) + m
  BY <1>1, <1>2
<1> HIDE DEF x
<1>4. x \div 2 = k + q
  BY <1>1, <1>2, <1>3, DivModUnique
<1> QED BY <1>4, Zenon DEF x, k, q

LEMMA SimTargetIs ==
  ASSUME NEW cmd, Agreed(cmd), ST5.op \in Jumps
  PROVE  Sim!JumpTarget(Begun) % IpRange
         = IF ST5.link \/ ST5.rel THEN ST5_ip_plus_const ELSE (mem_addr \div 2) % IpRange
<1>1. /\ WellFormed(ST5) /\ MachineTypes /\ ControlFollows /\ ip \in 0 .. IpRange - 1
      /\ Begun.st5 = ST5 /\ Begun.ip = sim.ip
      /\ Begun.mem_lo = sim.mem_lo /\ Begun.mem_hi = sim.mem_hi
  BY ProcessorAgreed, Beginning DEF Agreed, Inv, PipelineTypes
<1>2. sim.ip = ip /\ sim.mem_hi * WordRange + sim.mem_lo = mem_addr
  BY <1>1 DEF Agreed, SimFollows, SimState, Inv, FlagsFollow
<1>3. ST5.c \in Int /\ (ST5.link => ST5.rel)
  BY <1>1 DEF WellFormed, Commands
<1>4. CASE ST5.rel
  <2> DEFINE j == IF ST5.op = "DJUMP" THEN 1 ELSE 0
  <2>1. Sim!JumpTarget(Begun) = ip + ST5.c + j
    BY <1>1, <1>2, <1>4 DEF Sim!JumpTarget
  <2>2. ST5_ip_plus_const = (isa.pc + ST5.c + (IF ST5.op = "DJUMP" THEN 1 ELSE 4)) % IpRange
    BY <1>1 DEF ControlFollows
  <2>3. /\ isa.pc \in Int /\ IpRange \in Nat \ {0}
        /\ ip = IF ST5.op = "DJUMP" THEN isa.pc ELSE (isa.pc + 4) % IpRange
    BY <1>1, JumpAt, Sizes DEF MachineTypes
  <2>4. CASE ST5.op = "DJUMP"
    BY <1>4, <2>1, <2>2, <2>3, <2>4
  <2>5. CASE ST5.op # "DJUMP"
    <3>1. ip + ST5.c + j = (((isa.pc + 4) % IpRange) + ST5.c)
      BY <1>1, <1>3, <2>3, <2>5
    <3>2. (((isa.pc + 4) % IpRange) + ST5.c) % IpRange = ((isa.pc + 4) + ST5.c) % IpRange
      <4>1. isa.pc + 4 \in Int
        BY <2>3
      <4> QED BY <1>3, <2>3, <4>1, ModPlus
    <3>3. (isa.pc + 4) + ST5.c = isa.pc + ST5.c + 4
      BY <1>3, <2>3
    <3> QED BY <1>4, <2>1, <2>2, <2>5, <3>1, <3>2, <3>3
  <2> QED BY <2>4, <2>5
<1>5. CASE ~ST5.rel
  <2>1. Sim!JumpTarget(Begun) = sim.mem_hi * Half + (sim.mem_lo \div 2)
    BY <1>1, <1>5 DEF Sim!JumpTarget, Half
  <2>2. sim.mem_hi \in Word /\ sim.mem_lo \in Word
    BY SimulatorAgreed DEF CoreTypes, SimOperands
  <2>3. mem_addr \div 2 = sim.mem_hi * Half + (sim.mem_lo \div 2)
    BY <1>2, <2>2, HalfAddress
  <2> QED BY <1>3, <1>5, <2>1, <2>3
<1> QED BY <1>4, <1>5

LEMMA SimIpStep ==
  ASSUME NEW cmd, Agreed(cmd)
  PROVE  sim'.ip = ip'
<1>1. /\ Stage5Done(Begun, Done) /\ Begun.st5 = ST5 /\ Begun.next_ip = sim.ip + 1
      /\ SimStages' /\ 0 \in Known
      /\ sim'.drop_mode = DropAfter(Done, cmd)
      /\ sim'.ip = (IF DropAfter(Done, cmd) = 0 THEN Done.next_ip % IpRange ELSE Done.ip)
      /\ Done.ip = sim.ip
  BY ProcessorAgreed, SimulatorAgreed, Beginning, Ending DEF Passed
<1>2. sim.ip = ip
  BY DEF Agreed, SimFollows, SimState
<1>3. sim'.drop_mode \in 0 .. 4
  BY SimulatorAgreed DEF CoreTypes, SimCommands
<1>4. drop_line' <=> DropAfter(Done, cmd) # 0
  BY <1>1, <1>3 DEF SimStages
<1>5. /\ ~drop_line' => ip' = next_ip
      /\ drop_line' => ip' = ip
  BY ProcessorAgreed DEF ProcessorClock, Fetch
<1>6. CASE drop_line'
  BY <1>1, <1>2, <1>4, <1>5, <1>6
<1>7. CASE ~drop_line'
  <2>1. sim'.ip = Done.next_ip % IpRange /\ ip' = next_ip
    BY <1>1, <1>4, <1>5, <1>7
  <2>2. Begun.cond_met[0] <=> st5_cond_met(0)
    BY <1>1, SimMetIs
  <2>3. Done.next_ip = IF Jumping(Begun) THEN Sim!JumpTarget(Begun) ELSE ip + 1
    BY <1>1, <1>2 DEF Stage5Done, JumpDone
  <2>4. CASE ST5.op \in Jumps /\ st5_cond_met(0)
    <3>1. Jumping(Begun)
      BY <1>1, <2>2, <2>4 DEF Jumping
    <3> QED BY <2>1, <2>3, <2>4, <3>1, SimTargetIs DEF next_ip
  <2>5. CASE ~(ST5.op \in Jumps /\ st5_cond_met(0))
    <3>1. ~Jumping(Begun)
      BY <1>1, <2>2, <2>5 DEF Jumping
    <3> QED BY <2>1, <2>3, <2>5, <3>1 DEF next_ip, ip_plus_1
  <2> QED BY <2>4, <2>5
<1> QED BY <1>6, <1>7

LEMMA SimStateStep ==
  ASSUME NEW cmd, Agreed(cmd)
  PROVE  SimState'
<1>1. Known' = Seeing
  BY ProcessorAgreed
<1>2. \A p \in Seeing : sim'.flags[p] = isa'.flags[p]
  BY SimFlagsStep
<1>3. sim'.mem_hi * WordRange + sim'.mem_lo = isa'.mem
  BY SimMemAddrStep
<1>4. (isa'.request.start \/ ~block'.start) => sim'.cache = isa'.cells
  BY SimCacheStep
<1>5. sim'.ip = ip'
  BY SimIpStep
<1> QED BY <1>1, <1>2, <1>3, <1>4, <1>5 DEF SimState

-----------------------------------------------------------------------------
(* Results. *)
LEMMA MultiplyingAgreed ==
  ASSUME NEW cmd, Agreed(cmd)
  PROVE  Multiplying
<1>1. Inv /\ Decodes /\ Moves /\ ProcessorClock(cmd)
  BY ProcessorAgreed DEF Agreed
<1> QED BY <1>1 DEF Multiplying, Inv, ProcessorClock, Execute

\* The operands of a slow command, as they are.
LEMMA SimSlowOperands ==
  ASSUME NEW cmd, Agreed(cmd), NEW p \in Seeing, ST5.op \in Slow
  PROVE  /\ Begun.p1[p] = First(isa, ST5, p) /\ Begun.p2[p] = Last(isa, ST5, p)
         /\ Begun.p1[p] \in Word /\ Begun.p2[p] \in Word
<1>1. Decodes /\ p \in PU /\ PipelineTypes
  BY ProcessorAgreed
<1>2. ST5.op \in HasOperand /\ ~IsIn(ST5) /\ ~MovArg1(ST5) /\ ~Inv1(ST5) /\ ~Inv2(ST5)
  BY DEF Slow, Multiplications, HasOperand, Arithmetic, Sums, IsIn, MovArg1, Mov, Inv1, Inv2
<1>3. Begun.p1[p] = arg1(p) /\ Begun.p2[p] = arg2(p)
  BY <1>2, SimArgumentsAre
<1>4. First(isa, ST5, p) = ST5_p1[p] /\ Last(isa, ST5, p) = ST5_p2[p]
  BY <1>1, <1>2, FirstIs, LastIs
<1>5. arg1(p) = ST5_p1[p] /\ arg2(p) = ST5_p2[p]
  BY <1>2 DEF arg1, arg2
<1> QED BY <1>1, <1>3, <1>4, <1>5, ArgumentsAreWords

LEMMA SimProductIs ==
  ASSUME NEW cmd, Agreed(cmd), NEW p \in Seeing, ST5.op \in Multiplications, st5_cond_met(p)
  PROVE  /\ Sim!Product(Begun, p) = product(p)'
         /\ Begun.p1[p] = ST6_p1'[p]
<1>1. /\ Multiplying /\ p \in PU /\ p \in Known /\ Begun.st5 = ST5 /\ ResultsInTurn
      /\ PipelineTypes
  BY ProcessorAgreed, MultiplyingAgreed, Beginning DEF Multiplying
<1>2. ST5.op \in Slow
  BY DEF Slow
<1>3. Begun.p1[p] = First(isa, ST5, p) /\ Begun.p2[p] = Last(isa, ST5, p)
  BY <1>2, SimSlowOperands
<1>4. Met(isa, ST5, p) /\ ST6_op[p] # "WMUL"
  BY <1>1, <1>2, SimMetIs DEF ResultsInTurn
<1>5. product(p)' = Product(isa, ST5, p) /\ ST6_p1'[p] = First(isa, ST5, p)
  BY <1>1, <1>4, ProductIs
<1>6. \A x : Sim!Short(x) = SignedOf(x)
  BY SimOperators DEF Sim!Short, SignedOf
<1>7. Sim!Product(Begun, p) = Product(isa, ST5, p)
  <2> DEFINE x == First(isa, ST5, p)
             y == Last(isa, ST5, p)
  <2>1. Sim!Product(Begun, p) = (IF ST5.op = "SMUL" THEN SignedOf(x) * SignedOf(y) ELSE x * y)
                                % (WordRange * WordRange)
    <3> HIDE DEF x, y
    <3>1. Begun.p1[p] = x /\ Begun.p2[p] = y
      BY <1>3 DEF x, y
    <3> QED BY <1>1, <1>6, <3>1, SimOperators, Zenon DEF Sim!Product
  <2> QED BY <2>1, Zenon DEF Product
<1> QED BY <1>3, <1>5, <1>7

LEMMA SimShiftedIs ==
  ASSUME NEW cmd, Agreed(cmd), NEW p \in Seeing, ST5.op \in {"SHL", "SHR"}
  PROVE  Sim!Shifted(Begun, p) = shift_res(p)
<1>1. Multiplying /\ p \in PU /\ Begun.st5 = ST5 /\ Decodes
  BY ProcessorAgreed, MultiplyingAgreed, Beginning
<1>2. ST5.op \in Slow
  BY DEF Slow
<1> DEFINE x == First(isa, ST5, p)
           y == Last(isa, ST5, p)
<1>3. Begun.p1[p] = x /\ Begun.p2[p] = y /\ y \in Word
  BY <1>2, SimSlowOperands
<1>4. y < W
  BY <1>1 DEF Decodes, Defined, Seeing
<1>5. W \in Nat \ {0}
  BY InstructionsAssumption
<1>6. y \in Nat
  BY <1>3, Sizes DEF Word
<1> HIDE DEF x, y
<1>7. y % (2 * W) = y
  BY <1>4, <1>5, <1>6
<1>8. ~(y >= W)
  BY <1>4, <1>5, <1>6
<1>9. Sim!Shifted(Begun, p) = IF ST5.op = "SHL" THEN (x * 2^y) % WordRange ELSE x \div 2^y
  <2>1. Begun.p2[p] % (2 * W) = y
    BY <1>3, <1>7
  <2>2. Sim!WordRange = WordRange
    BY SimOperators
  <2> QED BY <1>1, <1>3, <1>8, <2>1, <2>2, Zenon DEF Sim!Shifted
<1>10. Shifted(isa, ST5, p) = IF ST5.op = "SHL" THEN (x * 2^y) % WordRange ELSE x \div 2^y
  BY Zenon DEF Shifted, x, y
<1>11. Shifted(isa, ST5, p) = shift_res(p)
  BY <1>1, ShiftIs
<1> QED BY <1>9, <1>10, <1>11

\* What stage 5 leaves on its way to the result registers.
LEMMA SimPipesAre ==
  ASSUME NEW cmd, Agreed(cmd), NEW p \in Seeing
  PROVE  /\ sim'.st6_shift[p] <=> st5_cond_met(p) /\ ST5.op \in {"SHL", "SHR"}
         /\ sim'.st6_shift[p] => sim'.st6_shift_result[p] = shift_res(p)
         /\ sim'.st6_wmul[p] <=> st5_cond_met(p) /\ ST5.op = "WMUL"
         /\ sim'.st6_mul[p] <=> \/ st5_cond_met(p) /\ ST5.op \in Multiplications
                                \/ sim.st6_wmul[p]
         /\ sim'.st6_result[p] = IF st5_cond_met(p) /\ ST5.op \in Multiplications
                                   THEN [lo |-> Low(product(p)'), hi |-> High(product(p)')]
                                   ELSE ProductAfter(sim)[p]
         /\ st5_cond_met(p) /\ ST5.op \in Multiplications => sim'.p1_st6[p] = ST6_p1'[p]
<1>1. /\ p \in PU /\ p \in Known /\ Stage5Done(Begun, Done) /\ Begun.st5 = ST5
      /\ Begun.st6_shift = Off /\ Begun.st6_wmul = Off /\ Begun.st6_mul = sim.st6_wmul
      /\ Begun.st6_result = ProductAfter(sim)
  BY ProcessorAgreed, SimulatorAgreed, Beginning
<1>2. /\ sim'.st6_shift = Done.st6_shift /\ sim'.st6_shift_result = Done.st6_shift_result
      /\ sim'.st6_wmul = Done.st6_wmul /\ sim'.p1_st6 = Done.p1_st6
      /\ sim'.st6_result = Done.st6_result /\ sim'.st6_mul = Done.st6_mul
  BY Leaves
<1>3. p \in Sim!Enabled(Begun) <=> st5_cond_met(p)
  BY <1>1, SimMetIs
<1>4. ~Off[p]
  BY <1>1 DEF Off
<1>5. /\ sim'.st6_shift[p] <=> st5_cond_met(p) /\ ST5.op \in {"SHL", "SHR"}
      /\ sim'.st6_shift[p] => sim'.st6_shift_result[p] = shift_res(p)
  <2>1. CASE ST5.op \in {"SHL", "SHR"}
    <3>1. /\ Done.st6_shift = [q \in PU |-> q \in Sim!Enabled(Begun) \/ Off[q]]
          /\ Done.st6_shift_result = [q \in PU |-> IF q \in Sim!Enabled(Begun) THEN Sim!Shifted(Begun, q)
                                                           ELSE Begun.st6_shift_result[q]]
      BY <1>1, <2>1 DEF Stage5Done, ShiftDone
    <3>2. Done.st6_shift[p] <=> st5_cond_met(p)
      BY <1>1, <1>3, <1>4, <3>1, Zenon
    <3> QED BY <1>1, <1>2, <1>3, <2>1, <3>1, <3>2, SimShiftedIs
  <2>2. CASE ST5.op \notin {"SHL", "SHR"}
    <3>1. Done.st6_shift = Off
      BY <1>1, <2>2 DEF Stage5Done, ShiftDone, ShiftFields
    <3> QED BY <1>2, <1>4, <2>2, <3>1
  <2> QED BY <2>1, <2>2
<1>6. CASE ST5.op \in Multiplications
  <2>1. /\ Done.st6_wmul = [q \in PU |-> (q \in Sim!Enabled(Begun) /\ ST5.op = "WMUL") \/ Off[q]]
        /\ Done.p1_st6 = [q \in PU |-> IF q \in Sim!Enabled(Begun) THEN Begun.p1[q] ELSE Begun.p1_st6[q]]
        /\ Done.st6_result = [q \in PU |-> IF q \in Sim!Enabled(Begun)
                                           THEN [lo |-> Low(Sim!Product(Begun, q)),
                                                 hi |-> High(Sim!Product(Begun, q))]
                                           ELSE ProductAfter(sim)[q]]
        /\ Done.st6_mul = [q \in PU |-> q \in Sim!Enabled(Begun) \/ sim.st6_wmul[q]]
    BY <1>1, <1>6 DEF Stage5Done, ProductDone
  <2>2. Done.st6_wmul[p] <=> st5_cond_met(p) /\ ST5.op = "WMUL"
    BY <1>1, <1>3, <1>4, <2>1, Zenon
  <2>3. Done.st6_mul[p] <=> st5_cond_met(p) \/ sim.st6_wmul[p]
    BY <1>1, <1>3, <2>1, Zenon
  <2>4. CASE st5_cond_met(p)
    <3>1. Sim!Product(Begun, p) = product(p)' /\ Begun.p1[p] = ST6_p1'[p]
      BY <1>6, <2>4, SimProductIs
    <3>2. Done.p1_st6[p] = Begun.p1[p]
      BY <1>1, <1>3, <2>1, <2>4
    <3>3. Done.st6_result[p] = [lo |-> Low(Sim!Product(Begun, p)), hi |-> High(Sim!Product(Begun, p))]
      BY <1>1, <1>3, <2>1, <2>4
    <3>4. Done.st6_result[p] = [lo |-> Low(product(p)'), hi |-> High(product(p)')]
      BY <3>1, <3>3, Zenon
    <3> QED BY <1>2, <1>5, <1>6, <2>2, <2>3, <2>4, <3>1, <3>2, <3>4
  <2>5. CASE ~st5_cond_met(p)
    <3>1. Done.st6_result[p] = ProductAfter(sim)[p]
      BY <1>1, <1>3, <2>1, <2>5
    <3> QED BY <1>2, <1>5, <1>6, <2>2, <2>3, <2>5, <3>1
  <2> QED BY <2>4, <2>5
<1>7. CASE ST5.op \notin Multiplications
  <2>1. Done.st6_wmul = Off /\ Done.st6_mul = sim.st6_wmul /\ Done.st6_result = ProductAfter(sim)
    BY <1>1, <1>7 DEF Stage5Done, ProductDone, ProductFields
  <2>2. ST5.op # "WMUL"
    BY <1>7 DEF Multiplications
  <2> QED BY <1>2, <1>4, <1>5, <1>7, <2>1, <2>2
<1> QED BY <1>6, <1>7

-----------------------------------------------------------------------------
\* What the manual shows of the results, as stage 5 finds it.
LEMMA SimResultsFound ==
  ASSUME NEW cmd, Agreed(cmd), NEW p \in Seeing
  PROVE  LET old == isa.seen[p]
             multiplying == ST6_op[p] \in Multiplications \/ ST7_wmul[p]
         IN
         /\ ResultAfter(sim)[p] = old[2]
         /\ old[3] = IF sim.st6_mul[p] THEN sim.st6_result[p] ELSE old[2]
         /\ old[4] = IF sim.st6_wmul[p] THEN ProductAfter(sim)[p] ELSE old[3]
         /\ ~sim.st6_wmul[p] => ProductAfter(sim)[p] = sim.st6_result[p]
         /\ sim.st6_wmul[p] <=> ST6_op[p] = "WMUL"
         /\ sim.st6_mul[p] => multiplying
         /\ \A i \in 1 .. 4 : old[i] \in ResultWords
<1>1. p \in PU /\ p \in Known /\ ResultsFollow
  BY ProcessorAgreed DEF Agreed, Inv
<1> DEFINE old == isa.seen[p]
<1>2. /\ old[2] = IF sim.st7_mul[p] THEN sim.st7_result[p]
                 ELSE IF sim.st6_shift[p] THEN [sim.result[p] EXCEPT !.lo = sim.st6_shift_result[p]]
                 ELSE sim.result[p]
      /\ old[3] = IF sim.st6_mul[p] THEN sim.st6_result[p] ELSE old[2]
      /\ old[4] = IF sim.st6_wmul[p]
                   THEN [lo |-> (sim.st6_result[p].hi + sim.p1_st6[p] * old[2].hi) % WordRange,
                         hi |-> sim.st6_result[p].hi]
                   ELSE old[3]
      /\ sim.st6_wmul[p] <=> ST6_op[p] = "WMUL"
      /\ sim.st6_mul[p] => ST6_op[p] \in Multiplications \/ ST7_wmul[p]
  BY <1>1 DEF Agreed, SimFollows, SimResults
<1>3. \A i \in 1 .. 4 : old[i] \in ResultWords
  BY <1>1 DEF ResultsFollow
<1> HIDE DEF old
<1>4. ResultAfter(sim)[p] = old[2]
  BY <1>1, <1>2 DEF ResultAfter
<1>5. ProductAfter(sim)[p] = IF sim.st6_wmul[p]
            THEN [sim.st6_result[p] EXCEPT !.lo = (sim.st6_result[p].hi
                                       + sim.p1_st6[p] * ResultAfter(sim)[p].hi) % WordRange]
            ELSE sim.st6_result[p]
  BY <1>1 DEF ProductAfter
<1>6. sim.st6_result[p] \in ResultWords
  BY <1>1, SimulatorAgreed DEF CoreTypes, SimPipes
<1>7. sim.st6_wmul[p] => old[4] = ProductAfter(sim)[p]
  <2> DEFINE v == (sim.st6_result[p].hi + sim.p1_st6[p] * old[2].hi) % WordRange
             r == sim.st6_result[p]
  <2>1. sim.st6_wmul[p] => ProductAfter(sim)[p] = [r EXCEPT !.lo = v]
    BY <1>4, <1>5
  <2>2. sim.st6_wmul[p] => old[4] = [lo |-> v, hi |-> r.hi]
    BY <1>2
  <2>3. r \in ResultWords
    BY <1>6
  <2> HIDE DEF v, r
  <2> QED BY <2>1, <2>2, <2>3 DEF ResultWords
<1> QED BY <1>2, <1>3, <1>4, <1>5, <1>7 DEF old

\* The low word of a double product.
LEMMA LowSum == \A x, y \in Int : Low(x + Low(y)) = (x + y) % WordRange
<1> SUFFICES ASSUME NEW x \in Int, NEW y \in Int PROVE Low(x + Low(y)) = (x + y) % WordRange
  OBVIOUS
<1> DEFINE R == WordRange
<1>1. R \in Nat \ {0}
  BY Sizes
<1>2. Low(x + Low(y)) = (x + (y % R)) % R
  BY DEF Low
<1> HIDE DEF R
<1>3. y % R \in Int
  BY <1>1
<1>4. ((y % R) + x) % R = (y + x) % R
  BY <1>1, ModPlus
<1>5. (y % R) + x = x + (y % R) /\ y + x = x + y
  BY <1>3
<1> QED BY <1>2, <1>4, <1>5 DEF R

\* One unit's results after a clock.
LEMMA SimUnitResults ==
  ASSUME NEW cmd, Agreed(cmd), NEW p \in Seeing
  PROVE  LET new == isa'.seen[p] IN
    /\ new[1] = sim'.result[p]
    /\ new[2] = IF sim'.st7_mul[p] THEN sim'.st7_result[p]
                ELSE IF sim'.st6_shift[p] THEN [sim'.result[p] EXCEPT !.lo = sim'.st6_shift_result[p]]
                ELSE sim'.result[p]
    /\ new[3] = IF sim'.st6_mul[p] THEN sim'.st6_result[p] ELSE new[2]
    /\ new[4] = IF sim'.st6_wmul[p]
                  THEN [lo |-> (sim'.st6_result[p].hi + sim'.p1_st6[p] * new[2].hi) % WordRange,
                        hi |-> sim'.st6_result[p].hi]
                  ELSE new[3]
    /\ sim'.st6_wmul[p] <=> ST6_op'[p] = "WMUL"
    /\ sim'.st6_mul[p] => ST6_op'[p] \in Multiplications \/ ST7_wmul'[p]
<1> DEFINE old == isa.seen[p]
           new == isa'.seen[p]
           met == st5_cond_met(p)
           shift == met /\ ST5.op \in {"SHL", "SHR"}
           multiply == met /\ ST5.op \in Multiplications
           wide == met /\ ST5.op = "WMUL"
           s == shift_res(p)
           x == product(p)'
           split == [lo |-> Low(x), hi |-> High(x)]
           f == ST6_p1'[p]
<1>1. Multiplying /\ p \in PU /\ ResultsInTurn /\ Multiply /\ Inv'
  BY MultiplyingAgreed, ProcessorAgreed DEF Multiplying
<1>2. /\ new[1] = old[2]
      /\ new[2] = IF shift THEN [lo |-> s, hi |-> old[3].hi] ELSE old[3]
      /\ new[3] = IF shift THEN [lo |-> s, hi |-> old[4].hi]
                  ELSE IF multiply THEN split ELSE old[4]
      /\ new[4] = IF shift THEN [lo |-> s, hi |-> old[4].hi]
                  ELSE IF wide THEN [lo |-> Low(High(x) + Low(f * old[2].hi)), hi |-> High(x)]
                  ELSE IF multiply THEN split ELSE old[4]
  BY <1>1, SeenIs, Zenon
<1>3. /\ ResultAfter(sim)[p] = old[2]
      /\ old[3] = IF sim.st6_mul[p] THEN sim.st6_result[p] ELSE old[2]
      /\ old[4] = IF sim.st6_wmul[p] THEN ProductAfter(sim)[p] ELSE old[3]
      /\ sim.st6_wmul[p] <=> ST6_op[p] = "WMUL"
      /\ sim.st6_mul[p] => ST6_op[p] \in Multiplications \/ ST7_wmul[p]
      /\ old[2] \in ResultWords /\ old[3] \in ResultWords /\ old[4] \in ResultWords
  BY SimResultsFound
<1>4. /\ sim'.st6_shift[p] <=> shift
      /\ sim'.st6_shift[p] => sim'.st6_shift_result[p] = s
      /\ sim'.st6_wmul[p] <=> wide
      /\ sim'.st6_mul[p] <=> multiply \/ sim.st6_wmul[p]
      /\ sim'.st6_result[p] = IF multiply THEN split ELSE ProductAfter(sim)[p]
      /\ multiply => sim'.p1_st6[p] = f
  BY SimPipesAre
<1>5. /\ sim'.st7_mul = sim.st6_mul /\ sim'.st7_result = sim.st6_result
      /\ sim'.result = ResultAfter(sim)
  BY Ending
<1>6. /\ ST6_op'[p] = IF multiply THEN ST5.op ELSE "NOP"
      /\ ST7_wmul'[p] <=> ST6_op[p] = "WMUL"
  BY <1>1 DEF Multiply
<1>7. shift \/ wide => ~sim.st6_mul[p] /\ ~sim.st6_wmul[p]
  BY <1>1, <1>3 DEF ResultsInTurn, Slow, Multiplications
<1>8. ~(shift /\ multiply) /\ (wide => multiply)
  BY DEF Multiplications
<1>9. f \in Int /\ x \in Int /\ High(x) \in Int
  <2>1. PipelineTypes'
    BY <1>1 DEF Inv
  <2>2. ST6_p1'[p] \in Word /\ product(p)' \in 0 .. WordRange * WordRange - 1
    BY <1>1, <2>1, ProductBoundsNext DEF PipelineTypes
  <2> HIDE DEF x
  <2>3. x \in 0 .. WordRange * WordRange - 1
    BY <2>2 DEF x
  <2>4. High(x) \in Word
    BY <2>3, Products
  <2> QED BY <2>2, <2>3, <2>4, Products, Sizes DEF Word
<1>10. ST5.op # "NOP" \/ ~multiply
  BY DEF Multiplications
<1>11. "NOP" # "WMUL"
  OBVIOUS
<1>12. wide => ST5.op = "WMUL"
  OBVIOUS
<1>13. multiply /\ ST5.op = "WMUL" => wide
  OBVIOUS
<1>14. wide => Low(High(x) + Low(f * old[2].hi)) = (High(x) + f * old[2].hi) % WordRange
  <2> DEFINE h == old[2].hi
             y == f * h
             g == High(x)
  <2>1. h \in Int
    BY <1>3, Sizes DEF ResultWords, Word
  <2> HIDE DEF h, g, f
  <2>2. y \in Int /\ g \in Int
    BY <1>9, <2>1 DEF g
  <2> HIDE DEF y
  <2>3. Low(g + Low(y)) = (g + y) % WordRange
    BY <2>2, LowSum
  <2> QED BY <2>3, Zenon DEF g, y, h
<1>15. multiply => ST5.op \in Multiplications
  OBVIOUS
<1> HIDE DEF old, new, met, shift, multiply, wide, s, x, f
<1>16. new[1] = sim'.result[p]
  BY <1>2, <1>3, <1>5
<1>17. new[2] = IF sim'.st7_mul[p] THEN sim'.st7_result[p]
                ELSE IF sim'.st6_shift[p] THEN [sim'.result[p] EXCEPT !.lo = sim'.st6_shift_result[p]]
                ELSE sim'.result[p]
  <2>1. CASE shift
    <3>1. new[2] = [lo |-> s, hi |-> old[2].hi]
      BY <1>2, <1>3, <1>7, <2>1
    <3>2. [lo |-> s, hi |-> old[2].hi] = [old[2] EXCEPT !.lo = s]
      BY <1>3 DEF ResultWords
    <3> QED BY <1>3, <1>4, <1>5, <1>7, <2>1, <3>1, <3>2
  <2>2. CASE ~shift
    BY <1>2, <1>3, <1>4, <1>5, <2>2
  <2> QED BY <2>1, <2>2
<1>18. new[3] = IF sim'.st6_mul[p] THEN sim'.st6_result[p] ELSE new[2]
  <2>1. CASE shift
    BY <1>2, <1>3, <1>4, <1>7, <1>8, <2>1
  <2>2. CASE multiply
    BY <1>2, <1>4, <1>8, <2>2
  <2>3. CASE ~shift /\ ~multiply
    BY <1>2, <1>3, <1>4, <2>3
  <2> QED BY <2>1, <2>2, <2>3
<1>19. new[4] = IF sim'.st6_wmul[p]
                  THEN [lo |-> (sim'.st6_result[p].hi + sim'.p1_st6[p] * new[2].hi) % WordRange,
                        hi |-> sim'.st6_result[p].hi]
                  ELSE new[3]
  <2>1. CASE wide
    <3>1. new[4] = [lo |-> (High(x) + f * old[2].hi) % WordRange, hi |-> High(x)]
      BY <1>2, <1>8, <1>14, <2>1, Zenon
    <3>2. sim'.st6_result[p].hi = High(x) /\ sim'.p1_st6[p] = f
      BY <1>4, <1>8, <2>1
    <3>3. new[2] = old[2]
      BY <1>2, <1>3, <1>7, <1>8, <2>1
    <3>4. sim'.st6_wmul[p]
      BY <1>4, <2>1
    <3> QED BY <3>1, <3>2, <3>3, <3>4, Zenon
  <2>2. CASE ~wide
    BY <1>2, <1>4, <2>2
  <2> QED BY <2>1, <2>2
<1>20. sim'.st6_wmul[p] <=> ST6_op'[p] = "WMUL"
  BY <1>4, <1>6, <1>8, <1>12, <1>13
<1>21. sim'.st6_mul[p] => ST6_op'[p] \in Multiplications \/ ST7_wmul'[p]
  BY <1>3, <1>4, <1>6, <1>15
<1> QED BY <1>16, <1>17, <1>18, <1>19, <1>20, <1>21 DEF new

LEMMA SimResultsStep ==
  ASSUME NEW cmd, Agreed(cmd)
  PROVE  SimResults'
<1>1. Known' = Seeing
  BY ProcessorAgreed
<1> QED BY <1>1, SimUnitResults DEF SimResults

-----------------------------------------------------------------------------
(* A clock, from the start on. *)
LEMMA SimFollowsStep ==
  ASSUME NEW cmd, Agreed(cmd)
  PROVE  SimFollows'
<1>1. \A p \in Seeing : sim'.flags[p] = isa'.flags[p]
  BY SimFlagsStep
<1>2. SimFirstFollows' /\ SimSecondFollows'
  BY <1>1, SimFirstStep, SimSecondStep
<1>3. SimRegisters' /\ SimCarryFollows' /\ SimAddresses'
  BY SimRegistersStep, SimCarryStep, SimAddressesStep
<1>4. SimLoads' /\ SimState' /\ SimResults'
  BY SimLoadsStep, SimStateStep, SimResultsStep
<1>5. SimPorts' /\ SimRequest'
  BY SimPortsStep, SimRequestStep
<1> QED BY <1>2, <1>3, <1>4, <1>5 DEF SimFollows

LEMMA SimClockFollows ==
  ASSUME Inv, SimBase, SimFollowing, NEW cmd, Given(cmd)
  PROVE  SimFollowing'
<1>1. Running /\ beyond' = After(ST5)
  BY DEF Given, Clock, Running
<1>2. ASSUME ~beyond'.differs
      PROVE  SimFollows'
  <2>1. ~beyond.differs
    BY <1>1, <1>2 DEF After
  <2>2. Agreed(cmd)
    BY <1>1, <1>2, <2>1 DEF SimFollowing, Agreed
  <2> QED BY <2>2, SimFollowsStep
<1> QED BY <1>2 DEF SimFollowing

LEMMA SimNextFollows == Inv /\ SimBase /\ SimFollowing /\ [Next]_vars => SimFollowing'
<1> SUFFICES ASSUME Inv, SimBase, SimFollowing, [Next]_vars PROVE SimFollowing'
  OBVIOUS
<1>1. CASE \E cmd \in family : Issue(cmd)
  <2>1. PICK cmd \in family : Issue(cmd)
    BY <1>1
  <2>2. WellFormed(cmd)
    BY CoSimulationAssumption DEF Inv
  <2>3. Given(cmd)
    BY <2>1, <2>2 DEF Issue, Fetched, Given
  <2> QED BY <2>3, SimClockFollows
<1>2. CASE FetchNop
  <2>1. Given(NOP)
    BY <1>2 DEF FetchNop, Fetched, Given
  <2> QED BY <2>1, SimClockFollows
<1>3. CASE Finish
  <2>1. ~Running'
    BY <1>3 DEF Finish, Running
  <2> QED BY <2>1 DEF SimFollowing
<1>4. CASE UNCHANGED vars
  <2>1. /\ UNCHANGED <<sim, isa, ip, ST2, ST3, ST4, ST5, ST6_op, ST7_wmul>>
        /\ UNCHANGED <<beyond, block, clock>>
    BY <1>4 DEF vars, processorVars, controlVars, resultVars
  <2>2. Running' = Running /\ beyond' = beyond
    BY <2>1 DEF Running
  <2>3. /\ SimRegisters' = SimRegisters /\ SimFirstFollows' = SimFirstFollows
        /\ SimSecondFollows' = SimSecondFollows
    <3>1. SimRegisters' = SimRegisters
      <4>1. sim' = sim /\ isa' = isa
        BY <2>1
      <4>2. \A p, n : SimulatedRegister(p, n)' = SimulatedRegister(p, n)
        BY <4>1 DEF SimulatedRegister
      <4>3. Known' = Known
        BY <4>1 DEF Known
      <4> QED BY <4>1, <4>2, <4>3 DEF SimRegisters
    <3>2. SimFirstFollows' = SimFirstFollows
      BY <2>1, Zenon DEF SimFirstFollows, Known, SimSpecial, Readable
    <3>3. SimSecondFollows' = SimSecondFollows
      BY <2>1, Zenon DEF SimSecondFollows, Known, SimSpecial, Readable
    <3> QED BY <3>1, <3>2, <3>3
  <2>4. /\ SimCarryFollows' = SimCarryFollows /\ SimAddresses' = SimAddresses
        /\ SimLoads' = SimLoads
    BY <2>1, Zenon DEF SimCarryFollows, SimAddresses, SimLoads, Known
  <2>5. /\ SimState' = SimState /\ SimResults' = SimResults
        /\ SimPorts' = SimPorts /\ SimRequest' = SimRequest
    BY <2>1, ZenonT(40) DEF SimState, SimResults, SimPorts, SimRequest, Known
  <2> QED BY <2>2, <2>3, <2>4, <2>5, Zenon DEF SimFollowing, SimFollows
<1> QED BY <1>1, <1>2, <1>3, <1>4 DEF Next

\* The fields of the start.
LEMMA InitialCoreIs ==
  ASSUME sim = Sim!InitialCore(Start, InitialLo, InitialHi, InitialCells, InitialFlags,
                               InitialMemory)
  PROVE  /\ sim.ip = Start /\ sim.regs = Regs0 /\ sim.flags = InitialFlags
         /\ sim.st5_carry = [p \in PU |-> 0] /\ sim.p2 = [p \in PU |-> 0]
         /\ sim.mem_lo = 0 /\ sim.mem_hi = 0
         /\ sim.st6_wr_reg = Off /\ sim.st6_shift = Off
         /\ sim.st6_mul = Off /\ sim.st6_wmul = Off /\ sim.st7_mul = Off
         /\ sim.result = [p \in PU |-> [lo |-> 0, hi |-> 0]]
         /\ sim.cache = InitialCells
         /\ sim.taken = [d \in Ports |-> 0] /\ sim.log = [d \in Ports |-> <<>>]
<1> DEFINE zero == [p \in PU |-> 0]
           none == Off
           empty == [p \in PU |-> [lo |-> 0, hi |-> 0]]
<1>1. sim = [ip |-> Start, next_ip |-> Start, drop_mode |-> 0,
                st2 |-> NOP, st3 |-> NOP, st4 |-> NOP, st5 |-> NOP,
                st3_reg_r |-> 0, st4_reg_r |-> 0, st5_reg_r |-> 0,
                regs |-> Regs0, flags |-> InitialFlags, st5_carry |-> zero,
                mem_lo |-> 0, mem_hi |-> 0, in_mem_lo |-> 0, in_mem_hi |-> 0,
                p1 |-> zero, p2 |-> zero, p2type |-> "const",
                rd_ok |-> FALSE, cond_met |-> [p \in PU |-> TRUE],
                st6_reg |-> 0, st6_wr_reg |-> none, st6_data |-> zero,
                st6_shift |-> none, st6_shift_result |-> zero,
                st6_mul |-> none, st6_wmul |-> none,
                st7_mul |-> none, p1_st6 |-> zero,
                st6_result |-> empty, st7_result |-> empty, result |-> empty,
                cache |-> InitialCells, st3_from_cache |-> zero, st4_from_cache |-> zero,
                memory |-> InitialMemory, ram_addr |-> 0, ram_cache_addr |-> 0, ram_count |-> 0,
                ram_write |-> FALSE, peripheralAddr |-> 0,
                taken |-> [d \in Ports |-> 0], log |-> [d \in Ports |-> <<>>]]
  <2>1. /\ Sim!NOP = NOP /\ Sim!PU = PU /\ Sim!Reg = Reg
    BY SimOperators
  <2> QED BY <2>1, SMTT(30) DEF Sim!InitialCore, Regs0, Off
<1> HIDE DEF zero, none, empty
<1>2. /\ sim.ip = Start /\ sim.regs = Regs0 /\ sim.flags = InitialFlags
      /\ sim.st5_carry = zero /\ sim.p2 = zero /\ sim.mem_lo = 0 /\ sim.mem_hi = 0
      /\ sim.st6_wr_reg = none /\ sim.st6_shift = none
  BY <1>1
<1>3. /\ sim.st6_mul = none /\ sim.st6_wmul = none /\ sim.st7_mul = none
      /\ sim.result = empty /\ sim.cache = InitialCells
      /\ sim.taken = [d \in Ports |-> 0] /\ sim.log = [d \in Ports |-> <<>>]
  BY <1>1
<1> QED BY <1>2, <1>3 DEF zero, none, empty

LEMMA InitialPipes ==
  ASSUME isa = InitialMachine(Start, InitialLo, InitialHi, InitialCells, InitialFlags)
  PROVE  isa.carry = [p \in PU |-> 0]
BY DEF InitialMachine

LEMMA SimInitFollows == Init => SimFollowing
<1> SUFFICES ASSUME Init PROVE SimFollows
  BY DEF SimFollowing
<1>1. /\ sim.ip = Start /\ sim.regs = Regs0 /\ sim.flags = InitialFlags
      /\ sim.st5_carry = [p \in PU |-> 0] /\ sim.p2 = [p \in PU |-> 0]
      /\ sim.mem_lo = 0 /\ sim.mem_hi = 0
      /\ sim.st6_wr_reg = Off /\ sim.st6_shift = Off
      /\ sim.st6_mul = Off /\ sim.st6_wmul = Off /\ sim.st7_mul = Off
      /\ sim.result = [p \in PU |-> [lo |-> 0, hi |-> 0]]
      /\ sim.cache = InitialCells
      /\ sim.taken = [d \in Ports |-> 0] /\ sim.log = [d \in Ports |-> <<>>]
  BY InitialCoreIs DEF Init
<1>2. /\ isa.regs = Regs0 /\ isa.cells = InitialCells /\ isa.flags = InitialFlags /\ isa.mem = 0
      /\ isa.seen = [p \in PU |-> [i \in 1 .. 4 |-> [lo |-> 0, hi |-> 0]]]
      /\ isa.log = [d \in Ports |-> <<>>] /\ isa.taken = [d \in Ports |-> 0]
      /\ isa.unknown = {} /\ isa.request = NoRequest
  BY InitialMachineIs DEF Init
<1>3. isa.carry = [p \in PU |-> 0]
  BY InitialPipes DEF Init
<1>4. /\ ip = Start /\ ST3 = NOP /\ ST4 = NOP /\ ST5 = NOP
      /\ ST6_op = [p \in PU |-> "NOP"]
  BY DEF Init, ProcessorInit
<1>5. /\ NOP.op \notin HasOperand /\ ~Addressing(NOP) /\ P2Type(NOP) = "const" /\ NOP.c = 0
      /\ ~IsIn(NOP)
  <2>1. NOP.op \notin HasOperand /\ ~WrCache(NOP)
    BY DEF NOP, HasOperand, Arithmetic, Slow, WrCache, Sums, Multiplications
  <2> QED BY <2>1, NopFields DEF Addressing
<1>6. 0 \in PU /\ LoReg \subseteq Reg /\ HiReg \subseteq Reg /\ LoReg \cap HiReg = {} /\ Known \subseteq PU
  BY Sizes, InstructionsAssumption DEF Reg, Known
<1>7. SimRegisters
  <2>1. \A p \in PU : ~sim.st6_wr_reg[p]
    BY <1>1 DEF Off
  <2>2. \A p \in PU : \A n \in HiReg : Regs0[p][n] = Regs0[0][n]
    BY <1>6 DEF Regs0
  <2> QED BY <1>1, <1>2, <1>6, <2>1, <2>2 DEF SimRegisters, SimulatedRegister
<1>8. SimFirstFollows /\ SimAddresses /\ SimLoads
  BY <1>4, <1>5 DEF SimFirstFollows, SimAddresses, SimLoads, Addressing
<1>9. SimSecondFollows /\ SimCarryFollows
  BY <1>1, <1>3, <1>4, <1>5, <1>6 DEF SimSecondFollows, SimCarryFollows
<1>10. SimState
  BY <1>1, <1>2, <1>4, Sizes DEF SimState
<1>11. SimResults
  <2> SUFFICES ASSUME NEW p \in PU
               PROVE  LET seen == isa.seen[p]
                          none == [lo |-> 0, hi |-> 0] IN
                      /\ seen[1] = none /\ seen[2] = none /\ seen[3] = none /\ seen[4] = none
                      /\ sim.result[p] = none
                      /\ ~sim.st7_mul[p] /\ ~sim.st6_shift[p] /\ ~sim.st6_mul[p] /\ ~sim.st6_wmul[p]
                      /\ ST6_op[p] # "WMUL"
    BY <1>6 DEF SimResults
  <2> QED BY <1>1, <1>2, <1>4 DEF Off
<1>12. SimPorts /\ SimRequest
  BY <1>1, <1>2, <1>4, <1>5 DEF SimPorts, SimRequest, NoRequest
<1> QED BY <1>7, <1>8, <1>9, <1>10, <1>11, <1>12 DEF SimFollows

-----------------------------------------------------------------------------
LEMMA FollowsTheManual == SimFollowing => SimulatorFollowsManual
<1> SUFFICES ASSUME SimFollows PROVE SimulatorFollowsManual
  BY DEF SimFollowing, SimulatorFollowsManual
<1>1. \A p \in PU \ isa.unknown :
         /\ \A n \in LoReg : SimulatedRegister(p, n) = isa.regs[p][n]
         /\ sim.flags[p] = isa.flags[p]
         /\ sim.result[p] = isa.seen[p][1]
  BY DEF SimFollows, SimRegisters, SimState, SimResults, Known
<1>2. \A n \in HiReg : SimulatedRegister(0, n) = isa.regs[0][n]
  BY DEF SimFollows, SimRegisters
<1>3. /\ sim.mem_hi * WordRange + sim.mem_lo = isa.mem
      /\ (isa.request.start \/ ~block.start) => sim.cache = isa.cells
      /\ sim.log = isa.log
  BY DEF SimFollows, SimState, SimPorts
<1>4. SimRequest
  BY DEF SimFollows
<1> QED BY <1>1, <1>2, <1>3, <1>4 DEF SimulatorFollowsManual, SimRequest

\* The invariant: a program that uses nothing the simulator does otherwise leaves
\* its object as the manual's machine, field by field.
THEOREM SimulatorFollows == Spec => []SimFollowing
<1>1. Init => SimFollowing
  BY SimInitFollows
<1>2. Inv /\ SimBase /\ SimFollowing /\ [Next]_vars => SimFollowing'
  BY SimNextFollows
<1> QED BY <1>1, <1>2, PipelineInvariant, SimulatorInvariant, PTL DEF Spec

\* The simulator computes what the manual says, whatever the program, until it uses
\* one of the six things the simulator is known to do otherwise (Differs).
THEOREM SimulatorIsManual == Spec => []SimulatorFollowsManual
<1>1. SimFollowing => SimulatorFollowsManual
  BY FollowsTheManual
<1> QED BY <1>1, SimulatorFollows, PTL

\* The simulator fetches and executes the same command at the same clock as the
\* processor (handleNext against CU.sv), until the same point.
THEOREM SimulatorInTime == Spec => []SimulatorKeepsTime
<1>1. SimBase /\ SimFollowing => SimulatorKeepsTime
  BY DEF SimBase, SimStages, SimFollowing, SimFollows, SimState, SimulatorKeepsTime
<1> QED BY <1>1, SimulatorInvariant, SimulatorFollows, PTL
===============================================================================
