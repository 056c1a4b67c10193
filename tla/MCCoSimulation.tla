--------------------------- MODULE MCCoSimulation ---------------------------
(***************************************************************************)
(* A machine of two processing units with eight-bit words, five registers  *)
(* of their own and one shared, a cache of four words, and programs of a   *)
(* few commands, each taken from one family.                               *)
(***************************************************************************)
EXTENDS CoSimulation, WordOperations, TLC

MCLoReg == {0, 1, 2, 5, 6}
MCHiReg == {8}
MCChannels == {<<0, 2>>, <<2, 3>>, <<5, 3>>}
MCPorts == {0, 1}
MCPortRoom == (0 :> 1) @@ (1 :> 9)

\* R0 addresses the cache, R1 and R2 hold operands near the edges of the word.
MCInitialLo == [p \in 0 .. 1 |->
  (0 :> 2) @@ (1 :> IF p = 0 THEN 200 ELSE 127) @@ (2 :> IF p = 0 THEN 100 ELSE 3)
  @@ (5 :> 128 + p) @@ (6 :> 3 + p)]
MCInitialHi == (8 :> 2)
MCInitialCells == [x \in 0 .. 3 |-> 17 * (x + 1)]
MCInitialFlags == [p \in 0 .. 1 |-> [N |-> p = 1, Z |-> p = 0, V |-> FALSE, C |-> p = 1]]
MCInitialMemory == [x \in 0 .. 7 |-> 129 + x]

\* The forms of commands the families are made of.
Alu(op, a, b, r) == [NOP EXCEPT !.op = op, !.mode = "reg", !.a = a, !.b = b, !.r = r]
WithS(cmd) == [cmd EXCEPT !.set = TRUE]
When(cmd, cond) == [cmd EXCEPT !.cond = cond]
Move(a, r) == [NOP EXCEPT !.op = "MOV", !.mode = "reg", !.a = a, !.r = r]
MoveFrom(a, special) == [NOP EXCEPT !.op = "MOV", !.mode = "reg", !.a = a, !.r = special, !.f = TRUE]
MoveTo(special, r) == [NOP EXCEPT !.op = "MOV", !.mode = "reg", !.a = special, !.r = r, !.spec = "sreg"]
AluConst(op, a, b, c) == [NOP EXCEPT !.op = op, !.mode = "const", !.a = a, !.b = b, !.c = c]
Load(op, a, b, r, off) == [NOP EXCEPT !.op = op, !.mode = "load", !.a = a, !.b = b, !.r = r, !.off = off]
Store(op, a, b, r, off) == [NOP EXCEPT !.op = op, !.mode = "store", !.a = a, !.b = b, !.r = r, !.off = off]
InAll(cmd) == [cmd EXCEPT !.all = TRUE]
Cmov(a, c) == [NOP EXCEPT !.op = "CMOV", !.mode = "const", !.a = a, !.c = c]
Ccmov(r, off, c) == [NOP EXCEPT !.op = "CCMOV", !.r = r, !.off = off, !.c = c]

ArithmeticFamily == {
  WithS(Alu("ADD", 1, 1, 2)), WithS(Alu("SUB", 2, 1, 2)), Alu("ADC", 5, 5, 6),
  [Alu("SBC", 6, 1, 5) EXCEPT !.inv = TRUE], WithS(AluConst("RSB", 1, 1, 100)),
  Alu("RSC", 2, 6, 1), When(Cmov(1, 77), 3), When(Alu("XOR", 5, 1, 2), 13)}

FlagFamily == {
  WithS(Alu("CMP", 0, 1, 2)), WithS(Alu("TST", 0, 1, 5)), MoveFrom(5, FLAGS),
  WithS([Move(2, 1) EXCEPT !.inv = TRUE]), When(WithS(Alu("ADD", 1, 1, 1)), 12),
  When(WithS(Alu("AND", 2, 1, 5)), 10), WithS(Alu("RGBADD", 6, 1, 2)),
  WithS(Alu("RGBSHR", 6, 1, 2))}

CacheFamily == {
  Store("MOV", 1, 0, 0, 0), InAll(Store("ADD", 1, 2, 0, 0)), Load("MOV", 1, 0, 0, 0),
  InAll(Load("ADD", 2, 1, 0, 2)), Ccmov(0, 1, 9), Cmov(0, 1), Cmov(5, 66),
  When(Store("OR", 5, 1, 0, 1), 1), Load("SUB", 5, 6, 0, 1)}

SharedFamily == {
  Move(8, 1), Cmov(8, 5), Move(1, 8), Alu("ADD", 2, 8, 1), Alu("ADD", 1, 2, 8),
  When(Move(8, 2), 1), InAll(Store("MOV", 2, 0, 0, 0)), Load("MOV", 1, 0, 8, 0)}

ProductFamily == {
  Alu("MUL", 0, 1, 2), Alu("SMUL", 0, 1, 5), Alu("WMUL", 0, 1, 5), Alu("SHL", 0, 1, 6),
  AluConst("SHR", 0, 5, 2), MoveFrom(2, RESULT_LO), MoveFrom(5, RESULT_HI),
  When(Alu("MUL", 0, 5, 2), 4)}

J(c) == [NOP EXCEPT !.op = "JUMP", !.rel = TRUE, !.c = c]
Dj(c) == [NOP EXCEPT !.op = "DJUMP", !.rel = TRUE, !.c = c]
JumpFamily == {
  J(5), When(J(-7), 1), [J(6) EXCEPT !.link = TRUE], [NOP EXCEPT !.op = "JUMP"],
  When(Dj(6), 2), [Dj(9) EXCEPT !.link = TRUE], [NOP EXCEPT !.op = "DJUMP"],
  MoveTo(MEM_LO, 1), MoveFrom(1, MEM_LO), [Cmov(MEM_HI, 3) EXCEPT !.t = TRUE]}

In(d, a) == [NOP EXCEPT !.op = "MOV", !.mode = "reg", !.a = a, !.r = d, !.spec = "in"]
Out(d, r) == [NOP EXCEPT !.op = "MOV", !.mode = "reg", !.a = d, !.r = r, !.spec = "out"]
PortFamily == {
  In(0, 1), WithS(In(1, 2)), Out(0, 1), WithS(Out(0, 2)), Out(1, 1),
  [Out(1, RESULT_LO) EXCEPT !.f = TRUE], When(Move(1, 2), 5), Cmov(2, 9)}

Transfer(write, b, c) == [NOP EXCEPT !.op = "RW", !.mode = "const", !.set = write, !.b = b, !.c = c]
TransferFamily == {
  Transfer(TRUE, 0, 7), Transfer(FALSE, 6, 2), Transfer(FALSE, 1, 6), When(Transfer(FALSE, 0, 4), 1),
  [Transfer(TRUE, 0, 0) EXCEPT !.mode = "reg", !.r = 0], MoveTo(MEM_LO, 6),
  MoveTo(MEM_LO, 5), Ccmov(0, 1, 9), Cmov(0, 1), When(Transfer(TRUE, 6, 1), 2)}

MixedFamily == {
  WithS(Alu("SUB", 1, 2, 1)), When(J(3), 5), When([Dj(4) EXCEPT !.link = TRUE], 6),
  When(Store("ADD", 1, 2, 0, 1), 5), Load("XOR", 2, 1, 0, 1), Alu("MUL", 0, 1, 2),
  [MoveFrom(1, RESULT_LO) EXCEPT !.cond = 6], Out(1, 1)}

MCFamilies == {ArithmeticFamily, FlagFamily, CacheFamily, SharedFamily, ProductFamily,
               JumpFamily, PortFamily, TransferFamily, MixedFamily}
=============================================================================
