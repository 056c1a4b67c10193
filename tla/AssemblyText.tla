---------------------------- MODULE AssemblyText ----------------------------
(***************************************************************************)
(* The text the C compiler writes and the optimizer rewrites: lines with   *)
(* operands, some of them marked, and what a processor makes of a text     *)
(* without marks.  Text is taken as parsed: a line is its opcode, its      *)
(* condition, whether it ends in S, and its parameters.                    *)
(***************************************************************************)
EXTENDS InstructionSet, Sequences

CONSTANTS Inputs    \* registers and cells a text is started with

\* A parameter: a register, its complement, a cell of the cache at a register
\* and an offset, a constant, the address of a symbol (whose value the text does
\* not show), SHIFT_RESULT (or MUL_RESULT_LO), a label.  The
\* marks: SWAP, a last operand that may change places with the first; NSWAP,
\* one that may not; ADDR, before the register of an address.
Operand(k, n, off, mark) == [k |-> k, n |-> n, off |-> off, mark |-> mark]
R(n) == Operand("reg", n, 0, "")
Swap(n) == Operand("reg", n, 0, "SWAP")
NSwap(n) == Operand("reg", n, 0, "NSWAP")
Complement(n) == Operand("not", n, 0, "NSWAP")
Local(off) == Operand("cell", 15, off, "")
At(n, off) == Operand("cell", n, off, "ADDR")
Const(c) == Operand("const", c, 0, "")
Symbol(c) == Operand("symbol", c, 0, "")
ShiftResult == Operand("result", RESULT_LO, 0, "")
Label(l) == Operand("label", l, 0, "")

\* A line; cached marks a store, link and dist are the optimizer's notes.
Line(op, cond, s, params) ==
  [op |-> op, cond |-> cond, s |-> s, params |-> params, cached |-> FALSE, link |-> 0, dist |-> 0]
Store(op, cell, value) == [Line(op, "", FALSE, <<cell, value>>) EXCEPT !.cached = TRUE]
Nop == Line("NOP", "", FALSE, <<>>)
LabelLine(l) == Line("LABEL", "", FALSE, <<Label(l)>>)
IsLabel(line) == line.op = "LABEL"

\* wr_reg: the register a line writes.
None == -1
Written(line) ==
  IF /\ line.op \in {"MOV", "CMOV", "OR", "XOR", "AND", "ADD", "RSB", "SUB", "ADC", "RSC", "SBC"}
     /\ line.params[1].k = "reg"
  THEN line.params[1].n ELSE None

-----------------------------------------------------------------------------
Conditions == <<"EQ", "NE", "CS", "CC", "MI", "PL", "VS", "VC", "HI", "LS", "GE", "LT", "GT", "LE">>
Commands(text) == SelectSeq(text, LAMBDA line : ~IsLabel(line))
\* The number of the command a label stands before.
Place(text, label) ==
  LET i == CHOOSE i \in DOMAIN text : IsLabel(text[i]) /\ text[i].params[1].n = label
  IN Len(Commands(SubSeq(text, 1, i)))

\* A line as a command.
Assembled(text, line, at) ==
  LET ps == line.params
      last == ps[Len(ps)]
      base == [NOP EXCEPT !.op = line.op, !.set = line.s,
                          !.cond = IF line.cond = "" THEN 0
                                   ELSE CHOOSE i \in DOMAIN Conditions : Conditions[i] = line.cond]
      toCell == ps[1].k = "cell"
      mode == CASE toCell /\ line.op = "MOV" -> "store"
                [] last.k = "cell" -> "load"
                [] last.k \in {"const", "symbol"} -> "const"
                [] OTHER -> "reg"
      cell == IF toCell THEN ps[1] ELSE last
  IN CASE line.op = "NOP" -> NOP
       [] line.op = "DJ" -> [base EXCEPT !.op = "DJUMP", !.rel = TRUE,
                               !.c = Place(text, ps[1].n) - at - 1]
       [] OTHER -> [base EXCEPT
            !.mode = mode,
            !.a = IF mode = "store" THEN last.n ELSE IF toCell THEN 0 ELSE ps[1].n,
            !.b = IF Len(ps) > 1 THEN ps[Len(ps) - 1].n ELSE 0,
            !.r = IF mode \in {"store", "load"} \/ toCell THEN cell.n ELSE last.n,
            !.off = cell.off,
            !.c = last.n,
            !.inv = last.k = "not",
            !.f = last.k = "result"]
Program(text) ==
  LET lines == Commands(text)
  IN [i \in DOMAIN lines |-> Assembled(text, lines[i], i - 1)]

-----------------------------------------------------------------------------
\* Everything that is visible late has become visible; only the carry is still
\* that of the last command.
Settled(m) ==
  [m EXCEPT !.regs1 = m.regs, !.base2 = m.regs[0], !.cells1 = m.cells, !.cells2 = m.cells,
            !.cells3 = m.cells, !.flags1 = m.flags, !.mem1 = m.mem,
            !.seen = [p \in PU |-> [i \in 1 .. 4 |-> m.seen[p][4]]]]

\* The machine after a command, where results come late or at once.  The five
\* clocks of a jump make everything visible.
Next1(m, n, late) ==
  IF n.pc # m.pc + 1 THEN [Settled(n) EXCEPT !.carry = [p \in PU |-> 0]]
  ELSE IF late THEN n ELSE Settled(n)
Successors(machines, program, late) ==
  UNION {IF m.pc >= Len(program) THEN {m}
         ELSE UNION {{Next1(m, n, late) : n \in {Step(m, cmd)}} : cmd \in {program[m.pc + 1]}} :
           m \in machines}

\* What the text leaves in the registers and the cells.  (Jumps go forward.)
Started(input) ==
  InitialMachine(0, [p \in PU |-> input.lo], input.hi, input.cells,
                 [p \in PU |-> [N |-> FALSE, Z |-> FALSE, V |-> FALSE, C |-> FALSE]])
Ended(program, input, late) ==
  LET after[k \in 0 .. Len(program)] ==
        IF k = 0 THEN {Started(input)} ELSE Successors(after[k - 1], program, late)
  IN {<<m.regs, m.cells>> : m \in after[Len(program)]}
Outcomes(text, late) ==
  UNION {{<<input, Ended(program, input, late)>> : input \in Inputs} : program \in {Program(text)}}
=============================================================================
