----------------------------- MODULE MCOptimizer -----------------------------
(* Texts for the optimizer: sequences of what the compiler writes for a      *)
(* statement, ended by the labels that are still missing.                    *)
EXTENDS Optimizer, WordOperations, TLC

Plain(op, params) == <<Line(op, "", FALSE, params)>>
Flagged(op, params) == <<Line(op, "", TRUE, params)>>
Branch(cond, l) == <<Line("DJ", cond, FALSE, <<Label(l)>>)>>
Compare(left, last, cond, l) == Flagged("CMP", <<left, last>>) \o Branch(cond, l)

Extend == <<Line("MOV", "MI", FALSE, <<R(3), Const(255)>>), Line("MOV", "PL", FALSE, <<R(3), Const(0)>>)>>

\* Addresses computed, loads and stores through them.  A cell goes by one name:
\* r1 stays below r2.
Pointers ==
  { Plain("CMOV", <<R(1), Const(4)>>), Plain("CMOV", <<R(2), Const(7)>>),
    Flagged("ADD", <<R(1), R(1), Const(1)>>), Flagged("ADD", <<R(3), R(0), Local(0)>>),
    Flagged("MOV", <<R(0), At(1, 0)>>), Flagged("MOV", <<R(3), At(2, 0)>>),
    <<Store("MOV", At(1, 0), R(0))>>, <<Store("MOV", At(2, 0), R(3))>>, <<Store("MOV", Local(0), R(0))>>,
    <<Store("CCMOV", Local(0), Const(7))>>, <<Store("CCMOV", At(1, 0), Symbol(4))>>,
    Flagged("MOV", <<R(3), Local(0)>>), <<LabelLine(1)>>, Flagged("MOV", <<R(0), R(2)>>) \o Extend }

\* Operands that the line before has written.
Operands ==
  { Flagged("SUB", <<R(0), R(1), Swap(2)>>), Flagged("ADD", <<R(2), R(0), Swap(1)>>),
    Flagged("ADD", <<R(1), R(0), NSwap(0)>>), Flagged("MOV", <<R(0), Complement(2)>>),
    Flagged("AND", <<R(2), R(1), Complement(0)>>), Flagged("SUB", <<R(1), R(2), Swap(0)>>),
    Plain("MUL", <<R(0), Swap(2)>>) \o <<Nop, Nop>> \o Flagged("MOV", <<R(1), ShiftResult>>),
    Plain("CMOV", <<R(2), Const(5)>>), Compare(R(0), Swap(1), "LT", 1),
    Plain("SHR", <<R(1), Local(0)>>) \o <<Nop>> \o Flagged("MOV", <<R(2), ShiftResult>>),
    Flagged("MOV", <<R(1), At(2, 0)>>),
    Plain("SUB", <<R(0), R(0), Local(1)>>) \o Plain("SBC", <<R(1), R(1), Local(2)>>) }

\* Jumps over other lines and over each other.
Branches ==
  { Compare(R(0), Swap(1), "LT", 1), Compare(R(1), Const(2), "EQ", 2), Branch("", 2),
    Flagged("ADD", <<R(0), R(0), Const(1)>>) \o Branch("EQ", 1), <<LabelLine(1)>>, <<LabelLine(2)>>,
    Plain("CMOV", <<R(0), Const(5)>>), Flagged("MOV", <<R(1), R(0)>>), Flagged("MOV", <<R(1), R(1)>>),
    <<Store("MOV", Local(0), R(0))>>, Flagged("MOV", <<R(1), Local(0)>>),
    Flagged("MOV", <<R(0), R(1)>>) \o Extend }

Three(statements) == {a \o b \o c : a, b, c \in statements}
MissingLabel(t, l) == IF l \in Called(t) \ LabelsOf(t) THEN <<LabelLine(l)>> ELSE <<>>
Missing(t) == MissingLabel(t, 1) \o MissingLabel(t, 2)
LabelAt(t, l) == {i \in DOMAIN t : IsLabel(t[i]) /\ t[i].params[1].n = l}
Proper(t) ==
  /\ \A l \in LabelsOf(t) : Cardinality(LabelAt(t, l)) = 1
  /\ \A i \in DOMAIN t : Jump(t[i]) => \A k \in LabelAt(t, t[i].params[1].n) : k > i
Ended0(t) == t \o Missing(t)
MCTexts ==
  LET all == Three(Pointers) \cup Three(Operands) \cup Three(Branches)
               \cup {s \o Flagged("MOV", <<R(0), At(1, 0)>>) : s \in Three(Pointers)}
               \cup {Compare(R(0), Swap(1), "GE", 1) \o s : s \in Three(Branches)}
  IN {t \in {Ended0(s) : s \in {u \in all : Proper(u)}} : Granted(t)}

Registers1(a, b, c, d) == (0 :> a) @@ (1 :> b) @@ (2 :> c) @@ (3 :> d)
Input(lo, words) == [lo |-> lo, hi |-> (15 :> 0), cells |-> [i \in 0 .. 7 |-> words[i + 1]]]
MCInputs ==
  { Input(Registers1(3, 4, 7, 200), <<5, 130, 1, 0, 77, 255, 9, 128>>),
    Input(Registers1(128, 3, 7, 0), <<4, 25, 200, 6, 1, 2, 100, 5>>) }
MCLo == 0 .. 3
MCHi == {15}
NoFields == {}
NoRoom == [d \in {} |-> 0]
=============================================================================
