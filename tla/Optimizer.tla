------------------------------ MODULE Optimizer ------------------------------
(***************************************************************************)
(* The optimizer of assembly text (miksys_soft/miksys_optimizer.py), which *)
(* stands between the C compiler and the assembler and is the only part of *)
(* the tool chain that knows what the processor makes visible late: it     *)
(* moves commands that compute addresses up, drops flags nobody reads,     *)
(* turns short jumps into conditions, exchanges operands, uses what was    *)
(* just stored in place of a load, and puts a NOP where nothing else       *)
(* helps.                                                                  *)
(*                                                                         *)
(* handle() goes over the text six times: once for labels, three times to  *)
(* raise commands, once backward, once forward.  One action is one line of *)
(* one of them.                                                            *)
(***************************************************************************)
EXTENDS AssemblyText, Functions, FiniteSetsExt

Seqs == INSTANCE SequencesExt

CONSTANTS Texts    \* the texts to optimize

VARIABLES
    text,       \* what the compiler wrote
    code,       \* what it is now
    pass,       \* 1 to 3 raise, 4 goes backward, 5 forward, 6 is the end; 0: an exception
    at,         \* the line the pass has come to
    aregs,      \* raising: the registers of the last two addresses below
    last_cond,  \* backward: whether a condition below reads the flags
    next_link,  \* backward: the label below, if only unconditional lines are between
    link_dist,  \* backward: the lines down to it
    link_calls, \* the jumps to each label
    last_regs,  \* forward: the registers the last two lines wrote, the last first
    cache       \* forward: the cells the last three lines stored, the oldest first
vars == <<text, code, pass, at, aregs, last_cond, next_link, link_dist, link_calls, last_regs, cache>>

Jump(line) == line.op = "DJ"
LabelsOf(t) == {t[i].params[1].n : i \in {j \in DOMAIN t : IsLabel(t[j])}}
Called(t) == {t[i].params[1].n : i \in {j \in DOMAIN t : Jump(t[j])}}
Last1(line) == line.params[Len(line.params)]

\* Entries of cache: a cell, and the operand that holds its value if one does.
Nothing == Operand("none", 0, 0, "")
NoEntry == [cell |-> Nothing, value |-> Nothing]
Unmarked(p) == [p EXCEPT !.mark = ""]

------------------------------------------------------------------------------
\* Labels that no line names are dropped.
Init ==
    /\ text \in Texts
    /\ code = SelectSeq(text, LAMBDA l : IsLabel(l) => l.params[1].n \in Called(text))
    /\ pass = 1
    /\ at = Len(code)
    /\ aregs = <<None, None>>
    /\ last_cond = "" /\ next_link = 0 /\ link_dist = 0
    /\ link_calls = [l \in LabelsOf(text) |-> 0]
    /\ last_regs = <<None, None>>
    /\ cache = <<NoEntry, NoEntry, NoEntry>>

backward == <<last_cond, next_link, link_dist, link_calls>>
forward == <<last_regs, cache>>

------------------------------------------------------------------------------
\* A register's name in the text of a line.  (The name of a marked operand is
\* another word.)
Names(line, n) ==
    \E i \in DOMAIN line.params : LET p == line.params[i] IN
        \/ p.k = "reg" /\ p.n = n /\ p.mark = ""
        \/ p.k = "cell" /\ p.n = n

Carrying == {"ADC", "SBC", "RSC"}

\* drop: a line stays where it is.
StaysAcross(l, prev) ==
    LET dest == l.params[1] IN
    \/ IsLabel(prev) \/ Jump(prev)
    \/ Names(prev, dest.n)
    \/ dest.n \notin Range(aregs)
    \/ l.op # "CMOV" /\ prev.params # <<>> /\ l.params[2] = prev.params[1]
    \/ Len(l.params) = 3 /\ l.params[3].k \in {"reg", "not", "cell"}
Stays(i) ==
    \/ i < Len(code) /\ code[i + 1].op \in Carrying
    \/ StaysAcross(code[i], code[i - 1])

\* Mutant: a command that reads the register is passed as well.
RaisedOverReaders(i) ==
    /\ code[i].op \in {"CMOV", "ADD", "SUB"}
    /\ ~IsLabel(code[i - 1]) /\ ~Jump(code[i - 1])
    /\ code[i].params[1].n \in Range(aregs)
Raised(i) == code[i].op \in {"CMOV", "ADD", "SUB"} /\ ~Stays(i)

AddressRegisters(line) == {p.n : p \in {q \in Range(line.params) : q.mark = "ADDR"}}
RaiseLine ==
    /\ pass \in 1..3 /\ at > 1
    /\ at' = at - 1
    /\ IF IsLabel(code[at]) THEN UNCHANGED <<code, aregs>>
       ELSE LET raised == [code EXCEPT ![at - 1] = code[at], ![at] = code[at - 1]]
                now == IF Raised(at) THEN raised ELSE code
                addressed == AddressRegisters(now[at])
            IN /\ code' = now
               /\ aregs' = IF addressed = {} THEN aregs
                           ELSE <<CHOOSE r \in addressed : TRUE, aregs[1]>>
    /\ UNCHANGED <<text, pass, backward, forward>>

\* The next pass begins: the third raising pass is followed by the backward
\* one, which needs the first line too, and that by the forward one.
EndRaising ==
    /\ pass \in 1..3 /\ at <= 1
    /\ pass' = pass + 1
    /\ at' = Len(code)
    /\ aregs' = <<None, None>>
    /\ UNCHANGED <<text, code, backward, forward>>

------------------------------------------------------------------------------
\* Flags that nothing below reads are not set; a move to itself goes; each line
\* learns which label is below it and how far, as long as nothing between has a
\* condition or sets the flags.
BackLabel ==
    /\ pass = 4 /\ at > 0 /\ IsLabel(code[at])
    /\ next_link' = code[at].params[1].n
    /\ link_dist' = 0
    /\ at' = at - 1
    /\ UNCHANGED <<text, code, pass, aregs, last_cond, link_calls, forward>>

MovesToItself(l) == l.op = "MOV" /\ l.params[1] = l.params[2]
BackLine ==
    LET l == code[at]
        flagged == l.s /\ (last_cond # "" \/ l.op \in {"CMP", "TST"})
        conditional == flagged \/ l.cond # ""
        link == IF conditional THEN 0 ELSE next_link
    IN /\ pass = 4 /\ at > 0 /\ ~IsLabel(l)
       /\ at' = at - 1
       /\ IF MovesToItself(l) /\ ~flagged
          THEN /\ code' = Seqs!RemoveAt(code, at)
               /\ UNCHANGED backward
          ELSE /\ code' = [code EXCEPT ![at].s = flagged, ![at].dist = link_dist,
                                       ![at].link = IF Jump(l) THEN next_link ELSE link]
               /\ next_link' = link
               /\ link_dist' = link_dist + 1
               /\ last_cond' = IF l.cond # "" THEN l.cond ELSE IF flagged THEN "" ELSE last_cond
               /\ link_calls' = IF Jump(l) THEN [link_calls EXCEPT ![l.params[1].n] = @ + 1]
                                ELSE link_calls
       /\ UNCHANGED <<text, pass, aregs, forward>>

EndBackward ==
    /\ pass = 4 /\ at = 0
    /\ pass' = 5
    /\ at' = 1
    /\ UNCHANGED <<text, code, aregs, backward, forward>>

------------------------------------------------------------------------------
\* A label on the way forward: whatever was stored before it, its value may be
\* another.
ForwardLabel ==
    /\ pass = 5 /\ at <= Len(code) /\ IsLabel(code[at])
    /\ cache' = [j \in 1..3 |-> [cache[j] EXCEPT !.value = Nothing]]
    /\ at' = at + 1
    /\ UNCHANGED <<text, code, pass, aregs, backward, last_regs>>

Forward == pass = 5 /\ at <= Len(code) /\ ~IsLabel(code[at])
Short(l) == Jump(l) /\ l.params[1].n = l.link /\ l.dist < 8
cond_invert == [EQ |-> "NE", NE |-> "EQ", CS |-> "CC", CC |-> "CS", MI |-> "PS", PL |-> "MI", VS |-> "VC",
            VC |-> "VS", HI |-> "LS", LS |-> "HI", GE |-> "LT", LT |-> "GE", GT |-> "LE", LE |-> "GT"]

\* (There is no condition PS; no rule of the compiler jumps on MI.)
\* A jump over at most seven lines gives its lines the opposite condition.  With
\* its last jump the label goes too, and what is below it belongs to the block
\* above.
SkipJump ==
    LET l == code[at]
        below == at + l.dist + 2
        given == [i \in DOMAIN code |->
                    IF i \in at + 1 .. at + l.dist THEN [code[i] EXCEPT !.cond = cond_invert[l.cond]] ELSE code[i]]
        joins == below <= Len(code) /\ code[below].op \notin {"DJ", "LABEL"}
        joined == IF joins THEN [given EXCEPT ![at + l.dist].link = code[below].link,
                                              ![at + l.dist].dist = code[below].dist + 1]
                  ELSE given
        uncalled == link_calls[l.link] = 1
        unlabelled == IF uncalled THEN Seqs!RemoveAt(joined, at + joined[at].dist + 1) ELSE given
    IN /\ Forward /\ Short(l) /\ l.cond # ""
       /\ link_calls' = [link_calls EXCEPT ![l.link] = @ - 1]
       /\ code' = Seqs!RemoveAt(unlabelled, at)
       /\ UNCHANGED <<text, pass, at, aregs, last_cond, next_link, link_dist, forward>>

\* "Inaccessible code"
Inaccessible ==
    /\ Forward /\ Short(code[at]) /\ code[at].cond = ""
    /\ pass' = 0
    /\ UNCHANGED <<text, code, at, aregs, backward, forward>>

\* A NOP before a line: it reads through a register of the last two lines, or a
\* register of the last that may not change places, or a cell of the last three
\* whose value is not known.
LastRegs(l) == IF Jump(l) THEN <<None, None>> ELSE last_regs
Cache(l) == IF Jump(l) THEN <<NoEntry, NoEntry, NoEntry>> ELSE cache
Entries(l, c) == {j \in 1..3 : c[j].cell # Nothing /\ l.params # <<>> /\ c[j].cell = Unmarked(Last1(l))}
LateAddress(l) == AddressRegisters(l) \cap Range(LastRegs(l)) # {}
LateOperand(l) ==
    /\ l.params # <<>> /\ Last1(l).mark = "NSWAP"
    /\ l.op # "MOV" /\ Last1(l).n = LastRegs(l)[1]
LateCell(l) == \E j \in Entries(l, Cache(l)) : Cache(l)[j].value = Nothing

InsertNop ==
    LET l == code[at] IN
    /\ Forward /\ ~Short(l)
    /\ LateAddress(l) \/ LateOperand(l) \/ LateCell(l)
    /\ code' = Seqs!InsertAt(code, at, Nop)
    /\ at' = at + 1
    /\ cache' = <<cache[2], cache[3], NoEntry>>
    /\ last_regs' = IF LateOperand(l) /\ ~LateAddress(l) THEN <<None, last_regs[2]>>
                    ELSE <<None, last_regs[1]>>
    /\ UNCHANGED <<text, pass, aregs, backward>>

\* A last operand the line before has written changes places with the first.
Exchanges(l) ==
    /\ l.params # <<>> /\ Last1(l).mark = "SWAP"
    /\ l.op # "MOV" /\ Last1(l).n = LastRegs(l)[1]
cond_sign_invert == [EQ |-> "EQ", NE |-> "NE", CS |-> "LS", CC |-> "HI", HI |-> "CC", LS |-> "CS",
         GE |-> "LE", LT |-> "GT", GT |-> "LT", LE |-> "GE"]
Reversed(op) == CASE op = "SUB" -> "RSB" [] op = "SBC" -> "RSC" [] OTHER -> op
Exchanged(l) ==
    LET n == Len(l.params)
        ps == [i \in 1..n |-> Unmarked(l.params[i])]
    IN IF l.params[2] = R(LastRegs(l)[1])
       THEN [l EXCEPT !.params[n].mark = "NSWAP"]
       ELSE [l EXCEPT !.op = Reversed(l.op), !.params = [ps EXCEPT ![n] = ps[n - 1], ![n - 1] = ps[n]]]
Cleaned(l) ==
    IF Exchanges(l) THEN Exchanged(l)
    ELSE [l EXCEPT !.params = [i \in DOMAIN l.params |-> Unmarked(l.params[i])]]

\* What a line just stored is taken from where it came from.  (The register of
\* an address is looked for as text: r1 is found in r15.)
Forwarded(l, c) ==
    LET known == Entries(l, c)
    IN IF known = {} THEN l ELSE [l EXCEPT !.params[Len(l.params)] = c[Min(known)].value]
Overwritten(entry, reg) == reg # None /\ (entry.cell.n = reg \/ (reg = 1 /\ entry.cell.n \in 10..15))

Remembered(l, c) ==
    LET aged == [j \in 1..3 |-> IF j > 1 /\ c[j].cell # Nothing /\ Overwritten(c[j], Written(l))
                                THEN [c[j] EXCEPT !.value = Nothing] ELSE c[j]]
        cell == Unmarked(l.params[1])
        value == IF Last1(l).k = "symbol" THEN Nothing ELSE Unmarked(Last1(l))
        Kept(e) == IF e.cell = cell THEN NoEntry ELSE e
    IN IF l.cached THEN <<Kept(aged[2]), Kept(aged[3]), [cell |-> cell, value |-> value]>>
       ELSE <<aged[2], aged[3], NoEntry>>

ForwardLine ==
    LET l == code[at]
        done == Forwarded(Cleaned(l), Cache(l))
        turned == Exchanges(l) /\ l.op = "CMP" /\ at < Len(code) /\ code[at + 1].cond # ""
    IN /\ Forward /\ ~Short(l) /\ ~(LateAddress(l) \/ LateOperand(l) \/ LateCell(l))
       /\ code' = [i \in DOMAIN code |->
                     IF i = at THEN done
                     ELSE IF i = at + 1 /\ turned THEN [code[i] EXCEPT !.cond = cond_sign_invert[code[i].cond]]
                     ELSE code[i]]
       /\ last_regs' = <<Written(l), LastRegs(l)[1]>>
       /\ cache' = Remembered(l, Cache(l))
       /\ at' = at + 1
       /\ UNCHANGED <<text, pass, aregs, backward>>

EndForward ==
    /\ pass = 5 /\ at > Len(code)
    /\ pass' = 6
    /\ UNCHANGED <<text, code, at, aregs, backward, forward>>

Next ==
    \/ RaiseLine \/ EndRaising
    \/ BackLabel \/ BackLine \/ EndBackward
    \/ ForwardLabel \/ SkipJump \/ Inaccessible \/ InsertNop \/ ForwardLine \/ EndForward
Spec == Init /\ [][Next]_vars

------------------------------------------------------------------------------
(***************************************************************************)
(* What the passes take for granted of a text.  The compiler does not      *)
(* always grant it.                                                        *)
(***************************************************************************)
Raisable(t, i) ==
    /\ t[i].op \in {"CMOV", "ADD", "SUB"}
    /\ \E k \in i + 1 .. Len(t) : t[i].params[1].n \in AddressRegisters(t[k])
Loads(line, cell) == line.params # <<>> /\ Unmarked(Last1(line)) = cell
Before(t) == {<<i, j>> \in (DOMAIN t) \X (DOMAIN t) : i < j}

\* No command that may be raised has a reader above it whose operand is marked:
\* the reader is not recognized.
ReadersSeen(t) ==
    \A ij \in Before(t) : Raisable(t, ij[2]) =>
        \A p \in Range(t[ij[1]].params) : p.n = t[ij[2]].params[1].n => p.mark \notin {"SWAP", "NSWAP"}

\* Nothing is raised over the second half of a long sum, and no command that
\* sets flags over one that reads them.
SumsTogether(t) == \A ij \in Before(t) : Raisable(t, ij[2]) => t[ij[1]].op \notin Carrying
FlagsKept(t) ==
    \A ij \in Before(t) : Raisable(t, ij[2]) /\ t[ij[2]].s => t[ij[1]].cond = "" \/ Jump(t[ij[1]])

\* A register is not written between the store of its value and a load of it.
SourcesLast(t) ==
    \A ij \in Before(t) : t[ij[1]].cached =>
        \A k \in ij[2] + 1 .. Len(t) :
            Loads(t[k], Unmarked(t[ij[1]].params[1])) => R(Written(t[ij[2]])) # t[ij[1]].params[2]

\* A store that a jump goes over is not loaded again, and a jump goes over
\* something.
StoresCertain(t) ==
    \A ij \in Before(t) : Jump(t[ij[1]]) /\ t[ij[2]].cached =>
        \A k \in ij[2] + 1 .. Len(t) : ~Loads(t[k], Unmarked(t[ij[2]].params[1]))
JumpsOver(t) ==
    \A i \in DOMAIN t : Jump(t[i]) =>
        \E k \in i + 1 .. Len(t) : /\ ~MovesToItself(t[k])
                                   /\ \A j \in i + 1 .. k : ~IsLabel(t[j])
Granted(t) ==
    /\ SumsTogether(t) /\ FlagsKept(t) /\ ReadersSeen(t) /\ SourcesLast(t)
    /\ StoresCertain(t) /\ JumpsOver(t)


\* The optimized text is one the assembler takes, and on the processor, where
\* results come late, it ends with the registers and cells that the compiler's
\* text ends with on a machine where nothing is late.
OptimizedMeansSource ==
    pass = 6 =>
        /\ \A i \in DOMAIN code : \A p \in Range(code[i].params) : p.mark = ""
        /\ Outcomes(code, TRUE) = Outcomes(text, FALSE)

=============================================================================
