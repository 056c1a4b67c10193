------------------------------ MODULE FrontEnd ------------------------------
(***************************************************************************)
(* The translation of one function by the C compiler, from its statements  *)
(* to the lists of trees handed to the code generator, and what it has to  *)
(* preserve: the meaning of the function.                                  *)
(***************************************************************************)
EXTENDS Statements

CONSTANTS Programs,      \* functions: sequences of statements
          Stores,        \* the stores a function may start with
          Turns,         \* loops that turn more often are not followed
          Fuel           \* trees executed at most

VARIABLES program, place, phase, s

vars == <<program, place, phase, s>>

Init == program \in Programs /\ place = 0 /\ phase = "statements" /\ s = Empty

\* The next statement of the function's block.
Statement ==
    /\ phase = "statements" /\ place < Len(program)
    /\ s' = statement(s, program[place + 1], 0, 0, place + 1)
    /\ place' = place + 1
    /\ UNCHANGED <<program, phase>>

\* The end of the block and of the function: a value to return, the last label.
EndFunction ==
    /\ phase = "statements" /\ place = Len(program)
    /\ LET Ended(b) == definelab(IF Last(b.code).kind = "Jump" THEN b ELSE walk(b, returned(cnsttree("I", 0)), 0, 0), exit)
       IN s' = Ended(flush(s))
    /\ phase' = "code"
    /\ UNCHANGED <<program, place>>

\* A label that is still in the code is no other name of another.
LabelsStand(f, item) ==
    /\ item.kind = "Label" => equated(f, item.label) = item.label
    /\ \A t \in Range(item.forest) : t.op = "LABEL" => equated(f, t.v) = t.v
GenCode ==
    /\ phase = "code"
    /\ s' = [assert(s, \A i \in DOMAIN s.code : LabelsStand(s, s.code[i])) EXCEPT !.code = [i \in DOMAIN @ |-> [@[i] EXCEPT
               !.forest = fixup(s, prune(@)), !.label = equated(s, @),
               !.labels = [k \in DOMAIN @ |-> equated(s, @[k])]]]]
    /\ phase' = "generated"
    /\ UNCHANGED <<program, place>>

Next == Statement \/ EndFunction \/ GenCode

Spec == Init /\ [][Next]_vars

------------------------------------------------------------------------------
(***************************************************************************)
(* What the code does.  A machine state has the store, with the            *)
(* temporaries among the locals, the arguments passed and the value        *)
(* returned.                                                               *)
(***************************************************************************)
RECURSIVE Value(_, _)
Value(t, m) ==
    CASE t.op = "CNST"  -> t.v % Words
      [] t.op = "ADDRG" -> ((IF t.sym.name = "T" THEN 0 ELSE AddressOf[t.sym.name]) + t.sym.offset) % Words
      [] t.op = "INDIR" /\ t.l.op = "ADDRL" -> IF t.l.sym \in DOMAIN m.local THEN m.local[t.l.sym] ELSE ones
      [] t.op = "INDIR" /\ t.l.op # "ADDRL" -> m.memory[Value(t.l, m)]
      [] t.op = "NEG"   -> (-Value(t.l, m)) % Words
      [] t.op = "BCOM"  -> ones - Value(t.l, m)
      [] t.op \in {"CVI", "CVU"} -> Value(t.l, m)
      [] OTHER ->
           LET x == Number(t.sfx, Value(t.l, m))
               y == Number(IF t.op \in {"LSH", "RSH"} THEN "I" ELSE t.sfx, Value(t.r, m))
           IN IF Defined(t.op, t.sfx, x, y) THEN Result(t.op, t.sfx, x, y) ELSE ones

RECURSIVE TableOf(_)
TableOf(t) == IF t.op = "ADDRG" THEN t.sym ELSE TableOf(IF t.op = "ADD" THEN t.r ELSE t.l)

\* The code in a row: the labels and jumps of the code list as trees.
Flat(code) ==
    FlattenSeq([i \in DOMAIN code |->
      CASE code[i].kind = "Gen" -> code[i].forest
        [] code[i].kind \in {"Label", "Jump"} ->
             <<treeof(Labelled(IF code[i].kind = "Label" THEN "LABEL" ELSE "JUMP", code[i].label), NULL, NULL)>>
        [] OTHER -> <<>>])

Defines(flat, lab) == {i \in DOMAIN flat : flat[i].op = "LABEL" /\ flat[i].v = lab}

RECURSIVE Execute(_, _, _, _, _)
Execute(flat, code, i, m, fuel) ==
    LET t == flat[i]
        To(lab, n) == IF Defines(flat, lab) = {} THEN [n EXCEPT !.ok = FALSE]
                      ELSE Execute(flat, code, CHOOSE k \in Defines(flat, lab) : TRUE, n, fuel - 1)
        On(n) == Execute(flat, code, i + 1, n, fuel - 1)
        calls == t.op = "CALL" \/ (t.op = "ASGN" /\ t.r.op = "CALL")
        c == Called(m, m.args)
        v == IF calls THEN c.v ELSE Value(t.r, m)
        n == IF calls THEN [c.m EXCEPT !.args = <<>>] ELSE m
    IN IF i > Len(flat) \/ fuel = 0 THEN [m EXCEPT !.ok = i > Len(flat)]
       ELSE
       CASE t.op = "LABEL" -> On(m)
         [] t.op = "JUMP" /\ t.v # 0 -> To(t.v, m)
         [] t.op = "JUMP" /\ t.v = 0 ->
              LET k == CHOOSE k \in DOMAIN code : code[k].kind = "Switch" /\ code[k].table.n = TableOf(t.l).n
                  entry == Value(t.l.l, m) + 1
              IN IF entry \in DOMAIN code[k].labels THEN To(code[k].labels[entry], m) ELSE [m EXCEPT !.ok = FALSE]
         [] t.op \in Compare ->
              IF Arith(t.op, "I", Number(t.sfx, Value(t.l, m)), Number(t.sfx, Value(t.r, m))) = 1
              THEN To(t.v, m) ELSE On(m)
         [] t.op = "ARG" -> On([m EXCEPT !.args = Append(@, Value(t.l, m))])
         [] t.op = "RET" -> On([m EXCEPT !.value = Value(t.l, m)])
         [] t.op = "CALL" -> On(n)
         [] t.op = "ASGN" /\ t.l.op = "ADDRL" -> On([n EXCEPT !.local = (t.l.sym :> v) @@ @])
         [] t.op = "ASGN" /\ t.l.op # "ADDRL" -> On([n EXCEPT !.memory[Value(t.l, m)] = v])
         [] OTHER -> On(m)

Started(m) == [local |-> [x \in {variable(l) : l \in Locals} |-> m.local[x.name]], memory |-> m.memory,
               args |-> <<>>, value |-> 0, ok |-> TRUE]

------------------------------------------------------------------------------
(***************************************************************************)
(* What the function means.  how is the way a statement ends: next, break, *)
(* continue, return, or open if C says nothing or a loop turns too often.  *)
(***************************************************************************)
RECURSIVE Run(_, _), RunFrom(_, _, _), Loop(_, _, _)

Ends(how, v, m) == [how |-> how, v |-> v, m |-> m]

\* The test of a loop, its body and what comes after each turn.
Loop(st, m, n) ==
    LET Turned(after) == IF after.ok THEN Loop(st, after.m, n - 1) ELSE Ends("open", 0, m)
        Ran(body) ==
          IF body.how = "break" THEN Ends("next", 0, body.m)
          ELSE IF body.how \in {"return", "open"} THEN body
          ELSE Turned(IF st.k = "for" THEN Meaning(st.e[3], body.m) ELSE [ok |-> TRUE, m |-> body.m])
        Tested(test) ==
          IF ~test.ok THEN Ends("open", 0, m)
          ELSE IF test.v = 0 THEN Ends("next", 0, test.m) ELSE Ran(Run(st.s[1], test.m))
    IN IF n = 0 THEN Ends("open", 0, m) ELSE Tested(Meaning(st.e[IF st.k = "for" THEN 2 ELSE 1], m))

\* The statements of a block from the i-th.
RunFrom(st, m, i) ==
    IF i > Len(st.s) THEN Ends("next", 0, m)
    ELSE LET After(r) == IF r.how = "next" THEN RunFrom(st, r.m, i + 1) ELSE r IN After(Run(st.s[i], m))

\* The statement a switch goes to, or 0.
Chosen(body, w) ==
    LET Of(k) == {i \in 1..Len(body.s) : body.s[i].k = k}
        cases == {i \in Of("case") : \E n \in Range(body.s[i].v) : n % Words = w}
    IN IF cases # {} THEN CHOOSE i \in cases : TRUE
       ELSE IF Of("default") # {} THEN CHOOSE i \in Of("default") : TRUE ELSE 0

\* What comes first: the body of a do, the expression of any other.
Begun(st, m) ==
    LET Ended(q) == Ends(IF q.ok THEN "next" ELSE "open", q.v, q.m) IN
    CASE st.k = "do" -> Run(st.s[1], m)
      [] st.k \in {"expr", "if", "switch", "return", "for"} -> Ended(Meaning(st.e[1], m))
      [] OTHER -> Ends("next", 0, m)

Run(st, m) ==
    LET Left(r) == IF r.how = "break" THEN Ends("next", 0, r.m) ELSE r
        From(k, n) == IF k = 0 THEN Ends("next", 0, n) ELSE RunFrom(st.s[1], n, k)
        On(b) ==
          CASE b.how = "open" \/ (st.k = "do" /\ b.how \in {"break", "return"}) -> Left(b)
            [] b.how # "open" /\ st.k = "return" -> Ends("return", b.v, b.m)
            [] b.how \in {"next", "continue"} /\ st.k \in {"for", "while", "do"} -> Loop(st, b.m, Turns)
            [] b.how = "next" /\ st.k = "if" ->
                 IF b.v = 0 /\ Len(st.s) = 1 THEN Ends("next", 0, b.m) ELSE Run(st.s[IF b.v # 0 THEN 1 ELSE 2], b.m)
            [] b.how = "next" /\ st.k = "switch" -> Left(From(Chosen(st.s[1], b.v), b.m))
            [] b.how = "next" /\ st.k = "expr"   -> Ends("next", 0, b.m)
            [] b.how = "next" /\ st.k = "block"  -> RunFrom(st, b.m, 1)
            [] b.how = "next" /\ st.k \in {"case", "default"}   -> Run(st.s[1], b.m)
            [] b.how = "next" /\ st.k \in {"break", "continue"} -> Ends(st.k, 0, b.m)
    IN On(Begun(st, m))

------------------------------------------------------------------------------
\* Whatever the store, if the language says what the function does, its code
\* leaves the same memory and returns the same value.
CodeMeansProgram ==
    phase = "generated" =>
      LET flat == Flat(s.code)
          body == [k |-> "block", e |-> <<>>, v |-> <<>>, s |-> program]
      IN \A m \in Stores :
           LET Same(r, c) == r.how # "open" => /\ c.ok /\ c.memory = r.m.memory
                                               /\ c.value = IF r.how = "return" THEN r.v ELSE 0
           IN Same(Run(body, m), Execute(flat, s.code, 1, Started(m), Fuel))

\* Every label a jump, a condition or a table goes to is defined, once.
JumpsFindLabels ==
    phase = "generated" =>
      LET flat == Flat(s.code)
          targets == {flat[i].v : i \in {k \in DOMAIN flat : flat[k].op \in Compare \cup {"JUMP"}}}
                       \cup UNION {Range(s.code[i].labels) : i \in DOMAIN s.code}
      IN \A lab \in targets \ {0} : Cardinality(Defines(flat, lab)) = 1

\* These assertions of dag.c and stmt.c hold: at most one label is given, and
\* only to a condition (107, 142-372); a comparison is given one and its operands
\* are of one kind (251-257); labels are labels (392; stmt.c:546, 577), get
\* another name once (stmt.c:607) and none if they stay in the code (489); what
\* is unlisted is not all there is (402-403); a root is counted as used exactly
\* if its value is (556, 566), and the address of a local is no root (640).
AssertionsHold == s.asserted
==============================================================================
