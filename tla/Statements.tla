----------------------------- MODULE Statements -----------------------------
(***************************************************************************)
(* C statements: the code list stmt.c of miksys_soft/lcc/src makes of      *)
(* them.  Its items are lists of trees (Gen), labels, jumps and tables     *)
(* (Switch).                                                               *)
(*                                                                         *)
(* A statement is a record [k, e, v, s]: its expressions, the constants of *)
(* its case labels and its substatements.                                  *)
(*                                                                         *)
(*   expr e[1];                    block {s[1] s[2] ...}                   *)
(*   if (e[1]) s[1] else s[2]      while (e[1]) s[1]                       *)
(*   do s[1] while (e[1])          for (e[1]; e[2]; e[3]) s[1]             *)
(*   switch (e[1]) s[1]            case v[1]: case v[2]: ... s[1]          *)
(*   default: s[1]                 break, continue, return e[1]            *)
(***************************************************************************)
EXTENDS Expressions, NodeLists

\* A function before its first statement.  exit is its last label.
exit == 1
Empty == [NoCode EXCEPT !.code = <<Item("Start", 0, <<>>)>>, !.label = 2]
         @@ [sw |-> [deflab |-> 0, values |-> <<>>, labels |-> <<>>]]

flush(s) == walk(s, NULL, 0, 0)

\* definelab(lab): jumps to the label that end where it is are dropped.
RECURSIVE dropjumps(_, _)
dropjumps(s, lab) ==
    LET i == SelectLastInSeq(s.code, LAMBDA c : c.kind # "Label") IN
    IF s.code[i].kind = "Jump" /\ s.code[i].label = lab
    THEN dropjumps(refer([s EXCEPT !.code = RemoveAt(@, i)], lab, -1), lab)
    ELSE s
definelab(s, lab) ==
    [dropjumps(flush(assert(s, lab # 0)), lab) EXCEPT !.code = Append(@, Item("Label", lab, <<>>))]

\* branch(lab): a label at a jump is another name of where the jump goes; a
\* jump that nothing reaches is not made.
RECURSIVE equal(_, _, _), droplabels(_, _)
equal(s, lab, dst) == lab = dst \/ (dst \in DOMAIN s.equated /\ equal(s, lab, s.equated[dst]))
\* Mutant: the label is dropped, and its jumps go nowhere.
droplabelsForgotten(s, lab) ==
    LET c == Last(s.code) IN
    IF c.kind = "Label" /\ ~equal(s, c.label, lab) THEN droplabels([s EXCEPT !.code = Front(@)], lab) ELSE s
droplabels(s, lab) ==
    LET c == Last(s.code) IN
    IF c.kind = "Label" /\ ~equal(s, c.label, lab)
    THEN droplabels([equatelab(s, c.label, lab) EXCEPT !.code = Front(@)], lab)
    ELSE s
gives(s, lab) ==
    IF Last(s.code).kind \in {"Jump", "Switch"} THEN s
    ELSE refer([s EXCEPT !.code = Append(@, Item("Jump", lab, <<>>))], lab, 1)
branch(s, lab) == gives(droplabels(flush(assert(s, lab # 0)), lab), lab)

joined(s, lab) == IF refs(s, lab) > 0 THEN definelab(s, lab) ELSE s

returned(t) == tree("RET", "I", "I", cast(t, "I"), NULL)

\* foldcond(e1, e2): the first test of a for loop is known to hold.
foldcond(e1, e2) ==
    /\ e1 # NULL /\ e1.op = "ASGN" /\ isaddrop(e1.l.op) /\ e1.r.op = "CNST"
    /\ e2.op \in Compare
    /\ e2.l.op = "INDIR" /\ e2.l.l.sym = e1.l.sym
    /\ e2.r.op = "CNST" /\ e2.r.sfx = e1.r.sfx
    /\ LET t == simplify(e2.op, "I", "I", e1.r, e2.r) IN Const(t, "I") /\ t.v # 0

------------------------------------------------------------------------------
\* swgen: the sorted case values in buckets at least half full, so that each
\* is a few comparisons or a table.  b[i] is the first case of bucket i.
buckets(v) ==
    LET RECURSIVE Merge(_, _)
        Merge(b, k) ==
          IF Len(b) > 1 /\ 2 * (k - b[Len(b) - 1] + 1) >= v[k] - v[b[Len(b) - 1]] + 1
          THEN Merge(Front(b), k) ELSE b
        b == FoldLeft(LAMBDA c, k : Merge(Append(c, k), k), <<>>, [k \in 1..Len(v) |-> k])
    IN [i \in 0..Len(b) |-> IF i = Len(b) THEN Len(v) + 1 ELSE b[i + 1]]

\* Comparisons in turn: an operator, a constant and a label each.
cmp(s, op, x, n, lab) == listnodes(s, eqtree(op, cast(x, "I"), cnsttree("I", n)), lab, 0).s
compares(s, x, tests) == FoldLeft(LAMBDA c, q : cmp(c, q[1], x, q[2], q[3]), s, tests)

\* A jump through a table with an entry for every value from the first to the
\* last of the bucket.
entries(s, v, l, u) ==
    LET Entry(k) == IF \E i \in l..u : v[i] = k THEN s.sw.labels[CHOOSE i \in l..u : v[i] = k] ELSE s.sw.deflab
    IN [k \in 1..(v[u] - v[l] + 1) |-> Entry(v[l] + k - 1)]
indexed(table, x, low) == rvalue(optree("ADD", idtree(table), optree("SUB", cast(x, "I"), cnsttree("I", low))), "P")
jumptable(s, x, l, u, table) ==
    [walk(s, tree("JUMP", "V", "V", indexed(table, x, s.sw.values[l]), NULL), 0, 0)
       EXCEPT !.code = Append(@, [Item("Switch", 0, <<>>) EXCEPT
                                    !.table = table, !.labels = entries(s, s.sw.values, l, u)])]

\* The buckets lb to ub: the middle one, of cases l to u, then those below and
\* above.  At most three cases are compared in turn.
RECURSIVE swcode(_, _, _, _, _)
bucket(s, x, l, u, only) ==
    IF u - l + 1 > 3 THEN jumptable(s, x, l, u, Symbol("T", s.label, "ADDRG", "STATIC"))
    ELSE flush(IF only THEN branch(s, s.sw.deflab) ELSE s)
below(s, x, b, lb, k, lolab) == IF k > lb THEN swcode(definelab(s, lolab), x, b, lb, k - 1) ELSE s
above(s, x, b, k, ub, hilab) == IF k < ub THEN swcode(definelab(s, hilab), x, b, k + 1, ub) ELSE s
swcode(s, x, b, lb, ub) ==
    LET k == (lb + ub) \div 2
        l == b[k]
        u == b[k + 1] - 1
        lolab == IF k > lb THEN s.label ELSE s.sw.deflab
        hilab == IF k = ub THEN s.sw.deflab ELSE IF k > lb THEN s.label + 1 ELSE s.label
        g == genlabel(s, (IF k > lb THEN 1 ELSE 0) + (IF k < ub THEN 1 ELSE 0))
        less == <<"LT", s.sw.values[l], lolab>>
        more == <<"GT", s.sw.values[u], hilab>>
        tests == IF u - l + 1 > 3 THEN <<less, more>>
                 ELSE [i \in 1..(u - l + 1) |-> <<"EQ", s.sw.values[l + i - 1], s.sw.labels[l + i - 1]>>]
                        \o (IF k > lb THEN <<more>> ELSE IF k < ub THEN <<less>> ELSE <<>>)
    IN above(below(bucket(compares(g, x, tests), x, l, u, lb = ub), x, b, lb, k, lolab), x, b, k, ub, hilab)

swgen(s, x, b) == swcode(s, x, b, 0, Cardinality(DOMAIN b) - 2)

\* caselabel: the values are kept sorted.
caselabel(s, n, lab) ==
    LET k == Cardinality({i \in DOMAIN s.sw.values : s.sw.values[i] < n}) + 1
    IN [s EXCEPT !.sw.values = InsertAt(@, k, n), !.sw.labels = InsertAt(@, k, lab)]

------------------------------------------------------------------------------
(***************************************************************************)
(* statement(s, st, loop, swlab, tag): loop and swlab are the first labels *)
(* of the loop and the switch around it, or 0; tag is its place.  t or e   *)
(* are the trees of its expressions.                                       *)
(***************************************************************************)
RECURSIVE statement(_, _, _, _, _)

listed(s) == IF nodecount(s) = 0 \/ nodecount(s) > 200 THEN flush(s) ELSE s
exprstmt(s, t) == listed(listnodes(s, t, 0, 0).s)

elsepart(s, st, lab, loop, swlab, tag) ==
    IF Len(st.s) = 1 THEN definelab(s, lab)
    ELSE joined(statement(definelab(branch(s, lab + 1), lab), st.s[2], loop, swlab, Child(tag, 5)), lab + 1)
ifstmt(s, st, t, loop, swlab, tag) ==
    elsepart(statement(walk(genlabel(s, 2), t, 0, s.label), st.s[1], loop, swlab, Child(tag, 4)),
             st, s.label, loop, swlab, tag)

\* The test behind a loop's body, which goes back to the loop's label.
tested(s, t, lab) == joined(walk(s, t, lab, 0), lab + 2)

\* while and do: a while begins with its test.
entered(s, st, lab) == definelab(IF st.k = "while" THEN branch(flush(s), lab + 1) ELSE s, lab)
whilestmt(s, st, t, swlab, tag) ==
    LET lab == s.label
    IN tested(definelab(statement(entered(genlabel(s, 3), st, lab), st.s[1], lab, swlab, Child(tag, 4)), lab + 1), t, lab)

\* once: the first test is known to hold.
again(s, once, lab) == IF once THEN s ELSE definelab(s, lab + 3)
turned(s, st, once, e2, e3, lab, swlab, tag) ==
    LET body == statement(definelab(IF once THEN s ELSE branch(s, lab + 3), lab), st.s[1], lab, swlab, Child(tag, 4))
    IN tested(again(walk(definelab(body, lab + 1), e3, 0, 0), once, lab), e2, lab)
forstmt(s, st, e1, e2, e3, swlab, tag) ==
    turned(walk(genlabel(s, 4), e1, 0, 0), st, foldcond(e1, e2), e2, e3, s.label, swlab, tag)

\* The comparisons are made after the body, and go before it.
dispatch(s, x, lab) == branch(IF s.sw.values = <<>> THEN s ELSE swgen(s, x, buckets(s.sw.values)), lab)
Joined(d, code, sw) == [d EXCEPT !.code = @ \o code, !.sw = sw]
around(head, b, x, sw, lab) == Joined(dispatch([b EXCEPT !.code = head.code], x, lab), Tail(b.code), sw)
default(s, lab) == IF s.sw.deflab # 0 THEN s ELSE definelab([s EXCEPT !.sw.deflab = lab], lab)
switched(head, st, x, sw, lab, loop, tag) ==
    LET in == [head EXCEPT !.code = <<Item("Switch", 0, <<>>)>>,
                           !.sw = [deflab |-> 0, values |-> <<>>, labels |-> <<>>]]
    IN around(head, joined(default(statement(in, st.s[1], loop, lab, Child(tag, 4)), lab), lab + 1), x, sw, lab)
swstmt(s, st, e, loop, tag) ==
    LET object == e.op = "INDIR" /\ isaddrop(e.l.op) /\ ~e.l.sym.computed
        x == IF object THEN e ELSE rvalue(idtree(Symbol("s", tag, "ADDRL", "REGISTER")), e.type)
    IN switched(walk(genlabel(s, 2), IF object THEN NULL ELSE asgntree(x, e), 0, 0), st, x, s.sw, s.label, loop, tag)

\* case and default: a label at which the statement goes on.
casestmt(s, st, loop, swlab, tag) ==
    LET lab == IF st.k = "default" THEN swlab ELSE s.label
        l == definelab(IF st.k = "default" THEN [s EXCEPT !.sw.deflab = lab] ELSE genlabel(s, 1), lab)
    IN statement(FoldLeft(LAMBDA c, n : caselabel(c, n, lab), l, st.v), st.s[1], loop, swlab, Child(tag, 4))

\* break, continue and return.
leavestmt(s, st, e, loop, swlab) ==
    branch(walk(s, IF st.k = "return" THEN returned(e[1]) ELSE NULL, 0, 0),
           CASE st.k = "break"    -> IF swlab > loop THEN swlab + 1 ELSE loop + 2
             [] st.k = "continue" -> loop + 1
             [] st.k = "return"   -> exit)

block(s, st, loop, swlab, tag) ==
    flush(FoldLeft(LAMBDA c, i : statement(c, st.s[i], loop, swlab, Child(tag, i)), flush(s),
                   [i \in 1..Len(st.s) |-> i]))

\* The tree of expression i as its statement takes it: for its truth, for its
\* effect, or for its value.
taken(st, i, t) ==
    IF st.k \in {"if", "while", "do"} \/ (st.k = "for" /\ i = 2) THEN cond(t)
    ELSE IF st.k \in {"expr", "for"} THEN root(t) ELSE cast(t, t.type)

stmt(s, st, e, loop, swlab, tag) ==
    CASE st.k = "expr"   -> exprstmt(s, e[1])
      [] st.k = "if"     -> ifstmt(s, st, e[1], loop, swlab, tag)
      [] st.k \in {"while", "do"} -> whilestmt(s, st, e[1], swlab, tag)
      [] st.k = "for"    -> forstmt(s, st, e[1], e[2], e[3], swlab, tag)
      [] st.k = "switch" -> swstmt(s, st, e[1], loop, tag)
      [] st.k = "block"  -> block(s, st, loop, swlab, tag)
      [] st.k \in {"case", "default"} -> casestmt(s, st, loop, swlab, tag)
      [] st.k \in {"break", "continue", "return"} -> leavestmt(s, st, e, loop, swlab)
statement(s, st, loop, swlab, tag) ==
    IF ~s.asserted THEN s
    ELSE stmt(s, st, [i \in 1..Len(st.e) |-> taken(st, i, expr(st.e[i], Child(tag, i)))], loop, swlab, tag)
==============================================================================
