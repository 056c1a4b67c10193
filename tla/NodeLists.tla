----------------------------- MODULE NodeLists -----------------------------
(***************************************************************************)
(* From trees to lists of nodes and back to trees that share nothing:      *)
(* listnodes(), undag() and prune() of miksys_soft/lcc/src/dag.c.          *)
(*                                                                         *)
(* The state s of the translation of one function holds the nodes made,    *)
(* the hash table of those whose value may be used again, the forest (the  *)
(* list not yet handed on), the node each tree was listed as, the last     *)
(* label and the last temporary made, the depth of && and ||, the labels   *)
(* equated to others, the uses of every label, the code list, and whether  *)
(* every assertion held: those of labels and their names, of the operands  *)
(* of comparisons and of the counts of nodes, not those of types and       *)
(* pointers.                                                               *)
(***************************************************************************)
EXTENDS Trees, FiniteSets, SequencesExt

Node(op, sfx, l, r, sym) ==
    [op |-> op, sfx |-> sfx, l |-> l, r |-> r, sym |-> sym, label |-> 0, count |-> 0, tree |-> NULL]

\* A node made outside listnodes has no kids; 0 is no node, and no label.
NoCode == [nodes |-> <<>>, hash |-> {}, forest |-> <<>>, listed |-> [t \in {} |-> 0], label |-> 0,
           temp |-> 0, depth |-> 0, equated |-> [l \in {} |-> 0], ref |-> [l \in {} |-> 0],
           code |-> <<>>, asserted |-> TRUE]

\* An assertion that fails ends the compilation.
assert(s, holds) == [s EXCEPT !.asserted = @ /\ holds]

refs(s, lab) == IF lab \in DOMAIN s.ref THEN s.ref[lab] ELSE 0
refer(s, lab, d) == [s EXCEPT !.ref = (lab :> refs(s, lab) + d) @@ @]

\* newnode(op, l, r, sym): the node is the last of s.nodes.
newnode(s, n) ==
    LET Bump(ns, k) == IF k = 0 THEN ns ELSE [ns EXCEPT ![k].count = @ + 1]
    IN [s EXCEPT !.nodes = Append(Bump(Bump(@, n.l), n.r), n)]

\* node(): one that is in the hash table is used again.  A symbol made by
\* addrtree is of its own tree, so no other tree finds its nodes.
Found(s, n) == {i \in s.hash : [s.nodes[i] EXCEPT !.count = 0, !.tree = NULL] = n}
node(s, n) ==
    IF Found(s, n) # {} /\ ~n.sym.computed
    THEN [s |-> s, p |-> CHOOSE i \in Found(s, n) : TRUE]
    ELSE [s |-> [newnode(s, n) EXCEPT !.hash = @ \cup {Len(s.nodes) + 1}], p |-> Len(s.nodes) + 1]

\* Mutant: an assignment to p ends only what was read by p's name.
killnodesNamed(s, sym) ==
    [s EXCEPT !.hash = {i \in @ : ~(s.nodes[i].op = "INDIR" /\ s.nodes[s.nodes[i].l].sym = sym)}]

\* killnodes(p): what was read from p, or through a pointer.
killnodes(s, sym) ==
    [s EXCEPT !.hash = {i \in @ : ~(/\ s.nodes[i].op = "INDIR"
                                    /\ \/ ~isaddrop(s.nodes[s.nodes[i].l].op)
                                       \/ s.nodes[s.nodes[i].l].sym = sym)}]
reset(s) == [s EXCEPT !.hash = {}]
nodecount(s) == Cardinality(s.hash)

list(s, p) == IF \E i \in 1..Len(s.forest) : s.forest[i] = p THEN s ELSE [s EXCEPT !.forest = Append(@, p)]
listnew(s, n) == list(newnode(s, n), Len(s.nodes) + 1)
unlist(s) == [s EXCEPT !.forest = Front(@)]

Labelled(op, lab) == [Node(op, "V", 0, 0, NoSymbol) EXCEPT !.label = lab]
jump(lab) == Labelled("JUMP", lab)
listjump(s, lab) == refer(listnew(s, jump(lab)), lab, 1)

EndsWithLabel(s) == s.forest # <<>> /\ s.nodes[Last(s.forest)].op = "LABEL"
LastLabel(s) == s.nodes[Last(s.forest)].label

\* equatelab(old, new): old is another name of new.
equatelab(s, old, new) ==
    refer(assert([s EXCEPT !.equated = (old :> new) @@ @], old \notin DOMAIN s.equated), new, 1)
RECURSIVE equated(_, _)
equated(s, lab) == IF lab \in DOMAIN s.equated THEN equated(s, s.equated[lab]) ELSE lab

labelnode(s, lab) ==
    LET a == assert(s, lab # 0)
    IN reset(IF EndsWithLabel(a) THEN equatelab(a, lab, LastLabel(a)) ELSE listnew(a, Labelled("LABEL", lab)))

Opposite == [EQ |-> "NE", NE |-> "EQ", GT |-> "LE", LT |-> "GE", GE |-> "LT", LE |-> "GT"]

------------------------------------------------------------------------------
(***************************************************************************)
(* listnodes(tp, tlab, flab): the node of the tree's value, after the      *)
(* nodes with effects are listed.  With a label the tree is a condition,   *)
(* which jumps to tlab if it holds, to flab if not, and otherwise falls    *)
(* through.                                                                *)
(***************************************************************************)
RECURSIVE listnodes(_, _, _, _)

\* genlabel(n): n new labels, the first of them.
genlabel(s, n) == [s EXCEPT !.label = @ + n]

\* && and ||: the operands jump to `away', which is a new label if none is
\* given, when the first decides.
enter(s, given) ==
    [(IF s.depth = 0 THEN reset(s) ELSE s) EXCEPT !.depth = @ + 1, !.label = IF given = 0 THEN @ + 1 ELSE @]
leave(s, lab) == [s |-> [(IF lab = 0 THEN s ELSE labelnode(s, lab)) EXCEPT !.depth = @ - 1], p |-> 0]
\* Mutant: the first operand is told both labels.
listtruthBoth(s, t, tlab, flab) ==
    LET and == t.op = "AND"
        given == IF and THEN flab ELSE tlab
        away == IF given = 0 THEN s.label ELSE given
        first == listnodes(enter(s, given), t.l, IF and THEN tlab ELSE away, IF and THEN away ELSE flab).s
    IN leave(listnodes(first, t.r, IF and /\ given # 0 THEN tlab ELSE tlab, IF ~and /\ given # 0 THEN flab ELSE flab).s,
             IF given = 0 THEN away ELSE 0)
listtruth(s, t, tlab, flab) ==
    LET and == t.op = "AND"
        given == IF and THEN flab ELSE tlab
        away == IF given = 0 THEN s.label ELSE given
        first == listnodes(enter(s, given), t.l, IF and THEN 0 ELSE away, IF and THEN away ELSE 0).s
    IN leave(listnodes(first, t.r, IF and /\ given # 0 THEN 0 ELSE tlab, IF ~and /\ given # 0 THEN 0 ELSE flab).s,
             IF given = 0 THEN away ELSE 0)

\* c ? l : r.  A label that ends an arm is another name of the join.
listcond(s, t) ==
    LET flab == s.label
        Joined(a) == IF EndsWithLabel(a)
                     THEN unlist(assert(equatelab(a, LastLabel(a), flab + 1), Len(a.forest) > 1)) ELSE a
        Arm(n, kid) == Joined(listnodes(n, kid, 0, 0).s)
        test == reset(listnodes(genlabel(s, 2), t.l, 0, flab).s)
        true == labelnode(listjump(Arm(test, t.r.l), flab + 1), flab)
        join == labelnode(Arm(true, t.r.r), flab + 1)
    IN listnodes(join, IF t.sym = NoSymbol THEN NULL ELSE rvalue(idtree(t.sym), t.type), 0, 0)

\* A constant, or a condition that is one.
listcnst(s, t, tlab, flab) ==
    CASE tlab # 0 \/ flab # 0 ->
           [p |-> 0, s |-> CASE tlab # 0 /\ t.v # 0 -> listjump(s, tlab)
                             [] flab # 0 /\ t.v = 0 -> listjump(s, flab)
                             [] OTHER -> s]
      [] OTHER -> node(s, Node("CNST", t.sfx, 0, 0, Symbol("#", t.v, "", "")))

\* l, r.  In e++ the value of e is read, and listed, before the assignment.
isincr(t) == /\ t.l # NULL /\ t.r # NULL /\ t.l.op = "INDIR" /\ t.r.op = "ASGN"
             /\ t.l.l.tag # 0 /\ t.l.l = t.r.l
listright(s, t, tlab, flab) ==
    CASE isincr(t) -> LET After(L) == [s |-> listnodes(list(L.s, L.p), t.r, 0, 0).s, p |-> L.p]
                      IN After(listnodes(s, t.l, 0, 0))
      [] ~isincr(t) /\ t.r # NULL -> listnodes(listnodes(s, t.l, 0, 0).s, t.r, tlab, flab)
      [] OTHER -> listnodes(s, t.l, tlab, flab)

\* A call ends what may be used again.
listcall(s, t) ==
    LET Of(L) == [s |-> reset(listnew(L.s, Node("CALL", t.sfx, L.p, 0, NoSymbol))), p |-> Len(L.s.nodes) + 1]
    IN Of(listnodes(s, t.l, 0, 0))

\* An argument, then those after it.
listarg(s, t) ==
    LET Passed(L) == listnew(L.s, Node("ARG", t.sfx, L.p, 0, NoSymbol))
    IN [s |-> listnodes(Passed(listnodes(s, t.l, 0, 0)), t.r, 0, 0).s, p |-> 0]

\* A comparison jumps: to tlab if it holds, to flab if its opposite does.
listcompare(s, t, tlab, flab) ==
    LET Of(l, R) ==
          LET n == Node(IF tlab # 0 THEN t.op ELSE Opposite[t.op], R.s.nodes[l].sfx, l, R.p, NoSymbol)
              holds == (tlab = 0) # (flab = 0) /\ R.s.nodes[R.p].sfx = n.sfx
          IN [p |-> 0, s |-> refer(listnew(assert(R.s, holds), [n EXCEPT !.label = tlab + flab]), tlab + flab, 1)]
        After(L) == Of(L.p, listnodes(L.s, t.r, 0, 0))
    IN After(listnodes(s, t.l, 0, 0))

\* An assignment ends what was read from the object, and all that may be used
\* again if the object has an address to compute.
listasgn(s, t) ==
    LET Assigned(n) == IF isaddrop(t.l.op) /\ ~t.l.sym.computed THEN killnodes(n, t.l.sym) ELSE reset(n)
        Of(l, R) == [s |-> Assigned(listnew(R.s, Node("ASGN", t.sfx, l, R.p, NoSymbol))), p |-> R.p]
        After(L) == Of(L.p, listnodes(L.s, t.r, 0, 0))
    IN After(listnodes(s, t.l, 0, 0))

\* A value returned, or the entry of a table jumped to.
listleave(s, t) ==
    LET Of(L) == listnew(L.s, Node(t.op, t.sfx, L.p, 0, NoSymbol))
        Left(n) == [s |-> IF t.op = "JUMP" THEN reset(n) ELSE n, p |-> 0]
    IN Left(Of(listnodes(s, t.l, 0, 0)))

\* A tree with operands and no effect of its own.
listoperator(s, t) ==
    LET Of(l, R) == node(R.s, Node(t.op, t.sfx, l, R.p, t.sym))
        After(L) == Of(L.p, listnodes(L.s, t.r, 0, 0))
    IN After(listnodes(s, t.l, 0, 0))

\* A tree reached again is the node it was listed as.
remember(tag, q) == IF tag = 0 THEN q ELSE [q EXCEPT !.s.listed = (tag :> q.p) @@ @]
\* What may be told a label: a condition, and what stands for one.
Conditional(t) == t.op \in Compare \cup {"AND", "OR", "NOT", "CNST"} \/ (t.op = "RIGHT" /\ ~isincr(t))
listnodes(before, t, tlab, flab) ==
    LET known == t # NULL /\ t.tag # 0 /\ t.tag \in DOMAIN before.listed
        s == assert(before, /\ tlab = 0 \/ flab = 0
                            /\ t = NULL \/ known \/ Conditional(t) \/ (tlab = 0 /\ flab = 0))
    IN
    IF ~s.asserted \/ t = NULL THEN [s |-> s, p |-> 0]
    ELSE IF known THEN [s |-> s, p |-> s.listed[t.tag]]
    ELSE remember(t.tag,
                   CASE t.op \in {"AND", "OR"}   -> listtruth(s, t, tlab, flab)
                     [] t.op = "NOT"             -> listnodes(s, t.l, flab, tlab)
                     [] t.op = "COND"            -> listcond(s, t)
                     [] t.op = "CNST"            -> listcnst(s, t, tlab, flab)
                     [] t.op = "RIGHT"           -> listright(s, t, tlab, flab)
                     [] t.op = "CALL"            -> listcall(s, t)
                     [] t.op = "ARG"             -> listarg(s, t)
                     [] t.op \in Compare         -> listcompare(s, t, tlab, flab)
                     [] t.op = "ASGN"            -> listasgn(s, t)
                     [] t.op \in {"RET", "JUMP"} -> listleave(s, t)
                     [] OTHER                    -> listoperator(s, t))

------------------------------------------------------------------------------
(***************************************************************************)
(* undag: a node used more than once is kept in a temporary, assigned when *)
(* the list first comes to it.  v is the state of the walk: s, the list    *)
(* made so far and, by node, the temporary that keeps it.                  *)
(***************************************************************************)
RECURSIVE visit(_, _, _)

temporary(k) == Symbol("t", k, "ADDRL", "REGISTER")

\* A root or an operand as a tree; v is a constant's value or a label.
treeof(n, l, r) ==
    [tree(n.op, n.sfx, n.sfx, l, r) EXCEPT !.sym = n.sym, !.v = IF n.op = "CNST" THEN n.sym.n ELSE n.label]

tmpnode(v, p) ==
    LET k == v.tmp[p]
        last == v.s.nodes[p].count = 1
    IN [t |-> rvalue(idtree(temporary(k)), v.s.nodes[p].sfx),
        v |-> [v EXCEPT !.s.nodes[p].count = @ - 1, !.tmp = IF last THEN (p :> 0) @@ @ ELSE @]]

\* v = 1 marks the assignment of a common subexpression (u.t.cse).
asgnnode(k, t) == [tree("ASGN", t.sfx, t.sfx, idtree(temporary(k)), t) EXCEPT !.v = 1]

keep(v, p, t) ==
    LET k == v.s.temp + 1
    IN [v EXCEPT !.s.temp = k, !.s.nodes[p].count = @ + 1,
                 !.out = Append(@, asgnnode(k, t)), !.tmp = (p :> k) @@ @]
visited(v, p, n, t, listed) ==
    IF n.count = 0 \/ (n.count = 1 /\ n.op # "CALL")
    THEN [v |-> [v EXCEPT !.s.nodes[p].tree = t], t |-> t]
    ELSE IF n.op = "ADDRL" THEN [v |-> [v EXCEPT !.s = assert(@, ~listed)], t |-> t]
    ELSE IF listed THEN [v |-> keep(v, p, t), t |-> t] ELSE tmpnode(keep(v, p, t), p)
\* With the right operand's tree, and with the left one's.
visitedright(l, R, p, n, listed) == visited(R.v, p, n, treeof(n, l, R.t), listed)
visitedleft(L, p, n, listed) == visitedright(L.t, visit(L.v, n.r, FALSE), p, n, listed)
visit(v, p, listed) ==
    IF p = 0 THEN [v |-> v, t |-> NULL]
    ELSE IF p \in DOMAIN v.tmp /\ v.tmp[p] # 0 THEN tmpnode(v, p)
    ELSE IF v.s.nodes[p].tree # NULL THEN [v |-> v, t |-> v.s.nodes[p].tree]
    ELSE visitedleft(visit(v, v.s.nodes[p].l, FALSE), p, v.s.nodes[p], listed)

unmark(out, k) == [i \in DOMAIN out |-> IF out[i].op = "ASGN" /\ out[i].l.sym = temporary(k)
                                        THEN [out[i] EXCEPT !.v = 0] ELSE out[i]]
rooted(n, p, r) ==
    CASE n.op = "INDIR" ->
           [r.v EXCEPT !.s = assert(@, n.count >= 1),
                       !.out = IF p \in DOMAIN r.v.tmp /\ r.v.tmp[p] # 0 THEN unmark(@, r.v.tmp[p]) ELSE @]
      [] n.op = "CALL" /\ n.count >= 1 -> r.v
      [] OTHER -> [r.v EXCEPT !.out = Append(@, r.t), !.s = assert(@, n.count = 0)]
undag(s) ==
    FoldLeft(LAMBDA v, p : rooted(v.s.nodes[p], p, visit(v, p, TRUE)),
             [s |-> s, out |-> <<>>, tmp |-> [p \in {} |-> 0]], s.forest)

\* An item of the code list.
Item(kind, lab, forest) == [kind |-> kind, label |-> lab, forest |-> forest, table |-> NoSymbol, labels |-> <<>>]

\* walk(tp, tlab, flab): the list so far is handed on.
given(v) == [v.s EXCEPT !.forest = <<>>, !.code = Append(@, Item("Gen", 0, v.out))]
handed(s) == IF s.forest = <<>> THEN s ELSE given(undag(s))
walk(s, t, tlab, flab) ==
    IF s.asserted THEN reset(handed(listnodes(s, t, tlab, flab).s)) ELSE s

------------------------------------------------------------------------------
(***************************************************************************)
(* gencode: a temporary that only copies a register variable gives way to  *)
(* the variable, and jumps go to the labels their labels are equated to.   *)
(***************************************************************************)
RECURSIVE replace(_, _)
replace(p, copies) ==
    CASE p = NULL -> NULL
      [] p # NULL /\ p.op = "INDIR" /\ p.l.op = "ADDRL" /\ p.l.sym \in DOMAIN copies -> copies[p.l.sym]
      [] OTHER -> [p EXCEPT !.l = replace(@, copies), !.r = replace(@, copies)]

prune(forest) ==
    LET Copies(p) == /\ p.op = "ASGN" /\ p.v = 1
                     /\ p.r.op = "INDIR" /\ isaddrop(p.r.l.op) /\ p.r.l.sym.sclass = "REGISTER"
        Root(b, p) ==
          LET q == replace(p, b.copies) IN
          IF Copies(p) /\ q.r = p.r
          THEN [b EXCEPT !.copies = (p.l.sym :> p.r) @@ @]
          ELSE [b EXCEPT !.out = Append(@, q)]
    IN FoldLeft(Root, [copies |-> [x \in {} |-> NULL], out |-> <<>>], forest).out

fixup(s, forest) ==
    [i \in DOMAIN forest |-> IF forest[i].op \in Compare \cup {"JUMP"} /\ forest[i].v # 0
                             THEN [forest[i] EXCEPT !.v = equated(s, @)] ELSE forest[i]]
==============================================================================
