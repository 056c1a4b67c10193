------------------------ MODULE InstructionSelection ------------------------
(***************************************************************************)
(* From a forest of expression trees to the list of instructions that need *)
(* registers: the first half of gen() of the C compiler                    *)
(* (miksys_soft/lcc/src/gen.c) with the rules and the targets of its       *)
(* back end for this processor (miksys_soft/lcc/src/miksys.md).            *)
(*                                                                         *)
(* A forest is a sequence of roots.  A tree is a record with its operator, *)
(* the width of its value (one or two words), the temporary it names and   *)
(* its kids.  What the trees compute is abstracted: an operator is kept    *)
(* for every way the rules treat one.                                      *)
(*                                                                         *)
(*   CNST    a constant that needs an instruction    SHORT  one that fits  *)
(*   LOCAL   the value of a variable of the frame    READ   of a temporary *)
(*   INDIR   the value at a computed address         CV     a conversion   *)
(*   ADD     commutes, SUB does not, SHIFT right,    WIDEN  one word to two*)
(*   NARROW  two words to one,                                             *)
(*   DIV and MOD call the division routine           LOAD   a copy         *)
(*   SAVE    to a temporary, STORE to the frame, ARG to the stack, CALL,   *)
(*   RET     the value of the function, TEST a branch on a value           *)
(***************************************************************************)
EXTENDS Integers, Sequences, FiniteSets, SequencesExt

\* A symbol of syms[RX]: a wildcard of a class, a register or a pair of
\* registers, a temporary, or none.
NoRegister == [kind |-> "none", n |-> 0, wide |-> FALSE]
Wildcard(wide) == [kind |-> "any", n |-> 0, wide |-> wide]
Register(n, wide) == [kind |-> "reg", n |-> n, wide |-> wide]
Temporary(t, wide) == [kind |-> "temp", n |-> t, wide |-> wide]

NeedsReg == {"CNST", "SHORT", "LOCAL", "READ", "INDIR", "CV", "ADD", "SUB", "SHIFT",
             "WIDEN", "NARROW", "DIV", "MOD", "LOAD", "CALL"}

------------------------------------------------------------------------------
\* The node table: kids are the kids in the tree, x the kids that are
\* instructions, inst how often it was reduced to an instruction, rx the
\* register symbol, temp the temporary it began as or assigns, prevuse the use
\* of that temporary before this one, of the node whose value a spill keeps or
\* whose register a read takes.
Fresh(op, kids, wide, rx) ==
    [op |-> op, kids |-> kids, wide |-> wide, rx |-> rx, x |-> <<>>, inst |-> 0,
     rule |-> "", registered |-> FALSE, root |-> FALSE,
     temp |-> IF rx.kind = "temp" THEN rx.n ELSE 0, prevuse |-> 0, of |-> 0]

\* rtarget(p, n, r): the n-th kid is to leave its value in r; a kid that
\* already has a register of its own is copied.
Retarget(nodes, p, n, r) ==
    LET q == nodes[p].kids[n]
        copy == Append(nodes, Fresh("LOAD", <<q>>, nodes[q].wide, r))
    IN IF nodes[q].rx = r \/ nodes[q].rx.kind = "any"
       THEN [nodes EXCEPT ![q].rx = r]
       ELSE [copy EXCEPT ![p].kids[n] = Len(copy)]

\* deep_target: below the copies and conversions that head the kid.
RECURSIVE DeepTarget(_, _, _, _)
DeepTarget(nodes, p, n, r) ==
    LET q == nodes[p].kids[n] IN
    IF nodes[q].op \in {"LOAD", "NARROW"} THEN DeepTarget(nodes, q, 1, r) ELSE Retarget(nodes, p, n, r)

\* The targets of the operators with a register of their own.
Target(nodes, p) ==
    LET n == nodes[p]
        Both == DeepTarget(DeepTarget(nodes, p, 1, Register(0, FALSE)), p, 2, Register(1, FALSE))
    IN CASE n.op = "RET" ->
              [DeepTarget(nodes, p, 1, Register(0, n.wide)) EXCEPT ![p].rx = Register(0, FALSE)]
         [] n.op = "DIV"  -> [Both EXCEPT ![p].rx = Register(1, FALSE)]
         [] n.op = "MOD"  -> [Both EXCEPT ![p].rx = Register(0, FALSE)]
         [] n.op = "CALL" -> [nodes EXCEPT ![p].rx = Register(0, n.wide)]
         [] n.op = "SAVE" -> Retarget(nodes, p, 1, Temporary(n.temp, n.wide))
         [] OTHER -> nodes

\* A tree enters the node table, its kids first, and gets its register
\* symbols as prelabel walks it; a conversion to a type that is not wider is
\* a copy.  The answer is the table and the node of the tree.
RECURSIVE Plant(_, _), PlantAll(_, _)
PlantAll(nodes, trees) ==
    IF trees = <<>> THEN [nodes |-> nodes, ids |-> <<>>]
    ELSE LET first == Plant(nodes, Head(trees))
             rest == PlantAll(first.nodes, Tail(trees))
         IN [nodes |-> rest.nodes, ids |-> <<first.id>> \o rest.ids]
Plant(nodes, t) ==
    LET below == PlantAll(nodes, t.kids)
        rx == IF t.op = "READ" THEN Temporary(t.temp, t.wide)
              ELSE IF t.op \in NeedsReg THEN Wildcard(t.wide) ELSE NoRegister
        op == IF t.op = "CV" THEN "LOAD" ELSE t.op
        own == Append(below.nodes, [Fresh(op, below.ids, t.wide, rx) EXCEPT !.temp = t.temp])
    IN [nodes |-> Target(own, Len(own)), id |-> Len(own)]

------------------------------------------------------------------------------
\* The rules of miksys.md: the nonterminal a node can become, those of its
\* kids, the cost, and whether the template is an instruction of its own or
\* only part of its user's.  width: 1, 2, or 0 for both.  (constant is the
\* operator itself in the pattern of ARG, never a read of one.)
Rule(op, nt, kids, cost, inst, width) ==
    [op |-> op, nt |-> nt, kids |-> kids, cost |-> cost, inst |-> inst, width |-> width]
Rules ==
    << Rule("CNST",  "constant", <<>>, 0, FALSE, 0),  Rule("CNST", "creg", <<>>, 0, TRUE, 0),
       Rule("SHORT", "constant", <<>>, 0, FALSE, 0),  Rule("SHORT", "op", <<>>, 0, FALSE, 0),
       Rule("SHORT", "creg", <<>>, 0, TRUE, 0),
       Rule("LOCAL", "op", <<>>, 0, FALSE, 0),    Rule("LOCAL", "creg", <<>>, 0, TRUE, 0),
       Rule("READ",  "reg", <<>>, 0, TRUE, 0),
       Rule("INDIR", "op", <<"addr">>, 0, FALSE, 0), Rule("INDIR", "creg", <<"addr">>, 0, TRUE, 0),
       Rule("LOAD",  "reg", <<"reg">>, 0, FALSE, 0), Rule("LOAD", "creg", <<"reg">>, 1, TRUE, 0),
       Rule("NARROW", "reg", <<"reg">>, 1, FALSE, 1),
       Rule("ADD",   "creg", <<"reg", "op">>, 0, TRUE, 0),
       Rule("ADD",   "creg", <<"op", "reg">>, 0, TRUE, 1),
       Rule("SUB",   "creg", <<"reg", "op">>, 0, TRUE, 0),
       Rule("SUB",   "creg", <<"op", "reg">>, 1, TRUE, 1),
       Rule("SHIFT", "reg", <<"creg", "op">>, 0, TRUE, 1),
       Rule("WIDEN", "creg", <<"reg">>, 0, TRUE, 2),
       Rule("DIV",   "reg", <<"creg", "creg">>, 0, TRUE, 1),
       Rule("MOD",   "reg", <<"creg", "creg">>, 0, TRUE, 1),
       Rule("CALL",  "reg", <<>>, 0, TRUE, 0),    Rule("CALL", "stmt", <<>>, 0, TRUE, 0),
       Rule("SAVE",  "stmt", <<"creg">>, 0, TRUE, 0),
       Rule("STORE", "stmt", <<"addr", "reg">>, 1, TRUE, 0),
       Rule("STORE", "stmt", <<"reg">>, 1, TRUE, 0),
       Rule("ARG",   "stmt", <<"reg">>, 1, TRUE, 0),
       Rule("ARG",   "stmt", <<"constant">>, 0, TRUE, 0),
       Rule("RET",   "stmt", <<"creg">>, 0, TRUE, 0),
       Rule("RET",   "stmt", <<"reg">>, 1, TRUE, 0),
       Rule("TEST",  "stmt", <<"creg">>, 0, TRUE, 1),
       Rule("TEST",  "stmt", <<"reg">>, 1, TRUE, 1) >>

\* A choice for a nonterminal: its cost, and the rule (or the nonterminal a
\* chain rule takes it from).  Of two equal costs the earlier rule stays.
Impossible == 32767
NoChoice == [cost |-> Impossible, rule |-> 0, from |-> ""]
Cheaper(a, b) == IF b.cost < a.cost THEN b ELSE a
Chain(a, nt, cost) ==
    IF a.cost >= Impossible THEN a ELSE [cost |-> a.cost + cost, rule |-> 0, from |-> nt]

\* The labels of a node: for each nonterminal the cheapest way to get it.
RulesOf == [op \in {Rules[i].op : i \in DOMAIN Rules} |-> {i \in DOMAIN Rules : Rules[i].op = op}]
Costs(n, below) ==
    LET KidCost(i, k) == IF k > Len(below) THEN 0 ELSE below[k][Rules[i].kids[k]].cost
        Fits(i) == /\ Len(Rules[i].kids) = Len(n.kids)
                   /\ Rules[i].width \in {0, IF n.wide THEN 2 ELSE 1}
    IN [i \in {i \in RulesOf[n.op] : Fits(i)} |-> Rules[i].cost + KidCost(i, 1) + KidCost(i, 2)]
Cheapest(costs, nt) ==
    LET is == {i \in DOMAIN costs : Rules[i].nt = nt /\ costs[i] < Impossible}
        Before(i, j) == costs[i] < costs[j] \/ (costs[i] = costs[j] /\ i <= j)
        best == CHOOSE i \in is : \A j \in is : Before(i, j)
    IN IF is = {} THEN NoChoice ELSE [cost |-> costs[best], rule |-> best, from |-> ""]
Direct(costs) == [nt \in {"constant", "creg", "reg", "op", "stmt"} |-> Cheapest(costs, nt)]
Closed(n, direct) ==
    LET reg == Cheaper(direct["reg"], Chain(direct["creg"], "creg", 1))
    IN [constant |-> direct["constant"], creg |-> direct["creg"], reg |-> reg,
        op |-> Cheaper(direct["op"], Chain(reg, "reg", IF n.wide THEN 0 ELSE 1)),
        addr |-> IF n.wide THEN NoChoice ELSE Chain(reg, "reg", 1),
        stmt |-> Cheaper(direct["stmt"], Chain(reg, "reg", 5))]
\* The node assigned to a temporary, and emitrecalc: what is free of that node
\* is free of a read, if it is a constant.
Cse(nodes, t) ==
    nodes[CHOOSE p \in DOMAIN nodes : nodes[p].op = "SAVE" /\ nodes[p].temp = t].kids[1]
MayRecalc(nodes, n) == n.op = "READ" /\ nodes[Cse(nodes, n.temp)].op \in {"CNST", "SHORT"}
Recalculated(direct, of) == [nt \in DOMAIN direct |-> IF nt # "constant" /\ of[nt].cost = 0 THEN of[nt] ELSE direct[nt]]

RECURSIVE Label(_, _)
Label(nodes, p) ==
    LET n == nodes[p]
        direct(below) == IF MayRecalc(nodes, n)
                         THEN Recalculated(Direct(Costs(n, below)), Label(nodes, Cse(nodes, n.temp)))
                         ELSE Direct(Costs(n, below))
        below == CASE Len(n.kids) = 0 -> <<>>
                   [] Len(n.kids) = 1 -> <<Label(nodes, n.kids[1])>>
                   [] Len(n.kids) = 2 -> <<Label(nodes, n.kids[1]), Label(nodes, n.kids[2])>>
    IN Closed(n, direct(below))

\* reduce: the rule each node of the tree ends with.  reuse: a read of what
\* can be had for nothing is no instruction; the constant is one again.
Reuses(nodes, p, nt) ==
    MayRecalc(nodes, nodes[p]) /\ Label(nodes, Cse(nodes, nodes[p].temp))[nt].cost = 0
Named(nodes, p, nt, cse) ==
    IF Rules[Label(nodes, cse)[nt].rule].inst THEN [nodes EXCEPT ![p].of = cse] ELSE nodes
RECURSIVE Reduce(_, _, _), ReduceBy(_, _, _)
Reduce(nodes, p, nt) ==
    LET cse == Cse(nodes, nodes[p].temp) IN
    IF Reuses(nodes, p, nt)
    THEN ReduceBy(Named(nodes, p, nt, cse), cse, Label(nodes, cse)[nt])
    ELSE ReduceBy(nodes, p, Label(nodes, p)[nt])
ReduceBy(nodes, p, choice) ==
    IF choice.rule = 0 THEN Reduce(nodes, p, choice.from)
    ELSE FoldLeftDomain(
            LAMBDA t, k : Reduce(t, nodes[p].kids[k], Rules[choice.rule].kids[k]),
            [nodes EXCEPT ![p].inst = @ + (IF Rules[choice.rule].inst THEN 1 ELSE 0),
                          ![p].rule = Rules[choice.rule].nt],
            nodes[p].kids)

\* rewrite: targets, labels and rules of one more root of the forest.  A tree
\* that no rules cover ends the compilation.
Covered(planted) == Label(planted.nodes, planted.id)["stmt"].cost < Impossible
Reduced(planted) ==
    IF Covered(planted)
    THEN [nodes |-> [Reduce(planted.nodes, planted.id, "stmt") EXCEPT ![planted.id].root = TRUE],
          id |-> planted.id, covered |-> TRUE]
    ELSE [nodes |-> planted.nodes, id |-> planted.id, covered |-> FALSE]
Rewrite(nodes, tree) == Reduced(Plant(nodes, tree))

------------------------------------------------------------------------------
\* usecount of a temporary: how often nodes in its register were reduced to
\* instructions.  prune: the kids of an instruction are the instructions next
\* below it; the value of a temporary nobody else names is not computed.
UseCount(nodes, t) ==
    MapThenSumSet(LAMBDA p : nodes[p].inst,
                  {p \in DOMAIN nodes : nodes[p].rx.kind = "temp" /\ nodes[p].rx.n = t})
IsInstruction(nodes, p) ==
    /\ nodes[p].inst > 0
    /\ nodes[p].rx.kind = "temp" => UseCount(nodes, nodes[p].rx.n) >= 2
RECURSIVE Instructions(_, _)
Instructions(nodes, ps) ==
    IF ps = <<>> THEN <<>>
    ELSE (IF IsInstruction(nodes, Head(ps)) THEN <<Head(ps)>>
          ELSE Instructions(nodes, nodes[Head(ps)].kids)) \o Instructions(nodes, Tail(ps))
Prune(nodes) ==
    [p \in DOMAIN nodes |-> [nodes[p] EXCEPT !.x = Instructions(nodes, nodes[p].kids)]]

\* linearize: the kids of an instruction before it.
RECURSIVE Linearize(_, _)
Linearize(nodes, ps) ==
    IF ps = <<>> THEN <<>>
    ELSE Linearize(nodes, nodes[Head(ps)].x) \o <<Head(ps)>> \o Linearize(nodes, Tail(ps))
=============================================================================
