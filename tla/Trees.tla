------------------------------- MODULE Trees -------------------------------
(***************************************************************************)
(* The expression trees of the C compiler: how simplify() of               *)
(* miksys_soft/lcc/src/simp.c folds and rewrites an operator as its tree   *)
(* is built, and the builders of tree.c, expr.c and enode.c around it, for *)
(* the types int, unsigned and pointer to int.                             *)
(*                                                                         *)
(* A tree is a value; the program's tree is a pointer, and a tree reached  *)
(* twice is listed once.  tag stands for the pointer: two trees with the   *)
(* same tag other than 0 are the same tree.  Words have Width bits instead *)
(* of sixteen; a constant is kept, as in the program, as a long.           *)
(***************************************************************************)
EXTENDS Integers, Sequences, Bitwise

CONSTANT Width
ASSUME WidthAssumption == Width \in Nat /\ Width >= 2

Words == 2^Width
INT_MAX == 2^(Width - 1) - 1
INT_MIN == -2^(Width - 1)
ones == Words - 1
extend(x) == IF x % Words > INT_MAX THEN (x % Words) - Words ELSE x % Words

\* Division and remainder of C: towards zero.
Abs(x) == IF x < 0 THEN -x ELSE x
Quot(x, y) == (IF (x < 0) = (y < 0) THEN 1 ELSE -1) * (Abs(x) \div Abs(y))
Rem(x, y) == x - y * Quot(x, y)

------------------------------------------------------------------------------
\* Symbols: a variable by name, a temporary or a table by its number.  offset
\* and computed are those of a symbol made by addrtree.
Symbol(name, n, op, sclass) ==
    [name |-> name, n |-> n, op |-> op, sclass |-> sclass, offset |-> 0, computed |-> FALSE]
NoSymbol == Symbol("", 0, "", "")

NULL == [op |-> "NULL"]

tree(op, sfx, ty, l, r) ==
    [op |-> op, sfx |-> sfx, type |-> ty, l |-> l, r |-> r, v |-> 0, sym |-> NoSymbol, tag |-> 0]

cnsttree(ty, v) == [tree("CNST", ty, ty, NULL, NULL) EXCEPT !.v = IF ty = "U" THEN v % Words ELSE v]

idtree(sym) == [tree(sym.op, "P", "P", NULL, NULL) EXCEPT !.sym = sym]

rvalue(p, ty) == tree("INDIR", ty, ty, p, NULL)

lvalue(p) == p.l

isaddrop(op) == op \in {"ADDRG", "ADDRL"}

Compare == {"EQ", "NE", "GT", "GE", "LE", "LT"}
Truth == Compare \cup {"AND", "OR", "NOT"}

RECURSIVE rightkid(_)
rightkid(p) == IF p.op # "RIGHT" THEN p ELSE rightkid(IF p.r # NULL THEN p.r ELSE p.l)

binary(s, t) == IF "U" \in {s, t} THEN "U" ELSE "I"

------------------------------------------------------------------------------
\* What folds: the guards of xfoldcnst, sfoldcnst and cfoldcnst.
addi(x, y) ==
    \/ x = 0 \/ y = 0
    \/ x < 0 /\ y < 0 /\ x >= INT_MIN - y
    \/ x < 0 /\ y > 0
    \/ x > 0 /\ y < 0
    \/ x > 0 /\ y > 0 /\ x <= INT_MAX - y

divi(x, y) == y # 0 /\ ~(x = INT_MIN /\ y = -1)

muli(x, y) ==
    \/ x \in {0, 1} \/ y \in {0, 1}
    \/ x < 0 /\ y < 0 /\ -x <= Quot(INT_MAX, -y)
    \/ x < 0 /\ y > 0 /\ x >= Quot(INT_MIN, y)
    \/ x > 0 /\ y < 0 /\ y >= Quot(INT_MIN, x)
    \/ x > 0 /\ y > 0 /\ x <= Quot(INT_MAX, y)

Folds(op, s, x, y) ==
    /\ op \in {"LSH", "RSH"} => y \in 0..(Width - 1)
    /\ op \in {"DIV", "MOD"} => y # 0 /\ (s = "I" => divi(x, y))
    /\ s = "I" => CASE op \in {"MUL", "LSH"} -> muli(x, IF op = "LSH" THEN 2^y ELSE y)
                    [] op \in {"ADD", "SUB"} -> addi(x, IF op = "SUB" THEN -y ELSE y)     \* subi(x, y)
                    [] OTHER -> TRUE

\* The compiler's arithmetic on longs.
Signed(s, w) == IF s = "U" THEN w ELSE extend(w)
Bits(op, x, y) == IF op = "BAND" THEN x & y ELSE IF op = "BOR" THEN x | y ELSE x ^^ y
Holds(op, x, y) ==
    CASE op = "EQ" -> x = y [] op = "NE" -> x # y [] op = "GT" -> x > y
      [] op = "GE" -> x >= y [] op = "LE" -> x <= y [] op = "LT" -> x < y
Arith(op, s, x, y) ==
    CASE op = "ADD" -> x + y
      [] op = "SUB" -> x - y
      [] op = "MUL" -> x * y
      [] op = "DIV" -> Quot(x, y)
      [] op = "MOD" -> Rem(x, y)
      [] op = "LSH" -> x * 2^y
      [] op = "RSH" -> x \div 2^y
      [] op \in {"BAND", "BOR", "BXOR"} -> Signed(s, Bits(op, x % Words, y % Words))
      [] op \in Compare -> IF Holds(op, x, y) THEN 1 ELSE 0

\* ispow2(u): the n of u = 2^n > 1, and 0 for any other u.
ispow2(u) == IF \E n \in 1..Width : u = 2^n THEN CHOOSE n \in 1..Width : u = 2^n ELSE 0

Const(t, s) == t.op = "CNST" /\ t.sfx = s
Is(t, s, v) == Const(t, s) /\ t.v = v

\* Constants to the right of what commutes, to the left of a product.
Swaps(op, l, r) ==
    \/ op \in {"ADD", "BAND", "BOR", "BXOR", "EQ", "NE"} /\ l.op = "CNST" /\ r.op # "CNST"
    \/ op = "MUL" /\ r.op = "CNST" /\ l.op # "CNST"

\* x op r = x.
identity(op, s, r) ==
    \/ op \in {"ADD", "SUB", "BOR", "BXOR"} /\ Is(r, s, 0)
    \/ op \in {"LSH", "RSH"} /\ Is(r, "I", 0)
    \/ op = "DIV" /\ Is(r, s, 1)
    \/ op = "BAND" /\ Is(r, s, ones)

\* The address of a symbol and an offset, as a symbol of its own.
addrtree(e, n) == idtree([e.sym EXCEPT !.offset = @ + n, !.computed = TRUE])

------------------------------------------------------------------------------
RECURSIVE simplify(_, _, _, _, _), root(_)

\* root(p): what is left of a tree whose value nobody uses.  NULL is no tree.
Seq2(ty, l, r) == IF l = NULL /\ r = NULL THEN NULL ELSE tree("RIGHT", ty, ty, l, r)
rootcond(p) ==
    LET Arm(q) == root(IF p.sym # NoSymbol /\ q.op = "ASGN" THEN q.r ELSE q)
        l == Arm(p.r.l)
        r == Arm(p.r.r)
    IN IF l = NULL /\ r = NULL
       THEN root(p.l)
       ELSE [p EXCEPT !.r.l = l, !.r.r = r, !.sym = NoSymbol]
root(p) ==
    IF p = NULL THEN NULL
    ELSE IF p.op = "COND" THEN rootcond(p)
    ELSE IF p.op \in {"AND", "OR"} THEN
           LET r == root(p.r) IN IF r = NULL THEN root(p.l) ELSE [p EXCEPT !.r = r]
    ELSE IF p.op = "RIGHT" /\ p.r = NULL THEN root(p.l)
    ELSE IF p.op = "RIGHT" /\ p.r # NULL /\ p.l.op = "RIGHT" /\ p.r.tag # 0 /\ p.r = p.l.l THEN
           p.l.r                                          \* e++ for its effect
    ELSE IF p.op = "RIGHT" \/ p.op \in Compare
         \/ p.op \in {"ADD", "SUB", "MUL", "DIV", "MOD", "LSH", "RSH", "BAND", "BOR", "BXOR"} THEN
           Seq2(p.type, root(p.l), root(p.r))
    ELSE IF p.op \in {"NOT", "NEG", "BCOM", "INDIR", "CVI", "CVU"} THEN root(p.l)
    ELSE IF p.op \in {"CNST", "ADDRL", "ADDRG"} THEN NULL
    ELSE p

\* simplify of the operators with one operand.
unary(op, s, ty, l) ==
    CASE op = "NEG" /\ l.op = "CNST" /\ l.v # INT_MIN -> cnsttree(ty, -l.v)
      [] op = "NEG" /\ l.op = "NEG" -> l.l
      [] op = "BCOM" /\ l.op = "CNST" -> cnsttree(ty, IF s = "U" THEN ones - l.v ELSE -l.v - 1)
      [] op = "BCOM" /\ l.op = "BCOM" /\ l.sfx = "U" -> l.l
      [] op = "NOT" /\ l.op = "CNST" -> cnsttree(ty, IF l.v = 0 THEN 1 ELSE 0)
      [] OTHER -> tree(op, s, ty, l, NULL)

\* Products: constants are distributed over a sum, powers of two are shifts.
product(s, l, r) ==
    IF s = "I" /\ Const(l, "I") /\ r.op \in {"ADD", "SUB"} /\ r.sfx = "I" /\ Const(r.r, "I") THEN
           simplify(r.op, "I", "I", simplify("MUL", "I", "I", l, r.l), simplify("MUL", "I", "I", l, r.r))
    ELSE IF Const(l, s) /\ l.v > 0 /\ ispow2(l.v) # 0 THEN
           simplify("LSH", s, s, r, cnsttree("I", ispow2(l.v)))
    ELSE IF Is(l, s, 1) THEN r
    ELSE tree("MUL", s, s, l, r)

\* A mask of nothing, quotients and remainders of powers of two.
reduce(op, s, l, r) ==
    CASE (op = "BAND" /\ Is(r, s, 0)) \/ (op = "MOD" /\ s = "I" /\ Is(r, "I", 1)) ->
           tree("RIGHT", s, s, root(l), cnsttree(s, 0))
      [] op = "DIV" /\ s = "U" /\ Const(r, "U") /\ ispow2(r.v) # 0 ->
           simplify("RSH", "U", "U", l, cnsttree("I", ispow2(r.v)))
      [] op = "MOD" /\ s = "U" /\ Const(r, "U") /\ ispow2(r.v) # 0 ->
           simplify("BAND", "U", "U", l, cnsttree("U", r.v - 1))
      [] OTHER -> tree(op, s, s, l, r)

\* Comparisons of unsigned values with zero: always true or false (geu), or
\* an equality.
zero(op, l, r, what) ==
    op \in {"GE", "GT", "LE", "LT"} /\ Is(IF (op \in {"LT", "GE"}) = (what = "decides") THEN r ELSE l, "U", 0)
order(op, l, r) ==
    LET low == op \in {"LT", "GE"}
        holds == op \in {"GE", "LE"}
    IN IF zero(op, l, r, "decides")
       THEN tree("RIGHT", "I", "I", root(IF low THEN l ELSE r), cnsttree("I", IF holds THEN 1 ELSE 0))
       ELSE simplify(IF holds THEN "EQ" ELSE "NE", "U", "I", IF low THEN r ELSE l, IF low THEN l ELSE r)

\* Addresses.  The index is the left operand unless it is a constant.
address(op, l, r) ==
    IF op = "SUB" /\ r.op = "CNST" THEN simplify("ADD", "P", "P", l, cnsttree("I", -r.v))
    ELSE IF op = "SUB" /\ isaddrop(l.op) /\ r.op = "ADD" /\ r.sfx = "I" /\ Const(r.r, "I") THEN
           simplify("SUB", "P", "P", simplify("SUB", "P", "P", l, r.r), r.l)
    ELSE IF op = "SUB" THEN tree("SUB", "P", "P", l, r)
    ELSE IF r.op = "CNST" /\ r.v = 0 THEN l
    ELSE IF r.op = "CNST" /\ isaddrop(l.op) THEN addrtree(l, r.v)
    ELSE IF r.op = "CNST" /\ l.op = "ADD" /\ isaddrop(l.r.op) THEN
           simplify("ADD", "P", "P", l.l, addrtree(l.r, r.v))
    ELSE IF l.op \in {"ADD", "SUB"} /\ l.sfx = "I" /\ Const(l.r, "I") /\ isaddrop(r.op) THEN
           simplify("ADD", "P", "P", l.l, simplify(l.op, "P", "P", r, l.r))
    ELSE IF r.op = "CNST" /\ l.op = "ADD" /\ l.sfx = "P" /\ l.r.op = "CNST" THEN
           simplify("ADD", "P", "P", l.l, simplify("ADD", l.r.type, l.r.type, l.r, r))
    ELSE IF l.op = "ADD" /\ l.sfx = "I" /\ l.r.op = "CNST" /\ r.op = "ADD" /\ r.sfx = "P" /\ r.r.op = "CNST" THEN
           simplify("ADD", "P", "P", l.l,
             simplify("ADD", "P", "P", r.l, simplify("ADD", r.r.type, r.r.type, l.r, r.r)))
    ELSE IF l.op = "RIGHT" /\ l.r # NULL THEN
           tree("RIGHT", "P", "P", l.l, simplify("ADD", "P", "P", l.r, r))
    ELSE tree("ADD", "P", "P", l, r)

\* simplify(op, ty, l, r) of a binary operator.
simplify(op, s, ty, l0, r0) ==
    LET swap == Swaps(op, l0, r0)
        l == IF swap THEN r0 ELSE l0
        r == IF swap THEN l0 ELSE r0
        constants == Const(l, s) /\ Const(r, IF op \in {"LSH", "RSH"} THEN "I" ELSE s)
    IN IF s = "P" THEN address(op, l, r)
       ELSE IF s = "U" /\ (zero(op, l, r, "decides") \/ (~constants /\ zero(op, l, r, "equals"))) THEN order(op, l, r)
       ELSE IF constants /\ Folds(op, s, l.v, r.v) THEN cnsttree(ty, Arith(op, s, l.v, r.v))
       ELSE IF identity(op, s, r) THEN l
       ELSE IF op = "MUL" THEN product(s, l, r)
       ELSE IF op \in {"BAND", "DIV", "MOD"} THEN reduce(op, s, l, r)
       ELSE tree(op, s, ty, l, r)
------------------------------------------------------------------------------
\* A variable of its own assigned one of two values: e ? l : r.
choice(e, c, ty, l, r) ==
    LET t1 == Symbol("c", e.tag, "ADDRL", "REGISTER")
        To(q) == tree("ASGN", ty, ty, idtree(t1), q)
    IN [tree("COND", "", ty, c, tree("RIGHT", ty, ty, To(l), To(r))) EXCEPT !.sym = t1]

\* The value of a condition is one or zero.
value(p) == IF rightkid(p).op \in Truth THEN choice(p, p, "I", cnsttree("I", 1), cnsttree("I", 0)) ELSE p

\* A constant is converted if it is a value of the other type.
convert(l, ty) ==
    IF {l.type, ty} # {"I", "U"} THEN l
    ELSE IF l.op = "CNST" /\ l.v \in 0..(IF ty = "U" THEN ones ELSE INT_MAX)
    THEN cnsttree(ty, l.v)
    ELSE tree(IF ty = "U" THEN "CVI" ELSE "CVU", ty, ty, l, NULL)
cast(p, ty) == convert(value(p), ty)

\* Comparisons.
cmptree(op, l, r, ty) == simplify(op, ty, "I", cast(l, ty), cast(r, ty))
eqtree(op, l, r) == cmptree(op, l, r, binary(l.type, r.type))

cond(p) == IF rightkid(p).op \in Truth THEN p ELSE eqtree("NE", p, cnsttree("I", 0))

\* asgn and asgntree; the left side is the tree of an object.
asgntree(l, r) == tree("ASGN", l.type, l.type, lvalue(l), cast(r, l.type))

\* e ? l : r, whose value is that of a new variable.
condtree(e, l, r) ==
    LET ty == IF l.type = "P" THEN "P" ELSE binary(l.type, r.type)
    IN IF e.op = "CNST" THEN cast(IF e.v # 0 THEN l ELSE r, ty)
       ELSE choice(e, cond(e), ty, cast(l, ty), cast(r, ty))

\* 0 && r, 1 && r, 0 || r, 1 || r.
logical(op, l, r) ==
    IF l.op # "CNST" THEN tree(op, "", "I", l, r)
    ELSE IF (op = "AND") = (l.v # 0) THEN cond(r)
    ELSE cnsttree("I", IF op = "AND" THEN 0 ELSE 1)
==============================================================================
