---------------------------- MODULE Expressions ----------------------------
(***************************************************************************)
(* C expressions: the trees expr() builds for them (expr.c and enode.c of  *)
(* miksys_soft/lcc/src), and what the language says they mean.             *)
(*                                                                         *)
(* An expression is a record [k, op, v, args].  The variables are the      *)
(* locals x (int), u (unsigned) and p (a pointer to int), the global g and *)
(* the global array a, both of int; x and p are in registers, u is not.    *)
(* f is a function of the program.                                         *)
(*                                                                         *)
(*   num   constant v of type op      var   variable op                    *)
(*   bin   binary operator op         comp  comparison op                  *)
(*   neg, com, not                    cast  to type op                     *)
(*   and, or, comma, cond             asg, opasg (op=), post (op 1 after)  *)
(*   idx   args[1][args[2]]           deref *args[1]                       *)
(*   call  f(args)                                                         *)
(***************************************************************************)
EXTENDS Trees

\* A word of memory each: g, then the four elements of a.
AddressOf == [g |-> 1, a |-> 4]
ArrayCells == 4..7

TypeOfVariable == [x |-> "I", u |-> "U", g |-> "I", p |-> "P", a |-> "P"]
Locals == {"x", "u", "p"}

Child(tag, k) == 10 * tag + k
Tagged(t, tag) == IF t.tag = 0 THEN [t EXCEPT !.tag = tag] ELSE t

\* An object whose tree is used twice, to read it and to assign to it.
Object(v) == IF v.l.tag = 0 THEN [v EXCEPT !.l.tag = Child(v.tag, 9)] ELSE v

RECURSIVE hascall(_)
hascall(t) == t # NULL /\ (t.op = "CALL" \/ hascall(t.l) \/ hascall(t.r))

variable(name) == Symbol(name, 0, IF name \in Locals THEN "ADDRL" ELSE "ADDRG",
                         CASE name \in {"x", "p"} -> "REGISTER" [] name = "u" -> "AUTO" [] OTHER -> "STATIC")

\* The builders of a binary operator: shtree keeps the type of its left
\* operand, addtree puts a pointer to the right.
optree(op, l, r) ==
    LET shift == op \in {"LSH", "RSH"}
        pointer == "P" \in {l.type, r.type}
        ty == IF shift THEN l.type ELSE IF pointer THEN "P" ELSE binary(l.type, r.type)
        turned == op = "ADD" /\ l.type = "P"
        Operand(q, t) == cast(q, IF pointer THEN q.type ELSE t)
    IN simplify(op, ty, ty, Operand(IF turned THEN r ELSE l, ty),
                Operand(IF turned THEN l ELSE r, IF shift THEN "I" ELSE ty))

incr(op, v, e) == asgntree(v, optree(op, v, e))

\* call(f, args): an argument with a call in it is evaluated before any
\* argument is passed; the arguments are passed from the first to the last.
call(qs) ==
    LET Args[i \in 1..(Len(qs) + 1)] ==
          IF i > Len(qs) THEN NULL ELSE tree("ARG", qs[i].type, qs[i].type, qs[i], Args[i + 1])
        First[i \in 1..(Len(qs) + 1)] ==
          IF i > Len(qs) THEN NULL
          ELSE IF ~hascall(qs[i]) THEN First[i + 1]
          ELSE IF First[i + 1] = NULL THEN qs[i]
          ELSE tree("RIGHT", "V", "V", First[i + 1], qs[i])
        args == IF First[1] = NULL THEN Args[1] ELSE tree("RIGHT", "V", "V", First[1], Args[1])
        f == idtree(Symbol("f", 0, "ADDRG", "STATIC"))
    IN tree("CALL", "I", "I", tree("RIGHT", "P", "P", args, f), NULL)

\* primary: constants and names.
primary(e) ==
    CASE e.k = "num" -> cnsttree(e.op, e.v)
      [] e.k = "var" /\ e.op = "a" -> idtree(variable("a"))
      [] e.k = "var" /\ e.op # "a" -> rvalue(idtree(variable(e.op)), TypeOfVariable[e.op])

\* postfix: v++ and v--, elements, calls.  A[i] is the tree of operand i.
postfix(e, A, tag) ==
    LET v == Object(A[1])
        Argument(i) == Tagged(cast(value(A[i]), "I"), Child(tag, i + 2))
    IN CASE e.k = "post" -> tree("RIGHT", v.type, v.type,
                                 tree("RIGHT", v.type, v.type, v, incr(e.op, v, cnsttree("I", 1))), v)
         [] e.k = "idx"  -> rvalue(optree("ADD", A[1], A[2]), "I")
         [] e.k = "call" -> call([i \in 1..Len(e.args) |-> Argument(i)])

\* unary: the operators before an operand; a cast object is no object.
prefix(e, A) ==
    LET Arithmetic(p) ==
          IF e.k = "com" THEN unary("BCOM", p.type, p.type, p)
          ELSE IF p.type = "U" THEN simplify("ADD", "U", "U", unary("BCOM", "U", "U", p), cnsttree("U", 1))
          ELSE unary("NEG", "I", "I", p)
        NoObject(q) == IF q.op = "INDIR" THEN tree("RIGHT", e.op, e.op, NULL, q) ELSE q
    IN CASE e.k \in {"neg", "com"} -> Arithmetic(value(A[1]))
         [] e.k = "not"   -> unary("NOT", "", "I", cond(A[1]))
         [] e.k = "deref" -> rvalue(A[1], "I")
         [] e.k = "cast"  -> NoObject(cast(A[1], e.op))

\* expr3: the binary operators.
infix(e, A) ==
    CASE e.k = "bin"  -> optree(e.op, A[1], A[2])
      [] e.k = "comp" -> eqtree(e.op, A[1], A[2])
      [] e.k \in {"and", "or"} -> logical(IF e.k = "and" THEN "AND" ELSE "OR", cond(A[1]), cond(A[2]))

\* expr1: assignments.
assignment(e, A) ==
    IF e.k = "asg" THEN asgntree(A[1], value(A[2])) ELSE incr(e.op, Object(A[1]), A[2])

\* expr: l, r.
sequence(l, r) == tree("RIGHT", r.type, r.type, root(value(l)), r)

\* The tree of expression e; tag numbers the places of the source.
RECURSIVE expr(_, _)
expr(e, tag) ==
    LET A == [i \in 1..Len(e.args) |-> expr(e.args[i], Child(tag, i))] IN
    Tagged(
      CASE e.k \in {"num", "var"} -> primary(e)
        [] e.k \in {"post", "idx", "call"} -> postfix(e, A, tag)
        [] e.k \in {"neg", "com", "not", "deref", "cast"} -> prefix(e, A)
        [] e.k \in {"bin", "comp", "and", "or"} -> infix(e, A)
        [] e.k = "cond"  -> condtree(A[1], A[2], A[3])
        [] e.k \in {"asg", "opasg"} -> assignment(e, A)
        [] e.k = "comma" -> sequence(A[1], A[2]),
      tag)

------------------------------------------------------------------------------
(***************************************************************************)
(* What C says.  A store is [local, memory], words everywhere; the meaning *)
(* of an expression is its value, the store after it, and ok, false if the *)
(* language leaves it open.                                                *)
(***************************************************************************)
RECURSIVE TypeOf(_)
TypeOf(e) ==
    CASE e.k \in {"num", "cast"} -> e.op
      [] e.k = "var" -> TypeOfVariable[e.op]
      [] e.k = "bin" /\ e.op \in {"LSH", "RSH"} -> TypeOf(e.args[1])
      [] e.k = "bin" /\ e.op \notin {"LSH", "RSH"} ->
           IF \E i \in 1..2 : TypeOf(e.args[i]) = "P" THEN "P"
           ELSE binary(TypeOf(e.args[1]), TypeOf(e.args[2]))
      [] e.k \in {"neg", "com", "asg", "opasg", "post"} -> TypeOf(e.args[1])
      [] e.k = "comma" -> TypeOf(e.args[2])
      [] e.k = "cond" -> binary(TypeOf(e.args[2]), TypeOf(e.args[3]))
      [] OTHER -> "I"

\* A word as a number of a type.
Number(ty, w) == IF ty = "I" THEN extend(w) ELSE w

Defined(op, s, x, y) == (op \in {"DIV", "MOD"} => y # 0 /\ ~(s = "I" /\ x = INT_MIN /\ y = -1))
                        /\ (op \in {"LSH", "RSH"} => y \in 0..(Width - 1))
Result(op, s, x, y) == Arith(op, s, x, y) % Words

\* The function: g keeps the first argument less the second, and its old
\* value is returned.
Called(m, vs) ==
    [v |-> m.memory[AddressOf.g],
     m |-> [m EXCEPT !.memory[AddressOf.g] = (vs[1] - (IF Len(vs) > 1 THEN vs[2] ELSE 1)) % Words]]

\* The operator applied to words of types s and t.
Computed(op, ty, x, y) == IF Defined(op, ty, x, y) THEN [v |-> Result(op, ty, x, y), ok |-> TRUE] ELSE [v |-> 0, ok |-> FALSE]
Applied(op, s, t, v, w) ==
    LET shift == op \in {"LSH", "RSH"}
        ty == IF shift \/ s = "P" THEN s ELSE binary(s, t)
    IN Computed(op, ty, Number(ty, v), Number(IF shift THEN t ELSE ty, w))

\* The place an object is in: a local's name or an address.
InVariable(name, n) == [local |-> name \in Locals, name |-> name, m |-> n, ok |-> TRUE,
                        at |-> IF name \in Locals THEN 0 ELSE AddressOf[name]]
AtAddress(q, named) == [local |-> FALSE, name |-> "", m |-> q.m, at |-> q.v,
                        ok |-> q.ok /\ (q.v \in ArrayCells \/ (named /\ q.v = AddressOf.g))]
Get(o, n) == IF o.local THEN n.local[o.name] ELSE n.memory[o.at]
Put(o, v, n) == IF o.local THEN [n EXCEPT !.local[o.name] = v] ELSE [n EXCEPT !.memory[o.at] = v]

RECURSIVE Meaning(_, _)
Meaning(e, m) ==
    LET Ok(v, n) == [v |-> v, m |-> n, ok |-> TRUE]
        undefined == [v |-> 0, m |-> m, ok |-> FALSE]
        Then(first, K(_)) == IF first.ok THEN K(first) ELSE undefined
        With(a, n) == [v |-> a.v, m |-> n, ok |-> a.ok]
        At(o) == CASE o.k = "var" -> InVariable(o.op, m)
                   [] o.k = "idx" -> AtAddress(Meaning([o EXCEPT !.k = "bin", !.op = "ADD"], m), FALSE)
                   [] o.k = "deref" -> AtAddress(Meaning(o.args[1], m), TRUE)
        Stored(o, a, n) == IF a.ok THEN Ok(IF e.k = "post" THEN Get(o, n) ELSE a.v, Put(o, a.v, n)) ELSE undefined
        Updated(o, other) ==
          Then(o, LAMBDA q : Then(Meaning(other, o.m), LAMBDA r :
            Stored(o, IF e.k = "asg" THEN [v |-> r.v, ok |-> TRUE]
                      ELSE Applied(e.op, TypeOf(e.args[1]), TypeOf(other), Get(o, r.m), r.v), r.m)))
        After(c) == Ok(c.v, c.m)
    IN
    CASE e.k = "num" -> Ok(e.v % Words, m)
      [] e.k = "var" /\ e.op = "a" -> Ok(AddressOf.a, m)
      [] e.k \in {"var", "idx", "deref"} /\ (e.k = "var" => e.op # "a") ->
           Then(At(e), LAMBDA o : Ok(Get(o, o.m), o.m))
      [] e.k \in {"bin", "comp"} ->
           Then(Meaning(e.args[1], m), LAMBDA l : Then(Meaning(e.args[2], l.m), LAMBDA r :
             With(Applied(e.op, TypeOf(e.args[1]), TypeOf(e.args[2]), l.v, r.v), r.m)))
      [] e.k \in {"neg", "com", "not"} ->
           Then(Meaning(e.args[1], m), LAMBDA q :
             Ok(CASE e.k = "neg" -> (-q.v) % Words [] e.k = "com" -> ones - q.v
                  [] e.k = "not" -> IF q.v = 0 THEN 1 ELSE 0, q.m))
      [] e.k = "cast" -> Meaning(e.args[1], m)
      [] e.k \in {"and", "or"} ->
           Then(Meaning(e.args[1], m), LAMBDA l :
             IF (l.v # 0) = (e.k = "or") THEN Ok(IF e.k = "or" THEN 1 ELSE 0, l.m)
             ELSE Then(Meaning(e.args[2], l.m), LAMBDA r : Ok(IF r.v # 0 THEN 1 ELSE 0, r.m)))
      [] e.k = "comma" -> Then(Meaning(e.args[1], m), LAMBDA l : Meaning(e.args[2], l.m))
      [] e.k = "cond" -> Then(Meaning(e.args[1], m), LAMBDA c : Meaning(e.args[IF c.v # 0 THEN 2 ELSE 3], c.m))
      [] e.k \in {"asg", "opasg", "post"} ->
           Updated(At(e.args[1]), IF e.k = "post" THEN [k |-> "num", op |-> "I", v |-> 1, args |-> <<>>] ELSE e.args[2])
      [] e.k = "call" ->
           Then(Meaning(e.args[1], m), LAMBDA q :
             IF Len(e.args) = 1 THEN After(Called(q.m, <<q.v>>))
             ELSE Then(Meaning(e.args[2], q.m), LAMBDA r : After(Called(r.m, <<q.v, r.v>>))))
==============================================================================
