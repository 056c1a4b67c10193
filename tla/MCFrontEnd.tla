----------------------------- MODULE MCFrontEnd -----------------------------
(* Functions for the front end of the compiler, in families. *)
EXTENDS FrontEnd

E(k, op, v, args) == [k |-> k, op |-> op, v |-> v, args |-> args]
Num(v) == E("num", "I", v, <<>>)
NumU(v) == E("num", "U", v, <<>>)
Var(name) == E("var", name, 0, <<>>)
Bin(op, l, r) == E("bin", op, 0, <<l, r>>)
Comp(op, l, r) == E("comp", op, 0, <<l, r>>)
Un(k, l) == E(k, "", 0, <<l>>)
Cast(ty, l) == E("cast", ty, 0, <<l>>)
Both(k, l, r) == E(k, "", 0, <<l, r>>)
If3(c, l, r) == E("cond", "", 0, <<c, l, r>>)
Asg(l, r) == E("asg", "", 0, <<l, r>>)
OpAsg(op, l, r) == E("opasg", op, 0, <<l, r>>)
Post(op, l) == E("post", op, 0, <<l>>)
Idx(p, i) == E("idx", "", 0, <<p, i>>)
Deref(p) == E("deref", "", 0, <<p>>)
Call(args) == E("call", "", 0, args)

x == Var("x")
u == Var("u")
g == Var("g")
p == Var("p")
a == Var("a")

St(k, e, v, st) == [k |-> k, e |-> e, v |-> v, s |-> st]
Do1(e) == St("expr", <<e>>, <<>>, <<>>)
Ret(e) == St("return", <<e>>, <<>>, <<>>)
If(e, st) == St("if", <<e>>, <<>>, st)
While(e, st) == St("while", <<e>>, <<>>, <<st>>)
DoWhile(st, e) == St("do", <<e>>, <<>>, <<st>>)
For(e1, e2, e3, st) == St("for", <<e1, e2, e3>>, <<>>, <<st>>)
Block(st) == St("block", <<>>, <<>>, st)
Switch(e, st) == St("switch", <<e>>, <<>>, <<Block(st)>>)
Case(v, st) == St("case", <<>>, v, <<st>>)
Default(st) == St("default", <<>>, <<>>, <<st>>)
Break == St("break", <<>>, <<>>, <<>>)
Continue == St("continue", <<>>, <<>>, <<>>)

------------------------------------------------------------------------------
\* Constants up to and over the edge of each type, folded with each other and
\* with variables.
Arithmetic == {"ADD", "SUB", "MUL", "DIV", "MOD", "LSH", "RSH", "BAND", "BOR", "BXOR"}
Consts == {Num(0), Num(1), Num(2), Num(3), Un("neg", Num(1)), Bin("SUB", Un("neg", Num(3)), Num(1)),
           NumU(0), NumU(1), NumU(4), NumU(7)}
Operands == Consts \cup {x, u}
Pair == {Bin(op, l, r) : op \in Arithmetic, l \in Operands, r \in Operands}
          \cup {Comp(op, l, r) : op \in Compare, l \in Operands, r \in Operands}
          \cup {Un(k, l) : k \in {"neg", "com", "not"}, l \in Operands}
Few == {x, u, Num(2), Num(3), NumU(1)}
Outer == {"ADD", "SUB", "MUL", "BAND", "RSH", "DIV"}
Nested == {Bin(op, Bin(in, l, r), c) : op \in Outer, in \in {"ADD", "SUB", "MUL", "LSH"}, l \in {x, u}, r \in {x, Num(2), NumU(1)}, c \in Few}
            \cup {Bin(op, c, Bin(in, l, r)) : op \in Outer, in \in {"ADD", "SUB", "DIV"}, l \in {x, u}, r \in {x, Num(2), NumU(1)}, c \in Few}
            \cup {Bin("MUL", c, Bin(in, x, d)) : in \in {"ADD", "SUB"}, c \in Consts, d \in Consts}
            \cup {Un(k, Un(l, Cast(ty, c))) : k \in {"neg", "com", "not"}, l \in {"neg", "com", "not"}, ty \in {"I", "U"}, c \in Few}
            \cup {Comp(op, Cast("U", Bin("ADD", l, c)), d) : op \in Compare, l \in {x, u}, c \in {Num(1)}, d \in {NumU(0), Num(0), NumU(1)}}
Folding == {<<Ret(e)>> : e \in Pair \cup Nested}

\* Addresses: of elements, through a pointer, with constants on every side.
Index == {Num(1), Num(0), x, Bin("ADD", x, Num(1)), Bin("SUB", x, Num(1)), Bin("ADD", Num(2), x), Bin("SUB", x, Num(0))}
Pointer == {a, p, Bin("ADD", a, Num(1)), Bin("ADD", p, Num(1)), Bin("SUB", p, Num(1)), Bin("ADD", a, x),
            Bin("ADD", Num(1), a), Bin("ADD", p, Bin("ADD", x, Num(1))), Bin("SUB", a, Bin("ADD", x, Num(1)))}
Elements == {<<Do1(Asg(Idx(q, i), x)), Ret(Bin("ADD", Idx(q, i), Idx(a, Num(1))))>> : q \in Pointer, i \in Index}

\* Reads that may be used again, and what ends that.
Effects == {Asg(g, Bin("ADD", x, g)), Asg(x, g), Asg(Deref(p), Bin("ADD", g, Num(1))), Asg(Idx(a, x), Bin("ADD", x, u)),
            Asg(x, Idx(a, x)), Asg(u, Bin("ADD", x, g)), Post("ADD", x), Post("SUB", g), OpAsg("ADD", g, Bin("MUL", g, x)),
            Asg(Deref(Post("ADD", p)), x), Call(<<g>>), Asg(x, Call(<<Bin("ADD", x, u)>>)), Asg(u, Bin("MUL", u, u)),
            Asg(x, If3(Comp("LT", x, g), Bin("ADD", x, g), Bin("ADD", x, u))),
            Asg(x, Deref(p)), If3(x, Asg(g, u), Post("ADD", g)), Both("and", Bin("ADD", x, u), Comp("EQ", Bin("ADD", x, u), g)),
            Both("or", Both("and", Comp("LT", g, u), Asg(g, Bin("ADD", x, g))), Asg(u, Bin("ADD", x, g)))}
Sum == Bin("ADD", Bin("ADD", x, g), Bin("ADD", Bin("ADD", x, u), Bin("SUB", Idx(a, x), Deref(p))))
Sequences == {<<Do1(e), Do1(f), Ret(Sum)>> : e \in Effects, f \in Effects}
               \cup {<<Do1(e), Do1(f), Do1(d), Ret(Bin("ADD", x, Bin("ADD", u, g)))>> :
                       e \in Effects, f \in Effects, d \in {Asg(g, Bin("ADD", x, u)), Asg(x, Idx(a, x)), Asg(u, Bin("ADD", x, g))}}

\* Calls as arguments, and conditions as values.
Truths == {x, Un("not", x), Both("and", x, u), Both("or", x, g), Comp("LT", x, u), Both("and", Comp("LT", x, Num(1)), Un("not", Both("or", u, g))),
           Both("or", Both("and", x, u), Comp("EQ", x, g)), Both("comma", Post("ADD", x), Comp("GT", x, Num(0))),
           Both("and", Num(1), x), Both("or", Num(0), Num(0)), If3(x, u, Num(0)), Both("and", Post("ADD", x), Bin("BAND", u, Num(1)))}
Deep == {Call(<<x, Call(<<g>>)>>), Call(<<Call(<<x, u>>), x>>), Call(<<u, Call(<<Call(<<x>>)>>)>>)}
Values == {<<Do1(Asg(u, e)), Ret(Bin("ADD", u, x))>> : e \in Truths \cup Deep \cup {Un("not", e) : e \in Truths}}
            \cup {<<Ret(If3(e, Bin("ADD", x, u), Bin("SUB", x, u)))>> : e \in Truths}

\* Conditional statements and loops, with ways out of them.
Bodies == {Do1(Asg(g, Bin("ADD", x, u))), Block(<<Do1(Post("ADD", x)), If(Comp("GT", x, u), <<Break>>), Do1(Asg(g, Bin("ADD", x, u)))>>),
           Block(<<Do1(Post("ADD", u)), If(Comp("EQ", u, g), <<Continue>>), Do1(Asg(x, Bin("ADD", x, u)))>>), Break, Continue}
Plain == {Do1(Asg(g, Bin("ADD", x, u))), Block(<<Do1(Post("ADD", x)), Do1(Asg(g, Bin("ADD", x, u)))>>), Ret(x)}
After == <<Do1(Asg(x, Bin("ADD", x, g))), Ret(Bin("ADD", x, Bin("ADD", x, u)))>>
Conditionals == {<<If(c, st)>> \o After : c \in Truths, st \in {<<b>> : b \in Plain} \cup {<<b, d>> : b \in Plain, d \in Plain}}
Turn(v) == {Comp("LT", v, Num(3)), Comp("NE", v, Num(2)), Comp("GE", Num(1), v), Comp("GT", v, Num(1)), Comp("LT", v, u)}
Loops == {<<While(c, b)>> \o After : c \in Truths, b \in Bodies}
           \cup {<<DoWhile(b, c)>> \o After : c \in Truths, b \in Bodies}
           \cup {<<For(Asg(v, n), c, Post("ADD", v), b)>> \o After : v \in {x}, n \in {Num(0), Num(2)}, c \in Turn(x), b \in Bodies}
           \cup {<<For(Asg(u, Num(1)), c, Post("ADD", u), b)>> \o After : c \in Turn(u), b \in Bodies}

\* Switches over sets of values, with and without what is between them.
Values3 == {v \in SUBSET (INT_MIN..INT_MAX) : v # {}}
CaseOf(n) == Do1(Asg(g, Num(n)))
Cases(v, broken) ==
    LET In(n) == Case(<<n>>, IF n % 2 = 0 THEN CaseOf(n % 4) ELSE Do1(OpAsg("ADD", x, Num(1))))
        places == SelectSeq(<<0, 3, -2, 1, -4, -1, 2, -3>>, LAMBDA n : n \in v)
    IN FlattenSeq([i \in DOMAIN places |-> IF broken THEN <<In(places[i]), Break>> ELSE <<In(places[i])>>])
Switches == {<<Switch(e, Cases(v, broken) \o d)>> \o After :
               e \in {x, u, Bin("ADD", x, u)}, v \in Values3, broken \in BOOLEAN, d \in {<<>>, <<Default(CaseOf(3))>>}}
Inside == {<<For(Asg(x, Num(0)), Comp("LT", x, Num(3)), Post("ADD", x),
                 Block(<<Switch(u, <<Case(<<0, 2>>, st), Case(<<1>>, Break), Default(Continue)>>), Do1(Post("ADD", g))>>))>> \o After :
              st \in {Break, Continue, Do1(Post("ADD", u)), If(x, <<Break>>)}}

Functions == Folding \cup Elements \cup Sequences \cup Values \cup Conditionals \cup Loops \cup Switches \cup Inside

\* A few stores, for all the words x and u may hold.
Start(vx, vu, vp, vg) == [local |-> [x |-> vx, u |-> vu, p |-> vp], args |-> <<>>,
                          memory |-> [w \in 0..(Words - 1) |-> IF w = AddressOf.g THEN vg ELSE (w * 3) % Words]]
Starts == {Start(vx, (3 * vx + k) % Words, 4 + (vx % 4), (vx + k) % Words) : vx \in 0..(Words - 1), k \in 0..1}
             \cup {Start(vx, 1, 1, 2) : vx \in 0..2}
=============================================================================
