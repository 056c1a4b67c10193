------------------------ MODULE MCRegisterAllocator ------------------------
(* Forests for the register allocator. *)
EXTENDS RegisterAllocator

Tree(op, kids) == [op |-> op, kids |-> kids, wide |-> FALSE, temp |-> 0]
Wide(op, kids) == [op |-> op, kids |-> kids, wide |-> TRUE, temp |-> 0]
Read(t) == [op |-> "READ", kids |-> <<>>, wide |-> FALSE, temp |-> t]
Save(t, e) == [op |-> "SAVE", kids |-> <<e>>, wide |-> FALSE, temp |-> t]
L == Tree("LOCAL", <<>>)
Short == Tree("SHORT", <<>>)
Call == Tree("CALL", <<>>)
WL == Wide("LOCAL", <<>>)
Store(e) == Tree("STORE", <<e>>)
Return(e) == Tree("RET", <<e>>)

\* Expressions with operands taken from a set.
Binary(ops, left, right) == {Tree(op, <<a, b>>) : op \in ops, a \in left, b \in right}
Wides(ops, left, right) == {Wide(op, <<a, b>>) : op \in ops, a \in left, b \in right}

\* Nests of subtractions, divisions and remainders over a variable and a
\* temporary that is read several times.
Leaf == {L, Read(1)}
Simple == Leaf \cup Binary({"SUB"}, Leaf, {L}) \cup {Tree("INDIR", <<L>>)}
Nest == Binary({"SUB", "DIV", "MOD"}, Simple, Simple)
Nests == {<<Save(1, L), Store(e)>> : e \in Nest} \cup {<<Save(1, L), Return(e)>> : e \in Nest}

\* More values at once than there are registers: a chain of subtractions to
\* the right keeps every left operand until the innermost is known.
Minus(a, b) == Tree("SUB", <<a, b>>)
Address == Tree("INDIR", <<Read(2)>>)
Pending(left, inner) ==
    LET nest[n \in 0..Len(left)] == IF n = 0 THEN inner ELSE Minus(left[n], nest[n - 1])
    IN nest[Len(left)]
Inner == {Minus(Read(2), Read(1)), Tree("DIV", <<Read(2), Address>>), Tree("MOD", <<L, Read(1)>>),
          Tree("INDIR", <<Minus(Read(2), L)>>), Tree("SHIFT", <<Minus(Read(1), L), L>>)}
Lefts == {<<Address, Minus(L, L), Address, Tree("CNST", <<>>), Minus(Read(1), L), Address, Short>>,
          <<Read(1), Address, Read(1), Minus(Read(2), L), Address, Minus(L, L), Address, Read(2)>>}
Pressure == {<<Save(1, L), Save(2, L), Store(Pending(left, e)), Store(Read(u))>> :
                left \in Lefts, e \in Inner, u \in 1..2}

\* Values that live over calls and the arguments of calls.
Calls == {<<Save(1, L), Tree("ARG", <<a>>), Save(2, Call), Tree("ARG", <<b>>), Save(3, Call), r>> :
            a \in {Read(1), Short, Tree("CNST", <<>>)},
            b \in {Read(1), Read(2), Tree("SUB", <<Read(2), Read(1)>>)},
            r \in {Store(Tree("SUB", <<Read(2), Read(3)>>)), Return(Tree("ADD", <<Read(3), Read(1)>>)),
                   Return(Tree("DIV", <<Read(3), Read(2)>>)), Tree("TEST", <<Tree("SUB", <<Read(3), Read(1)>>)>>)}}

\* Values of two words among values of one.
Wide0 == {WL, Wide("WIDEN", <<Read(1)>>), Wide("CNST", <<>>)}
Wide1 == Wide0 \cup Wides({"ADD", "SUB"}, Wide0, {WL, Wide("WIDEN", <<L>>)}) \cup {Wide("INDIR", <<Tree("ADD", <<Read(1), L>>)>>)}
WideNest(w) == Wide("SUB", <<Wide("SUB", <<WL, WL>>), Wide("SUB", <<Wide("ADD", <<WL, WL>>), Wide("SUB", <<Wide("ADD", <<w, WL>>), w>>)>>)>>)
Pairs == {<<Save(1, L), Wide("STORE", <<w>>), Store(Minus(Read(1), L))>> : w \in Wides({"SUB"}, Wide1, Wide0)}
           \cup {<<Save(1, L), Wide("RET", <<w>>)>> : w \in Wide1}
           \cup {<<Save(1, L), Wide("STORE", <<Minus(Read(1), Read(1)), w>>)>> : w \in Wide1}
           \cup {<<Save(1, L), Wide("STORE", <<WideNest(w)>>), Store(Read(1))>> : w \in Wide0}

\* Right shifts by a count that is in a register, alone and with many values pending.
Counts == {Minus(L, L), Read(1), Tree("INDIR", <<Minus(L, L)>>)}
Shifted(a, c) == Tree("SHIFT", <<a, c>>)
Shifts == {<<Save(1, L), Store(Shifted(a, c)), Store(Read(1))>> : a \in {L, Minus(L, L)}, c \in Counts}
            \cup {<<Save(1, L), Save(2, L), Store(Pending(left, Shifted(Minus(Read(1), L), c))), Store(Read(1))>> :
                     left \in Lefts, c \in Counts}

\* Constants named several times, which only some users need in a register.  (Shifts of
\* such a constant are next to each other here: with something between them that wants
\* registers the second finds another value, see the README.)
Constants == {<<Save(1, c), Save(2, L), Store(Minus(a, b)), Store(Tree(op, <<e, Read(1)>>))>> :
                 c \in {Short, Tree("CNST", <<>>)}, a \in {L, Read(1), Read(2)}, b \in {Read(1), Read(2)},
                 op \in {"ADD", "SUB", "DIV", "MOD"}, e \in {Read(2), Minus(Read(1), Read(1)), Call}}
               \cup {<<Save(1, c), Tree("ARG", <<Read(1)>>), Save(2, Call), r>> :
                       c \in {Short, Tree("CNST", <<>>)},
                       r \in {Return(Read(1)), Store(Minus(Read(2), Read(1)))}}
               \cup {<<Save(1, c), Store(Shifted(Read(1), L)), Store(Shifted(Read(1), L))>> :
                       c \in {Short, Tree("CNST", <<>>)}}

Forests == Nests \cup Pressure \cup Calls \cup Pairs \cup Shifts \cup Constants
=============================================================================
