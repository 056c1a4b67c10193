------------------------- MODULE RegisterAllocator -------------------------
(***************************************************************************)
(* The register allocator of the C compiler (miksys_soft/lcc/src/gen.c,    *)
(* from the second half of gen() to spill()): it walks the list of         *)
(* instructions once, gives each value a register, takes registers back at *)
(* the last use and, when it runs out or a call or a division is about to  *)
(* overwrite them, keeps values in the frame: a store behind the           *)
(* instruction that made the value, a load before each later use.          *)
(*                                                                         *)
(* One action rewrites a root of the forest, one links the list, one       *)
(* allocates for the next instruction of it.                               *)
(***************************************************************************)
EXTENDS InstructionSelection

CONSTANTS
    tmask,      \* the registers for temporary values
    Registers,  \* how many registers the wildcards name
    Slots,      \* the entries of a wildcard (32)
    Programs    \* the forests to compile

ASSUME AllocatorAssumption ==
    /\ Registers \in Nat /\ Slots \in Nat /\ Registers <= Slots
    /\ tmask \subseteq 0..Registers - 1

VARIABLES
    forest,     \* the roots not rewritten yet
    roots,      \* the nodes of those that are
    pruned,     \* whether the kids of the instructions are known
    code,       \* the node table, the list and the allocator's state
    at          \* the instruction to allocate for next; 0 before the list is
                \* linked and after its end
vars == <<forest, roots, pruned, code, at>>

\* mask of a register symbol, and the registers a wildcard stands for.
Mask(r) == IF r.wide THEN {r.n, r.n + 1} ELSE {r.n}
Symbols == {Register(n, FALSE) : n \in 0..Registers - 1}
             \cup {Register(n, TRUE) : n \in {m \in 0..Registers - 1 : m % 2 = 0}}

Place(s, p) == CHOOSE i \in DOMAIN s.order : s.order[i] = p
NextOf(s, p) == IF Place(s, p) = Len(s.order) THEN 0 ELSE s.order[Place(s, p) + 1]
From(s, p) == SubSeq(s.order, Place(s, p), Len(s.order))
Node(s, p) == s.nodes[p]

PutReg(s, r) == [s EXCEPT !.free = @ \cup Mask(r)]

\* askreg, with askfixedreg: the register asked for, or the first free one
\* the mask allows, from where the last search stopped downwards.
AskReg(s, set, mask) ==
    LET Slot(i) == (s.rotor - i) % Slots
        Taken(r) == [s EXCEPT !.free = @ \ Mask(r)]
        Good(i) == /\ Register(Slot(i), set.wide) \in Symbols
                   /\ Mask(Register(Slot(i), set.wide)) \subseteq mask \cap s.free
        good == {i \in 0..Slots - 1 : Good(i)}
    IN IF set.kind = "reg"
       THEN IF Mask(set) \subseteq s.free THEN [reg |-> set, s |-> Taken(set)]
            ELSE [reg |-> NoRegister, s |-> s]
       ELSE IF good = {} THEN [reg |-> NoRegister, s |-> s]
       ELSE LET i == Min(good)
                r == Register(Slot(i), set.wide)
            IN [reg |-> r, s |-> [Taken(r) EXCEPT !.rotor = (s.rotor - i - 1) % Slots]]

\* uses, and spillee: the register whose next use is farthest away.
Uses(s, p, mask) ==
    \E k \in DOMAIN Node(s, p).x : LET n == Node(s, Node(s, p).x[k])
                                   IN n.registered /\ Mask(n.rx) \cap mask # {}
Distance(s, here, mask) ==
    LET hits == {i \in DOMAIN From(s, here) : Uses(s, From(s, here)[i], mask)}
    IN IF hits = {} THEN -1 ELSE Min(hits) - 1
Spillee(s, set, mask, here) ==
    LET ripe == {r \in Symbols : /\ r.wide = set.wide
                                 /\ s.last[r] # 0
                                 /\ Mask(r) \cap tmask \cap mask # {}
                                 /\ Distance(s, here, Mask(r)) >= 0}
        Dist(r) == Distance(s, here, Mask(r))
        best == {r \in ripe : \A q \in ripe : Dist(q) <= Dist(r)}
    IN IF set.kind = "reg" THEN set
       ELSE IF ripe = {} THEN NoRegister
       ELSE CHOOSE r \in best : \A q \in best : q.n <= r.n

\* genspill: behind node p the value of r goes to the frame.
GenSpill(s, r, p) ==
    LET held == [Fresh("HELD", <<>>, r.wide, r) EXCEPT !.registered = TRUE, !.of = p]
        h == Len(s.nodes) + 1
        store == [Fresh("SPILL", <<>>, r.wide, NoRegister)
                    EXCEPT !.registered = TRUE, !.of = p, !.x = <<h>>]
    IN [s EXCEPT !.nodes = @ \o <<held, store>>,
                 !.order = InsertAt(InsertAt(@, Place(s, p) + 1, h), Place(s, p) + 2, h + 1)]

\* genreload: the i-th kid of p is a load of what was kept of node v; target()
\* sets the register it has to be in.
GenReload(s, p, i, v) ==
    LET old == Node(s, Node(s, p).x[i])
        rx == CASE Node(s, p).op \in {"DIV", "MOD"} -> Register(i - 1, FALSE)
                [] Node(s, p).op = "RET" -> Register(0, old.wide)
                [] OTHER -> Wildcard(old.wide)
        q == Len(s.nodes) + 1
    IN [s EXCEPT !.nodes = Append([@ EXCEPT ![p].x[i] = q],
                                  [Fresh("RELOAD", <<>>, old.wide, rx) EXCEPT !.of = v]),
                 !.order = InsertAt(@, Place(s, p), q)]

\* spillr: keep the value in r from the instruction that makes it on, and
\* load it before every use after here.
RECURSIVE FirstUse(_, _)
FirstUse(s, p) == IF Node(s, p).prevuse = 0 THEN p ELSE FirstUse(s, Node(s, p).prevuse)
SpillRKeeping(s, r, here) ==
    LET v == FirstUse(s, s.last[r])
        Reload(t, p) ==
            FoldLeftDomain(LAMBDA u, i : LET k == Node(u, Node(u, p).x[i])
                                         IN IF k.registered /\ k.rx = r
                                            THEN GenReload(u, p, i, v) ELSE u,
                           t, Node(t, p).x)
    IN FoldLeft(Reload, GenSpill(s, r, v), Tail(From(GenSpill(s, r, v), here)))
SpillR(s, r, here) ==
    LET v == FirstUse(s, s.last[r])
        kept == GenSpill(s, r, v)
        Reload(t, p) ==
            FoldLeftDomain(LAMBDA u, i : LET k == Node(u, Node(u, p).x[i])
                                         IN IF k.registered /\ k.rx = r
                                            THEN GenReload(u, p, i, v) ELSE u,
                           t, Node(t, p).x)
    IN PutReg(FoldLeft(Reload, kept, Tail(From(kept, here))), r)

\* spill: every value in a register of mask that is used from here on.
RECURSIVE SpillFrom(_, _, _, _, _)
SpillFrom(s, mask, here, p, i) ==
    IF p = 0 THEN s
    ELSE IF i > Len(Node(s, p).x) THEN SpillFrom(s, mask, here, NextOf(s, p), 1)
    ELSE LET k == Node(s, Node(s, p).x[i])
         IN SpillFrom(IF k.registered /\ Mask(k.rx) \cap mask # {} THEN SpillR(s, k.rx, here) ELSE s,
                      mask, here, p, i + 1)
Spill(s, mask, here) ==
    LET n == Node(s, here) IN
    IF mask \subseteq s.free THEN s
    ELSE IF n.registered /\ n.rx.kind = "reg" /\ Mask(n.rx) \cap mask # {}
    THEN [s EXCEPT !.stopped = "clobbers its target"]
    ELSE SpillFrom(s, mask, here, here, 1)

\* getreg: a free register, or one made free.
GetReg(s, set, mask, p) ==
    LET Second(got) == IF got.reg # NoRegister THEN got ELSE [got EXCEPT !.s.stopped = "no register"]
        Instead(victim) ==
            IF victim = NoRegister
            THEN [reg |-> NoRegister, s |-> [s EXCEPT !.stopped = "nothing to spill"]]
            ELSE Second(AskReg(Spill(s, Mask(victim), p), set, mask))
        First(got) == IF got.reg # NoRegister THEN got ELSE Instead(Spillee(s, set, mask, p))
    IN First(AskReg(s, set, mask))

\* clobber: what the instruction overwrites besides its result.
ClobbersNoPair(n) ==
    CASE n.op = "DIV" -> << {4}, {0} >>
      [] n.op = "MOD" -> << {4}, {1} >>
      [] n.op = "CALL" -> << tmask \ (IF n.wide THEN {0, 1} ELSE {0}) >>
      [] n.op = "ARG" -> << {0} >>
      [] OTHER -> <<>>
Clobbers(n) ==
    CASE n.op = "DIV" -> << {4}, {2, 3}, {0} >>
      [] n.op = "MOD" -> << {4}, {2, 3}, {1} >>
      [] n.op = "CALL" -> << tmask \ (IF n.wide THEN {0, 1} ELSE {0}) >>
      [] n.op = "ARG" -> << {0} >>
      [] OTHER -> <<>>
Clobber(s, p) ==
    FoldLeft(LAMBDA t, mask : IF t.stopped = "" THEN Spill(t, mask, p) ELSE t, s, Clobbers(Node(s, p)))

\* The uses of a temporary, from the last back to the first.
RECURSIVE Chained(_, _)
Chained(s, p) == IF p = 0 THEN {} ELSE {p} \cup Chained(s, Node(s, p).prevuse)

\* ralloc: take back the registers of the kids used for the last time, find
\* one for the result, and make room for what the instruction overwrites.
FreeKids(s, p) ==
    FoldLeft(LAMBDA t, k : IF Node(t, k).op # "HELD" /\ t.last[Node(t, k).rx] = k
                           THEN PutReg(t, Node(t, k).rx) ELSE t,
             s, Node(s, p).x)
Given(s, r, p, temp) ==
    LET lastuse == IF temp.kind = "temp" THEN s.tempLast[temp.n] ELSE p
        named == IF temp.kind = "temp" THEN Chained(s, lastuse) ELSE {p}
    IN IF s.stopped # "" THEN s
       ELSE [s EXCEPT !.last[r] = lastuse,
                      !.nodes = [q \in DOMAIN s.nodes |->
                                   IF q \in named
                                   THEN [s.nodes[q] EXCEPT !.rx = r, !.registered = TRUE]
                                   ELSE s.nodes[q]]]
Assign(s, p) ==
    LET n == Node(s, p)
        Got(got) == Given(got.s, got.reg, p, n.rx)
    IN IF n.registered \/ n.op \notin NeedsReg \cup {"RELOAD"} THEN s
       ELSE Got(GetReg(s, IF n.rx.kind = "temp" THEN Wildcard(n.wide) ELSE n.rx, tmask, p))
Ruin(s, p) ==
    IF s.stopped # "" THEN s ELSE Clobber([s EXCEPT !.nodes[p].registered = TRUE], p)
RAlloc(s, p) == Ruin(Assign(FreeKids(s, p), p), p)

------------------------------------------------------------------------------
\* The list, and for each temporary the chain of its uses.
RECURSIVE ChainUses(_, _)
ChainUses(s, ks) ==
    IF ks = <<>> THEN s
    ELSE LET k == Head(ks)
             rx == Node(s, k).rx
         IN ChainUses(IF rx.kind # "temp" THEN s
                      ELSE [s EXCEPT !.nodes[k].prevuse = s.tempLast[rx.n], !.tempLast[rx.n] = k],
                      Tail(ks))
Linked ==
    LET order == Linearize(code.nodes, roots)
    IN ChainUses([code EXCEPT !.order = order],
                 FlattenSeq([i \in DOMAIN order |-> code.nodes[order[i]].x]))

Init ==
    /\ forest \in Programs
    /\ roots = <<>>
    /\ pruned = FALSE
    /\ at = 0
    /\ \E rotor \in 0..Slots - 1, before \in {0, -1} :
          code = [nodes |-> <<>>, order |-> <<>>, free |-> 0..Registers, rotor |-> rotor,
                  last |-> [r \in Symbols |-> before], tempLast |-> [t \in 1..3 |-> 0],
                  stopped |-> ""]

RewriteRoot ==
    /\ forest # <<>> /\ code.stopped = ""
    /\ \E r \in {Rewrite(code.nodes, Head(forest))} :
          /\ code' = [code EXCEPT !.nodes = r.nodes, !.stopped = IF r.covered THEN "" ELSE "corrupt"]
          /\ roots' = Append(roots, r.id)
    /\ forest' = Tail(forest)
    /\ UNCHANGED <<pruned, at>>

PruneForest ==
    /\ forest = <<>> /\ ~pruned /\ code.stopped = ""
    /\ code' = [code EXCEPT !.nodes = Prune(@)]
    /\ pruned' = TRUE
    /\ UNCHANGED <<forest, roots, at>>

LinkForest ==
    /\ pruned /\ code.order = <<>>
    /\ code' = Linked
    /\ at' = code'.order[1]
    /\ UNCHANGED <<forest, roots, pruned>>

\* A root that needs a register does so for its effect only: it gives the
\* register back at once.
AllocateNode ==
    /\ at # 0
    /\ \E s \in {RAlloc(code, at)} : LET n == Node(s, at) IN
          IF s.stopped # "" THEN code' = s /\ at' = 0
          ELSE /\ code' = IF n.root /\ n.op \in NeedsReg THEN PutReg(s, n.rx) ELSE s
               /\ at' = NextOf(s, at)
    /\ UNCHANGED <<forest, roots, pruned>>

Next == RewriteRoot \/ PruneForest \/ LinkForest \/ AllocateNode
Spec == Init /\ [][Next]_vars

------------------------------------------------------------------------------
\* What the instructions do to the registers.  A value is named by the node
\* that makes it; a copy, a temporary and what was kept of a value are that
\* value.
RECURSIVE Value(_, _)
Value(nodes, p) ==
    LET n == nodes[p] IN
    CASE n.op \in {"LOAD", "NARROW"} -> Value(nodes, n.kids[1])
      [] n.op = "READ" -> LET save == CHOOSE q \in DOMAIN nodes :
                                          nodes[q].op = "SAVE" /\ nodes[q].temp = n.temp
                          IN Value(nodes, nodes[save].kids[1])
      [] n.op \in {"HELD", "RELOAD"} -> Value(nodes, n.of)
      [] OTHER -> p

\* Registers holding a value: the half of it in each.
Holds(m, r, v) == \A i \in Mask(r) : m[i] = <<v, i - r.n>>
Put(m, r, v) == [i \in DOMAIN m |-> IF i \in Mask(r) THEN <<v, i - r.n>> ELSE m[i]]
Spoil(m, set) == [i \in DOMAIN m |-> IF i \in set THEN <<0, 0>> ELSE m[i]]

\* An instruction of several words that writes its result before it has read
\* all its operands: the second word of a wide one reads the address again,
\* a right shift reads the count again.
ReadAgain(n) ==
    CASE n.wide /\ n.op \in {"ADD", "SUB", "INDIR"} ->
            {k \in DOMAIN n.x : ~code.nodes[n.x[k]].wide}
      [] n.op = "SHIFT" -> DOMAIN n.x \ {1}
      [] OTHER -> {}
Overwrites(p) ==
    LET n == code.nodes[p]
    IN \E k \in ReadAgain(n) : code.nodes[n.x[k]].rx.n = n.rx.n

\* What an instruction overwrites besides its result: the division routine
\* (include/div.H, and r4 for the sign), a function all it may use, an
\* argument the register it is moved through.
Ruins(n) ==
    CASE n.op \in {"DIV", "MOD"} -> 0..4
      [] n.op = "CALL" -> {0} \cup tmask
      [] n.op = "ARG" -> {0}
      [] OTHER -> {}

\* The constants whose registers the text of an instruction takes for reads of
\* them that are no instructions.
RECURSIVE Again(_)
Again(ps) ==
    UNION {LET n == code.nodes[p]
           IN IF n.op = "READ" /\ n.of # 0 THEN {n.of}
              ELSE IF n.inst > 0 THEN {} ELSE Again(Range(n.kids)) : p \in ps}

\* One instruction: the registers it leaves, and whether it found each of its
\* operands where its text says.
Finds(m, p) ==
    LET nodes == code.nodes
        n == nodes[p]
        V(k) == Value(nodes, k)
    IN /\ \A k \in DOMAIN n.x : Holds(m, nodes[n.x[k]].rx, V(n.x[k]))
       /\ \A k \in Again(Range(n.kids)) : Holds(m, nodes[k].rx, V(k))
       /\ n.op \in {"DIV", "MOD"} => /\ m[0] = <<V(n.kids[1]), 0>>
                                     /\ m[1] = <<V(n.kids[2]), 0>>
       /\ n.op = "RET" /\ n.kids # <<>> =>
             \/ nodes[n.kids[1]].rule = "reg"
             \/ Holds(m, Register(0, nodes[n.kids[1]].wide), V(n.kids[1]))
       /\ ~Overwrites(p)
Leaves(m, p) ==
    LET n == code.nodes[p]
        v == Value(code.nodes, p)
        spoiled == Spoil(m, Ruins(n))
    IN IF n.op \in (NeedsReg \ {"READ"}) \cup {"RELOAD"} THEN Put(spoiled, n.rx, v) ELSE spoiled

Done == code.order # <<>> /\ at = 0 /\ code.stopped = ""
Run ==
    LET after[i \in 0..Len(code.order)] ==
            IF i = 0 THEN [m |-> [r \in 0..Registers |-> <<0, 0>>], ok |-> TRUE]
            ELSE LET before == after[i - 1]
                     p == code.order[i]
                 IN [m |-> Leaves(before.m, p), ok |-> before.ok /\ Finds(before.m, p)]
    IN after[Len(code.order)]

\* Every use finds its value: when the list has run, each instruction found
\* each operand in the register its text names, the division found its two in
\* r0 and r1, and the value of the function was in r0 at its end.  This is
\* what lastuse, the chains of the temporaries, the clobbered registers, the
\* stores behind the producers and the loads before the uses are for
\* (gen.c:609-815).  An instruction of several words reads all its operands
\* before it overwrites one.  (A compilation that stopped wrote no list.)
UsesFindTheirValues == Done => Run.ok

\* A register is free exactly when no later instruction is to find the value of
\* one of its kids in it: what is still to be read is held, and nothing is held
\* for good (putreg at the last use, gen.c:519-521 and 620).
FreeMeansDead ==
    at # 0 =>
        LET later == From(code, at)
            Wanted(p) == UNION {Mask(code.nodes[k].rx) :
                                   k \in {j \in Range(code.nodes[p].x) : code.nodes[j].registered}}
        IN UNION {Wanted(later[i]) : i \in DOMAIN later} = 0..Registers \ code.free

=============================================================================
