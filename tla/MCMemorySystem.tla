--------------------------- MODULE MCMemorySystem ---------------------------
(***************************************************************************)
(* Instances of MemorySystem: two rows of 8 columns and four cache lines.   *)
(***************************************************************************)
EXTENDS MemorySystem

Ops(kinds, mems, cells, counts) ==
  [wren : kinds, mem : mems, cell : cells, count : counts]

\* Blocks that cross the end of a row, of the memory, of a line and of the
\* cache, from the words 0, 2 and 3 of a line (FewOps starts at word 1).
AllOps == Ops(BOOLEAN, {6}, {6, 15}, {5}) \cup Ops(BOOLEAN, {13}, {0}, {9})
          \cup Ops(BOOLEAN, {13}, {15}, {1, 2})

\* A few for the longer histories.
FewOps == Ops(BOOLEAN, {6}, {1}, {5}) \cup Ops(BOOLEAN, {13}, {6}, {2})
ReadFew == {op \in FewOps : ~op.wren}

\* Every way in which the core may use the cache in a clock.
AnyUse == {{}, {"read"}, {"write"}}
CollidingUse == {{}, {"read", "write"}}
=============================================================================
