--------------------------- MODULE SdramGeometry ----------------------------
(***************************************************************************)
(* The address space of the SDRAM as its controller and its chip share it: *)
(* a linear word address is a row and a column.                            *)
(***************************************************************************)
EXTENDS Naturals

CONSTANTS COLS,       \* columns of a row: 256 in the chip
          MemSize,    \* words of memory: 2^22 in the chip
          Closed,     \* "no row is open"
          Undriven    \* what is read from data pins nobody drives

ASSUME GeometryAssumption ==
  /\ COLS \in Nat /\ COLS >= 2
  /\ MemSize \in Nat /\ MemSize >= COLS /\ MemSize % COLS = 0
  /\ Closed \notin Nat

Address == 0 .. MemSize - 1
Column == 0 .. COLS - 1
RowOf(a) == a \div COLS
ColumnOf(a) == a % COLS
=============================================================================
