-------------------------------- MODULE Ring --------------------------------
(***************************************************************************)
(* The ring of bytes of slowIO_buffer.sv: an array, the index where the    *)
(* next byte is put and the index of the oldest.  Equal indices mean that  *)
(* it is empty, so it keeps one byte less than it has room for.            *)
(***************************************************************************)
EXTENDS Naturals, Sequences

CONSTANTS Size,    \* READ_BUF_SIZE or WRITE_BUF_SIZE; 8 in the chip
          Byte     \* the byte values told apart

ASSUME RingAssumption == Size \in Nat /\ Size >= 2

Index == 0 .. Size - 1
Succ(i) == IF i = Size - 1 THEN 0 ELSE i + 1

\* The number of bytes between the indices, and these bytes, the oldest first.
Count(head, tail) == IF head >= tail THEN head - tail ELSE head + Size - tail
Contents(buf, head, tail) ==
  [k \in 1 .. Count(head, tail) |-> buf[(tail + k - 1) % Size]]
=============================================================================
