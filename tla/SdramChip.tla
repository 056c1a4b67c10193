------------------------------ MODULE SdramChip -----------------------------
(***************************************************************************)
(* The single-data-rate SDRAM on the board, as sdram_controller.sv uses    *)
(* it: CAS latency 3, full-page bursts that wrap at the end of the row,    *)
(* all banks precharged together, so that one row is open at a time.  The  *)
(* chip is not part of the repository (verilog/sdram_model only says where *)
(* to fetch a model of it).                                                *)
(*                                                                         *)
(* A step is the clock edge at which the chip samples the pins.            *)
(***************************************************************************)
EXTENDS SdramGeometry

VARIABLES memory,        \* contents, by linear address
          open_row,      \* the open row, or Closed
          access,        \* the burst going on: "none", "read" or "write"
          access_column, \* its next column
          pipe1, pipe2,  \* words read and not yet on the pins
          dq             \* the word the chip drives

chipVars == <<memory, open_row, access, access_column, pipe1, pipe2, dq>>

ChipInit(contents) ==
  /\ memory = contents
  /\ open_row = Closed
  /\ access = "none"
  /\ access_column = 0
  /\ pipe1 = Undriven
  /\ pipe2 = Undriven
  /\ dq = Undriven

\* What the sampled command makes of the burst that was going on.
AccessAfter(command) ==
  CASE command = "READ" -> "read"
    [] command = "WRITE" -> "write"
    [] command \in {"TERMINATE", "PRECHARGE"} -> "none"
    [] OTHER -> access

RowAfter(command, row) ==
  CASE command = "ACTIVE" -> row
    [] command = "PRECHARGE" -> Closed
    [] OTHER -> open_row

\* The word the burst touches at this edge.
ColumnNow(command, column) ==
  IF command \in {"READ", "WRITE"} THEN column ELSE access_column

AddressNow(command, column) == open_row * COLS + ColumnNow(command, column)

Touches(command, kind) == AccessAfter(command) = kind /\ open_row # Closed

\* row and column are the address pins; data the data pins, driven or not.
ChipClock(command, row, column, driven, data) ==
  /\ open_row' = RowAfter(command, row)
  /\ access' = AccessAfter(command)
  /\ access_column' = (ColumnNow(command, column) + 1) % COLS
  /\ memory' = IF Touches(command, "write")
               THEN [memory EXCEPT ![AddressNow(command, column)] =
                                     IF driven THEN data ELSE Undriven]
               ELSE memory
  /\ pipe1' = IF Touches(command, "read")
              THEN memory[AddressNow(command, column)] ELSE Undriven
  /\ pipe2' = pipe1
  /\ dq' = pipe2

(***************************************************************************)
(* The commands the chip may be given: a row is opened, refreshed or the   *)
(* mode register loaded only when no row is open, and read or written only *)
(* when one is.                                                            *)
(***************************************************************************)
Legal(command) ==
  /\ command \in {"ACTIVE", "REFRESH", "MODE"} => open_row = Closed
  /\ command \in {"READ", "WRITE"} => open_row # Closed
=============================================================================
