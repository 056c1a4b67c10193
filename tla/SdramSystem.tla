---------------------------- MODULE SdramSystem -----------------------------
(***************************************************************************)
(* The SDRAM controller with its chip, and any master whatsoever on        *)
(* data_bus: in every clock the request, write_enable and last4 wires may  *)
(* have any value, and the request may be withdrawn at any time.  Which    *)
(* word is where is left to module MemorySystem; here one word stands for  *)
(* all.                                                                    *)
(***************************************************************************)
EXTENDS SdramController, SdramChip

CONSTANT MaxAge     \* where the count of clocks without a refresh stops

ASSUME AgeAssumption == MaxAge \in Nat

VARIABLE age        \* clocks since the chip was last refreshed

vars == <<sdramVars, chipVars, age>>

Init == /\ SdramInit
        /\ ChipInit([a \in Address |-> Undriven])
        /\ age = 0

\* The chip samples the pins as they were during this clock.
Pins == /\ ChipClock(command, pin_row, initial_column_address,
                     dq_out_mode, data_write)
        /\ age' = IF command = "REFRESH" THEN 0
                  ELSE IF age < MaxAge THEN age + 1 ELSE age

Run == \E request, wren, last4 \in BOOLEAN, address \in Address :
         RunClock(request, wren, last4, address, Undriven, dq) /\ Pins

PowerUp == InitClock /\ Pins

Reset == ResetClock /\ Pins

Next == PowerUp \/ Run \/ Reset

Spec == Init /\ [][Next]_vars

TypeOK == /\ SdramTypeOK
          /\ open_row \in Nat \cup {Closed}
          /\ access \in {"none", "read", "write"}
          /\ access_column \in Column
          /\ DOMAIN memory = Address
          /\ age \in 0 .. MaxAge

(***************************************************************************)
(* Whatever the masters do, and whenever a reset came, the controller in   *)
(* normal operation gives the chip only commands the chip may be given: it *)
(* never opens a second row, never refreshes or loads the mode register    *)
(* with a row open, never reads or writes with none.  (While reset is held *)
(* the pins keep their value; the initialisation that follows closes the   *)
(* row first.)                                                             *)
(***************************************************************************)
CommandLegal == state_hi = 0 => Legal(command)

(***************************************************************************)
(* Once initialised the controller refreshes the chip in time however the  *)
(* masters use the bus: the wait is the refresh period, the longest burst  *)
(* with the row it opens and closes, and one attempt that is lost when the *)
(* master withdraws its request in the very clock of the refresh command.  *)
(***************************************************************************)
LongestBurst == COLS + 8
LostAttempt == RefreshState - RefreshDone + 1
RefreshBound == RefreshPeriod + LongestBurst + LostAttempt

Initialised == state_hi = 0 /\ state < ModeState

RefreshInTime == Initialised => age <= RefreshBound
=============================================================================
