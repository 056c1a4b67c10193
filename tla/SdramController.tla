-------------------------- MODULE SdramController ---------------------------
(***************************************************************************)
(* sdram_controller.sv: the state counter that initialises the SDRAM,      *)
(* refreshes it and serves one full-page burst at a time for the master on *)
(* data_bus.  One step is one rising edge of the system clock.             *)
(*                                                                         *)
(* The counter runs down.  The chip has 256 columns in a row; with COLS of *)
(* them 261 becomes COLS + 5.  The states of initialisation and refresh    *)
(* keep their distances from RefreshDone (468 in the chip).                *)
(*                                                                         *)
(* Every register of the memory pins is written in one clock and sampled   *)
(* by the chip at the end of the next; module SdramChip is the other side. *)
(***************************************************************************)
EXTENDS SdramGeometry

CONSTANTS RefreshDone,     \* last state of a refresh: 468
          RefreshPeriod,   \* value refresh_counter is loaded with: 2000
          InitRounds       \* rounds of the counter before initialisation: 31

ASSUME SdramAssumption ==
  /\ RefreshDone \in Nat /\ RefreshDone >= COLS + 8
  /\ RefreshPeriod \in Nat /\ RefreshPeriod >= 1
  /\ InitRounds \in Nat /\ InitRounds >= 1

VARIABLES state_hi, state, burst, write_enable, column_address,
          initial_column_address, delay, new_ready, refresh_counter,
          dq_out_mode, data_write, data_read,
          command, pin_row          \* the command and row address pins

counterVars == <<state_hi, state>>
burstVars == <<burst, write_enable, column_address, initial_column_address,
               delay, new_ready, refresh_counter>>
pinVars == <<dq_out_mode, data_write, data_read, command, pin_row>>
sdramVars == <<counterVars, burstVars, pinVars>>

Command == {"NOP", "ACTIVE", "READ", "WRITE", "TERMINATE", "PRECHARGE",
            "REFRESH", "MODE"}

\* Named values of the state counter.
AccessState == COLS + 5         \* 261: the READ or WRITE command
OpenState == COLS + 7           \* 263: first state after ACTIVE
RefreshState == RefreshDone + 8 \* 476
ModeState == RefreshDone + 16   \* 484
Refresh2State == RefreshDone + 27
Refresh1State == RefreshDone + 38
TopState == RefreshDone + 43    \* 511

Registers(rounds, refresh) ==
  /\ state_hi = rounds
  /\ refresh_counter = refresh
  /\ state = 0
  /\ burst = FALSE
  /\ write_enable = FALSE
  /\ column_address = 0
  /\ initial_column_address = 0
  /\ delay = 0
  /\ new_ready = FALSE
  /\ dq_out_mode = FALSE
  /\ data_write = Undriven
  /\ data_read = Undriven
  /\ command = "NOP"
  /\ pin_row = 0

\* Power-up.
SdramInit == Registers(InitRounds, 0)

\* The first clock in which a burst can be opened: initialisation has ended
\* with a refresh, the states RefreshState - 1 .. RefreshDone ago.
SdramIdle == Registers(0, RefreshPeriod - (RefreshState - RefreshDone))

-----------------------------------------------------------------------------
\* Wires.

Ready(request) == request /\ burst /\ new_ready

last_word == state = 1

new_delay == IF state > 1 /\ state < AccessState
             THEN IF delay < 4 THEN delay + 1 ELSE delay
             ELSE 0

InBurst == state > 5 /\ state <= AccessState

\* The burst reaches the end of the row, or the reader wants at most 4 more.
Jump5(last4) ==
  /\ InBurst
  /\ \/ column_address = COLS - 1
     \/ ~write_enable /\ last4 /\ state < AccessState

\* The master withdrew its request while the burst it was granted is on.
Withdrawn(request) == ~request /\ burst /\ state > 4

\* A new burst is opened for the master.
Open(request) == refresh_counter # 0 /\ request /\ state = 0

\* Mutant: a withdrawn burst goes on past the precharge.
NextStateNoClose(request, last4) ==
  IF state = RefreshDone THEN 0
  ELSE IF Withdrawn(request) /\ state <= COLS + 6 THEN 2
  ELSE IF Jump5(last4) THEN 5
  ELSE IF state <= 1 /\ refresh_counter = 0 THEN RefreshState
  ELSE IF Open(request) THEN OpenState
  ELSE IF state # 0 THEN state - 1
  ELSE state

\* Mutant: a request goes before a refresh.
NextStateRequestFirst(request, last4) ==
  IF state = RefreshDone THEN 0
  ELSE IF Withdrawn(request) /\ state <= COLS + 6 THEN 4
  ELSE IF Jump5(last4) THEN 5
  ELSE IF state <= 1 /\ refresh_counter = 0 /\ ~request THEN RefreshState
  ELSE IF Open(request) THEN OpenState
  ELSE IF state # 0 THEN state - 1
  ELSE state

NextState(request, last4) ==
  IF state = RefreshDone THEN 0
  ELSE IF Withdrawn(request) /\ state <= COLS + 6 THEN 4
  ELSE IF Jump5(last4) THEN 5
  ELSE IF state <= 1 /\ refresh_counter = 0 THEN RefreshState
  ELSE IF Open(request) THEN OpenState
  ELSE IF state # 0 THEN state - 1
  ELSE state

\* Mutant: a write burst is ended as late as a read burst.
NextCommandLateEnd(request) ==
  IF state = 4 \/ Withdrawn(request)
  THEN "TERMINATE"
  ELSE CASE state \in {TopState, 3} -> "PRECHARGE"
         [] state \in {Refresh1State, Refresh2State, RefreshState} -> "REFRESH"
         [] state = ModeState -> "MODE"
         [] state = AccessState -> IF write_enable THEN "WRITE" ELSE "READ"
         [] Open(request) -> "ACTIVE"
         [] OTHER -> "NOP"

NextCommand(request) ==
  IF state = 4 + (IF write_enable THEN 1 ELSE 0) \/ Withdrawn(request)
  THEN "TERMINATE"
  ELSE CASE state \in {TopState, 3} -> "PRECHARGE"
         [] state \in {Refresh1State, Refresh2State, RefreshState} -> "REFRESH"
         [] state = ModeState -> "MODE"
         [] state = AccessState -> IF write_enable THEN "WRITE" ELSE "READ"
         [] Open(request) -> "ACTIVE"
         [] OTHER -> "NOP"

-----------------------------------------------------------------------------
\* While reset is held nothing but the round counter changes.
ResetClock == /\ state_hi' = InitRounds
              /\ UNCHANGED <<state, burstVars, pinVars>>

\* Power-up delay: the pins show NOP and the counter runs through its rounds.
InitClock ==
  /\ state_hi # 0
  /\ dq_out_mode' = FALSE
  /\ command' = "NOP"
  /\ state' = IF state = 0 THEN TopState ELSE state - 1
  /\ state_hi' = IF state = 0 THEN state_hi - 1 ELSE state_hi
  /\ burst' = FALSE
  /\ UNCHANGED <<write_enable, column_address, initial_column_address, delay,
                 new_ready, refresh_counter, data_write, data_read, pin_row>>

\* Normal operation.  request, wren, last4, address and wdata are the wires of
\* data_bus; dq is what the chip drives on the data pins.
RunClock(request, wren, last4, address, wdata, dq) ==
  /\ state_hi = 0
  /\ data_read' = dq
  /\ data_write' = wdata
  /\ dq_out_mode' = (write_enable /\ Ready(request))
  /\ delay' = new_delay
  /\ state' = NextState(request, last4)
  /\ command' = NextCommand(request)
  /\ new_ready' = IF write_enable
                  THEN 6 < state /\ state < OpenState /\ ~Jump5(last4)
                  ELSE 1 < state /\ new_delay > 3
  /\ refresh_counter' = IF command' = "REFRESH" THEN RefreshPeriod
                        ELSE IF refresh_counter # 0 THEN refresh_counter - 1
                        ELSE 0
  /\ IF command' = "ACTIVE"
     THEN /\ pin_row' = RowOf(address)
          /\ column_address' = ColumnOf(address)
          /\ initial_column_address' = ColumnOf(address)
          /\ write_enable' = wren
          /\ burst' = TRUE
     ELSE /\ column_address' = IF InBurst THEN (column_address + 1) % COLS
                                          ELSE column_address
          /\ burst' = (burst /\ request)
          /\ UNCHANGED <<pin_row, initial_column_address, write_enable>>
  /\ UNCHANGED state_hi

SdramTypeOK ==
  /\ state_hi \in 0 .. InitRounds
  /\ state \in 0 .. TopState
  /\ burst \in BOOLEAN
  /\ write_enable \in BOOLEAN
  /\ column_address \in Column
  /\ initial_column_address \in Column
  /\ delay \in 0 .. 4
  /\ new_ready \in BOOLEAN
  /\ refresh_counter \in 0 .. RefreshPeriod
  /\ dq_out_mode \in BOOLEAN
  /\ command \in Command
  /\ pin_row \in Nat
=============================================================================
