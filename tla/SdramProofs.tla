---------------------------- MODULE SdramProofs -----------------------------
(***************************************************************************)
(* What module SdramSystem says of the SDRAM controller, for every         *)
(* geometry, refresh period and length of the initialisation.              *)
(***************************************************************************)
EXTENDS SdramSystem, TLAPS

\* The row that will be open when the chip has sampled the pins.
Row == RowAfter(command, pin_row)

(***************************************************************************)
(* The state counter tells whether a row is open.  The last state of the   *)
(* power-up round is the exception: a row a reset left open is closed in   *)
(* the clock that follows, which needs that no burst is on.                *)
(***************************************************************************)
RowInv ==
  state_hi = 0 =>
    /\ Legal(command)
    /\ state \in 0 .. OpenState \cup RefreshDone .. TopState
    /\ state \in 0 .. 2 \cup RefreshDone .. TopState - 1 => Row = Closed
    /\ state \in 3 .. OpenState => Row # Closed
    /\ state = TopState => ~burst /\ command = "NOP"

Inv == TypeOK /\ RowInv

-----------------------------------------------------------------------------
LEMMA NextColumn == \A c \in Nat : (c + 1) % COLS \in Column
  BY GeometryAssumption DEF Column

LEMMA RowIsNat == \A a \in Address : RowOf(a) \in Nat /\ ColumnOf(a) \in Column
  BY GeometryAssumption DEF Address, RowOf, ColumnOf, Column

-----------------------------------------------------------------------------
(* The chip's half of a step. *)

LEMMA PinsType ==
  ASSUME TypeOK, Pins, pin_row \in Nat
  PROVE  /\ open_row' \in Nat \cup {Closed}
         /\ access' \in {"none", "read", "write"}
         /\ access_column' \in Column
         /\ age' \in 0 .. MaxAge
<1>1. open_row' \in Nat \cup {Closed}
  BY DEF TypeOK, Pins, ChipClock, RowAfter
<1>2. access' \in {"none", "read", "write"}
  BY DEF TypeOK, Pins, ChipClock, AccessAfter
<1>3. access_column' \in Column
  <2>1. ColumnNow(command, initial_column_address) \in Nat
    BY GeometryAssumption DEF TypeOK, SdramTypeOK, ColumnNow, Column
  <2> QED BY <2>1, NextColumn DEF Pins, ChipClock
<1>4. age' \in 0 .. MaxAge
  BY AgeAssumption DEF TypeOK, Pins
<1> QED BY <1>1, <1>2, <1>3, <1>4

LEMMA PinsMemory == ASSUME TypeOK, Pins PROVE DOMAIN memory' = Address
BY DEF TypeOK, Pins, ChipClock

\* The controller's half.  Its counter stays in range whatever the wires do.
LEMMA StateType ==
  ASSUME SdramTypeOK, NEW request \in BOOLEAN, NEW last4 \in BOOLEAN
  PROVE  NextState(request, last4) \in 0 .. TopState
BY GeometryAssumption, SdramAssumption
   DEF SdramTypeOK, NextState, TopState, RefreshState, OpenState

LEMMA CommandType ==
  ASSUME NEW request \in BOOLEAN
  PROVE  NextCommand(request) \in Command
BY DEF NextCommand, Command

LEMMA RunType ==
  ASSUME TypeOK,
         NEW request \in BOOLEAN, NEW wr \in BOOLEAN, NEW last4 \in BOOLEAN,
         NEW address \in Address, NEW data, NEW pins,
         RunClock(request, wr, last4, address, data, pins)
  PROVE  SdramTypeOK'
<1> USE DEF TypeOK
<1>1. state_hi' \in 0 .. InitRounds /\ dq_out_mode' \in BOOLEAN
  BY DEF SdramTypeOK, RunClock, Ready
<1>2. state' \in 0 .. TopState
  BY StateType DEF RunClock
<1>3. command' \in Command
  BY CommandType DEF RunClock
<1>4. delay' \in 0 .. 4
  BY DEF SdramTypeOK, RunClock, new_delay
<1>5. new_ready' \in BOOLEAN
  BY DEF RunClock
<1>6. refresh_counter' \in 0 .. RefreshPeriod
  BY SdramAssumption DEF SdramTypeOK, RunClock
<1>7. /\ burst' \in BOOLEAN
      /\ write_enable' \in BOOLEAN
  BY DEF SdramTypeOK, RunClock
<1>8. /\ column_address' \in Column
      /\ initial_column_address' \in Column
      /\ pin_row' \in Nat
  <2>1. /\ RowOf(address) \in Nat
        /\ ColumnOf(address) \in Column
        /\ (column_address + 1) % COLS \in Column
    BY NextColumn, RowIsNat, GeometryAssumption DEF SdramTypeOK, Column
  <2> QED BY <2>1 DEF SdramTypeOK, RunClock
<1> QED BY <1>1, <1>2, <1>3, <1>4, <1>5, <1>6, <1>7, <1>8 DEF SdramTypeOK

LEMMA PowerUpType == ASSUME TypeOK, InitClock PROVE SdramTypeOK'
<1>1. state' \in 0 .. TopState /\ state_hi' \in 0 .. InitRounds
  BY SdramAssumption DEF TypeOK, SdramTypeOK, InitClock, TopState
<1> QED BY <1>1 DEF TypeOK, SdramTypeOK, InitClock, Command

LEMMA ResetType == ASSUME TypeOK, ResetClock PROVE SdramTypeOK'
BY SdramAssumption
   DEF TypeOK, SdramTypeOK, ResetClock, burstVars, pinVars, Command

LEMMA InitType == Init => TypeOK
<1> SUFFICES ASSUME Init PROVE TypeOK
  OBVIOUS
<1>1. SdramTypeOK
  <2>1. Registers(InitRounds, 0)
    BY DEF Init, SdramInit
  <2>2. RefreshDone \in Nat /\ InitRounds \in Nat /\ RefreshPeriod \in Nat /\ 0 \in Column
    BY GeometryAssumption, SdramAssumption DEF Column
  <2>3. /\ state_hi \in 0 .. InitRounds
        /\ state \in 0 .. TopState
        /\ delay \in 0 .. 4
        /\ refresh_counter \in 0 .. RefreshPeriod
    BY <2>1, <2>2 DEF Registers, TopState
  <2>4. /\ burst \in BOOLEAN /\ write_enable \in BOOLEAN
        /\ new_ready \in BOOLEAN /\ dq_out_mode \in BOOLEAN
    BY <2>1 DEF Registers
  <2>5. /\ column_address \in Column /\ initial_column_address \in Column
        /\ command \in Command /\ pin_row \in Nat
    BY <2>1, <2>2 DEF Registers, Command
  <2> QED BY <2>3, <2>4, <2>5 DEF SdramTypeOK
<1> QED BY <1>1, GeometryAssumption, AgeAssumption
        DEF Init, ChipInit, TypeOK, Column

LEMMA StepType == TypeOK /\ [Next]_vars => TypeOK'
<1> SUFFICES ASSUME TypeOK, [Next]_vars PROVE TypeOK'
  OBVIOUS
<1>1. pin_row \in Nat
  BY DEF TypeOK, SdramTypeOK
<1>2. ASSUME Pins, SdramTypeOK' PROVE TypeOK'
  BY <1>1, <1>2, PinsType, PinsMemory DEF TypeOK
<1>3. CASE PowerUp
  BY <1>2, <1>3, PowerUpType DEF PowerUp
<1>4. CASE Run
  BY <1>2, <1>4, RunType DEF Run
<1>5. CASE Reset
  BY <1>2, <1>5, ResetType DEF Reset
<1>6. CASE UNCHANGED vars
  BY <1>6 DEF TypeOK, SdramTypeOK, vars, sdramVars, chipVars, counterVars,
              burstVars, pinVars
<1> QED BY <1>3, <1>4, <1>5, <1>6 DEF Next

(***************************************************************************)
(* Every register of the controller keeps its range, whatever the masters  *)
(* do and whenever a reset comes.                                          *)
(***************************************************************************)
THEOREM SdramTypeCorrect == Spec => []TypeOK
BY InitType, StepType, PTL DEF Spec

-----------------------------------------------------------------------------
(* The row: one lemma for each kind of clock. *)

LEMMA PinsRow == ASSUME Pins PROVE open_row' = Row
BY DEF Pins, ChipClock, Row

LEMMA InitRow == Init => RowInv
<1> SUFFICES ASSUME Init PROVE state_hi # 0
  BY DEF RowInv
<1>1. Registers(InitRounds, 0)
  BY DEF Init, SdramInit
<1> QED BY <1>1, SdramAssumption DEF Registers

\* Only the last power-up clock reaches normal operation.
LEMMA PowerUpRow == ASSUME TypeOK, InitClock PROVE RowInv'
<1> SUFFICES ASSUME state_hi' = 0 PROVE RowInv'
  BY DEF RowInv
<1>1. state = 0 /\ state' = TopState
  BY DEF InitClock
<1>2. command' = "NOP" /\ burst' = FALSE
  BY DEF InitClock
<1>3. TopState \in RefreshDone .. TopState
      /\ TopState \notin 0 .. 2 \cup RefreshDone .. TopState - 1
      /\ TopState \notin 3 .. OpenState
  BY GeometryAssumption, SdramAssumption DEF TopState, OpenState
<1>4. Legal(command)'
  BY <1>2 DEF Legal
<1> QED BY <1>1, <1>2, <1>3, <1>4 DEF RowInv

LEMMA ResetRow == ASSUME ResetClock PROVE RowInv'
BY SdramAssumption DEF ResetClock, RowInv

LEMMA RunRow ==
  ASSUME Inv, Pins,
         NEW request \in BOOLEAN, NEW wr \in BOOLEAN, NEW last4 \in BOOLEAN,
         NEW address \in Address, NEW data, NEW pins,
         RunClock(request, wr, last4, address, data, pins)
  PROVE  RowInv'
<1> DEFINE closed == 0 .. 2 \cup RefreshDone .. TopState - 1
           opened == 3 .. OpenState
           next == NextState(request, last4)
           cmd == NextCommand(request)
<1>1. /\ state_hi = 0
      /\ state' = next
      /\ command' = cmd
      /\ open_row' = Row
      /\ state \in 0 .. OpenState \cup RefreshDone .. TopState
      /\ state \in Nat
      /\ burst \in BOOLEAN
      /\ write_enable \in BOOLEAN
  BY PinsRow DEF Inv, TypeOK, SdramTypeOK, RowInv, RunClock
<1>2. /\ state \in closed => Row = Closed
      /\ state \in opened => Row # Closed
      /\ state = TopState => ~burst
  BY <1>1 DEF Inv, RowInv
<1>3. pin_row' \in Nat
  BY RunType DEF Inv, SdramTypeOK
<1>4. /\ cmd \in {"REFRESH", "MODE", "ACTIVE"} => state \in closed
      /\ cmd \in {"READ", "WRITE"} => state \in opened
  BY <1>1, GeometryAssumption, SdramAssumption
     DEF NextCommand, TopState, RefreshState, Refresh1State, Refresh2State,
         ModeState, AccessState, OpenState, Open
<1>5. Legal(command)'
  BY <1>1, <1>2, <1>4 DEF Legal
<1>6. Row' = IF cmd = "ACTIVE" THEN pin_row'
             ELSE IF cmd = "PRECHARGE" THEN Closed ELSE Row
  BY <1>1 DEF Row, RowAfter
<1>7. next \in 0 .. OpenState \cup RefreshDone .. TopState - 1
  BY <1>1, GeometryAssumption, SdramAssumption
     DEF NextState, TopState, RefreshState, OpenState, InBurst, Jump5, AccessState,
         Withdrawn, Open
<1>8. next \in closed => Row' = Closed
  <2>1. next \in closed /\ cmd # "PRECHARGE" => state \in closed /\ cmd # "ACTIVE"
    BY <1>1, <1>2, GeometryAssumption, SdramAssumption
       DEF NextState, NextCommand, TopState, RefreshState, Refresh1State,
           Refresh2State, ModeState, OpenState, InBurst, Jump5, AccessState,
           Withdrawn, Open
  <2> QED BY <1>2, <1>6, <2>1
<1>9. next \in opened => Row' # Closed
  <2>1. next \in opened => \/ cmd = "ACTIVE"
                           \/ state \in opened /\ cmd # "PRECHARGE"
    BY <1>1, GeometryAssumption, SdramAssumption
       DEF NextState, NextCommand, TopState, RefreshState, Refresh1State,
           Refresh2State, ModeState, OpenState, InBurst, Jump5, AccessState,
           Withdrawn, Open
  <2> QED BY <1>2, <1>3, <1>6, <2>1, GeometryAssumption
<1>10. next \in 0 .. OpenState \cup RefreshDone .. TopState /\ next # TopState
  BY <1>7, GeometryAssumption, SdramAssumption DEF TopState, OpenState
<1> QED BY <1>1, <1>5, <1>8, <1>9, <1>10 DEF RowInv

LEMMA StepRow == Inv /\ [Next]_vars => RowInv'
<1> SUFFICES ASSUME Inv, [Next]_vars PROVE RowInv'
  OBVIOUS
<1>1. CASE PowerUp
  BY <1>1, PowerUpRow DEF Inv, PowerUp
<1>2. CASE Run
  BY <1>2, RunRow DEF Run
<1>3. CASE Reset
  BY <1>3, ResetRow DEF Reset
<1>4. CASE UNCHANGED vars
  BY <1>4 DEF Inv, RowInv, Row, RowAfter, Legal, vars, sdramVars, chipVars,
              counterVars, burstVars, pinVars
<1> QED BY <1>1, <1>2, <1>3, <1>4 DEF Next

(***************************************************************************)
(* Whatever the masters do and whenever a reset comes, the chip is given   *)
(* no command that its open row does not allow.                            *)
(***************************************************************************)
THEOREM SdramCommandsLegal == Spec => []CommandLegal
<1>1. Init => Inv
  BY InitType, InitRow DEF Inv
<1>2. Inv /\ [Next]_vars => Inv'
  BY StepType, StepRow DEF Inv
<1>3. Inv => CommandLegal
  BY DEF Inv, RowInv, CommandLegal
<1> QED BY <1>1, <1>2, <1>3, PTL DEF Spec
-----------------------------------------------------------------------------
(***************************************************************************)
(* The refresh.  Due is the age the chip will have when it has sampled the *)
(* pins.  While refresh_counter runs, Due is what it has run; once it is   *)
(* 0, Deadline adds to the period the way that may have been gone since:   *)
(* down the burst and on to RefreshState, twice if the first attempt is    *)
(* lost, which needs a burst and leaves none.                              *)
(***************************************************************************)
Due == IF command = "REFRESH" THEN 0 ELSE age + 1

Deadline(s, on) ==
  IF s > RefreshState THEN RefreshPeriod + Refresh2State - 1 - s
  ELSE IF s \in 1 .. OpenState THEN RefreshPeriod + OpenState - s
  ELSE IF on THEN RefreshPeriod + (IF s = 0 THEN 8
                                   ELSE IF s = RefreshState THEN OpenState
                                   ELSE RefreshState - 1 - s)
  ELSE RefreshPeriod + OpenState + (IF s = 0 THEN 9
                                    ELSE IF s = RefreshState THEN 10
                                    ELSE RefreshState - s)

OnTime == IF refresh_counter = 0 THEN Due <= Deadline(state, burst)
                                 ELSE Due + refresh_counter <= RefreshPeriod

AgeInv ==
  state_hi = 0 =>
    /\ state > RefreshState => ~burst
    /\ state < Refresh2State => OnTime
    /\ state < ModeState /\ command = "REFRESH" => age <= RefreshBound

\* The counter has run out only when the period is over.
LEMMA DeadlinePeriod ==
  ASSUME NEW s \in 0 .. Refresh2State - 1, NEW on \in BOOLEAN,
         s \in 0 .. OpenState \cup RefreshDone .. TopState
  PROVE  RefreshPeriod <= Deadline(s, on) /\ Deadline(s, on) \in Nat
BY GeometryAssumption, SdramAssumption
   DEF Deadline, RefreshState, Refresh2State, OpenState, TopState

\* A clock without a refresh moves the deadline on by a clock at least.
LEMMA DeadlineStep ==
  ASSUME NEW request \in BOOLEAN, NEW last4 \in BOOLEAN, SdramTypeOK,
         state \in 0 .. OpenState \cup RefreshDone .. TopState,
         state < Refresh2State,
         state > RefreshState => ~burst,
         refresh_counter = 0,
         NextCommand(request) # "REFRESH",
         NEW on \in BOOLEAN, on => burst /\ request
  PROVE  Deadline(state, burst) + 1 <= Deadline(NextState(request, last4), on)
<1> DEFINE next == NextState(request, last4)
<1>1. state \in Nat /\ burst \in BOOLEAN /\ ~Open(request)
  BY DEF SdramTypeOK, Open
<1>2. CASE state > RefreshState
  <2>1. next = state - 1
    BY <1>1, <1>2, GeometryAssumption, SdramAssumption
       DEF NextState, RefreshState, InBurst, Jump5, AccessState, Withdrawn
  <2> QED BY <1>1, <1>2, <2>1, GeometryAssumption, SdramAssumption
          DEF Deadline, RefreshState, Refresh2State, OpenState
<1>3. CASE state = RefreshState
  <2>1. next = state - 1
    BY <1>1, <1>3, GeometryAssumption, SdramAssumption
       DEF NextState, RefreshState, InBurst, Jump5, AccessState, Withdrawn
  <2>2. Withdrawn(request)
    BY <1>1, <1>3, GeometryAssumption, SdramAssumption
       DEF SdramTypeOK, NextCommand, RefreshState, Refresh1State, Refresh2State,
           ModeState, AccessState, TopState
  <2>3. burst /\ ~on
    BY <2>2 DEF Withdrawn
  <2> QED BY <1>1, <1>3, <2>1, <2>3, GeometryAssumption, SdramAssumption
          DEF Deadline, RefreshState, Refresh2State, OpenState
<1>4. CASE state \in RefreshDone .. RefreshState - 1
  <2>1. next = IF state = RefreshDone THEN 0 ELSE state - 1
    BY <1>1, <1>4, GeometryAssumption, SdramAssumption
       DEF NextState, RefreshState, InBurst, Jump5, AccessState, Withdrawn
  <2> QED BY <1>1, <1>4, <2>1, GeometryAssumption, SdramAssumption
          DEF Deadline, RefreshState, Refresh2State, OpenState
<1>5. CASE state \in 2 .. OpenState
  <2>1. state \in Nat /\ 2 <= state /\ state < RefreshDone
    BY <1>5, GeometryAssumption, SdramAssumption DEF OpenState
  <2>2. /\ Withdrawn(request) => state > 4
        /\ Jump5(last4) => state > 5
        /\ state # RefreshDone /\ ~(state <= 1) /\ state # 0
    BY <1>1, <2>1, SdramAssumption DEF InBurst, Jump5, Withdrawn
  <2>3. \/ next = 4 /\ state > 4
        \/ next = 5 /\ state > 5
        \/ next = state - 1
    BY <1>1, <2>2 DEF NextState
  <2> QED BY <1>1, <1>5, <2>1, <2>3, GeometryAssumption, SdramAssumption
          DEF Deadline, RefreshState, Refresh2State, OpenState
<1>6. CASE state \in {0, 1}
  <2>1. next = RefreshState
    BY <1>1, <1>6, GeometryAssumption, SdramAssumption
       DEF NextState, OpenState, InBurst, Jump5, Withdrawn
  <2> QED BY <1>1, <1>6, <2>1, GeometryAssumption, SdramAssumption
          DEF Deadline, RefreshState, Refresh2State, OpenState
<1> QED BY <1>1, <1>2, <1>3, <1>4, <1>5, <1>6, GeometryAssumption, SdramAssumption
        DEF RefreshState, OpenState, TopState

\* The chip's half: age' is Due, or less once age has reached MaxAge.
LEMMA PinsAge ==
  ASSUME TypeOK, Pins
  PROVE  /\ age' \in Nat /\ age' <= Due /\ Due \in Nat
         /\ Due' = IF command' = "REFRESH" THEN 0 ELSE age' + 1
BY AgeAssumption DEF TypeOK, Pins, Due

\* A refresh command comes from three states, and from the one of the second
\* refresh of the initialisation it always comes.
LEMMA RefreshFrom ==
  ASSUME SdramTypeOK, NEW request \in BOOLEAN
  PROVE  /\ NextCommand(request) = "REFRESH" =>
              state \in {Refresh1State, Refresh2State, RefreshState}
         /\ state = Refresh2State /\ ~burst => NextCommand(request) = "REFRESH"
BY GeometryAssumption, SdramAssumption
   DEF SdramTypeOK, NextCommand, Withdrawn, RefreshState, Refresh1State,
       Refresh2State, ModeState, AccessState, TopState, Open

\* In the states of the initialisation the counter only counts down.
LEMMA CountsDown ==
  ASSUME SdramTypeOK, NEW request \in BOOLEAN, NEW last4 \in BOOLEAN
  PROVE  /\ state > RefreshState => NextState(request, last4) = state - 1
         /\ NextState(request, last4) > RefreshState => state > RefreshState
BY GeometryAssumption, SdramAssumption
   DEF SdramTypeOK, NextState, RefreshState, InBurst, Jump5, AccessState, OpenState,
       Withdrawn, Open

LEMMA RunAge ==
  ASSUME Inv, AgeInv, Pins, TypeOK', RowInv',
         NEW request \in BOOLEAN, NEW wr \in BOOLEAN, NEW last4 \in BOOLEAN,
         NEW address \in Address, NEW data, NEW pins,
         RunClock(request, wr, last4, address, data, pins)
  PROVE  AgeInv'
<1> DEFINE next == NextState(request, last4)
           cmd == NextCommand(request)
<1>1. /\ SdramTypeOK
      /\ state_hi = 0 /\ state_hi' = 0
      /\ state' = next /\ command' = cmd
      /\ state \in 0 .. OpenState \cup RefreshDone .. TopState
      /\ next \in 0 .. OpenState \cup RefreshDone .. TopState
      /\ burst \in BOOLEAN /\ burst' \in BOOLEAN
      /\ refresh_counter \in 0 .. RefreshPeriod
  BY DEF Inv, TypeOK, SdramTypeOK, RowInv, RunClock
<1>2. /\ state > RefreshState => ~burst
      /\ state < Refresh2State => OnTime
  BY <1>1 DEF AgeInv
<1>3. burst' => (burst /\ request) \/ state = 0
  BY DEF RunClock, NextCommand, Open
<1>4. next > RefreshState => ~burst'
  <2>1. next > RefreshState => state > RefreshState /\ state # 0
    BY <1>1, CountsDown, SdramAssumption DEF RefreshState
  <2> QED BY <1>2, <1>3, <2>1
<1>5. refresh_counter' = IF cmd = "REFRESH" THEN RefreshPeriod
                         ELSE IF refresh_counter # 0 THEN refresh_counter - 1
                         ELSE 0
  BY <1>1 DEF RunClock
<1>6. Due \in Nat /\ age' \in Nat /\ age' <= Due
      /\ Due' = IF cmd = "REFRESH" THEN 0 ELSE age' + 1
  BY <1>1, PinsAge DEF Inv
<1>7. ASSUME next < Refresh2State PROVE OnTime'
  <2>1. CASE cmd = "REFRESH"
    <3>1. Due' = 0 /\ refresh_counter' = RefreshPeriod
      BY <1>5, <1>6, <2>1
    <3> QED BY <3>1, SdramAssumption DEF OnTime
  <2>2. ASSUME cmd # "REFRESH" PROVE state < Refresh2State /\ OnTime
    <3>1. state # Refresh2State
      BY <1>1, <1>2, <2>2, RefreshFrom, SdramAssumption
         DEF RefreshState, Refresh2State
    <3>2. ~(state > Refresh2State)
      BY <1>1, <1>7, CountsDown, SdramAssumption
         DEF RefreshState, Refresh2State, OpenState, TopState
    <3>3. state < Refresh2State
      BY <1>1, <3>1, <3>2, GeometryAssumption, SdramAssumption
         DEF Refresh2State, OpenState, TopState
    <3> QED BY <1>2, <3>3
  <2>3. CASE cmd # "REFRESH" /\ refresh_counter > 1
    <3>1. Due + refresh_counter <= RefreshPeriod
      BY <1>1, <2>2, <2>3 DEF OnTime
    <3>2. refresh_counter' = refresh_counter - 1 /\ refresh_counter' # 0
      BY <1>1, <1>5, <2>3
    <3>3. Due' = age' + 1 /\ Due \in Nat /\ age' \in Nat /\ age' <= Due
      BY <1>6, <2>3
    <3>4. refresh_counter \in Nat /\ RefreshPeriod \in Nat /\ refresh_counter > 1
      BY <1>1, <2>3, SdramAssumption
    <3>5. \A d, c, a \in Nat :
            c > 1 /\ a <= d /\ d + c <= RefreshPeriod => a + 1 + (c - 1) <= RefreshPeriod
      BY <3>4
    <3>6. Due' + refresh_counter' <= RefreshPeriod
      BY <3>1, <3>2, <3>3, <3>4, <3>5
    <3> QED BY <3>2, <3>6 DEF OnTime
  <2>4. CASE cmd # "REFRESH" /\ refresh_counter = 1
    <3>1. Due + 1 <= RefreshPeriod
      BY <1>1, <2>2, <2>4 DEF OnTime
    <3>2. refresh_counter' = 0
      BY <1>1, <1>5, <2>4
    <3>3. RefreshPeriod <= Deadline(next, burst') /\ Deadline(next, burst') \in Nat
      BY <1>1, <1>7, DeadlinePeriod, GeometryAssumption, SdramAssumption
         DEF Refresh2State, OpenState, TopState
    <3>4. Due' <= Deadline(next, burst')
      BY <1>1, <1>6, <2>4, <3>1, <3>3, SdramAssumption
    <3> QED BY <1>1, <3>2, <3>4 DEF OnTime
  <2>5. CASE cmd # "REFRESH" /\ refresh_counter = 0
    <3>1. Due <= Deadline(state, burst)
      BY <1>1, <2>2, <2>5 DEF OnTime
    <3>2. refresh_counter' = 0
      BY <1>1, <1>5, <2>5
    <3>3. burst' => burst /\ request
      BY <2>5 DEF RunClock, NextCommand, Open
    <3>4. Deadline(state, burst) + 1 <= Deadline(next, burst')
      BY <1>1, <1>2, <2>2, <2>5, <3>3, DeadlineStep
    <3>5. Deadline(state, burst) \in Nat /\ Deadline(next, burst') \in Nat
      BY <1>1, <1>7, <2>2, <2>5, DeadlinePeriod, GeometryAssumption, SdramAssumption
         DEF Refresh2State, OpenState, TopState
    <3> QED BY <1>1, <1>6, <2>5, <3>1, <3>2, <3>4, <3>5 DEF OnTime
  <2> QED BY <1>1, <2>1, <2>3, <2>4, <2>5, SdramAssumption
<1>8. ASSUME next < ModeState, cmd = "REFRESH" PROVE age' <= RefreshBound
  <2>1. state = RefreshState
    BY <1>1, <1>8, CountsDown, RefreshFrom, SdramAssumption
       DEF RefreshState, Refresh1State, Refresh2State, ModeState
  <2>2. OnTime
    BY <1>2, <2>1, SdramAssumption DEF RefreshState, Refresh2State
  <2>3. Deadline(state, burst) <= RefreshBound /\ RefreshPeriod <= RefreshBound
    BY <1>1, <2>1, GeometryAssumption, SdramAssumption
       DEF Deadline, RefreshState, OpenState, RefreshBound, LongestBurst, LostAttempt
  <2>4. Deadline(state, burst) \in Nat /\ RefreshBound \in Nat
    BY <1>1, <2>1, GeometryAssumption, SdramAssumption
       DEF Deadline, RefreshState, OpenState, RefreshBound, LongestBurst, LostAttempt
  <2> QED BY <1>1, <1>6, <2>2, <2>3, <2>4, SdramAssumption DEF OnTime
<1> QED BY <1>1, <1>4, <1>7, <1>8 DEF AgeInv

LEMMA StepAge == Inv /\ AgeInv /\ [Next]_vars => AgeInv'
<1> SUFFICES ASSUME Inv, AgeInv, [Next]_vars PROVE AgeInv'
  OBVIOUS
<1>1. CASE PowerUp
  <2> SUFFICES ASSUME state_hi' = 0 PROVE AgeInv'
    BY DEF AgeInv
  <2>1. state' = TopState /\ burst' = FALSE /\ command' = "NOP"
    BY <1>1 DEF PowerUp, InitClock
  <2> QED BY <2>1, SdramAssumption DEF AgeInv, TopState, Refresh2State
<1>2. CASE Run
  BY <1>2, RunAge, StepType, StepRow DEF Run, Inv
<1>3. CASE Reset
  BY <1>3, SdramAssumption DEF Reset, ResetClock, AgeInv
<1>4. CASE UNCHANGED vars
  BY <1>4 DEF AgeInv, OnTime, Due, Deadline, vars, sdramVars, chipVars,
              counterVars, burstVars, pinVars
<1> QED BY <1>1, <1>2, <1>3, <1>4 DEF Next

\* Due, and so the age, stays within the bound in every state reached.
LEMMA AgeBound == Inv /\ AgeInv => RefreshInTime
<1> SUFFICES ASSUME Inv, AgeInv, state_hi = 0, state < ModeState
             PROVE  age <= RefreshBound
  BY DEF RefreshInTime, Initialised
<1>1. /\ state \in 0 .. OpenState \cup RefreshDone .. TopState
      /\ state \in Nat /\ age \in Nat /\ burst \in BOOLEAN
      /\ refresh_counter \in 0 .. RefreshPeriod
  BY AgeAssumption DEF Inv, TypeOK, SdramTypeOK, RowInv
<1>2. OnTime
  BY <1>1, SdramAssumption DEF AgeInv, ModeState, Refresh2State
<1>3. CASE command # "REFRESH"
  <2>1. Deadline(state, burst) <= RefreshBound + 1 /\ RefreshPeriod <= RefreshBound
    BY <1>1, GeometryAssumption, SdramAssumption
       DEF Deadline, RefreshState, Refresh2State, OpenState, ModeState, TopState,
           RefreshBound, LongestBurst, LostAttempt
  <2>2. Deadline(state, burst) \in Nat /\ RefreshBound \in Nat
    BY <1>1, GeometryAssumption, SdramAssumption
       DEF Deadline, RefreshState, Refresh2State, OpenState, ModeState, TopState,
           RefreshBound, LongestBurst, LostAttempt
  <2> QED BY <1>1, <1>2, <1>3, <2>1, <2>2, SdramAssumption DEF OnTime, Due
<1>4. CASE command = "REFRESH"
  BY <1>4 DEF AgeInv
<1> QED BY <1>3, <1>4

(***************************************************************************)
(* The chip waits for a refresh no longer than the period, the longest     *)
(* burst and one lost attempt, whatever the masters do, for every length   *)
(* of a row and every refresh period.                                      *)
(***************************************************************************)
THEOREM SdramRefreshInTime == Spec => []RefreshInTime
<1>1. Init => Inv
  BY InitType, InitRow DEF Inv
<1>2. Init => AgeInv
  <2> SUFFICES ASSUME Init PROVE state_hi # 0
    BY DEF AgeInv
  <2>1. Registers(InitRounds, 0)
    BY DEF Init, SdramInit
  <2> QED BY <2>1, SdramAssumption DEF Registers
<1>3. Inv /\ [Next]_vars => Inv'
  BY StepType, StepRow DEF Inv
<1> QED BY <1>1, <1>2, <1>3, StepAge, AgeBound, PTL DEF Spec
=============================================================================
