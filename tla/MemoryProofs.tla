---------------------------- MODULE MemoryProofs ----------------------------
(***************************************************************************)
(* What module MemorySystem says of the words between the SDRAM and the    *)
(* data cache, for every size of the memories, every block and program,    *)
(* and whatever the display does.                                          *)
(***************************************************************************)
EXTENDS MemorySystem, TLAPS

\* The controller and the chip alone, with any master.
S == INSTANCE SdramProofs WITH age <- 0, MaxAge <- 0

Rows == 0 .. MemSize \div COLS - 1

Typing ==
  /\ TypeOK
  /\ pin_row \in Rows
  /\ access \in {"none", "read", "write"}
  /\ access_column \in Column
  /\ DOMAIN sdram_rdata = Lane
  /\ vga_request = (vga_left # 0)
  /\ vga_last4 \in BOOLEAN

-----------------------------------------------------------------------------
(* Wires: one of the two masters has the bus. *)

LEMMA Geometry ==
  /\ COLS \in Nat /\ COLS >= 2 /\ MemSize \in Nat /\ MemSize >= COLS
  /\ RefreshDone \in Nat /\ RefreshDone >= COLS + 8
  /\ Lines \in Nat /\ Lines >= 2 /\ CountMod \in Nat /\ CountMod >= 8
  /\ VgaBlock \in Nat /\ VgaBlock >= 6 /\ VgaBlock <= COLS
  /\ VgaBase \in Nat /\ VgaBase + VgaBlock <= MemSize
BY GeometryAssumption, SdramAssumption, LinesAssumption, ConnectorAssumption,
   SystemAssumption

LEMMA DivMod == \A a \in Nat : a \div COLS \in Nat /\ a % COLS \in Column /\ a = COLS * (a \div COLS) + (a % COLS)
BY GeometryAssumption DEF Column

LEMMA Fits == \A r \in Nat, c \in Column, q \in Nat : COLS * r + c < COLS * q => r < q
<1> SUFFICES ASSUME NEW r \in Nat, NEW c \in Column, NEW q \in Nat, COLS * r + c < COLS * q, r >= q
     PROVE FALSE
  BY GeometryAssumption
<1>1. COLS * r = COLS * q + COLS * (r - q)
  BY GeometryAssumption
<1>2. COLS * (r - q) >= 0
  BY GeometryAssumption
<1> QED BY <1>1, <1>2, GeometryAssumption DEF Column

LEMMA Division == \A a \in Address : RowOf(a) \in Rows /\ ColumnOf(a) \in Column
                    /\ a = COLS * RowOf(a) + ColumnOf(a)
<1> TAKE a \in Address
<1>1. MemSize = COLS * (MemSize \div COLS) /\ MemSize \div COLS \in Nat
  BY GeometryAssumption, DivMod
<1>2. a \in Nat /\ a < MemSize
  BY GeometryAssumption DEF Address
<1>3. a \div COLS < MemSize \div COLS
  <2>1. a \div COLS \in Nat /\ a % COLS \in Column /\ a = COLS * (a \div COLS) + (a % COLS)
    BY <1>2, DivMod
  <2>2. COLS * (a \div COLS) + (a % COLS) < COLS * (MemSize \div COLS)
    BY <1>1, <1>2, <2>1
  <2> QED BY <1>1, <2>1, <2>2, Fits
<1> QED BY <1>1, <1>2, <1>3, DivMod, GeometryAssumption DEF RowOf, ColumnOf, Rows

LEMMA Places == \A r \in Rows, c \in Column : COLS * r + c \in Address /\ RowOf(COLS * r + c) = r /\ ColumnOf(COLS * r + c) = c
<1> TAKE r \in Rows, c \in Column
<1>1. MemSize = COLS * (MemSize \div COLS) /\ MemSize \div COLS \in Nat
  BY GeometryAssumption, DivMod
<1>2. COLS * (r + 1) <= COLS * (MemSize \div COLS)
  BY <1>1, GeometryAssumption DEF Rows
<1>3. COLS * (r + 1) = COLS * r + COLS /\ COLS * r \in Nat
  BY GeometryAssumption DEF Rows
<1>4. COLS * r + c \in Address
  BY <1>1, <1>2, <1>3, GeometryAssumption DEF Address, Column, Rows
<1>5. (COLS * r + c) \div COLS = r /\ (COLS * r + c) % COLS = c
  BY GeometryAssumption DEF Column, Rows
<1> QED BY <1>4, <1>5 DEF RowOf, ColumnOf
LEMMA Ports == Port = {0, 1}
BY SystemAssumption DEF Port

LEMMA Wires ==
  /\ requests[0] = request /\ requests[1] = vga_request
  /\ writes[0] = wren /\ writes[1] = FALSE
  /\ last4s[0] = last4 /\ last4s[1] = vga_last4
  /\ addresses[0] = mem_addr /\ addresses[1] = vga_address % MemSize
  /\ data_writes[0] = bus_data_write
BY Ports DEF requests, writes, last4s, addresses, data_writes, ByPort, CorePort

LEMMA OneOf ==
  ASSUME NEW i \in {0, 1}, NEW f
  PROVE  Selected({i}, f) = f[i] /\ AnyOf({i}, f) = (\E j \in {i} : f[j])
<1>1. (CHOOSE j \in {i} : TRUE) = i
  OBVIOUS
<1> QED BY <1>1 DEF Selected, AnyOf

LEMMA Owner ==
  ASSUME OneMaster
  PROVE  /\ current = {0} \/ current = {1}
         /\ last_current = {0} \/ last_current = {1}
BY Ports DEF OneMaster

\* What the controller sees is what the owner of the bus drives.
LEMMA BusWires ==
  ASSUME Typing
  PROVE  /\ current = {0} => /\ bus_request = request
                             /\ AnyOf(current, writes) = wren
                             /\ AnyOf(current, last4s) = last4
                             /\ Selected(current, addresses) = mem_addr
         /\ current = {1} => /\ bus_request = vga_request
                             /\ AnyOf(current, writes) = FALSE
                             /\ AnyOf(current, last4s) = vga_last4
                             /\ Selected(current, addresses) = vga_address % MemSize
         /\ last_current = {0} => Selected(last_current, data_writes) = bus_data_write
<1>1. ASSUME NEW i \in {0, 1}, NEW f PROVE Selected({i}, f) = f[i]
  BY <1>1, OneOf
<1>2. /\ Selected({0}, addresses) = mem_addr
      /\ Selected({1}, addresses) = vga_address % MemSize
      /\ Selected({0}, data_writes) = bus_data_write
  BY <1>1, Wires
<1>3. ASSUME NEW f, f[0] \in BOOLEAN, f[1] \in BOOLEAN
      PROVE  AnyOf({0}, f) = f[0] /\ AnyOf({1}, f) = f[1]
  <2>1. /\ AnyOf({0}, f) = (\E j \in {0} : f[j])
        /\ AnyOf({1}, f) = (\E j \in {1} : f[j])
    BY OneOf
  <2> QED BY <1>3, <2>1
<1>4. /\ wren \in BOOLEAN /\ last4 \in BOOLEAN /\ vga_last4 \in BOOLEAN
      /\ request \in BOOLEAN /\ vga_request \in BOOLEAN
  BY DEF Typing, TypeOK, ConnectorTypeOK, request
<1>5. /\ AnyOf({0}, requests) = request /\ AnyOf({1}, requests) = vga_request
  BY <1>3, <1>4, Wires
<1>6. /\ AnyOf({0}, writes) = wren /\ AnyOf({1}, writes) = FALSE
  <2>1. writes[0] \in BOOLEAN /\ writes[1] \in BOOLEAN
    <3>1. FALSE \in BOOLEAN
      OBVIOUS
    <3> QED BY <1>4, <3>1, Wires
  <2>2. AnyOf({0}, writes) = writes[0] /\ AnyOf({1}, writes) = writes[1]
    BY <1>3, <2>1
  <2> QED BY <2>2, Wires
<1>7. /\ AnyOf({0}, last4s) = last4 /\ AnyOf({1}, last4s) = vga_last4
  BY <1>3, <1>4, Wires
<1> QED BY <1>2, <1>5, <1>6, <1>7 DEF bus_request

-----------------------------------------------------------------------------
(* Types: one lemma for each of the parts that take a step in every clock. *)

LEMMA Booleans ==
  ASSUME Typing
  PROVE  /\ bus_request \in BOOLEAN
         /\ AnyOf(current, writes) \in BOOLEAN /\ AnyOf(current, last4s) \in BOOLEAN
         /\ Selected(current, addresses) \in Address
<1>1. /\ wren \in BOOLEAN /\ last4 \in BOOLEAN /\ vga_last4 \in BOOLEAN
      /\ request \in BOOLEAN /\ vga_request \in BOOLEAN
      /\ mem_addr \in Address
  BY DEF Typing, TypeOK, ConnectorTypeOK, request
<1>2. vga_address \in Nat
  BY Geometry DEF Typing, TypeOK, vga_address
<1>3. vga_address % MemSize \in Address
  BY <1>2, Geometry DEF Address
<1> QED BY <1>1, <1>3, BusWires, Owner DEF Typing, TypeOK

LEMMA SdramParameters ==
  S!GeometryAssumption /\ S!SdramAssumption /\ S!AgeAssumption
BY GeometryAssumption, SdramAssumption
   DEF S!GeometryAssumption, S!SdramAssumption, S!AgeAssumption

LEMMA SdramTyped == ASSUME Typing PROVE S!TypeOK
<1>1. S!SdramTypeOK
  BY DEF Typing, TypeOK, SdramTypeOK, S!SdramTypeOK, S!TopState, TopState, S!Column, Column,
         S!Command, Command
<1>2. open_row \in Nat \cup {Closed}
  BY Geometry, DivMod DEF Typing, TypeOK
<1> QED BY <1>1, <1>2 DEF Typing, TypeOK, S!TypeOK, S!Column, Column, S!Address, Address

\* The controller and the chip are those of SdramSystem.
LEMMA SamePins == ASSUME Bus PROVE S!Pins
<1>1. S!ChipClock(command, pin_row, initial_column_address, dq_out_mode, data_write)
  BY DEF Bus, ChipClock, S!ChipClock, RowAfter, S!RowAfter, AccessAfter, S!AccessAfter,
         ColumnNow, S!ColumnNow, AddressNow, S!AddressNow, Touches, S!Touches
<1> QED BY <1>1 DEF S!Pins

LEMMA SameStates ==
  /\ S!AccessState = AccessState /\ S!OpenState = OpenState
  /\ S!RefreshState = RefreshState /\ S!ModeState = ModeState
  /\ S!Refresh1State = Refresh1State /\ S!Refresh2State = Refresh2State
  /\ S!TopState = TopState
BY DEF S!AccessState, AccessState, S!OpenState, OpenState, S!RefreshState, RefreshState,
       S!ModeState, ModeState, S!Refresh1State, Refresh1State, S!Refresh2State,
       Refresh2State, S!TopState, TopState

LEMMA SameRun ==
  ASSUME NEW req \in BOOLEAN, NEW wr \in BOOLEAN, NEW four \in BOOLEAN,
         NEW address, NEW data, NEW pins,
         RunClock(req, wr, four, address, data, pins)
  PROVE  S!RunClock(req, wr, four, address, data, pins)
<1>1. /\ S!InBurst = InBurst /\ S!Jump5(four) = Jump5(four)
      /\ S!Withdrawn(req) = Withdrawn(req) /\ S!Open(req) = Open(req)
      /\ S!Ready(req) = Ready(req) /\ S!new_delay = new_delay
  BY SameStates DEF S!InBurst, InBurst, S!Jump5, Jump5, S!Withdrawn, Withdrawn,
     S!Open, Open, S!Ready, Ready, S!new_delay, new_delay
<1>2. S!NextState(req, four) = NextState(req, four)
  BY <1>1, SameStates DEF S!NextState, NextState
<1>3. S!NextCommand(req) = NextCommand(req)
  BY <1>1, SameStates DEF S!NextCommand, NextCommand
<1>4. S!RowOf(address) = RowOf(address) /\ S!ColumnOf(address) = ColumnOf(address)
  BY DEF S!RowOf, RowOf, S!ColumnOf, ColumnOf
<1> QED BY <1>1, <1>2, <1>3, <1>4, SameStates DEF S!RunClock, RunClock

LEMMA BusType ==
  ASSUME Typing, Bus
  PROVE  /\ access' \in {"none", "read", "write"}
         /\ access_column' \in Column
         /\ DOMAIN memory' = Address
         /\ open_row' \in Rows \cup {Closed}
         /\ OneMaster'
<1>1. pin_row \in Nat
  BY DEF Typing, TypeOK, SdramTypeOK
<1>2. access' \in {"none", "read", "write"} /\ access_column' \in S!Column
  BY <1>1, SdramTyped, SamePins, SdramParameters, S!PinsType
<1>3. DOMAIN memory' = Address
  BY DEF Typing, TypeOK, Bus, ChipClock
<1>4. open_row' \in Rows \cup {Closed}
  BY DEF Typing, TypeOK, Bus, ChipClock, RowAfter, Rows
<1>5. OneMaster'
  <2>1. ASSUME NEW i \in {0, 1} PROVE Rotate({i}) = {1 - i}
    BY <2>1, SystemAssumption DEF Rotate
  <2>2. Rotate({0}) = {1} /\ Rotate({1}) = {0}
    BY <2>1
  <2>3. last_current' = current /\ current' \in {Rotate(current), current}
    BY DEF Bus, MuxClock
  <2> QED BY <2>2, <2>3, Owner, Ports DEF Typing, TypeOK, OneMaster
<1> QED BY <1>2, <1>3, <1>4, <1>5 DEF S!Column, Column

LEMMA ControllerType ==
  ASSUME Typing, Controller
  PROVE  SdramTypeOK' /\ pin_row' \in Rows
<1> DEFINE wr == AnyOf(current, writes)
           four == AnyOf(current, last4s)
           address == Selected(current, addresses)
           wdata == Selected(last_current, data_writes)
<1>1. /\ bus_request \in BOOLEAN /\ wr \in BOOLEAN /\ four \in BOOLEAN
      /\ address \in Address
  BY Booleans
<1>2. S!SdramTypeOK' => SdramTypeOK'
  BY DEF SdramTypeOK, S!SdramTypeOK, S!TopState, TopState, S!Column, Column, S!Command, Command
<1>3. CASE InitClock
  <2>1. S!InitClock
    BY <1>3, SameStates DEF InitClock, S!InitClock
  <2>2. S!SdramTypeOK'
    BY <2>1, SdramTyped, SdramParameters, S!PowerUpType
  <2> QED BY <1>2, <1>3, <2>2 DEF InitClock, Typing
<1>4. CASE RunClock(bus_request, wr, four, address, wdata, dq)
  <2>1. S!RunClock(bus_request, wr, four, address, wdata, dq)
    BY <1>1, <1>4, SameRun
  <2>2. address \in S!Address
    BY <1>1 DEF Address, S!Address
  <2> HIDE DEF wr, four, address, wdata
  <2>3. S!SdramTypeOK'
    BY <1>1, <2>1, <2>2, SdramTyped, SdramParameters, S!RunType
  <2>4. pin_row' \in Rows
    BY <1>1, <1>4, Division DEF RunClock, Typing
  <2> QED BY <1>2, <2>3, <2>4
<1> QED BY <1>3, <1>4 DEF Controller

LEMMA HeldType ==
  ASSUME Typing, ResetClock
  PROVE  SdramTypeOK' /\ pin_row' \in Rows
BY SdramAssumption DEF Typing, TypeOK, SdramTypeOK, ResetClock, burstVars, pinVars

LEMMA CacheType ==
  ASSUME Typing, NEW use, CoreCache(use)
  PROVE  DOMAIN cache' = CacheAddress /\ DOMAIN sdram_rdata' = Lane
BY DEF Typing, TypeOK, CoreCache, CacheClock, LineAt

LEMMA VgaType ==
  ASSUME Typing, VgaClock(vga_ready)
  PROVE  vga_left' \in 0 .. VgaBlock /\ vga_request' = (vga_left' # 0) /\ vga_last4' \in BOOLEAN
<1>1. vga_left' \in 0 .. VgaBlock
  <2>1. vga_ready => vga_left # 0
    <3>1. vga_ready => requests[1]
      BY DEF vga_ready, PortReady, VgaPort
    <3> QED BY <3>1, Wires DEF Typing
  <2> QED BY <2>1, Geometry DEF Typing, TypeOK, VgaClock, VgaContinue, VgaBegin, VgaWithdraw, Drive
<1>2. PICK left : Drive(left)
  BY DEF VgaClock, VgaContinue, VgaBegin, VgaWithdraw
<1>3. vga_request' = (vga_left' # 0)
  BY <1>2 DEF Drive
<1>4. vga_last4' \in BOOLEAN
  BY <1>2 DEF Drive
<1> QED BY <1>1, <1>3, <1>4

\* The engine's registers keep their ranges whatever it is told.
LEMMA EngineType ==
  ASSUME ConnectorTypeOK, NEW ready, NEW en, NEW line, NEW word, DOMAIN line = Lane,
         Proceed(ready, en, line, word)
  PROVE  ConnectorTypeOK'
<1> USE DEF ConnectorTypeOK
<1>1. NextLine \in Line
  BY Geometry DEF NextLine, Line
<1>2. CASE FetchFirstLine(en, line)
  BY <1>1, <1>2 DEF FetchFirstLine
<1>3. CASE Transfer(ready, en, line, word)
  <2>1. /\ mem_addr' \in Address /\ count' \in 0 .. CountMod - 1 /\ bi' \in Lane
        /\ last4' \in BOOLEAN /\ sdram_is_running' \in BOOLEAN
    <3>1. /\ (mem_addr + 1) % MemSize \in Address
          /\ (count + CountMod - 1) % CountMod \in 0 .. CountMod - 1
          /\ (bi + 1) % 4 \in Lane
      BY Geometry DEF Address, Lane
    <3>2. CASE ready
      <4>1. /\ mem_addr' \in Address /\ count' \in 0 .. CountMod - 1 /\ bi' \in Lane
        BY <1>3, <3>1, <3>2 DEF Transfer, CountWord
      <4>2. last4' \in BOOLEAN
        BY <1>3, <3>2 DEF Transfer, CountWord, LastFour
      <4>3. sdram_is_running' \in BOOLEAN
        BY <1>3, <3>2 DEF Transfer, CountWord
      <4> QED BY <4>1, <4>2, <4>3
    <3>3. CASE ~ready
      BY <1>3, <3>3 DEF Transfer, CountWord
    <3> QED BY <3>2, <3>3
  <2>2. /\ wren' \in BOOLEAN /\ write_wait_to_start' \in 0 .. 2
    BY <1>3 DEF Transfer
  <2>3. /\ DOMAIN buf0' = Lane /\ DOMAIN buf1' = Lane
        /\ wen1' \subseteq Lane /\ cache_wen' \subseteq Lane
        /\ cache_line' \in Line
        /\ read_wait_to_start' \in BOOLEAN /\ read_reload_buf' \in {0, 1}
    <3>1. CASE Send(ready, en, line)
      BY <1>1, <3>1 DEF Send
    <3>2. CASE Receive(ready, en, word)
      <4>1. DOMAIN buf0' = Lane /\ DOMAIN buf1' = Lane
        BY <3>2 DEF Receive
      <4>2. wen1' \subseteq Lane /\ cache_wen' \subseteq Lane
        <5>1. 0 \in Lane
          BY DEF Lane
        <5> QED BY <3>2, <5>1 DEF Receive
      <4>3. cache_line' \in Line
        BY <1>1, <3>2 DEF Receive
      <4>4. read_wait_to_start' \in BOOLEAN /\ read_reload_buf' \in {0, 1}
        BY <3>2 DEF Receive
      <4> QED BY <4>1, <4>2, <4>3, <4>4
    <3> QED BY <1>3, <3>1, <3>2 DEF Transfer
  <2> QED BY <2>1, <2>2, <2>3
<1> QED BY <1>2, <1>3 DEF Proceed

LEMMA StartType ==
  ASSUME ConnectorTypeOK, NEW op \in Operations,
         Start(op.wren, op.mem, op.cell, op.count)
  PROVE  ConnectorTypeOK'
<1>1. /\ op.wren \in BOOLEAN /\ op.mem \in Address /\ op.cell \in CacheAddress
      /\ op.count \in 0 .. CountMod - 1
  BY SystemAssumption
<1>2. LineOf(op.cell) \in Line /\ LaneOf(op.cell) \in Lane /\ LineOf(op.cell) % 2 \in {0, 1}
  BY <1>1, Geometry DEF CacheAddress, LineOf, LaneOf, Line, Lane
<1>3. last4' \in BOOLEAN
  BY DEF Start, LastFour
<1> QED BY <1>1, <1>2, <1>3 DEF ConnectorTypeOK, Start

LEMMA EngineHeldType == ASSUME ConnectorTypeOK, ConnectorReset PROVE ConnectorTypeOK'
BY Geometry DEF ConnectorTypeOK, ConnectorReset

LEMMA InitTyping == Init => Typing
<1> SUFFICES ASSUME Init PROVE Typing
  OBVIOUS
<1>1. Registers(0, RefreshPeriod - (RefreshState - RefreshDone))
  BY DEF Init, SdramIdle
<1>2. 0 \in Column /\ 0 \in Address /\ 0 \in Line /\ 0 \in Lane /\ 0 \in Rows
  <2>1. MemSize \div COLS \in Nat /\ MemSize = COLS * (MemSize \div COLS)
    BY Geometry, GeometryAssumption, DivMod
  <2>2. MemSize \div COLS >= 1
    BY <2>1, Geometry
  <2> QED BY <2>1, <2>2, Geometry DEF Column, Address, Line, Lane, Rows
<1>3. SdramTypeOK
  <2>1. /\ state_hi \in 0 .. InitRounds /\ state \in 0 .. TopState /\ delay \in 0 .. 4
    BY <1>1, SdramAssumption DEF Registers, TopState
  <2>2. RefreshPeriod - (RefreshState - RefreshDone) \in 0 .. RefreshPeriod
    BY SdramAssumption, SystemAssumption DEF RefreshState
  <2>3. refresh_counter \in 0 .. RefreshPeriod
    BY <1>1, <2>2 DEF Registers
  <2>4. /\ burst \in BOOLEAN /\ write_enable \in BOOLEAN
        /\ new_ready \in BOOLEAN /\ dq_out_mode \in BOOLEAN
    BY <1>1 DEF Registers
  <2>5. /\ column_address \in Column /\ initial_column_address \in Column
        /\ command \in Command /\ pin_row \in Nat
    BY <1>1, <1>2 DEF Registers, Command
  <2> QED BY <2>1, <2>3, <2>4, <2>5 DEF SdramTypeOK
<1>4. ConnectorTypeOK
  <2>1. ConnectorInit
    BY DEF Init
  <2>2. 0 \in 0 .. CountMod - 1
    BY Geometry
  <2>3. /\ DOMAIN buf0 = Lane /\ DOMAIN buf1 = Lane
        /\ wen1 \subseteq Lane /\ cache_wen \subseteq Lane
    BY <2>1 DEF ConnectorInit
  <2>4. /\ wren \in BOOLEAN /\ last4 \in BOOLEAN
        /\ read_wait_to_start \in BOOLEAN /\ sdram_is_running \in BOOLEAN
    BY <2>1 DEF ConnectorInit
  <2>5. /\ mem_addr \in Address /\ count \in 0 .. CountMod - 1 /\ bi \in Lane
        /\ cache_line \in Line /\ write_wait_to_start \in 0 .. 2 /\ read_reload_buf \in {0, 1}
    BY <1>2, <2>1, <2>2 DEF ConnectorInit
  <2> QED BY <2>3, <2>4, <2>5 DEF ConnectorTypeOK
<1>5. OneMaster
  BY Ports DEF Init, MuxInit, OneMaster
<1>6. /\ DOMAIN memory = Address /\ DOMAIN cache = CacheAddress /\ open_row = Closed
      /\ access = "none" /\ access_column \in Column /\ DOMAIN sdram_rdata = Lane
  BY <1>2 DEF Init, ChipInit, LineAt
<1>7. /\ vga_left \in 0 .. VgaBlock /\ vga_request = (vga_left # 0) /\ vga_last4 \in BOOLEAN
  <2>1. vga_left = 0 /\ vga_request = FALSE /\ vga_last4 = FALSE
    BY DEF Init, VgaInit
  <2>2. vga_left \in 0 .. VgaBlock
    BY <2>1, Geometry
  <2>3. vga_request = (vga_left # 0)
    BY <2>1
  <2> QED BY <2>1, <2>2, <2>3
<1>8. pin_row \in Rows
  BY <1>1, <1>2 DEF Registers
<1> QED BY <1>3, <1>4, <1>5, <1>6, <1>7, <1>8 DEF Typing, TypeOK, Rows

LEMMA ClockType ==
  ASSUME Typing, NEW use, Clock(use), ConnectorTypeOK'
  PROVE  Typing'
BY BusType, ControllerType, CacheType, VgaType DEF Clock, Typing, TypeOK, Rows

LEMMA StepTyping == Typing /\ [Next]_vars => Typing'
<1> SUFFICES ASSUME Typing, [Next]_vars PROVE Typing'
  OBVIOUS
<1>1. ConnectorTypeOK /\ DOMAIN sdram_rdata = Lane
  BY DEF Typing, TypeOK
<1>2. CASE Step
  <2>1. PICK use \in CoreUse : Engine(use) /\ Clock(use)
    BY <1>2 DEF Step
  <2>2. ConnectorTypeOK'
    BY <1>1, <2>1, EngineType DEF Engine
  <2> QED BY <2>1, <2>2, ClockType
<1>3. CASE Launch
  <2>1. PICK use \in CoreUse, op \in Operations : StartOperation(op, use) /\ Clock(use)
    BY <1>3 DEF Launch
  <2>2. ConnectorTypeOK'
    BY <1>1, <2>1, StartType DEF StartOperation
  <2> QED BY <2>1, <2>2, ClockType
<1>4. CASE HoldReset
  <2>1. ConnectorTypeOK'
    BY <1>1, <1>4, EngineHeldType DEF HoldReset
  <2>2. SdramTypeOK' /\ pin_row' \in Rows
    BY <1>4, HeldType DEF HoldReset
  <2>3. DOMAIN cache' = CacheAddress /\ DOMAIN sdram_rdata' = Lane
    BY <1>4, CacheType DEF HoldReset
  <2>4. vga_left' \in 0 .. VgaBlock /\ vga_request' = (vga_left' # 0) /\ vga_last4' \in BOOLEAN
    BY <1>4, VgaType DEF HoldReset
  <2>5. /\ access' \in {"none", "read", "write"} /\ access_column' \in Column
        /\ DOMAIN memory' = Address /\ open_row' \in Rows \cup {Closed} /\ OneMaster'
    BY <1>4, BusType DEF HoldReset
  <2> QED BY <2>1, <2>2, <2>3, <2>4, <2>5 DEF Typing, TypeOK, Rows
<1>5. CASE UNCHANGED vars
  BY <1>5 DEF Typing, TypeOK, vars, SdramTypeOK, sdramVars, counterVars, burstVars, pinVars,
     chipVars, muxVars, OneMaster, connectorVars, ConnectorTypeOK, cacheVars, vgaVars
<1> QED BY <1>2, <1>3, <1>4, <1>5 DEF Next

(***************************************************************************)
(* Every register of the way between memory and cache keeps its range, and *)
(* the bus and the data pins belong to exactly one master in every clock,  *)
(* whatever is started, withdrawn or reset when.                           *)
(***************************************************************************)
THEOREM MemoryTypeCorrect == Spec => []TypeOK
<1>1. Spec => []Typing
  BY InitTyping, StepTyping, PTL DEF Spec
<1>2. Typing => TypeOK
  BY DEF Typing
<1> QED BY <1>1, <1>2, PTL

-----------------------------------------------------------------------------
(* The word a reset leaves. *)

Leftover ==
  /\ phase \in {"working", "reset", "stale"}
  /\ phase # "working" /\ sdram_is_running => count = 0

\* The engine is told "ready" only while it requests.
LEMMA CoreReadyRequests == core_ready => request
BY Wires DEF core_ready, PortReady, CorePort

LEMMA LeftoverGone ==
  ASSUME Leftover, phase # "working", NEW en, NEW line, NEW word, core_ready,
         Proceed(core_ready, en, line, word)
  PROVE  ~sdram_is_running'
<1>1. sdram_is_running /\ write_wait_to_start = 0
  BY CoreReadyRequests DEF request
<1>2. count = 0
  BY <1>1 DEF Leftover
<1>3. sdram_is_running' = (count \div 2 # 0)
  BY <1>1 DEF Proceed, FetchFirstLine, Transfer, CountWord
<1>4. count \div 2 = 0
  BY <1>2
<1> QED BY <1>3, <1>4

LEMMA StepLeftover == Typing /\ Leftover /\ [Next]_vars => Leftover'
<1> SUFFICES ASSUME Typing, Leftover, [Next]_vars PROVE Leftover'
  OBVIOUS
<1>1. CASE Step
  <2>1. PICK use \in CoreUse : Engine(use)
    BY <1>1 DEF Step
  <2> DEFINE en == sdram_en("read" \in use, core_wen(use))
  <2>2. Proceed(core_ready, en, sdram_rdata, data_read)
    BY <2>1 DEF Engine
  <2>3. phase' = IF phase = "reset" THEN "stale" ELSE phase
    BY <2>1 DEF Engine
  <2> HIDE DEF en
  <2>4. CASE core_ready
    BY <2>2, <2>3, <2>4, LeftoverGone DEF Leftover
  <2>5. CASE ~core_ready
    BY <2>2, <2>3, <2>5 DEF Leftover, Proceed, FetchFirstLine, Transfer, CountWord
  <2> QED BY <2>4, <2>5
<1>2. CASE Launch
  BY <1>2 DEF Launch, StartOperation, Leftover
<1>3. CASE HoldReset
  BY <1>3 DEF HoldReset, ConnectorReset, Leftover
<1>4. CASE UNCHANGED vars
  BY <1>4 DEF vars, Leftover, connectorVars
<1> QED BY <1>1, <1>2, <1>3, <1>4 DEF Next

LEMMA LeftoverStep ==
  Leftover /\ [Next]_vars =>
    [phase = "stale" /\ phase' = "stale" /\ core_ready => ~sdram_is_running']_vars
<1> SUFFICES ASSUME Leftover, Next, phase = "stale", phase' = "stale", core_ready
             PROVE  ~sdram_is_running'
  OBVIOUS
<1>1. CASE Step
  BY <1>1, LeftoverGone DEF Step, Engine
<1>2. CASE Launch
  BY <1>2 DEF Launch, StartOperation
<1>3. CASE HoldReset
  BY <1>3 DEF HoldReset
<1> QED BY <1>1, <1>2, <1>3 DEF Next

(***************************************************************************)
(* When a reset is over, at most one more word of the transfer it          *)
(* interrupted crosses the bus, however long the transfer was.             *)
(***************************************************************************)
THEOREM MemoryOneLeftoverWord == Spec => OneLeftoverWord
<1>1. Init => Leftover
  BY DEF Init, Leftover
<1>2. Leftover /\ Typing /\ [Next]_vars => Leftover'
  BY StepLeftover
<1> QED BY <1>1, <1>2, InitTyping, StepTyping, LeftoverStep, PTL DEF Spec, OneLeftoverWord

-----------------------------------------------------------------------------
(* The controller's bursts.  The pins of a clock are what the chip samples *)
(* at its end: Access and Row are the burst and the row it then has.       *)
Access == AccessAfter(command)
Row == RowAfter(command, pin_row)
Burst == 1 .. OpenState

RowKnown == Row \in {Closed, pin_row}

Commands ==
  Operating =>
    /\ command = "ACTIVE" => state = OpenState
    /\ command = "PRECHARGE" => state \in {2, TopState - 1}
    /\ Access = "write" => write_enable /\ state \in 5 .. AccessState - 1
    /\ Access = "read" => ~write_enable /\ state \in 4 .. AccessState - 1

\* Only the master the burst was opened for is told "ready", and in its states.
Granting ==
  Operating /\ burst =>
    /\ new_ready => state \in Burst
    /\ state \in Burst /\ current = {VgaPort} => ~write_enable
    /\ Polls /\ state \in Burst /\ current = {CorePort} => write_enable = wren

\* The engine drives the data pins in every clock in which the chip stores.
Driving ==
  Polls /\ Operating /\ write_enable =>
    /\ state \in AccessState .. OpenState =>
         /\ current = {CorePort} /\ request /\ burst
         /\ new_ready <=> state = AccessState
    /\ state \in 6 .. AccessState - 1 /\ Access = "write" => burst /\ new_ready
    /\ Access = "write" => dq_out_mode

(***************************************************************************)
(* The words of a read burst.  The master waits for the word of column     *)
(* Wanted; Ahead is the column the chip is about to read.  The words       *)
(* between them are in the chip's pipeline and in data_read.               *)
(***************************************************************************)
Target == Selected(current, addresses)
Wanted == ColumnOf(Target)
Ahead == Wanted + delay
WordAt(c) == memory[pin_row * COLS + c]

Reading == /\ Operating /\ burst /\ bus_request /\ ~write_enable /\ state \in Burst
           /\ Polls \/ current = {VgaPort}

\* Before the command the column the burst starts at waits at the pins.
FlowBefore ==
  state >= AccessState => /\ column_address = Wanted
                          /\ initial_column_address = Wanted
                          /\ delay = 0
                          /\ ~new_ready

\* From then on the chip is Ahead of what the master waits for.
FlowColumns ==
  state < AccessState => /\ new_ready <=> delay = 4
                         /\ state > 3 => Access = "read"
                         /\ state > 5 => Ahead + 1 = column_address
                         /\ state <= 5 => Ahead + state <= COLS + 4
                         /\ state >= 5 => ColumnNow(command, initial_column_address) = Ahead

\* The words in between.
FlowWords ==
  state < AccessState => /\ state >= 4 /\ delay >= 1 => pipe1 = WordAt(Ahead - 1)
                         /\ state >= 3 /\ delay >= 2 => pipe2 = WordAt(Ahead - 2)
                         /\ state >= 2 /\ delay >= 3 => dq = WordAt(Ahead - 3)
                         /\ delay = 4 => data_read = WordAt(Wanted)

Flow == pin_row = RowOf(Target) /\ FlowBefore /\ FlowColumns /\ FlowWords

Flowing == Reading => Flow

Inv == Typing /\ S!RowInv /\ RowKnown /\ Commands /\ Granting /\ Driving /\ Flowing

LEMMA Steps ==
  [Next]_vars => \/ Controller /\ Bus
                 \/ HoldReset
                 \/ UNCHANGED vars
BY DEF Next, Step, Launch, Clock

LEMMA PreviousTypes ==
  Typing => /\ state_hi \in Nat /\ state \in Nat /\ burst \in BOOLEAN
            /\ write_enable \in BOOLEAN /\ new_ready \in BOOLEAN
BY SdramAssumption DEF Typing, TypeOK, SdramTypeOK, TopState

LEMMA StepRowInv == Typing /\ S!RowInv /\ [Next]_vars => S!RowInv'
<1> SUFFICES ASSUME Typing, S!RowInv, [Next]_vars PROVE S!RowInv'
  OBVIOUS
<1>1. CASE InitClock
  <2>1. S!InitClock
    BY <1>1, SameStates DEF InitClock, S!InitClock
  <2> QED BY <2>1, SdramTyped, SdramParameters, S!PowerUpRow
<1>2. ASSUME Bus, NEW wr \in BOOLEAN, NEW four \in BOOLEAN, NEW address \in Address, NEW wdata,
             RunClock(bus_request, wr, four, address, wdata, dq)
      PROVE  S!RowInv'
  <2>1. bus_request \in BOOLEAN /\ address \in S!Address
    BY Booleans DEF Address, S!Address
  <2>2. S!RunClock(bus_request, wr, four, address, wdata, dq)
    BY <1>2, <2>1, SameRun
  <2>3. S!Inv
    BY SdramTyped DEF S!Inv
  <2> QED BY <1>2, <2>1, <2>2, <2>3, SamePins, SdramParameters, S!RunRow
<1>3. CASE Controller /\ Bus
  <2>1. /\ AnyOf(current, writes) \in BOOLEAN /\ AnyOf(current, last4s) \in BOOLEAN
        /\ Selected(current, addresses) \in Address
    BY Booleans
  <2> QED BY <1>1, <1>2, <1>3, <2>1 DEF Controller
<1>4. CASE ResetClock
  <2>1. state_hi' # 0
    BY <1>4, SdramAssumption DEF ResetClock
  <2> QED BY <2>1 DEF S!RowInv
<1>5. CASE UNCHANGED vars
  BY <1>5 DEF vars, sdramVars, counterVars, burstVars, pinVars, chipVars, S!RowInv, S!Row,
     S!RowAfter, S!Legal
<1> QED BY <1>3, <1>4, <1>5, Steps DEF HoldReset

\* The states of normal operation: those of a burst, and those of a refresh.
LEMMA StateSplit ==
  ASSUME Typing, S!RowInv, Operating
  PROVE  state \in 0 .. OpenState \cup RefreshDone .. TopState - 1
<1>1. state \in 0 .. OpenState \cup RefreshDone .. TopState /\ state # TopState
  BY SameStates DEF S!RowInv, Operating
<1> QED BY <1>1, Geometry DEF TopState, OpenState

\* The next state is a normal one, and in the clock before it either was one or
\* the precharge after power-up was given.
LEMMA StateBefore ==
  ASSUME Typing, S!RowInv, [Next]_vars, Operating', ~UNCHANGED vars
  PROVE  /\ Bus /\ RunClock(bus_request, AnyOf(current, writes), AnyOf(current, last4s),
                            Target, Selected(last_current, data_writes), dq)
         /\ state_hi = 0
         /\ \/ Operating
            \/ state = TopState /\ ~burst /\ command = "NOP"
<1>1. ~HoldReset
  BY SdramAssumption DEF HoldReset, ResetClock, Operating
<1>2. Controller /\ Bus
  BY <1>1, Steps
<1>3. ~InitClock
  <2>1. InitClock => state_hi' # 0 \/ state' = TopState
    BY DEF InitClock
  <2> QED BY <2>1 DEF Operating
<1>4. RunClock(bus_request, AnyOf(current, writes), AnyOf(current, last4s),
               Target, Selected(last_current, data_writes), dq)
  BY <1>2, <1>3 DEF Controller, Target
<1>5. state_hi = 0
  BY <1>4 DEF RunClock
<1> QED BY <1>2, <1>4, <1>5, SameStates DEF Operating, S!RowInv

\* The controller's next state and command, in a burst and outside of it.
LEMMA InBurstNext ==
  ASSUME Typing, state \in 2 .. OpenState,
         NEW req \in BOOLEAN, NEW four \in BOOLEAN
  PROVE  /\ NextState(req, four) = IF Withdrawn(req) /\ state <= COLS + 6 THEN 4
                                   ELSE IF Jump5(four) THEN 5 ELSE state - 1
         /\ NextCommand(req) =
              IF state = 4 + (IF write_enable THEN 1 ELSE 0) \/ Withdrawn(req) THEN "TERMINATE"
              ELSE IF state = 3 THEN "PRECHARGE"
              ELSE IF state = AccessState THEN (IF write_enable THEN "WRITE" ELSE "READ")
              ELSE "NOP"
         /\ Withdrawn(req) => burst /\ ~req /\ state > 4
         /\ Jump5(four) => state \in 6 .. AccessState
<1>1. state \in Nat /\ 2 <= state /\ state <= COLS + 7 /\ COLS + 8 <= RefreshDone
      /\ COLS \in Nat /\ RefreshDone \in Nat
  BY Geometry DEF OpenState
<1>2. NextState(req, four) = IF Withdrawn(req) /\ state <= COLS + 6 THEN 4
                             ELSE IF Jump5(four) THEN 5 ELSE state - 1
  <2>1. state # RefreshDone /\ ~(state <= 1) /\ state # 0
    BY <1>1
  <2>2. ~Open(req)
    BY <2>1 DEF Open
  <2> QED BY <2>1, <2>2 DEF NextState
<1>3. /\ state # TopState /\ state # Refresh1State /\ state # Refresh2State
      /\ state # RefreshState /\ state # ModeState /\ ~Open(req)
  BY <1>1 DEF TopState, Refresh1State, Refresh2State, RefreshState, ModeState, Open
<1>4. state = 3 => state # AccessState
  BY <1>1, Geometry DEF AccessState
<1>5. NextCommand(req) =
        IF state = 4 + (IF write_enable THEN 1 ELSE 0) \/ Withdrawn(req) THEN "TERMINATE"
        ELSE IF state = 3 THEN "PRECHARGE"
        ELSE IF state = AccessState THEN (IF write_enable THEN "WRITE" ELSE "READ")
        ELSE "NOP"
  BY <1>3, <1>4 DEF NextCommand
<1>6. /\ Withdrawn(req) => burst /\ ~req /\ state > 4
      /\ Jump5(four) => state \in 6 .. AccessState
  BY <1>1 DEF Withdrawn, Jump5, InBurst, AccessState
<1> QED BY <1>2, <1>5, <1>6

LEMMA OutsideNext ==
  ASSUME Typing, state \in {0, 1} \cup RefreshDone .. TopState,
         NEW req \in BOOLEAN, NEW four \in BOOLEAN
  PROVE  /\ NextState(req, four) \in Burst =>
              state = 0 /\ Open(req) /\ NextState(req, four) = OpenState
         /\ NextCommand(req) \notin {"READ", "WRITE"}
         /\ NextCommand(req) = "ACTIVE" =>
              state = 0 /\ Open(req) /\ NextState(req, four) = OpenState
         /\ NextCommand(req) = "PRECHARGE" => state = TopState /\ NextState(req, four) = TopState - 1
         /\ state = TopState /\ ~burst => NextCommand(req) = "PRECHARGE"
<1>1. state \in Nat /\ (state <= 1 \/ state >= COLS + 8) /\ COLS + 8 <= RefreshDone
      /\ COLS \in Nat /\ COLS >= 2 /\ RefreshDone \in Nat
  BY Geometry
<1>2. /\ ~Jump5(four) /\ ~(Withdrawn(req) /\ state <= COLS + 6)
  BY <1>1 DEF Jump5, InBurst, AccessState, Withdrawn
<1>3. NextState(req, four) = IF state = RefreshDone THEN 0
                             ELSE IF state <= 1 /\ refresh_counter = 0 THEN RefreshState
                             ELSE IF Open(req) THEN OpenState
                             ELSE IF state # 0 THEN state - 1 ELSE state
  BY <1>2 DEF NextState
<1>4. NextState(req, four) \in Burst =>
        state = 0 /\ Open(req) /\ NextState(req, four) = OpenState
  <2>1. state \in RefreshDone + 1 .. TopState => state - 1 \notin Burst
    BY <1>1 DEF Burst, OpenState
  <2> QED BY <1>1, <1>3, <2>1 DEF Burst, OpenState, RefreshState, Open
<1>5. state # AccessState /\ state # 3
  BY <1>1 DEF AccessState
<1>6. NextCommand(req) \notin {"READ", "WRITE"}
  BY <1>5 DEF NextCommand
<1>7. NextCommand(req) = "ACTIVE" =>
        state = 0 /\ Open(req) /\ NextState(req, four) = OpenState
  <2>1. NextCommand(req) = "ACTIVE" => Open(req)
    BY DEF NextCommand
  <2>2. Open(req) => state = 0 /\ refresh_counter # 0
    BY DEF Open
  <2> QED BY <1>1, <1>3, <2>1, <2>2
<1>8. NextCommand(req) = "PRECHARGE" => state = TopState /\ NextState(req, four) = TopState - 1
  <2>1. NextCommand(req) = "PRECHARGE" => state = TopState
    BY <1>5 DEF NextCommand
  <2>2. TopState # RefreshDone /\ TopState > 1
    BY <1>1 DEF TopState
  <2>3. state = TopState => ~Open(req)
    BY <2>2 DEF Open
  <2> QED BY <1>1, <1>3, <2>1, <2>2, <2>3
<1>9. state = TopState /\ ~burst => NextCommand(req) = "PRECHARGE"
  <2> SUFFICES ASSUME state = TopState, ~burst PROVE NextCommand(req) = "PRECHARGE"
    OBVIOUS
  <2>1. state > 5 /\ state \in Nat
    BY <1>1 DEF TopState
  <2>2. state # 4 + (IF write_enable THEN 1 ELSE 0)
    BY <2>1
  <2>3. ~Withdrawn(req)
    BY DEF Withdrawn
  <2>4. NextCommand(req) = CASE state \in {TopState, 3} -> "PRECHARGE"
         [] state \in {Refresh1State, Refresh2State, RefreshState} -> "REFRESH"
         [] state = ModeState -> "MODE"
         [] state = AccessState -> IF write_enable THEN "WRITE" ELSE "READ"
         [] Open(req) -> "ACTIVE"
         [] OTHER -> "NOP"
    BY <2>2, <2>3 DEF NextCommand
  <2>5. /\ state \in {TopState, 3}
        /\ state \notin {Refresh1State, Refresh2State, RefreshState}
        /\ state # ModeState /\ state # AccessState /\ ~Open(req)
    BY <1>1 DEF TopState, Refresh1State, Refresh2State, RefreshState, ModeState, AccessState,
                Open
  <2> QED BY <2>4, <2>5
<1> QED BY <1>4, <1>6, <1>7, <1>8, <1>9

LEMMA RunIs ==
  ASSUME NEW req, NEW wr, NEW four, NEW address, NEW data,
         RunClock(req, wr, four, address, data, dq)
  PROVE  /\ state' = NextState(req, four) /\ command' = NextCommand(req)
         /\ command' # "ACTIVE" => UNCHANGED <<pin_row, initial_column_address, write_enable>>
BY DEF RunClock

LEMMA BusIs == Bus => open_row' = Row /\ access' = Access
BY DEF Bus, ChipClock, Row, Access

LEMMA StepRowKnown == Typing /\ RowKnown /\ [Next]_vars => RowKnown'
<1> SUFFICES ASSUME RowKnown, [Next]_vars PROVE RowKnown'
  OBVIOUS
<1>1. ASSUME Bus, command' # "ACTIVE", pin_row' = pin_row PROVE RowKnown'
  BY <1>1, BusIs DEF RowKnown, Row, RowAfter
<1>2. command' = "ACTIVE" /\ Bus => RowKnown'
  BY DEF RowKnown, Row, RowAfter
<1>3. CASE Controller /\ Bus
  <2>1. CASE InitClock
    BY <1>1, <1>3, <2>1 DEF InitClock
  <2>2. ASSUME NEW wr, NEW four, NEW address, NEW wdata,
               RunClock(bus_request, wr, four, address, wdata, dq)
        PROVE  RowKnown'
    BY <1>1, <1>2, <1>3, <2>2, RunIs
  <2> QED BY <1>3, <2>1, <2>2 DEF Controller
<1>4. CASE HoldReset
  BY <1>4, <1>1, <1>2 DEF HoldReset, ResetClock, pinVars
<1>5. CASE UNCHANGED vars
  BY <1>5 DEF vars, sdramVars, pinVars, chipVars, RowKnown, Row, RowAfter
<1> QED BY <1>3, <1>4, <1>5, Steps

\* One clock of normal operation.  It is the action the lemmas below are about.
Normal ==
  /\ Typing /\ Typing' /\ S!RowInv /\ S!RowInv' /\ RowKnown
  /\ Next /\ Bus /\ Operating' /\ state_hi = 0
  /\ RunClock(bus_request, AnyOf(current, writes), AnyOf(current, last4s),
              Target, Selected(last_current, data_writes), dq)
  /\ \/ Operating
     \/ state = TopState /\ ~burst /\ command = "NOP"

\* In it the controller is either in a burst or outside of one.
LEMMA NormalNext ==
  ASSUME Normal
  PROVE  /\ state' = NextState(bus_request, AnyOf(current, last4s))
         /\ command' = NextCommand(bus_request)
         /\ \/ state \in 2 .. OpenState
            \/ state \in {0, 1} \cup RefreshDone .. TopState
         /\ bus_request \in BOOLEAN /\ AnyOf(current, last4s) \in BOOLEAN
         /\ access' = Access /\ open_row' = Row
         /\ command' # "ACTIVE" => UNCHANGED <<pin_row, initial_column_address, write_enable>>
<1> DEFINE wr == AnyOf(current, writes)
           four == AnyOf(current, last4s)
           wdata == Selected(last_current, data_writes)
<1>1. bus_request \in BOOLEAN /\ four \in BOOLEAN
  BY Booleans DEF Normal
<1>2. state \in 0 .. OpenState \cup RefreshDone .. TopState
  BY SameStates DEF Normal, S!RowInv
<1>3. state \in 2 .. OpenState \/ state \in {0, 1} \cup RefreshDone .. TopState
  BY <1>2, Geometry DEF OpenState, TopState
<1>4. RunClock(bus_request, wr, four, Target, wdata, dq)
  BY DEF Normal
<1>5. /\ state' = NextState(bus_request, four) /\ command' = NextCommand(bus_request)
      /\ command' # "ACTIVE" => UNCHANGED <<pin_row, initial_column_address, write_enable>>
  <2> HIDE DEF wr, four, wdata
  <2> QED BY <1>4, RunIs
<1>6. access' = Access /\ open_row' = Row
  BY BusIs DEF Normal
<1> QED BY <1>1, <1>3, <1>5, <1>6

LEMMA NormalStep ==
  ASSUME Typing, Typing', S!RowInv, S!RowInv', RowKnown, [Next]_vars, Operating'
  PROVE  Normal \/ UNCHANGED vars
BY StateBefore DEF Normal

LEMMA StepCommands == ASSUME Normal, Commands PROVE Commands'
<1> DEFINE req == bus_request
           four == AnyOf(current, last4s)
<1>1. /\ state' = NextState(req, four) /\ command' = NextCommand(req)
      /\ state \in 2 .. OpenState \/ state \in {0, 1} \cup RefreshDone .. TopState
      /\ req \in BOOLEAN /\ four \in BOOLEAN
      /\ access' = Access
      /\ command' # "ACTIVE" => write_enable' = write_enable
  BY NormalNext
<1>2. /\ Typing /\ state \in Nat /\ burst \in BOOLEAN
      /\ \/ Operating
         \/ state = TopState /\ ~burst /\ command = "NOP"
  BY PreviousTypes DEF Normal
<1>3. Access' = IF command' = "READ" THEN "read"
                ELSE IF command' = "WRITE" THEN "write"
                ELSE IF command' \in {"TERMINATE", "PRECHARGE"} THEN "none"
                ELSE Access
  BY <1>1 DEF Access, AccessAfter
<1> HIDE DEF req, four
<1>4. CASE state \in 2 .. OpenState
  <2>1. /\ state' = IF Withdrawn(req) /\ state <= COLS + 6 THEN 4
                    ELSE IF Jump5(four) THEN 5 ELSE state - 1
        /\ command' = IF state = 4 + (IF write_enable THEN 1 ELSE 0) \/ Withdrawn(req)
                      THEN "TERMINATE"
                      ELSE IF state = 3 THEN "PRECHARGE"
                      ELSE IF state = AccessState THEN (IF write_enable THEN "WRITE" ELSE "READ")
                      ELSE "NOP"
        /\ Withdrawn(req) => burst /\ ~req /\ state > 4
        /\ Jump5(four) => state \in 6 .. AccessState
    BY <1>1, <1>2, <1>4, InBurstNext
  <2>2. Operating
    BY <1>2, <1>4, Geometry DEF OpenState, TopState
  <2>3. command' # "ACTIVE" /\ write_enable' = write_enable
    BY <1>1, <2>1
  <2>4. command' = "PRECHARGE" => state' = 2
    BY <1>4, <2>1
  <2>5. ASSUME Access' = "write" PROVE write_enable /\ state' \in 5 .. AccessState - 1
    <3>1. command' \notin {"READ", "TERMINATE", "PRECHARGE"}
      BY <1>3, <2>5
    <3>2. /\ ~Withdrawn(req) /\ state # 4 + (IF write_enable THEN 1 ELSE 0)
          /\ state # 3
      BY <2>1, <3>1
    <3>3. command' = "WRITE" \/ (command' = "NOP" /\ Access = "write")
      BY <1>3, <2>1, <2>5, <3>1
    <3>4. CASE command' = "WRITE"
      <4>1. state = AccessState /\ write_enable
        BY <2>1, <3>4
      <4> QED BY <2>1, <3>2, <4>1, Geometry DEF AccessState
    <3>5. CASE command' = "NOP" /\ Access = "write"
      <4>1. write_enable /\ state \in 5 .. AccessState - 1
        BY <2>2, <3>5 DEF Commands
      <4>2. state # 5
        BY <3>2, <4>1
      <4> QED BY <2>1, <3>2, <4>1, <4>2, Geometry DEF AccessState
    <3> QED BY <3>3, <3>4, <3>5
  <2>6. ASSUME Access' = "read" PROVE ~write_enable /\ state' \in 4 .. AccessState - 1
    <3>1. command' \notin {"WRITE", "TERMINATE", "PRECHARGE"}
      BY <1>3, <2>6
    <3>2. /\ ~Withdrawn(req) /\ state # 4 + (IF write_enable THEN 1 ELSE 0)
          /\ state # 3
      BY <2>1, <3>1
    <3>3. command' = "READ" \/ (command' = "NOP" /\ Access = "read")
      BY <1>3, <2>1, <2>6, <3>1
    <3>4. CASE command' = "READ"
      <4>1. state = AccessState /\ ~write_enable
        BY <2>1, <3>4
      <4> QED BY <2>1, <3>2, <4>1, Geometry DEF AccessState
    <3>5. CASE command' = "NOP" /\ Access = "read"
      <4>1. ~write_enable /\ state \in 4 .. AccessState - 1
        BY <2>2, <3>5 DEF Commands
      <4>2. state # 4
        BY <3>2, <4>1
      <4> QED BY <2>1, <3>2, <4>1, <4>2, Geometry DEF AccessState
    <3> QED BY <3>3, <3>4, <3>5
  <2> QED BY <2>3, <2>4, <2>5, <2>6 DEF Commands
<1>5. CASE state \in {0, 1} \cup RefreshDone .. TopState
  <2>1. /\ command' \notin {"READ", "WRITE"}
        /\ command' = "ACTIVE" => state' = OpenState
        /\ command' = "PRECHARGE" => state' = TopState - 1
        /\ state = TopState /\ ~burst => command' = "PRECHARGE"
    BY <1>1, <1>2, <1>5, OutsideNext
  <2>2. Operating => Access \notin {"read", "write"}
    BY <1>5, Geometry DEF Commands, AccessState
  <2>3. Access' \notin {"read", "write"}
    <3>1. CASE Operating
      BY <1>3, <2>1, <2>2, <3>1
    <3>2. CASE state = TopState /\ ~burst
      BY <1>3, <2>1, <3>2
    <3> QED BY <1>2, <3>1, <3>2
  <2> QED BY <2>1, <2>3 DEF Commands
<1> QED BY <1>1, <1>4, <1>5

\* While the owner of the bus requests, it keeps the bus until the last word.
LEMMA OwnerKeeps == ASSUME Normal, bus_request, state # 1 PROVE current' = current
BY DEF Normal, Bus, MuxClock, bus_request, last_word

\* An engine that is waited for goes on requesting until it is told "ready".
LEMMA CoreHolds ==
  ASSUME Normal, Polls, request
  PROVE  /\ wren' = wren
         /\ core_ready => mem_addr' = (mem_addr + 1) % MemSize
         /\ ~core_ready => mem_addr' = mem_addr /\ request'
<1>1. ~Launch
  BY DEF Launch, StartOperation, request, is_running
<1>2. ~HoldReset
  BY SdramAssumption DEF Normal, Operating, HoldReset, ResetClock
<1>3. PICK use \in CoreUse : Engine(use)
  BY <1>1, <1>2 DEF Normal, Next, Step
<1>4. \E en : Transfer(core_ready, en, sdram_rdata, data_read)
  BY <1>3 DEF Engine, Proceed, FetchFirstLine, request
<1>5. CountWord(core_ready) /\ UNCHANGED <<wren, write_wait_to_start>>
  BY <1>4 DEF Transfer
<1> QED BY <1>5 DEF CountWord, request

\* The clock in which a burst is opened.
LEMMA OpeningIs ==
  ASSUME Open(bus_request)
  PROVE  state = 0 /\ bus_request /\ NextCommand(bus_request) = "ACTIVE"
<1>1. state = 0 /\ bus_request
  BY DEF Open
<1>2. ~Withdrawn(bus_request) /\ state # 4 + (IF write_enable THEN 1 ELSE 0)
  BY <1>1 DEF Withdrawn
<1>3. /\ state \notin {TopState, 3} /\ state # ModeState /\ state # AccessState
      /\ state \notin {Refresh1State, Refresh2State, RefreshState}
  BY <1>1, Geometry DEF TopState, Refresh1State, Refresh2State, RefreshState, ModeState,
     AccessState
<1> QED BY <1>1, <1>2, <1>3 DEF NextCommand

LEMMA StepGranting == ASSUME Normal, Granting PROVE Granting'
<1>1. /\ state' = NextState(bus_request, AnyOf(current, last4s)) /\ command' = NextCommand(bus_request)
      /\ state \in 2 .. OpenState \/ state \in {0, 1} \cup RefreshDone .. TopState
      /\ bus_request \in BOOLEAN /\ AnyOf(current, last4s) \in BOOLEAN
      /\ command' # "ACTIVE" => write_enable' = write_enable
  BY NormalNext
<1>2. /\ new_ready' = IF write_enable THEN 6 < state /\ state < OpenState /\ ~Jump5(AnyOf(current, last4s))
                      ELSE 1 < state /\ new_delay > 3
      /\ command' = "ACTIVE" => write_enable' = AnyOf(current, writes)
      /\ command' # "ACTIVE" => burst' = (burst /\ bus_request)
  BY DEF Normal, RunClock
<1>3. Typing /\ state \in Nat /\ delay \in 0 .. 4
  BY PreviousTypes DEF Normal, Typing, TypeOK, SdramTypeOK
<1>4. ASSUME bus_request, state # 1 PROVE current' = current
  BY <1>4, OwnerKeeps
<1>5. /\ current = {0} => AnyOf(current, writes) = wren /\ bus_request = request
      /\ current = {1} => AnyOf(current, writes) = FALSE
  BY <1>3, BusWires
<1>6. ASSUME Polls, current = {0}, bus_request PROVE wren' = wren
  BY <1>5, <1>6, CoreHolds
<1>7. CASE state \in 2 .. OpenState
  <2>1. /\ state' = IF Withdrawn(bus_request) /\ state <= COLS + 6 THEN 4
                    ELSE IF Jump5(AnyOf(current, last4s)) THEN 5 ELSE state - 1
        /\ command' # "ACTIVE"
    BY <1>1, <1>3, <1>7, InBurstNext
  <2>2. state' \in Burst
    BY <1>7, <2>1, Geometry DEF Burst, OpenState
  <2>3. Operating
    BY <1>7, Geometry DEF Normal, Operating, OpenState, TopState
  <2>4. ASSUME burst' PROVE burst /\ bus_request /\ current' = current /\ state \in Burst
    <3>1. burst /\ bus_request
      BY <1>2, <2>1, <2>4
    <3>2. state # 1 /\ state \in Burst
      BY <1>7, Geometry DEF Burst, OpenState
    <3> QED BY <1>4, <3>1, <3>2
  <2>5. write_enable' = write_enable
    BY <1>1, <2>1
  <2> QED BY <1>6, <2>2, <2>3, <2>4, <2>5 DEF Granting, CorePort, VgaPort
<1>8. CASE state \in {0, 1} \cup RefreshDone .. TopState
  <2>1. state <= 1 \/ (state > AccessState /\ state > OpenState)
    BY <1>8, Geometry DEF AccessState, OpenState
  <2>2. ~new_ready'
    <3>1. new_delay = 0
      <4>1. ~(state > 1 /\ state < AccessState)
        BY <1>3, <2>1, Geometry DEF AccessState
      <4> QED BY <4>1 DEF new_delay
    <3>2. ~(1 < state /\ new_delay > 3)
      BY <3>1
    <3>3. ~(6 < state /\ state < OpenState)
      BY <1>3, <2>1, Geometry DEF OpenState
    <3> QED BY <1>2, <3>2, <3>3
  <2>3. ASSUME state' \in Burst PROVE state = 0 /\ bus_request /\ command' = "ACTIVE"
    <3>1. state = 0 /\ Open(bus_request)
      BY <1>1, <1>3, <1>8, <2>3, OutsideNext
    <3> QED BY <1>1, <3>1, OpeningIs
  <2>4. ASSUME state' \in Burst PROVE current' = current /\ write_enable' = AnyOf(current, writes)
    BY <1>2, <1>4, <2>3, <2>4
  <2> QED BY <1>5, <1>6, <2>2, <2>3, <2>4 DEF Granting, CorePort, VgaPort
<1> QED BY <1>1, <1>7, <1>8

\* The engine waits through the clocks in which its burst has not begun.
LEMMA CoreWaits ==
  ASSUME Normal, Polls, current = {0}, bus_request, state # 1, ~new_ready
  PROVE  current' = {0} /\ request'
<1>1. request
  BY BusWires DEF Normal
<1>2. ~core_ready
  BY DEF core_ready, PortReady, Ready
<1> QED BY <1>1, <1>2, CoreHolds, OwnerKeeps

LEMMA StepDriving ==
  ASSUME Normal, Commands, Commands', Granting, Driving
  PROVE  Driving'
<1> SUFFICES ASSUME Polls, Operating', write_enable' PROVE
      /\ state' \in AccessState .. OpenState =>
           /\ current' = {0} /\ request' /\ burst'
           /\ (new_ready' <=> state' = AccessState)
      /\ state' \in 6 .. AccessState - 1 /\ Access' = "write" => burst' /\ new_ready'
      /\ Access' = "write" => dq_out_mode'
  BY DEF Driving, CorePort
<1>1. /\ state' = NextState(bus_request, AnyOf(current, last4s)) /\ command' = NextCommand(bus_request)
      /\ state \in 2 .. OpenState \/ state \in {0, 1} \cup RefreshDone .. TopState
      /\ bus_request \in BOOLEAN /\ AnyOf(current, last4s) \in BOOLEAN
      /\ access' = Access
      /\ command' # "ACTIVE" => write_enable' = write_enable
  BY NormalNext
<1>2. /\ new_ready' = IF write_enable THEN 6 < state /\ state < OpenState /\ ~Jump5(AnyOf(current, last4s))
                      ELSE 1 < state /\ new_delay > 3
      /\ dq_out_mode' = (write_enable /\ Ready(bus_request))
      /\ command' = "ACTIVE" => write_enable' = AnyOf(current, writes) /\ burst'
      /\ command' # "ACTIVE" => burst' = (burst /\ bus_request)
  BY DEF Normal, RunClock
<1>3. /\ Typing /\ state \in Nat /\ delay \in 0 .. 4 /\ OneMaster
      /\ burst \in BOOLEAN /\ new_ready \in BOOLEAN /\ write_enable \in BOOLEAN
  BY PreviousTypes DEF Normal, Typing, TypeOK, SdramTypeOK
<1>7. /\ write_enable /\ 6 < state /\ state < OpenState /\ ~Jump5(AnyOf(current, last4s)) => new_ready'
      /\ write_enable /\ ~(6 < state /\ state < OpenState) => ~new_ready'
      /\ state = 0 => ~new_ready'
  <2>1. state = 0 => ~(6 < state /\ state < OpenState) /\ ~(1 < state /\ new_delay > 3)
    OBVIOUS
  <2> QED BY <1>2, <2>1
<1>4. /\ current = {0} => AnyOf(current, writes) = wren /\ bus_request = request
      /\ current = {1} => AnyOf(current, writes) = FALSE
  BY <1>3, BusWires
<1>5. CASE state \in 2 .. OpenState
  <2>1. /\ state' = IF Withdrawn(bus_request) /\ state <= COLS + 6 THEN 4
                    ELSE IF Jump5(AnyOf(current, last4s)) THEN 5 ELSE state - 1
        /\ command' = IF state = 4 + (IF write_enable THEN 1 ELSE 0) \/ Withdrawn(bus_request)
                      THEN "TERMINATE"
                      ELSE IF state = 3 THEN "PRECHARGE"
                      ELSE IF state = AccessState THEN (IF write_enable THEN "WRITE" ELSE "READ")
                      ELSE "NOP"
        /\ Jump5(AnyOf(current, last4s)) => state \in 6 .. AccessState
    BY <1>1, <1>3, <1>5, InBurstNext
  <2>2. Operating
    BY <1>5, Geometry DEF Normal, Operating, OpenState, TopState
  <2>3. write_enable
    BY <1>1, <2>1
  <2>4. Driving => /\ state \in AccessState .. OpenState =>
                        /\ current = {0} /\ request /\ burst
                        /\ (new_ready <=> state = AccessState)
                   /\ state \in 6 .. AccessState - 1 /\ Access = "write" => burst /\ new_ready
    BY <2>2, <2>3 DEF Driving, CorePort
  <2>5. CASE state \in AccessState .. OpenState
    <3>1. /\ current = {0} /\ bus_request /\ burst /\ (new_ready <=> state = AccessState)
          /\ request /\ ~Withdrawn(bus_request)
      <4>1. current = {0} /\ request /\ burst /\ (new_ready <=> state = AccessState)
        BY <2>4, <2>5
      <4>2. bus_request
        BY <1>4, <4>1
      <4> QED BY <4>1, <4>2 DEF Withdrawn
    <3>2. CASE state = AccessState
      <4>1. dq_out_mode' /\ burst'
        BY <1>1, <1>2, <2>1, <2>3, <3>1, <3>2 DEF Ready
      <4>2. state' \in 6 .. AccessState - 1 => new_ready'
        <5>1. Jump5(AnyOf(current, last4s)) => state' = 5
          BY <2>1, <3>1
        <5>2. 6 < state /\ state < OpenState
          BY <3>2, Geometry DEF AccessState, OpenState
        <5> QED BY <1>7, <2>3, <5>1, <5>2, Geometry DEF AccessState
      <4>3. state' \notin AccessState .. OpenState
        BY <2>1, <3>1, <3>2, Geometry DEF AccessState
      <4> QED BY <4>1, <4>2, <4>3
    <3>3. CASE state # AccessState
      <4>1. ~new_ready /\ state # 1 /\ ~Jump5(AnyOf(current, last4s)) /\ state > AccessState
        <5>1. state # 1 /\ state > AccessState
          BY <2>5, <3>3, Geometry DEF AccessState, OpenState
        <5>2. state \notin 6 .. AccessState
          BY <5>1, Geometry DEF AccessState
        <5> QED BY <2>1, <3>1, <3>3, <5>1, <5>2
      <4>2. current' = {0} /\ request'
        BY <3>1, <4>1, CoreWaits
      <4>3. /\ state' = state - 1
            /\ burst'
        BY <1>1, <1>2, <2>1, <3>1, <4>1
      <4>4. (new_ready' <=> state' = AccessState)
        <5>1. state < OpenState <=> state - 1 = AccessState
          BY <1>3, <2>5, <4>1, Geometry DEF AccessState, OpenState
        <5>2. 6 < state
          BY <1>3, <4>1, Geometry DEF AccessState
        <5> QED BY <1>2, <2>3, <4>1, <4>3, <5>1, <5>2
      <4>5. Access' # "write"
        <5>1. state' >= AccessState
          BY <1>3, <4>1, <4>3, Geometry DEF AccessState
        <5> QED BY <5>1, Geometry DEF Commands, AccessState
      <4>6. state' \notin 6 .. AccessState - 1
        BY <1>3, <4>1, <4>3, Geometry DEF AccessState
      <4> QED BY <4>2, <4>3, <4>4, <4>5, <4>6
    <3> QED BY <3>2, <3>3
  <2>6. CASE state < AccessState
    <3>1. state' \notin AccessState .. OpenState
      BY <1>3, <1>5, <2>1, <2>6, Geometry DEF AccessState, OpenState
    <3>2. ASSUME Access' = "write" PROVE dq_out_mode' /\ (state' \in 6 .. AccessState - 1 => burst' /\ new_ready')
      <4>1. Access' = AccessAfter(command)'
        BY DEF Access
      <4>2. command' \notin {"TERMINATE", "PRECHARGE"} /\ (command' # "WRITE" => Access = "write")
        BY <1>1, <3>2 DEF Access, AccessAfter
      <4>3. ~Withdrawn(bus_request) /\ command' # "WRITE" /\ Access = "write"
        BY <2>1, <2>6, <4>2, Geometry DEF AccessState
      <4>4. state \in 6 .. AccessState - 1
        <5>1. state \in 5 .. AccessState - 1
          BY <2>2, <4>3 DEF Commands
        <5>2. state # 5
          BY <2>1, <2>3, <4>2
        <5> QED BY <5>1, <5>2, Geometry DEF AccessState
      <4>5. burst /\ new_ready
        BY <2>4, <4>3, <4>4
      <4>6. bus_request
        BY <1>1, <4>3, <4>4, <4>5 DEF Withdrawn
      <4>7. dq_out_mode' /\ burst'
        BY <1>1, <1>2, <2>1, <2>3, <4>5, <4>6 DEF Ready
      <4>8. state' \in 6 .. AccessState - 1 => new_ready'
        <5>1. state' \in 6 .. AccessState - 1 => ~Jump5(AnyOf(current, last4s)) /\ 6 < state
          BY <1>3, <2>1, <4>3, <4>4
        <5>2. state < OpenState
          BY <4>4, Geometry DEF AccessState, OpenState
        <5> QED BY <1>7, <2>3, <5>1, <5>2, Geometry DEF AccessState
      <4> QED BY <4>7, <4>8
    <3> QED BY <3>1, <3>2
  <2> QED BY <1>3, <1>5, <2>5, <2>6, Geometry DEF AccessState
<1>6. CASE state \in {0, 1} \cup RefreshDone .. TopState
  <2>1. Access' # "write"
    <3>1. state' \in 5 .. AccessState - 1 => state' \in Burst
      BY Geometry DEF AccessState, OpenState, Burst
    <3>2. state' \in Burst => state' = OpenState
      BY <1>1, <1>3, <1>6, OutsideNext
    <3>3. state' \notin 5 .. AccessState - 1
      BY <3>1, <3>2, Geometry DEF AccessState, OpenState
    <3> QED BY <3>3 DEF Commands
  <2>2. ASSUME state' \in AccessState .. OpenState
        PROVE  current' = {0} /\ request' /\ burst' /\ ~new_ready' /\ state' # AccessState
    <3>1. state' \in Burst
      BY <2>2, Geometry DEF AccessState, OpenState, Burst
    <3>2. state = 0 /\ bus_request /\ command' = "ACTIVE" /\ state' = OpenState
      BY <1>1, <1>3, <1>6, <3>1, OutsideNext, OpeningIs
    <3>3. write_enable' = AnyOf(current, writes) /\ burst'
      BY <1>2, <3>2
    <3>4. current = {0}
      BY <1>3, <1>4, <3>3, Owner
    <3>5. Operating
      BY <3>2, Geometry DEF Normal, Operating, TopState
    <3>6. CASE burst
      <4>1. ~new_ready
        BY <3>2, <3>5, <3>6 DEF Granting, Burst
      <4>2. current' = {0} /\ request'
        BY <3>2, <3>4, <4>1, CoreWaits
      <4> QED BY <1>7, <3>2, <3>3, <4>2, Geometry DEF AccessState, OpenState
    <3>7. CASE ~burst
      <4>1. ~core_ready
        BY <3>7 DEF core_ready, PortReady, Ready
      <4>2. request
        BY <1>4, <3>2, <3>4
      <4>3. request' /\ current' = {0}
        BY <3>2, <3>4, <4>1, <4>2, CoreHolds, OwnerKeeps
      <4> QED BY <1>7, <3>2, <3>3, <4>3, Geometry DEF AccessState, OpenState
    <3> QED BY <1>3, <3>6, <3>7
  <2>3. state' \notin 6 .. AccessState - 1 \/ Access' # "write"
    BY <2>1
  <2> QED BY <2>1, <2>2
<1> QED BY <1>1, <1>5, <1>6

\* The wires of a clock, and of the clock after it.
OwnerWires ==
  /\ current = {0} => bus_request = request /\ Target = mem_addr
  /\ current = {1} => bus_request = vga_request /\ Target = vga_address % MemSize

LEMMA WiresNow == Typing => OwnerWires
BY BusWires DEF OwnerWires, Target

LEMMA WiresNext == Typing' => OwnerWires'
BY WiresNow, PTL

\* The address on the bus moves on with every word the controller hands out.
LEMMA TargetMoves ==
  ASSUME Normal, Polls \/ current = {1}, bus_request, bus_request', state # 1
  PROVE  /\ current' = current
         /\ Target \in Address
         /\ Ready(bus_request) => Target' = (Target + 1) % MemSize
         /\ ~Ready(bus_request) => Target' = Target
<1>1. current' = current /\ Typing /\ Typing'
  BY OwnerKeeps DEF Normal
<1>2. Target \in Address
  BY <1>1, Booleans DEF Target
<1>3. CASE current = {0}
  <2>1. request /\ Target = mem_addr /\ Target' = mem_addr'
    BY <1>1, <1>3, WiresNow, WiresNext DEF OwnerWires
  <2>2. core_ready <=> Ready(bus_request)
    BY <1>3, <2>1, Wires DEF core_ready, PortReady, CorePort
  <2>3. Polls
    BY <1>3
  <2> QED BY <1>1, <1>2, <2>1, <2>2, <2>3, CoreHolds
<1>4. CASE current = {1}
  <2>1. /\ vga_request /\ Target = vga_address % MemSize
        /\ vga_request' /\ Target' = vga_address' % MemSize
    BY <1>1, <1>4, WiresNow, WiresNext DEF OwnerWires
  <2>2. vga_ready <=> Ready(bus_request)
    BY <1>4, <2>1, Wires DEF vga_ready, PortReady, VgaPort
  <2>3. VgaClock(vga_ready)
    BY SdramAssumption DEF Normal, Next, Step, Launch, HoldReset, Clock
  <2>4. vga_left' = IF vga_ready THEN vga_left - 1 ELSE vga_left
    <3>1. vga_left # 0 /\ vga_left' # 0
      BY <1>1, <2>1 DEF Typing
    <3> QED BY <2>3, <3>1 DEF VgaClock, VgaContinue, VgaBegin, VgaWithdraw, Drive
  <2>5. /\ vga_left \in 1 .. VgaBlock /\ vga_left' \in 1 .. VgaBlock
    <3>1. vga_left # 0 /\ vga_left' # 0
      BY <1>1, <2>1 DEF Typing
    <3>2. vga_left \in 0 .. VgaBlock /\ vga_left' \in 0 .. VgaBlock
      BY <1>1 DEF Typing, TypeOK
    <3> QED BY <3>1, <3>2, Geometry
  <2>6. /\ vga_address \in Nat /\ vga_address < MemSize
        /\ vga_address' \in Nat /\ vga_address' < MemSize
        /\ vga_address' = IF vga_ready THEN vga_address + 1 ELSE vga_address
    BY <2>4, <2>5, Geometry DEF vga_address
  <2>7. \A a \in Nat : a < MemSize => a % MemSize = a
    BY Geometry
  <2>8. Target = vga_address /\ Target' = vga_address'
    BY <2>1, <2>6, <2>7
  <2> HIDE DEF vga_address
  <2>9. vga_ready => (Target + 1) % MemSize = vga_address'
    BY <2>6, <2>7, <2>8
  <2> QED BY <1>1, <1>2, <2>2, <2>6, <2>8, <2>9
<1> QED BY <1>1, <1>3, <1>4, Owner DEF Typing, TypeOK

LEMMA SameRowNext ==
  ASSUME NEW a \in Address, ColumnOf(a) + 1 < COLS
  PROVE  /\ RowOf((a + 1) % MemSize) = RowOf(a)
         /\ ColumnOf((a + 1) % MemSize) = ColumnOf(a) + 1
<1>1. RowOf(a) \in Rows /\ ColumnOf(a) + 1 \in Column /\ a = COLS * RowOf(a) + ColumnOf(a)
  BY Division, Geometry DEF Column
<1>2. COLS * RowOf(a) \in Nat /\ ColumnOf(a) \in Nat /\ a + 1 = COLS * RowOf(a) + (ColumnOf(a) + 1)
  BY <1>1, Geometry, Division DEF Column, Rows
<1>3. /\ a + 1 \in Address /\ RowOf(a + 1) = RowOf(a) /\ ColumnOf(a + 1) = ColumnOf(a) + 1
  BY <1>1, <1>2, Places
<1>4. (a + 1) % MemSize = a + 1
  BY <1>3, Geometry DEF Address
<1> QED BY <1>3, <1>4

\* A read burst is opened by a request, or goes on for the same owner.
LEMMA ReadingBefore ==
  ASSUME Normal, Granting, Reading'
  PROVE  /\ current' = current /\ (Polls \/ current = {1})
         /\ \/ Reading /\ state \in 2 .. OpenState /\ command' # "ACTIVE"
            \/ /\ state = 0 /\ bus_request /\ command' = "ACTIVE" /\ state' = OpenState
               /\ ~Ready(bus_request)
<1>1. /\ state' = NextState(bus_request, AnyOf(current, last4s)) /\ command' = NextCommand(bus_request)
      /\ state \in 2 .. OpenState \/ state \in {0, 1} \cup RefreshDone .. TopState
      /\ bus_request \in BOOLEAN /\ AnyOf(current, last4s) \in BOOLEAN
      /\ command' # "ACTIVE" => write_enable' = write_enable
  BY NormalNext
<1>2. command' # "ACTIVE" => burst' = (burst /\ bus_request)
  BY DEF Normal, RunClock
<1>3. Typing /\ state \in Nat /\ burst \in BOOLEAN
  BY PreviousTypes DEF Normal
<1>4. /\ burst' /\ state' \in Burst /\ ~write_enable' /\ (Polls \/ current' = {1})
  BY DEF Reading, VgaPort
<1>5. CASE state \in 2 .. OpenState
  <2>1. command' # "ACTIVE"
    BY <1>1, <1>3, <1>5, InBurstNext
  <2>2. Operating /\ state \in Burst /\ state # 1
    BY <1>5, Geometry DEF Normal, Operating, OpenState, TopState, Burst
  <2>3. burst /\ bus_request /\ ~write_enable
    <3>1. (burst /\ bus_request) /\ write_enable' = write_enable
      BY <1>1, <1>2, <1>4, <2>1
    <3> QED BY <1>4, <3>1
  <2>4. current' = current
    BY <2>2, <2>3, OwnerKeeps
  <2> QED BY <1>4, <1>5, <2>1, <2>2, <2>3, <2>4 DEF Reading, VgaPort
<1>6. CASE state \in {0, 1} \cup RefreshDone .. TopState
  <2>1. state = 0 /\ bus_request /\ command' = "ACTIVE" /\ state' = OpenState
    BY <1>1, <1>3, <1>4, <1>6, OutsideNext, OpeningIs
  <2>2. Operating
    BY <2>1, Geometry DEF Normal, Operating, TopState
  <2>3. ~Ready(bus_request)
    BY <2>1, <2>2 DEF Ready, Granting, Burst
  <2>4. current' = current
    BY <2>1, OwnerKeeps
  <2> QED BY <1>4, <2>1, <2>3, <2>4
<1> QED BY <1>1, <1>5, <1>6

\* What the controller does in the clocks of a read burst.
LEMMA ReadBurstNext ==
  ASSUME Normal, Reading, Reading', state \in 2 .. OpenState, command' # "ACTIVE"
  PROVE  /\ state' = IF Jump5(AnyOf(current, last4s)) THEN 5 ELSE state - 1
         /\ command' = IF state = 4 THEN "TERMINATE"
                       ELSE IF state = 3 THEN "PRECHARGE"
                       ELSE IF state = AccessState THEN "READ" ELSE "NOP"
         /\ delay' = new_delay
         /\ new_ready' <=> (1 < state /\ new_delay > 3)
         /\ column_address' = IF InBurst THEN (column_address + 1) % COLS ELSE column_address
         /\ UNCHANGED <<pin_row, initial_column_address>>
         /\ Ready(bus_request) <=> new_ready
<1>1. /\ Typing /\ burst /\ bus_request /\ ~write_enable /\ AnyOf(current, last4s) \in BOOLEAN
      /\ ~Withdrawn(bus_request)
  BY NormalNext DEF Normal, Reading, Withdrawn
<1>2. /\ state' = NextState(bus_request, AnyOf(current, last4s)) /\ command' = NextCommand(bus_request)
      /\ bus_request \in BOOLEAN
  BY NormalNext
<1>3. /\ state' = IF Jump5(AnyOf(current, last4s)) THEN 5 ELSE state - 1
      /\ command' = IF state = 4 THEN "TERMINATE"
                    ELSE IF state = 3 THEN "PRECHARGE"
                    ELSE IF state = AccessState THEN "READ" ELSE "NOP"
  <2>1. 4 + (IF write_enable THEN 1 ELSE 0) = 4
    BY <1>1
  <2> QED BY <1>1, <1>2, <2>1, InBurstNext
<1>4. /\ delay' = new_delay
      /\ new_ready' <=> (1 < state /\ new_delay > 3)
      /\ column_address' = IF InBurst THEN (column_address + 1) % COLS ELSE column_address
      /\ UNCHANGED <<pin_row, initial_column_address>>
  BY <1>1 DEF Normal, RunClock
<1> QED BY <1>1, <1>3, <1>4 DEF Ready

\* Numbers of the burst.
Numbers ==
  /\ state \in Nat /\ delay \in 0 .. 4 /\ column_address \in 0 .. COLS - 1
  /\ access_column \in 0 .. COLS - 1 /\ initial_column_address \in 0 .. COLS - 1
  /\ Wanted \in 0 .. COLS - 1 /\ Target \in Address /\ Ahead = Wanted + delay

LEMMA BurstNumbers == Typing => Numbers
<1> SUFFICES ASSUME Typing PROVE Numbers
  OBVIOUS
<1>1. Target \in Address
  BY Booleans DEF Target
<1>2. Wanted \in 0 .. COLS - 1
  BY <1>1, Division DEF Wanted, Column
<1> QED BY <1>1, <1>2, Geometry, SdramAssumption
        DEF Numbers, Ahead, Typing, TypeOK, SdramTypeOK, Column, TopState

LEMMA BurstNumbersNext == Typing' => Numbers'
BY BurstNumbers, PTL

LEMMA States == COLS \in Nat /\ COLS >= 2 /\ AccessState = COLS + 5 /\ OpenState = COLS + 7
BY Geometry DEF AccessState, OpenState

\* The opening of a read burst.
LEMMA FlowOpens ==
  ASSUME Normal, Reading', Polls \/ current = {1}, state = 0, bus_request, command' = "ACTIVE",
         state' = OpenState, ~Ready(bus_request)
  PROVE  Flow'
<1>1. Target' = Target
  <2>1. state # 1 /\ bus_request'
    BY DEF Reading
  <2> QED BY <2>1, TargetMoves
<1>2. /\ pin_row' = RowOf(Target) /\ column_address' = ColumnOf(Target)
      /\ initial_column_address' = ColumnOf(Target)
      /\ delay' = new_delay
      /\ new_ready' = IF write_enable THEN 6 < state /\ state < OpenState /\ ~Jump5(AnyOf(current, last4s))
                      ELSE 1 < state /\ new_delay > 3
  BY DEF Normal, RunClock
<1>3. new_delay = 0 /\ ~new_ready'
  <2>1. new_delay = 0
    BY DEF new_delay
  <2>2. ~(1 < state /\ new_delay > 3) /\ ~(6 < state /\ state < OpenState)
    OBVIOUS
  <2> QED BY <1>2, <2>1, <2>2
<1>4. ~(state' < AccessState)
  BY Geometry DEF AccessState, OpenState
<1>5. AccessState' = AccessState
  BY DEF AccessState
<1>6. Wanted' = ColumnOf(Target)
  BY <1>1 DEF Wanted, ColumnOf
<1>7. RowOf(Target)' = RowOf(Target)
  BY <1>1 DEF RowOf
<1> QED BY <1>2, <1>3, <1>4, <1>5, <1>6, <1>7 DEF Flow, FlowBefore, FlowColumns, FlowWords

\* The clocks between the opening and the command.
LEMMA FlowWaits ==
  ASSUME Normal, Reading, Reading', Polls \/ current = {1}, command' # "ACTIVE",
         state \in AccessState + 1 .. OpenState, Flow
  PROVE  Flow'
<1>1. /\ COLS \in Nat /\ COLS >= 2 /\ AccessState = COLS + 5 /\ OpenState = COLS + 7
      /\ state \in Nat
  BY BurstNumbers, States DEF Normal, Numbers
<1>2. ~InBurst /\ ~Jump5(AnyOf(current, last4s)) /\ state \in 2 .. OpenState /\ state # 1
  BY <1>1 DEF InBurst, Jump5
<1>3. state' = state - 1 /\ column_address' = column_address
      /\ delay' = new_delay /\ (new_ready' <=> (1 < state /\ new_delay > 3))
      /\ UNCHANGED <<pin_row, initial_column_address>>
      /\ (Ready(bus_request) <=> new_ready)
  BY <1>2, ReadBurstNext
<1>4. new_delay = 0
  BY <1>1 DEF new_delay
<1>5. ~new_ready' /\ delay' = 0
  BY <1>3, <1>4
<1>6. /\ column_address = Wanted /\ initial_column_address = Wanted /\ ~new_ready
      /\ pin_row = RowOf(Target)
  BY <1>1 DEF Flow, FlowBefore
<1>7. Target' = Target
  BY <1>2, <1>3, <1>6, TargetMoves DEF Reading
<1>8. AccessState' = AccessState /\ ~(state' < AccessState)
  BY <1>1, <1>3 DEF AccessState
<1>9. Wanted' = Wanted /\ RowOf(Target)' = RowOf(Target)
  BY <1>7 DEF Wanted, ColumnOf, RowOf
<1> QED BY <1>3, <1>5, <1>6, <1>8, <1>9 DEF Flow, FlowBefore, FlowColumns, FlowWords

\* In a read burst the chip reads the open row, column Ahead of it.
LEMMA ChipReads ==
  ASSUME Normal, Commands, Reading, Flow, state \in 2 .. AccessState
  PROVE  /\ memory' = memory
         /\ pipe2' = pipe1 /\ dq' = pipe2 /\ data_read' = dq
         /\ state \in 5 .. AccessState - 1 =>
              pipe1' = WordAt(Ahead) /\ access_column' = (Ahead + 1) % COLS
<1>1. /\ ChipClock(command, pin_row, initial_column_address, dq_out_mode, data_write)
      /\ data_read' = dq
  BY DEF Normal, Bus, RunClock
<1>2. Operating /\ ~write_enable
  BY DEF Reading
<1>3. AccessAfter(command) # "write"
  BY <1>2 DEF Commands, Access
<1>4. memory' = memory /\ pipe2' = pipe1 /\ dq' = pipe2
  BY <1>1, <1>3 DEF ChipClock, Touches
<1>5. ASSUME state \in 5 .. AccessState - 1
      PROVE  pipe1' = WordAt(Ahead) /\ access_column' = (Ahead + 1) % COLS
  <2>1. /\ state < AccessState /\ state > 3 /\ state >= 5
        /\ state # OpenState /\ state # 2 /\ state # TopState - 1 /\ state \in 3 .. OpenState
    BY <1>5, Geometry DEF AccessState, OpenState, TopState
  <2>2. AccessAfter(command) = "read" /\ ColumnNow(command, initial_column_address) = Ahead
    BY <2>1 DEF Flow, FlowColumns, Access
  <2>3. command # "ACTIVE" /\ command # "PRECHARGE"
    BY <1>2, <2>1 DEF Commands
  <2>4. Row = open_row /\ S!Row = Row
    BY <2>3 DEF Row, RowAfter, S!Row, S!RowAfter
  <2>5. S!Row # Closed
    <3>1. S!RowInv /\ state_hi = 0
      BY DEF Normal
    <3> QED BY <2>1, <3>1, SameStates DEF S!RowInv
  <2>6. open_row = pin_row /\ open_row # Closed
    BY <2>4, <2>5 DEF Normal, RowKnown
  <2>7. Touches(command, "read") /\ AddressNow(command, initial_column_address) = pin_row * COLS + Ahead
    BY <2>2, <2>6 DEF Touches, AddressNow
  <2> QED BY <1>1, <2>2, <2>7 DEF ChipClock, WordAt
<1> QED BY <1>1, <1>4, <1>5

\* Every clock of the burst takes the chip one column further ahead.
LEMMA FlowAdvances ==
  ASSUME Normal, Reading, Reading', Polls \/ current = {1}, command' # "ACTIVE",
         state \in 2 .. AccessState, Flow
  PROVE  /\ state' < AccessState /\ pin_row' = RowOf(Target)'
         /\ state = AccessState => delay' = 0 /\ Ahead' = Ahead /\ ~new_ready'
         /\ state < AccessState => /\ Ahead' = Ahead + 1 /\ delay' <= delay + 1
                                   /\ new_ready' <=> delay' = 4
<1>1. /\ COLS \in Nat /\ COLS >= 2 /\ AccessState = COLS + 5 /\ OpenState = COLS + 7
      /\ state \in Nat /\ delay \in 0 .. 4 /\ column_address \in 0 .. COLS - 1
      /\ Wanted \in 0 .. COLS - 1 /\ Target \in Address
  BY BurstNumbers, States DEF Normal, Numbers
<1>2. state \in 2 .. OpenState /\ state # 1 /\ bus_request /\ bus_request'
  BY <1>1 DEF Reading
<1>3. /\ state' = IF Jump5(AnyOf(current, last4s)) THEN 5 ELSE state - 1
      /\ delay' = new_delay /\ (new_ready' <=> (1 < state /\ new_delay > 3))
      /\ pin_row' = pin_row
      /\ (Ready(bus_request) <=> new_ready)
  BY <1>2, ReadBurstNext
<1>4. pin_row = RowOf(Target)
  BY DEF Flow
<1>5. state' < AccessState
  BY <1>1, <1>3
<1>6. CASE state = AccessState
  <2>1. new_delay = 0 /\ ~new_ready
    BY <1>1, <1>6 DEF new_delay, Flow, FlowBefore
  <2>2. Target' = Target
    BY <1>2, <1>3, <2>1, TargetMoves
  <2>3. RowOf(Target)' = RowOf(Target) /\ Wanted' = Wanted
    BY <2>2 DEF RowOf, Wanted, ColumnOf
  <2>4. delay = 0
    BY <1>1, <1>6 DEF Flow, FlowBefore
  <2> QED BY <1>1, <1>3, <1>4, <1>5, <1>6, <2>1, <2>3, <2>4 DEF Ahead
<1>7. CASE state < AccessState
  <2>1. /\ new_ready <=> delay = 4
        /\ state > 5 => Ahead + 1 = column_address
        /\ state <= 5 => Ahead + state <= COLS + 4
    BY <1>7 DEF Flow, FlowColumns
  <2>2. new_delay = IF delay < 4 THEN delay + 1 ELSE delay
    BY <1>1, <1>2, <1>7 DEF new_delay
  <2>3. new_ready' <=> delay' = 4
    <3>1. 1 < state /\ (new_delay > 3 <=> new_delay = 4)
      BY <1>1, <1>2, <2>2
    <3> QED BY <1>3, <3>1
  <2>4. CASE new_ready
    <3>1. delay = 4 /\ delay' = 4
      BY <1>3, <2>1, <2>2, <2>4
    <3>2. Wanted + 1 < COLS
      BY <1>1, <1>2, <2>1, <3>1 DEF Ahead
    <3>3. Target' = (Target + 1) % MemSize
      BY <1>2, <1>3, <2>4, TargetMoves
    <3>4. /\ RowOf((Target + 1) % MemSize) = RowOf(Target)
          /\ ColumnOf((Target + 1) % MemSize) = Wanted + 1
      <4>1. ColumnOf(Target) + 1 < COLS
        BY <3>2 DEF Wanted
      <4> QED BY <1>1, <4>1, SameRowNext DEF Wanted
    <3>5. RowOf(Target)' = RowOf(Target) /\ Wanted' = Wanted + 1
      BY <3>3, <3>4 DEF RowOf, Wanted, ColumnOf
    <3> QED BY <1>1, <1>3, <1>4, <1>5, <1>7, <2>3, <3>1, <3>5 DEF Ahead
  <2>5. CASE ~new_ready
    <3>1. delay' = delay + 1
      BY <1>1, <1>3, <2>1, <2>2, <2>5
    <3>2. Target' = Target
      BY <1>2, <1>3, <2>5, TargetMoves
    <3>3. RowOf(Target)' = RowOf(Target) /\ Wanted' = Wanted
      BY <3>2 DEF RowOf, Wanted, ColumnOf
    <3> QED BY <1>1, <1>3, <1>4, <1>5, <1>7, <2>3, <3>1, <3>3 DEF Ahead
  <2> QED BY <2>4, <2>5
<1> QED BY <1>1, <1>6, <1>7

LEMMA FlowRuns ==
  ASSUME Normal, Commands, Reading, Reading', Polls \/ current = {1}, command' # "ACTIVE",
         state \in 2 .. AccessState, Flow
  PROVE  Flow'
<1>1. /\ COLS \in Nat /\ COLS >= 2 /\ AccessState = COLS + 5 /\ OpenState = COLS + 7
      /\ state \in Nat /\ delay \in 0 .. 4 /\ column_address \in 0 .. COLS - 1
      /\ Wanted \in 0 .. COLS - 1
  BY BurstNumbers, States DEF Normal, Numbers
<1>2. /\ state' < AccessState /\ pin_row' = RowOf(Target)'
      /\ state = AccessState => delay' = 0 /\ Ahead' = Ahead /\ ~new_ready'
      /\ state < AccessState => /\ Ahead' = Ahead + 1 /\ delay' <= delay + 1
                                /\ new_ready' <=> delay' = 4
  BY FlowAdvances
<1>3. AccessState' = AccessState /\ state \in 2 .. OpenState
  BY <1>1 DEF AccessState
<1>4. /\ state' = IF Jump5(AnyOf(current, last4s)) THEN 5 ELSE state - 1
      /\ command' = IF state = 4 THEN "TERMINATE"
                    ELSE IF state = 3 THEN "PRECHARGE"
                    ELSE IF state = AccessState THEN "READ" ELSE "NOP"
      /\ column_address' = IF InBurst THEN (column_address + 1) % COLS ELSE column_address
      /\ UNCHANGED <<pin_row, initial_column_address>>
  BY <1>3, ReadBurstNext
<1>5. /\ Typing' /\ delay' \in 0 .. 4 /\ Wanted' \in 0 .. COLS - 1
      /\ AnyOf(current, last4s) \in BOOLEAN
  BY NormalNext, BurstNumbersNext DEF Normal, Numbers
<1>6. Ahead \in Nat /\ Ahead' \in Nat /\ Ahead = Wanted + delay /\ Ahead' = Wanted' + delay'
  <2>1. Ahead = Wanted + delay /\ Ahead' = Wanted' + delay'
    BY DEF Ahead
  <2>2. \A i \in 0 .. COLS - 1, j \in 0 .. 4 : i + j \in Nat
    BY <1>1
  <2> QED BY <1>1, <1>5, <2>1, <2>2
<1>7. Jump5(AnyOf(current, last4s)) => state > 5
  BY DEF Jump5, InBurst
<1>8. /\ state' \in Nat /\ state' < state /\ state >= state' + 1
  BY <1>1, <1>4, <1>7
<1>9. /\ memory' = memory
      /\ pipe2' = pipe1 /\ dq' = pipe2 /\ data_read' = dq
      /\ state \in 5 .. AccessState - 1 =>
           pipe1' = WordAt(Ahead) /\ access_column' = (Ahead + 1) % COLS
  BY ChipReads
<1>10. state > 5 => Ahead' = column_address
  <2>1. state = AccessState => Ahead = column_address
    BY <1>1, <1>6 DEF Flow, FlowBefore
  <2>2. state > 5 /\ state < AccessState => Ahead + 1 = column_address
    BY DEF Flow, FlowColumns
  <2> QED BY <1>1, <1>2, <2>1, <2>2
<1>11. FlowColumns'
  <2>1. new_ready' <=> delay' = 4
    BY <1>1, <1>2
  <2>2. state' > 3 => Access' = "read"
    <3>1. SUFFICES ASSUME state' > 3 PROVE Access' = "read"
      OBVIOUS
    <3>2. state > 4
      BY <1>1, <1>8, <3>1
    <3>3. command' \in {"READ", "NOP"} /\ (state = AccessState => command' = "READ")
      BY <1>4, <3>2
    <3>4. state < AccessState => Access = "read"
      BY <3>2 DEF Flow, FlowColumns
    <3>5. access' = Access
      BY NormalNext
    <3> QED BY <1>1, <3>3, <3>4, <3>5 DEF Access, AccessAfter
  <2>3. state' > 5 => Ahead' + 1 = column_address'
    <3>1. SUFFICES ASSUME state' > 5 PROVE Ahead' + 1 = column_address'
      OBVIOUS
    <3>2. ~Jump5(AnyOf(current, last4s)) /\ state > 6
      BY <1>4, <1>8, <3>1
    <3>3. InBurst /\ column_address # COLS - 1
      BY <1>1, <3>2 DEF InBurst, Jump5
    <3>4. column_address' = column_address + 1
      <4>1. column_address + 1 < COLS
        BY <1>1, <3>3
      <4>2. (column_address + 1) % COLS = column_address + 1
        BY <1>1, <4>1
      <4> QED BY <1>4, <3>3, <4>2
    <3> QED BY <1>10, <3>2, <3>4
  <2>4. state' <= 5 => Ahead' + state' <= COLS + 4
    <3>1. CASE state > 5
      BY <1>1, <1>4, <1>8, <1>10, <3>1
    <3>2. CASE state <= 5
      <4>1. Ahead + state <= COLS + 4 /\ Ahead' = Ahead + 1
        BY <1>1, <1>2, <3>2 DEF Flow, FlowColumns
      <4>2. state' = state - 1
        BY <1>4, <1>7, <3>2
      <4> QED BY <1>1, <1>6, <4>1, <4>2
    <3> QED BY <1>1, <3>1, <3>2
  <2>5. state' >= 5 => ColumnNow(command, initial_column_address)' = Ahead'
    <3>1. SUFFICES ASSUME state' >= 5 PROVE ColumnNow(command, initial_column_address)' = Ahead'
      OBVIOUS
    <3>2. state > 5
      BY <1>1, <1>8, <3>1
    <3>3. CASE state = AccessState
      <4>1. command' = "READ" /\ initial_column_address' = Wanted /\ Ahead' = Wanted
        <5>1. initial_column_address = Wanted /\ column_address = Wanted
          BY <1>1, <3>3 DEF Flow, FlowBefore
        <5> QED BY <1>1, <1>4, <1>10, <3>2, <3>3, <5>1
      <4> QED BY <4>1 DEF ColumnNow
    <3>4. CASE state < AccessState
      <4>1. command' = "NOP"
        BY <1>4, <3>2, <3>4
      <4>2. access_column' = (Ahead + 1) % COLS /\ Ahead + 1 = column_address
        <5>1. state \in 5 .. AccessState - 1
          BY <1>1, <3>2, <3>4
        <5> QED BY <1>9, <3>2, <3>4, <5>1 DEF Flow, FlowColumns
      <4>3. column_address % COLS = column_address
        BY <1>1
      <4>4. access_column' = Ahead'
        BY <1>10, <3>2, <4>2, <4>3
      <4> QED BY <4>1, <4>4 DEF ColumnNow
    <3> QED BY <1>1, <3>3, <3>4
  <2> QED BY <2>1, <2>2, <2>3, <2>4, <2>5 DEF FlowColumns
<1>12. FlowWords'
  <2>2. CASE state = AccessState
    BY <1>2, <2>2 DEF FlowWords
  <2>3. CASE state < AccessState
    <3>1. Ahead' = Ahead + 1 /\ delay' <= delay + 1 /\ state >= state' + 1
      <4>1. Ahead' = Ahead + 1 /\ delay' <= delay + 1
        BY <1>2, <2>3
      <4> QED BY <1>8, <4>1
    <3>2. /\ state >= 4 /\ delay >= 1 => pipe1 = WordAt(Ahead - 1)
          /\ state >= 3 /\ delay >= 2 => pipe2 = WordAt(Ahead - 2)
          /\ state >= 2 /\ delay >= 3 => dq = WordAt(Ahead - 3)
      BY <2>3 DEF Flow, FlowWords
    <3>3. /\ Ahead' - 1 = Ahead /\ Ahead' - 2 = Ahead - 1 /\ Ahead' - 3 = Ahead - 2
          /\ delay' = 4 => Wanted' = Ahead - 3
      <4>1. \A a, b \in Nat : b = a + 1 => b - 1 = a /\ b - 2 = a - 1 /\ b - 3 = a - 2
        OBVIOUS
      <4>2. \A a, b, w \in Nat : b = a + 1 /\ b = w + 4 => w = a - 3
        OBVIOUS
      <4>3. Wanted' \in Nat
        BY <1>1, <1>5
      <4> QED BY <1>6, <3>1, <4>1, <4>2, <4>3
    <3>4. state' >= 4 /\ delay' >= 1 => pipe1' = memory'[pin_row' * COLS + (Ahead' - 1)]
      <4>1. state' >= 4 => state \in 5 .. AccessState - 1
        BY <1>1, <1>8, <2>3
      <4>2. pipe1' = WordAt(Ahead) => pipe1' = memory'[pin_row' * COLS + (Ahead' - 1)]
        BY <1>4, <1>9, <3>3 DEF WordAt
      <4> QED BY <1>9, <4>1, <4>2
    <3>5. state' >= 3 /\ delay' >= 2 => pipe2' = memory'[pin_row' * COLS + (Ahead' - 2)]
      <4>1. state' >= 3 /\ delay' >= 2 => state >= 4 /\ delay >= 1
        BY <1>1, <1>5, <1>8, <3>1
      <4>2. pipe1 = WordAt(Ahead - 1) => pipe2' = memory'[pin_row' * COLS + (Ahead' - 2)]
        BY <1>4, <1>9, <3>3 DEF WordAt
      <4> QED BY <3>2, <4>1, <4>2
    <3>6. state' >= 2 /\ delay' >= 3 => dq' = memory'[pin_row' * COLS + (Ahead' - 3)]
      <4>1. state' >= 2 /\ delay' >= 3 => state >= 3 /\ delay >= 2
        BY <1>1, <1>5, <1>8, <3>1
      <4>2. pipe2 = WordAt(Ahead - 2) => dq' = memory'[pin_row' * COLS + (Ahead' - 3)]
        BY <1>4, <1>9, <3>3 DEF WordAt
      <4> QED BY <3>2, <4>1, <4>2
    <3>7. delay' = 4 => data_read' = memory'[pin_row' * COLS + Wanted']
      <4>1. delay' = 4 => state >= 2 /\ delay >= 3
        BY <1>1, <1>5, <3>1
      <4>2. dq = WordAt(Ahead - 3) /\ delay' = 4 => data_read' = memory'[pin_row' * COLS + Wanted']
        BY <1>4, <1>9, <3>3 DEF WordAt
      <4> QED BY <3>2, <4>1, <4>2
    <3> QED BY <3>4, <3>5, <3>6, <3>7 DEF FlowWords, WordAt
  <2> QED BY <1>1, <2>2, <2>3
<1>13. pin_row' = RowOf(Target)' /\ FlowBefore'
  BY <1>1, <1>2, <1>3, <1>8 DEF FlowBefore
<1> QED BY <1>11, <1>12, <1>13 DEF Flow

LEMMA StepFlowing ==
  ASSUME Normal, Commands, Granting, Flowing
  PROVE  Flowing'
<1> SUFFICES ASSUME Reading' PROVE Flow'
  BY DEF Flowing
<1>1. /\ Polls \/ current = {1}
      /\ \/ Reading /\ state \in 2 .. OpenState /\ command' # "ACTIVE"
         \/ /\ state = 0 /\ bus_request /\ command' = "ACTIVE" /\ state' = OpenState
            /\ ~Ready(bus_request)
  BY ReadingBefore
<1>2. CASE Reading /\ state \in 2 .. OpenState /\ command' # "ACTIVE"
  <2>1. Flow
    BY <1>2 DEF Flowing
  <2>2. state \in 2 .. AccessState \/ state \in AccessState + 1 .. OpenState
    BY <1>2, States
  <2> QED BY <1>1, <1>2, <2>1, <2>2, FlowWaits, FlowRuns
<1>3. CASE state = 0 /\ bus_request /\ command' = "ACTIVE" /\ state' = OpenState
             /\ ~Ready(bus_request)
  BY <1>1, <1>3, FlowOpens
<1> QED BY <1>1, <1>2, <1>3

-----------------------------------------------------------------------------
(* The invariant. *)

LEMMA InitInv == Init => Inv
<1> SUFFICES ASSUME Init PROVE Inv
  OBVIOUS
<1>1. /\ state_hi = 0 /\ state = 0 /\ burst = FALSE /\ write_enable = FALSE /\ new_ready = FALSE
      /\ command = "NOP" /\ open_row = Closed /\ access = "none"
  BY DEF Init, SdramIdle, Registers, ChipInit
<1>2. Typing
  BY InitTyping
<1>3. Access = "none" /\ Row = Closed
  BY <1>1 DEF Access, AccessAfter, Row, RowAfter
<1>4. S!RowInv
  <2>1. S!Row = Closed /\ S!Legal(command)
    BY <1>1 DEF S!Row, S!RowAfter, S!Legal
  <2>2. 0 \in 0 .. S!OpenState /\ 0 # S!TopState /\ 0 \notin 3 .. S!OpenState
    BY Geometry, SameStates DEF OpenState, TopState
  <2> QED BY <1>1, <2>1, <2>2 DEF S!RowInv
<1>5. RowKnown /\ Commands
  BY <1>1, <1>3 DEF RowKnown, Commands
<1>6. Granting /\ Driving /\ Flowing
  BY <1>1, <1>3 DEF Granting, Driving, Flowing, Reading
<1> QED BY <1>2, <1>4, <1>5, <1>6 DEF Inv

\* A step that changes no variable changes no wire.
LEMMA WiresStay ==
  ASSUME UNCHANGED vars
  PROVE  /\ bus_request' = bus_request /\ request' = request
         /\ Target' = Target
<1>1. /\ request' = request
      /\ UNCHANGED <<current, vga_request, mem_addr, vga_left>>
  BY DEF vars, connectorVars, muxVars, vgaVars, request
<1>2. requests' = requests /\ addresses' = addresses
  BY <1>1 DEF requests, addresses, ByPort, vga_address
<1> QED BY <1>1, <1>2 DEF bus_request, AnyOf, Target, Selected

LEMMA Stutter == ASSUME Inv, UNCHANGED vars PROVE Inv'
<1>1. Typing' /\ S!RowInv' /\ RowKnown'
  BY StepTyping, StepRowInv, StepRowKnown DEF Inv
<1>2. /\ UNCHANGED <<state_hi, state, burst, write_enable, column_address,
                     initial_column_address, delay, new_ready, dq_out_mode, data_read,
                     command, pin_row, memory, open_row, access, access_column,
                     pipe1, pipe2, dq, current, wren>>
  BY DEF vars, sdramVars, counterVars, burstVars, pinVars, chipVars, muxVars, connectorVars
<1>3. bus_request' = bus_request /\ request' = request /\ Target' = Target
  BY WiresStay
<1>4. Operating' = Operating /\ Access' = Access
  BY <1>2 DEF Operating, Access, AccessAfter
<1>5. Commands' /\ Granting' /\ Driving'
  BY <1>2, <1>3, <1>4 DEF Inv, Commands, Granting, Driving
<1>6. Wanted' = Wanted /\ Ahead' = Ahead /\ RowOf(Target)' = RowOf(Target)
  BY <1>2, <1>3 DEF Wanted, Ahead, RowOf, ColumnOf
<1>7. Reading' = Reading
  BY <1>2, <1>3, <1>4 DEF Reading
<1>8. Flow' = Flow
  <2>1. FlowBefore' = FlowBefore
    BY <1>2, <1>6 DEF FlowBefore
  <2>2. FlowColumns' = FlowColumns
    BY <1>2, <1>4, <1>6 DEF FlowColumns, ColumnNow
  <2>3. FlowWords' = FlowWords
    BY <1>2, <1>6 DEF FlowWords, WordAt
  <2> QED BY <1>2, <1>6, <2>1, <2>2, <2>3 DEF Flow
<1> QED BY <1>1, <1>5, <1>7, <1>8 DEF Inv, Flowing

LEMMA StepInv == Inv /\ [Next]_vars => Inv'
<1> SUFFICES ASSUME Inv, [Next]_vars PROVE Inv'
  OBVIOUS
<1>1. Typing' /\ S!RowInv' /\ RowKnown'
  BY StepTyping, StepRowInv, StepRowKnown DEF Inv
<1>2. CASE ~Operating'
  BY <1>1, <1>2 DEF Inv, Commands, Granting, Driving, Flowing, Reading
<1>3. CASE UNCHANGED vars
  BY <1>3, Stutter
<1>4. CASE Operating' /\ ~UNCHANGED vars
  <2>1. Normal
    BY <1>1, <1>4, NormalStep DEF Inv
  <2>2. Commands'
    BY <2>1, StepCommands DEF Inv
  <2>3. Granting' /\ Driving' /\ Flowing'
    BY <2>1, <2>2, StepGranting, StepDriving, StepFlowing DEF Inv
  <2> QED BY <1>1, <2>2, <2>3 DEF Inv
<1> QED BY <1>2, <1>3, <1>4

-----------------------------------------------------------------------------
(* What the invariant gives. *)

\* The word on the bus when a read burst's owner is told "ready".
LEMMA ReadyWord ==
  ASSUME Inv, Reading, Ready(bus_request)
  PROVE  data_read = memory[Target]
<1>1. Flow /\ new_ready
  BY DEF Inv, Flowing, Ready
<1>2. state \in Nat /\ Target \in Address
  BY BurstNumbers DEF Inv, Numbers
<1>3. state < AccessState
  BY <1>1, <1>2, States DEF Flow, FlowBefore
<1>4. data_read = memory[pin_row * COLS + Wanted] /\ pin_row = RowOf(Target)
  BY <1>1, <1>3 DEF Flow, FlowColumns, FlowWords, WordAt
<1>5. Target = COLS * RowOf(Target) + Wanted /\ RowOf(Target) \in Nat
  BY <1>2, Division DEF Wanted, Rows
<1>6. COLS * RowOf(Target) = RowOf(Target) * COLS
  BY <1>5, States
<1> QED BY <1>4, <1>5, <1>6

LEMMA InvDisplay == Inv => DisplayWordExact
<1> SUFFICES ASSUME Inv, Operating, vga_ready PROVE data_read = memory[vga_address]
  BY DEF DisplayWordExact
<1>1. /\ current = {1} /\ Ready(bus_request) /\ vga_request
  <2>1. 1 \in current /\ Ready(bus_request) /\ requests[1]
    BY DEF vga_ready, PortReady, VgaPort
  <2> QED BY <2>1, Owner, Wires DEF Inv, Typing, TypeOK
<1>2. Reading
  BY <1>1 DEF Inv, Granting, Reading, Ready, VgaPort
<1>3. Target = vga_address % MemSize
  BY <1>1, WiresNow DEF Inv, OwnerWires
<1>4. vga_address \in Nat /\ vga_address < MemSize
  <2>1. vga_left # 0
    BY <1>1 DEF Inv, Typing
  <2>2. vga_left \in 0 .. VgaBlock
    BY DEF Inv, Typing, TypeOK
  <2> QED BY <2>1, <2>2, Geometry DEF vga_address
<1>5. Target = vga_address
  BY <1>3, <1>4, Geometry
<1> QED BY <1>1, <1>2, <1>5, ReadyWord

(***************************************************************************)
(* Whatever the engine does meanwhile, whenever the display gives up a     *)
(* block and wherever a reset falls: the word the display is handed is the *)
(* one at the address it fetches.                                          *)
(***************************************************************************)
THEOREM MemoryDisplayWordExact == Spec => []DisplayWordExact
<1>1. Spec => []Inv
  BY InitInv, StepInv, PTL DEF Spec
<1> QED BY <1>1, InvDisplay, PTL

LEMMA InvStores == ASSUME Polls PROVE Inv => StoresOnlyDriven
<1> SUFFICES ASSUME Inv, Operating, Touches(command, "write") PROVE dq_out_mode
  BY DEF StoresOnlyDriven
<1>1. Access = "write"
  BY DEF Touches, Access
<1>2. write_enable
  BY <1>1 DEF Inv, Commands
<1> QED BY <1>1, <1>2 DEF Inv, Driving

(***************************************************************************)
(* A program that waits for flag m never makes the chip store from data    *)
(* pins that nobody drives: a burst is ended in the clock in which the     *)
(* engine has no more words for it.                                        *)
(***************************************************************************)
THEOREM MemoryStoresOnlyDriven == ASSUME Polls PROVE Spec => []StoresOnlyDriven
<1>1. Spec => []Inv
  BY InitInv, StepInv, PTL DEF Spec
<1> QED BY <1>1, InvStores, PTL

-----------------------------------------------------------------------------
(***************************************************************************)
(* That a transfer is exact: when flag m clears, cache, memory and command *)
(* memory hold what the READs and WRITEs so far promise.  First the bus:   *)
(* what the engine is told "ready" for is what the chip stores, in its     *)
(* place.  Then the engine, its line buffers and the cache.                *)
(***************************************************************************)

(* The words of a write burst.                                             *)

\* The engine's word of the clock is the one whose column is at the pins; the
\* chip is one behind.
StoreFlow ==
  Operating /\ write_enable /\ burst /\ bus_request /\ state \in 6 .. OpenState =>
    /\ pin_row = RowOf(mem_addr)
    /\ column_address = ColumnOf(mem_addr)
    /\ state >= AccessState => initial_column_address = ColumnOf(mem_addr)
    /\ state < AccessState =>
         /\ Access = "write"
         /\ ColumnNow(command, initial_column_address) + 1 = column_address

\* The data pins belong to the owner of the bus through its whole burst.
LastOwner == Operating /\ burst /\ state \in Burst /\ bus_request => last_current = current

\* Where a burst comes from.
LEMMA BurstBefore ==
  ASSUME Normal, burst', state' \in Burst
  PROVE  /\ bus_request /\ state # 1 /\ current' = current
         /\ \/ state \in 2 .. OpenState /\ burst /\ Operating /\ state \in Burst
               /\ command' # "ACTIVE" /\ write_enable' = write_enable
            \/ state = 0 /\ command' = "ACTIVE" /\ state' = OpenState /\ Operating
<1>1. /\ state' = NextState(bus_request, AnyOf(current, last4s)) /\ command' = NextCommand(bus_request)
      /\ state \in 2 .. OpenState \/ state \in {0, 1} \cup RefreshDone .. TopState
      /\ bus_request \in BOOLEAN /\ AnyOf(current, last4s) \in BOOLEAN
      /\ command' # "ACTIVE" => write_enable' = write_enable
  BY NormalNext
<1>2. command' # "ACTIVE" => burst' = (burst /\ bus_request)
  BY DEF Normal, RunClock
<1>3. Typing /\ state \in Nat /\ burst \in BOOLEAN
  BY PreviousTypes DEF Normal
<1>4. CASE state \in 2 .. OpenState
  <2>1. command' # "ACTIVE"
    BY <1>1, <1>3, <1>4, InBurstNext
  <2>2. Operating /\ state \in Burst /\ state # 1
    BY <1>4, Geometry DEF Normal, Operating, OpenState, TopState, Burst
  <2>3. burst /\ bus_request /\ write_enable' = write_enable
    BY <1>1, <1>2, <2>1
  <2> QED BY <1>4, <2>1, <2>2, <2>3, OwnerKeeps
<1>5. CASE state \in {0, 1} \cup RefreshDone .. TopState
  <2>1. state = 0 /\ bus_request /\ command' = "ACTIVE" /\ state' = OpenState
    BY <1>1, <1>3, <1>5, OutsideNext, OpeningIs
  <2>2. Operating
    BY <2>1, Geometry DEF Normal, Operating, TopState
  <2> QED BY <2>1, <2>2, OwnerKeeps
<1> QED BY <1>1, <1>4, <1>5

LEMMA StepLastOwner == ASSUME Normal PROVE LastOwner'
<1>1. last_current' = current
  BY DEF Normal, Bus, MuxClock
<1> QED BY <1>1, BurstBefore DEF LastOwner

\* A write burst is the engine's.
LEMMA WriterOwns ==
  ASSUME Normal, Granting, Operating, burst, state \in Burst, write_enable
  PROVE  /\ current = {0} /\ bus_request = request /\ Target = mem_addr
         /\ core_ready <=> Ready(bus_request)
<1>1. current = {0}
  BY Owner DEF Normal, Typing, TypeOK, Granting, VgaPort
<1>2. bus_request = request /\ Target = mem_addr
  BY <1>1, WiresNow DEF Normal, OwnerWires
<1>3. core_ready <=> Ready(bus_request)
  BY <1>1, <1>2, Wires DEF core_ready, PortReady, CorePort, Ready
<1> QED BY <1>1, <1>2, <1>3

LEMMA StoreFlowOpens ==
  ASSUME Normal, Polls, Granting, StoreFlow, Operating', write_enable', burst', bus_request',
         state = 0, bus_request, command' = "ACTIVE", state' = OpenState, Operating
  PROVE  StoreFlow'
<1>1. /\ pin_row' = RowOf(Target) /\ column_address' = ColumnOf(Target)
      /\ initial_column_address' = ColumnOf(Target)
      /\ write_enable' = AnyOf(current, writes)
  BY DEF Normal, RunClock
<1>2. current = {0}
  BY <1>1, BusWires, Owner DEF Normal, Typing, TypeOK
<1>3. ~Ready(bus_request)
  BY DEF Ready, Granting, Burst
<1>4. Target' = Target /\ current' = current
  BY <1>3, TargetMoves
<1>5. mem_addr' = Target
  BY <1>2, <1>4, WiresNow, WiresNext DEF Normal, OwnerWires
<1>6. ~(state' < AccessState)
  BY States
<1> QED BY <1>1, <1>5, <1>6 DEF StoreFlow, RowOf, ColumnOf

LEMMA StoreFlowRuns ==
  ASSUME Normal, Polls, Granting, Driving, StoreFlow, state' \in 6 .. OpenState,
         Operating, write_enable, burst, bus_request, bus_request', state \in 2 .. OpenState
  PROVE  StoreFlow'
<1>1. /\ state' = NextState(bus_request, AnyOf(current, last4s)) /\ command' = NextCommand(bus_request)
      /\ bus_request \in BOOLEAN /\ AnyOf(current, last4s) \in BOOLEAN
      /\ access' = Access
      /\ command' # "ACTIVE" => UNCHANGED <<pin_row, initial_column_address, write_enable>>
  BY NormalNext
<1>2. Numbers /\ Typing
  BY BurstNumbers DEF Normal
<1>3. ~Withdrawn(bus_request)
  BY DEF Withdrawn
<1>4. /\ state' = IF Jump5(AnyOf(current, last4s)) THEN 5 ELSE state - 1
      /\ command' = IF state = 5 THEN "TERMINATE"
                    ELSE IF state = 3 THEN "PRECHARGE"
                    ELSE IF state = AccessState THEN "WRITE" ELSE "NOP"
  <2>1. 4 + (IF write_enable THEN 1 ELSE 0) = 5
    OBVIOUS
  <2> QED BY <1>1, <1>2, <1>3, <2>1, InBurstNext
<1>5. ~Jump5(AnyOf(current, last4s)) /\ state' = state - 1 /\ state \in 7 .. OpenState
  BY <1>2, <1>4, States DEF Numbers
<1>6. state \in Burst /\ state # 1
  BY <1>5, States DEF Burst
<1>7. current = {0} /\ Target = mem_addr
  BY <1>6, WriterOwns
<1>8. /\ current' = current /\ Target \in Address
      /\ Ready(bus_request) => mem_addr' = (mem_addr + 1) % MemSize
      /\ ~Ready(bus_request) => mem_addr' = mem_addr
  <2>1. Target' = mem_addr' \/ current' # current
    BY <1>7, WiresNext DEF Normal, OwnerWires
  <2> QED BY <1>6, <1>7, <2>1, TargetMoves
<1>9. /\ pin_row = RowOf(mem_addr)
      /\ column_address = ColumnOf(mem_addr)
      /\ state >= AccessState => initial_column_address = ColumnOf(mem_addr)
      /\ state < AccessState =>
           /\ Access = "write"
           /\ ColumnNow(command, initial_column_address) + 1 = column_address
  BY <1>5, States DEF StoreFlow
<1>10. UNCHANGED <<pin_row, initial_column_address>>
  BY <1>1, <1>4
<1>11. column_address' = IF InBurst THEN (column_address + 1) % COLS ELSE column_address
  BY <1>4 DEF Normal, RunClock
<1>12. CASE state > AccessState
  <2>1. ~new_ready
    BY <1>5, <1>12, <1>2, States DEF Driving, Numbers
  <2>2. mem_addr' = mem_addr
    BY <1>8, <2>1 DEF Ready
  <2>3. column_address' = column_address
    <3>1. ~InBurst
      BY <1>2, <1>12, States DEF InBurst, Numbers
    <3> QED BY <1>11, <3>1
  <2>4. ~(state' < AccessState)
    BY <1>5, <1>12, States
  <2> QED BY <1>9, <1>10, <1>12, <2>2, <2>3, <2>4, <1>2, States DEF StoreFlow, RowOf, ColumnOf, Numbers
<1>13. CASE state <= AccessState
  <2>1. new_ready
    <3>1. CASE state = AccessState
      BY <3>1, States DEF Driving
    <3>2. CASE state # AccessState
      BY <1>5, <1>9, <1>13, <3>2, States DEF Driving
    <3> QED BY <3>1, <3>2
  <2>2. mem_addr' = (mem_addr + 1) % MemSize
    BY <1>8, <2>1 DEF Ready
  <2>3. InBurst /\ column_address # COLS - 1
    <3>1. InBurst
      BY <1>5, <1>13, States DEF InBurst
    <3> QED BY <1>5, <3>1 DEF Jump5
  <2>4. column_address + 1 < COLS /\ column_address' = column_address + 1
    BY <1>2, <1>11, <2>3, States DEF Numbers
  <2>5. RowOf(mem_addr') = RowOf(mem_addr) /\ ColumnOf(mem_addr') = ColumnOf(mem_addr) + 1
    BY <1>7, <1>8, <1>9, <2>2, <2>4, SameRowNext
  <2>6. Access' = "write" /\ ColumnNow(command, initial_column_address)' = column_address
    <3>1. CASE state = AccessState
      <4>1. command' = "WRITE"
        BY <1>4, <3>1, States
      <4> QED BY <1>9, <1>10, <3>1, <4>1, States DEF Access, AccessAfter, ColumnNow
    <3>2. CASE state # AccessState
      <4>1. command' = "NOP"
        BY <1>4, <1>5, <3>2
      <4>2. access' = "write" /\ ColumnNow(command, initial_column_address) + 1 = column_address
        BY <1>1, <1>5, <1>9, <1>13, <3>2, States
      <4>3. access_column' = (ColumnNow(command, initial_column_address) + 1) % COLS
        BY DEF Normal, Bus, ChipClock
      <4>4. access_column' = column_address
        BY <1>2, <4>2, <4>3, States DEF Numbers
      <4> QED BY <4>1, <4>2, <4>4 DEF Access, AccessAfter, ColumnNow
    <3> QED BY <3>1, <3>2
  <2>7. state' < AccessState
    BY <1>5, <1>13, States
  <2> QED BY <1>9, <1>10, <2>4, <2>5, <2>6, <2>7, States DEF StoreFlow, RowOf, ColumnOf
<1> QED BY <1>2, <1>12, <1>13, States DEF Numbers

LEMMA StepStoreFlow == ASSUME Normal, Polls, Granting, Driving, StoreFlow PROVE StoreFlow'
<1> SUFFICES ASSUME Operating', write_enable', burst', bus_request', state' \in 6 .. OpenState
    PROVE StoreFlow'
  BY DEF StoreFlow
<1>1. state' \in Burst
  BY States DEF Burst
<1>2. CASE state \in 2 .. OpenState /\ burst /\ Operating /\ state \in Burst
           /\ command' # "ACTIVE" /\ write_enable' = write_enable
  BY <1>1, <1>2, BurstBefore, StoreFlowRuns
<1>3. CASE state = 0 /\ command' = "ACTIVE" /\ state' = OpenState /\ Operating
  BY <1>1, <1>3, BurstBefore, StoreFlowOpens
<1> QED BY <1>1, <1>2, <1>3, BurstBefore

(***************************************************************************)
(* What the chip is about to make of the memory: the word on the data pins *)
(* is in its place.                                                        *)
(***************************************************************************)
Landed == IF Touches(command, "write")
          THEN [memory EXCEPT ![AddressNow(command, initial_column_address)] =
                  IF dq_out_mode THEN data_write ELSE Undriven]
          ELSE memory

LEMMA MemoryLands == Bus => memory' = Landed
BY DEF Bus, ChipClock, Landed

\* A writer is told "ready" in the middle states of a burst only.
WriterStates == Operating /\ write_enable /\ burst /\ new_ready => state \in 6 .. OpenState

LEMMA StepWriterStates == ASSUME Normal PROVE WriterStates'
<1> SUFFICES ASSUME write_enable', burst', new_ready' PROVE state' \in 6 .. OpenState
  BY DEF WriterStates
<1>1. /\ state' = NextState(bus_request, AnyOf(current, last4s)) /\ command' = NextCommand(bus_request)
      /\ bus_request \in BOOLEAN /\ AnyOf(current, last4s) \in BOOLEAN
      /\ command' # "ACTIVE" => write_enable' = write_enable
  BY NormalNext
<1>2. /\ new_ready' = IF write_enable THEN 6 < state /\ state < OpenState /\ ~Jump5(AnyOf(current, last4s))
                      ELSE 1 < state /\ new_delay > 3
      /\ command' # "ACTIVE" => burst' = (burst /\ bus_request)
  BY DEF Normal, RunClock
<1>3. Numbers /\ Typing
  BY BurstNumbers DEF Normal
<1>4. command' # "ACTIVE"
  <2>1. state = 0 => ~new_ready'
    <3>1. state = 0 => ~(6 < state /\ state < OpenState) /\ ~(1 < state)
      OBVIOUS
    <3> QED BY <1>2, <3>1
  <2>2. command' = "ACTIVE" => state \notin 2 .. OpenState
    BY <1>1, <1>3, InBurstNext
  <2>3. state \in {0, 1} \cup RefreshDone .. TopState => (command' = "ACTIVE" => state = 0)
    BY <1>1, <1>3, OutsideNext
  <2> QED BY <2>1, <2>2, <2>3, NormalNext
<1>5. /\ 6 < state /\ state < OpenState /\ ~Jump5(AnyOf(current, last4s))
      /\ burst /\ bus_request
  BY <1>1, <1>2, <1>4
<1>6. state \in 2 .. OpenState /\ ~Withdrawn(bus_request)
  <2>1. state \in 2 .. OpenState
    BY <1>3, <1>5, States DEF Numbers
  <2> QED BY <1>5, <2>1 DEF Withdrawn
<1>7. state' = state - 1
  BY <1>1, <1>3, <1>5, <1>6, InBurstNext
<1> QED BY <1>3, <1>5, <1>7, States DEF Numbers

\* The parts of the invariant that are about write bursts.
Storing == StoreFlow /\ LastOwner /\ WriterStates

LEMMA WriterReady ==
  ASSUME Inv, Storing, Polls, write_enable, Ready(bus_request), Operating
  PROVE  state \in 6 .. AccessState /\ state \in Burst /\ burst /\ bus_request /\ new_ready
<1>1. state \in 6 .. OpenState /\ burst /\ bus_request /\ new_ready
  BY DEF Ready, Storing, WriterStates
<1>2. state \in Nat
  BY PreviousTypes DEF Inv
<1>3. state > AccessState => ~new_ready
  BY <1>1, <1>2, States DEF Inv, Driving
<1> QED BY <1>1, <1>2, <1>3, States DEF Burst

(***************************************************************************)
(* A word the engine is told "ready" for is, in the next clock, on its way *)
(* to the address the engine counted.                                      *)
(***************************************************************************)
LEMMA Handed ==
  ASSUME Normal, Inv, Storing, Polls, core_ready, wren
  PROVE  /\ Landed' = [memory' EXCEPT ![mem_addr] = bus_data_write]
         /\ mem_addr \in Address
<1>1. current = {0} /\ Ready(bus_request) /\ request
  <2>1. 0 \in current /\ Ready(bus_request) /\ requests[0]
    BY DEF core_ready, PortReady, CorePort
  <2> QED BY <2>1, Owner, Wires DEF Inv, Typing, TypeOK
<1>2. burst /\ new_ready /\ bus_request
  BY <1>1 DEF Ready
<1>3. Operating
  BY <1>2 DEF Normal
<1>4. write_enable
  BY <1>1, <1>2, <1>3 DEF Inv, Granting, CorePort
<1>5. state \in 6 .. AccessState /\ state \in Burst
  BY <1>1, <1>3, <1>4, WriterReady
<1>6. /\ state' = NextState(bus_request, AnyOf(current, last4s)) /\ command' = NextCommand(bus_request)
      /\ bus_request \in BOOLEAN /\ AnyOf(current, last4s) \in BOOLEAN
      /\ access' = Access /\ open_row' = Row
      /\ command' # "ACTIVE" => UNCHANGED <<pin_row, initial_column_address, write_enable>>
  BY NormalNext
<1>7. Numbers /\ Typing /\ Target = mem_addr
  BY <1>1, BurstNumbers, WiresNow DEF Normal, OwnerWires
<1>8. command' = IF state = 5 THEN "TERMINATE"
                 ELSE IF state = 3 THEN "PRECHARGE"
                 ELSE IF state = AccessState THEN "WRITE" ELSE "NOP"
  <2>1. 4 + (IF write_enable THEN 1 ELSE 0) = 5 /\ ~Withdrawn(bus_request)
    BY <1>2, <1>4 DEF Withdrawn
  <2>2. state \in 2 .. OpenState
    BY <1>5, States
  <2> QED BY <1>6, <1>7, <2>1, <2>2, InBurstNext
<1>9. /\ pin_row = RowOf(mem_addr)
      /\ column_address = ColumnOf(mem_addr)
      /\ state >= AccessState => initial_column_address = ColumnOf(mem_addr)
      /\ state < AccessState =>
           /\ Access = "write"
           /\ ColumnNow(command, initial_column_address) + 1 = column_address
  BY <1>2, <1>3, <1>4, <1>5, States DEF Storing, StoreFlow
<1>10. open_row' = RowOf(mem_addr) /\ open_row' # Closed
  <2>1. Row # Closed
    BY <1>5, States, SameStates DEF Normal, S!RowInv, S!Row, Row, S!RowAfter, RowAfter
  <2> QED BY <1>6, <1>9, <2>1 DEF Normal, RowKnown
<1>11. /\ Access' = "write"
       /\ ColumnNow(command, initial_column_address)' = ColumnOf(mem_addr)
  <2>1. CASE state = AccessState
    <3>1. command' = "WRITE" /\ initial_column_address' = initial_column_address
      BY <1>6, <1>8, <2>1, States
    <3> QED BY <1>9, <2>1, <3>1, States DEF Access, AccessAfter, ColumnNow
  <2>2. CASE state # AccessState
    <3>1. command' = "NOP"
      BY <1>5, <1>8, <2>2
    <3>2. access' = "write" /\ ColumnNow(command, initial_column_address) + 1 = column_address
      BY <1>5, <1>6, <1>9, <2>2, States
    <3>3. access_column' = (ColumnNow(command, initial_column_address) + 1) % COLS
      BY DEF Normal, Bus, ChipClock
    <3>4. access_column' = column_address
      BY <1>7, <3>2, <3>3, States DEF Numbers
    <3> QED BY <1>9, <3>1, <3>2, <3>4 DEF Access, AccessAfter, ColumnNow
  <2> QED BY <2>1, <2>2
<1>12. dq_out_mode' /\ data_write' = bus_data_write
  <2>1. dq_out_mode' = (write_enable /\ Ready(bus_request))
        /\ data_write' = Selected(last_current, data_writes)
    BY DEF Normal, RunClock
  <2>2. last_current = {0}
    BY <1>1, <1>2, <1>3, <1>5 DEF Storing, LastOwner
  <2> QED BY <1>1, <1>4, <1>7, <2>1, <2>2, BusWires
<1>13. Touches(command, "write")'
  BY <1>10, <1>11 DEF Touches, Access
<1>14. AddressNow(command, initial_column_address)' = mem_addr
  <2>1. RowOf(mem_addr) \in Nat /\ mem_addr = COLS * RowOf(mem_addr) + ColumnOf(mem_addr)
    BY <1>7, Division DEF Numbers, Rows
  <2>2. COLS * RowOf(mem_addr) = RowOf(mem_addr) * COLS
    BY <2>1, States
  <2>3. AddressNow(command, initial_column_address)' = RowOf(mem_addr) * COLS + ColumnOf(mem_addr)
    BY <1>10, <1>11 DEF AddressNow
  <2> QED BY <2>1, <2>2, <2>3
<1> QED BY <1>7, <1>12, <1>13, <1>14 DEF Landed, Numbers

\* And nothing else is stored.
LEMMA NothingHanded ==
  ASSUME Normal, Inv, Inv', Polls, ~(core_ready /\ wren)
  PROVE  Landed' = memory'
<1>1. CASE Access' # "write"
  BY <1>1 DEF Landed, Touches, Access
<1>2. CASE Access' = "write"
  <2>1. write_enable' /\ state' \in 5 .. AccessState - 1
    BY <1>2 DEF Inv, Commands, Normal
  <2>2. dq_out_mode'
    BY <1>2, <2>1 DEF Inv, Driving, Normal
  <2>3. write_enable /\ Ready(bus_request)
    BY <2>2 DEF Normal, RunClock
  <2>4. Operating /\ burst /\ new_ready
    BY <2>3 DEF Ready, Normal
  <2>5. state \in Burst
    BY <2>4 DEF Inv, Granting
  <2>6. current = {0} /\ core_ready
    BY <2>3, <2>4, <2>5, WriterOwns DEF Inv
  <2>7. wren
    BY <2>3, <2>4, <2>5, <2>6 DEF Inv, Granting, CorePort
  <2> QED BY <2>6, <2>7
<1> QED BY <1>1, <1>2

LEMMA StepStoring == ASSUME Normal, Inv, Polls, Storing PROVE Storing'
BY StepStoreFlow, StepLastOwner, StepWriterStates DEF Storing, Inv
-----------------------------------------------------------------------------
(* Addresses that wrap, lines and cells. *)

LEMMA Wrapped ==
  \A n \in Nat \ {0} : \A x \in 0 .. (2 * n) - 1 : x % n = IF x < n THEN x ELSE x - n
OBVIOUS

LEMMA Onward ==
  \A n \in Nat \ {0} : \A a \in 0 .. n - 1 : \A i \in 0 .. n - 2 :
    (((a + 1) % n) + i) % n = (a + (i + 1)) % n
<1> TAKE n \in Nat \ {0}
<1> TAKE a \in 0 .. n - 1
<1> TAKE i \in 0 .. n - 2
<1>1. (a + 1) % n = IF a + 1 < n THEN a + 1 ELSE 0
  <2>1. a + 1 \in 0 .. (2 * n) - 1 /\ (a + 1 < n \/ (a + 1) - n = 0)
    OBVIOUS
  <2> QED BY <2>1, Wrapped
<1>2. CASE a + 1 < n
  BY <1>1, <1>2
<1>3. CASE a + 1 = n
  <2>1. (a + (i + 1)) % n = i
    <3>1. a + (i + 1) \in 0 .. (2 * n) - 1 /\ ~(a + (i + 1) < n) /\ (a + (i + 1)) - n = i
      BY <1>3
    <3> QED BY <3>1, Wrapped
  <2>2. (0 + i) % n = i
    OBVIOUS
  <2> QED BY <1>1, <1>3, <2>1, <2>2
<1> QED BY <1>2, <1>3

\* The offset of a place from another, as Copied counts it.
LEMMA Offset ==
  ASSUME NEW n \in Nat \ {0}, NEW a \in 0 .. n - 1, NEW to \in 0 .. n - 1
  PROVE  /\ (a + n - to) % n \in 0 .. n - 1
         /\ (to + ((a + n - to) % n)) % n = a
<1>1. a + n - to \in 0 .. (2 * n) - 1
  OBVIOUS
<1>2. (a + n - to) % n = IF a + n - to < n THEN a + n - to ELSE a - to
  <2>1. (a + n - to) - n = a - to
    OBVIOUS
  <2> QED BY <1>1, <2>1, Wrapped
<1>3. CASE a + n - to < n
  <2>1. to + (a + n - to) = a + n
    OBVIOUS
  <2>2. (a + n) % n = a
    BY Wrapped
  <2> QED BY <1>2, <1>3, <2>1, <2>2
<1>4. CASE ~(a + n - to < n)
  <2>1. to + (a - to) = a /\ a % n = a
    OBVIOUS
  <2> QED BY <1>2, <1>4, <2>1
<1> QED BY <1>3, <1>4

LEMMA OffsetOf ==
  ASSUME NEW n \in Nat \ {0}, NEW to \in 0 .. n - 1, NEW i \in 0 .. n - 1
  PROVE  (((to + i) % n) + n - to) % n = i /\ (to + i) % n \in 0 .. n - 1
<1>1. (to + i) % n = IF to + i < n THEN to + i ELSE (to + i) - n
  <2>1. to + i \in 0 .. (2 * n) - 1
    OBVIOUS
  <2> QED BY <2>1, Wrapped
<1>2. CASE to + i < n
  <2>1. to + i + n - to = i + n
    OBVIOUS
  <2>2. (i + n) % n = i
    BY Wrapped
  <2> QED BY <1>1, <1>2, <2>1, <2>2
<1>3. CASE ~(to + i < n)
  <2>1. ((to + i) - n) + n - to = i /\ i % n = i
    OBVIOUS
  <2> QED BY <1>1, <1>3, <2>1
<1> QED BY <1>2, <1>3

\* The places of a block of count words.
LEMMA BlockPlaces ==
  ASSUME NEW n \in Nat \ {0}, NEW to \in 0 .. n - 1, NEW count1 \in 0 .. n, NEW a \in 0 .. n - 1
  PROVE  (a + n - to) % n < count1 <=> \E i \in 0 .. count1 - 1 : a = (to + i) % n
<1>1. ASSUME (a + n - to) % n < count1
      PROVE  \E i \in 0 .. count1 - 1 : a = (to + i) % n
  <2>1. (a + n - to) % n \in 0 .. n - 1 /\ (to + ((a + n - to) % n)) % n = a
    BY Offset
  <2>2. (a + n - to) % n \in 0 .. count1 - 1
    BY <1>1, <2>1
  <2> QED BY <2>1, <2>2
<1>2. ASSUME NEW i \in 0 .. count1 - 1, a = (to + i) % n
      PROVE  (a + n - to) % n < count1
  <2>1. i \in 0 .. n - 1
    OBVIOUS
  <2>2. (a + n - to) % n = i
    BY <1>2, <2>1, OffsetOf
  <2> QED BY <2>2
<1> QED BY <1>1, <1>2

After(l) == (l + 1) % Lines
Before(l) == (l + (Lines - 1)) % Lines

LEMMA EvenLines == Lines \in Nat /\ Lines >= 2 /\ Lines % 2 = 0
BY LinesAssumption

LEMMA LineSteps ==
  \A l \in Line : /\ After(l) \in Line /\ Before(l) \in Line
                  /\ Before(After(l)) = l /\ After(Before(l)) = l
                  /\ After(l) % 2 = 1 - (l % 2)
<1> TAKE l \in Line
<1>1. After(l) = IF l + 1 < Lines THEN l + 1 ELSE 0
  BY Wrapped, EvenLines DEF After, Line
<1>2. \A m \in Line : Before(m) = IF m = 0 THEN Lines - 1 ELSE m - 1
  <2> TAKE m \in Line
  <2>1. m + (Lines - 1) \in 0 .. (2 * Lines) - 1 /\ Lines \in Nat \ {0}
    BY EvenLines DEF Line
  <2>2. Before(m) = IF m + (Lines - 1) < Lines THEN m + (Lines - 1) ELSE (m + (Lines - 1)) - Lines
    BY <2>1, Wrapped DEF Before
  <2> QED BY <2>2, EvenLines DEF Line
<1>3. \A m \in Line : After(m) = IF m + 1 < Lines THEN m + 1 ELSE 0
  BY Wrapped, EvenLines DEF After, Line
<1>4. After(l) \in Line /\ Before(l) \in Line
  BY <1>1, <1>2, EvenLines DEF Line
<1>5. Before(After(l)) = l /\ After(Before(l)) = l
  BY <1>2, <1>3, <1>4, EvenLines DEF Line
<1>6. After(l) % 2 = 1 - (l % 2)
  BY <1>1, EvenLines DEF Line
<1> QED BY <1>4, <1>5, <1>6

LEMMA Cells ==
  \A l \in Line, k \in Lane : /\ (4 * l) + k \in CacheAddress
                              /\ LineOf((4 * l) + k) = l /\ LaneOf((4 * l) + k) = k
BY EvenLines DEF Line, Lane, CacheAddress, LineOf, LaneOf

LEMMA CellPlaces ==
  \A x \in CacheAddress : /\ LineOf(x) \in Line /\ LaneOf(x) \in Lane
                          /\ x = (4 * LineOf(x)) + LaneOf(x)
BY EvenLines DEF Line, Lane, CacheAddress, LineOf, LaneOf

LEMMA CellNext ==
  \A l \in Line, k \in Lane :
    ((4 * l) + k + 1) % (4 * Lines) = IF k = 3 THEN 4 * After(l) ELSE (4 * l) + (k + 1)
<1> TAKE l \in Line, k \in Lane
<1>1. After(l) = IF l + 1 < Lines THEN l + 1 ELSE 0
  BY Wrapped, EvenLines DEF After, Line
<1>2. (4 * l) + k + 1 \in 0 .. (2 * (4 * Lines)) - 1 /\ 4 * Lines \in Nat \ {0}
  BY EvenLines DEF Line, Lane
<1>3. ((4 * l) + k + 1) % (4 * Lines) = IF (4 * l) + k + 1 < 4 * Lines THEN (4 * l) + k + 1
                                                                       ELSE ((4 * l) + k + 1) - (4 * Lines)
  BY <1>2, Wrapped
<1> QED BY <1>1, <1>3, EvenLines DEF Line, Lane

-----------------------------------------------------------------------------
(* The engine's part of the invariant. *)

\* A cell the program leaves alone while a transfer goes on.
Kept(x) == \A use \in CoreUse : "write" \in use => x # CoreCell

(***************************************************************************)
(* What a program has to keep to: it waits for flag m, no instruction both *)
(* reads and writes the cache, and it moves blocks of at least one word,   *)
(* no longer than the cache or the memory, into whose cells it does not    *)
(* store meanwhile.                                                        *)
(***************************************************************************)
Program ==
  /\ Polls
  /\ \A use \in CoreUse : ~Collides(use)
  /\ \A op \in Operations :
       /\ op.count >= 1 /\ op.count <= 4 * Lines /\ op.count <= MemSize
       /\ \A i \in 0 .. op.count - 1 : Kept((op.cell + i) % (4 * Lines))

\* The line buf1 collects, the lines of the next word to be sent and received.
SameLine == cache_line % 2 = read_reload_buf
Collecting == IF SameLine THEN cache_line ELSE After(cache_line)
SendLine == IF write_wait_to_start = 2 THEN cache_line ELSE Before(cache_line)
ReceiveLine == IF bi = 0 /\ ~read_wait_to_start THEN After(Collecting) ELSE Collecting

\* The cells and the addresses of the words that are left.
HereLine == IF wren THEN SendLine ELSE ReceiveLine
Here == (4 * HereLine) + bi
CellAt(i) == (Here + i) % (4 * Lines)
AddressAt(i) == (mem_addr + i) % MemSize
Rest == 0 .. count - 1

ToSend(a) == sdram_is_running /\ wren /\ \E i \in Rest : a = AddressAt(i)
ToReceive(x) == sdram_is_running /\ ~wren /\ \E i \in Rest : x = CellAt(i)

\* Received words on their way to the cache.
Held(x) == \/ \E k \in cache_wen : x = (4 * cache_line) + k
           \/ \E k \in wen1 : x = (4 * Collecting) + k

Counting ==
  /\ sdram_is_running => count \in 1 .. 4 * Lines /\ count <= MemSize
  /\ write_wait_to_start # 0 => wren /\ sdram_is_running
  /\ wren => wen1 = {} /\ cache_wen = {}

\* The words that are left go where the operation promises.
Planned ==
  sdram_is_running => \A i \in Rest : /\ Kept(CellAt(i))
                                      /\ want_memory[AddressAt(i)] = want_cache[CellAt(i)]

LEMMA Positions ==
  ASSUME Typing
  PROVE  /\ Collecting \in Line /\ HereLine \in Line /\ bi \in Lane
         /\ cache_line \in Line /\ read_reload_buf \in {0, 1}
         /\ Collecting % 2 = read_reload_buf
         /\ Here \in CacheAddress /\ mem_addr \in Address
         /\ CellAt(0) = Here /\ AddressAt(0) = mem_addr
<1>1. bi \in Lane /\ cache_line \in Line /\ read_reload_buf \in {0, 1} /\ mem_addr \in Address
  BY DEF Typing, TypeOK, ConnectorTypeOK
<1>2. Collecting \in Line
  BY <1>1, LineSteps DEF Collecting
<1>3. Collecting % 2 = read_reload_buf
  <2>1. cache_line % 2 \in {0, 1}
    BY <1>1, EvenLines DEF Line
  <2>2. After(cache_line) % 2 = 1 - (cache_line % 2)
    BY <1>1, LineSteps
  <2>3. CASE SameLine
    BY <2>3 DEF SameLine, Collecting
  <2>4. CASE ~SameLine
    <3>1. cache_line % 2 # read_reload_buf /\ Collecting = After(cache_line)
      BY <2>4 DEF SameLine, Collecting
    <3>2. 1 - (cache_line % 2) = read_reload_buf
      BY <1>1, <2>1, <3>1
    <3> QED BY <2>2, <3>1, <3>2
  <2> QED BY <2>3, <2>4
<1>4. HereLine \in Line
  BY <1>1, <1>2, LineSteps DEF HereLine, SendLine, ReceiveLine
<1>5. Here \in CacheAddress
  BY <1>1, <1>4, Cells DEF Here
<1>6. CellAt(0) = Here /\ AddressAt(0) = mem_addr
  BY <1>1, <1>5, EvenLines, Geometry DEF CellAt, AddressAt, CacheAddress, Address
<1> QED BY <1>1, <1>2, <1>3, <1>4, <1>5, <1>6

LEMMA PositionsNow ==
  Typing => /\ Here \in CacheAddress /\ mem_addr \in Address /\ count \in 0 .. CountMod - 1
            /\ CellAt(0) = Here /\ AddressAt(0) = mem_addr
BY Positions DEF Typing, TypeOK, ConnectorTypeOK

\* The transfer does not move on, or by one word.
Waits == /\ UNCHANGED <<wren, count, mem_addr, sdram_is_running>>
         /\ Here' = Here

Advances == /\ wren' = wren /\ sdram_is_running
            /\ mem_addr' = (mem_addr + 1) % MemSize
            /\ count' = (count + CountMod - 1) % CountMod
            /\ sdram_is_running' = (count \div 2 # 0)
            /\ Here' = (Here + 1) % (4 * Lines)

LEMMA WaitsPlaces ==
  ASSUME Waits
  PROVE  /\ \A i \in Nat : CellAt(i)' = CellAt(i) /\ AddressAt(i)' = AddressAt(i)
         /\ Rest' = Rest
BY DEF Waits, CellAt, AddressAt, Rest

LEMMA AdvancesPlaces ==
  ASSUME Typing, Counting, Advances
  PROVE  /\ count \in 1 .. 4 * Lines /\ count \in 1 .. MemSize
         /\ sdram_is_running' => count' = count - 1 /\ count' >= 1
         /\ count > 1 => sdram_is_running'
         /\ \A i \in 0 .. count - 2 : CellAt(i)' = CellAt(i + 1) /\ AddressAt(i)' = AddressAt(i + 1)
<1>1. count \in 1 .. 4 * Lines /\ count \in 1 .. MemSize /\ count \in 0 .. CountMod - 1
      /\ Here \in CacheAddress /\ mem_addr \in Address
  BY PositionsNow, EvenLines, Geometry DEF Counting, Advances
<1>2. count' = count - 1
  <2>1. count + CountMod - 1 \in 0 .. (2 * CountMod) - 1 /\ CountMod \in Nat \ {0}
        /\ ~(count + CountMod - 1 < CountMod) /\ (count + CountMod - 1) - CountMod = count - 1
    BY <1>1, Geometry
  <2> QED BY <2>1, Wrapped DEF Advances
<1>3. sdram_is_running' <=> count > 1
  <2>1. count \div 2 # 0 <=> count > 1
    BY <1>1, Geometry
  <2> QED BY <2>1 DEF Advances
<1>4. \A i \in 0 .. count - 2 : AddressAt(i)' = AddressAt(i + 1)
  <2> TAKE i \in 0 .. count - 2
  <2>1. mem_addr \in 0 .. MemSize - 1 /\ i \in 0 .. MemSize - 2 /\ MemSize \in Nat \ {0}
    BY <1>1, Geometry DEF Address
  <2>2. (((mem_addr + 1) % MemSize) + i) % MemSize = (mem_addr + (i + 1)) % MemSize
    BY <2>1, Onward
  <2> QED BY <2>2 DEF Advances, AddressAt
<1>5. \A i \in 0 .. count - 2 : CellAt(i)' = CellAt(i + 1)
  <2> TAKE i \in 0 .. count - 2
  <2>1. Here \in 0 .. (4 * Lines) - 1 /\ i \in 0 .. (4 * Lines) - 2 /\ 4 * Lines \in Nat \ {0}
    BY <1>1, EvenLines DEF CacheAddress
  <2>2. (((Here + 1) % (4 * Lines)) + i) % (4 * Lines) = (Here + (i + 1)) % (4 * Lines)
    BY <2>1, Onward
  <2>3. CellAt(i)' = (Here' + i) % (4 * Lines)
    BY DEF CellAt
  <2> QED BY <2>2, <2>3 DEF Advances, CellAt
<1> QED BY <1>1, <1>2, <1>3, <1>4, <1>5, EvenLines

\* What it promises of the words that are left it still promises.
Keeps == /\ want_memory' = want_memory
         /\ \A x \in CacheAddress : Kept(x) => want_cache'[x] = want_cache[x]

LEMMA CellTyped == Typing => \A i \in Nat : CellAt(i) \in CacheAddress /\ AddressAt(i) \in Address
<1> SUFFICES ASSUME Typing, NEW i \in Nat PROVE CellAt(i) \in CacheAddress /\ AddressAt(i) \in Address
  OBVIOUS
<1>1. Here \in Nat /\ mem_addr \in Nat
  BY PositionsNow, EvenLines, Geometry DEF CacheAddress, Address
<1>2. \A n \in Nat \ {0}, a \in Nat : (a + i) % n \in 0 .. n - 1
  OBVIOUS
<1>3. 4 * Lines \in Nat \ {0} /\ MemSize \in Nat \ {0}
  BY EvenLines, Geometry
<1> QED BY <1>1, <1>2, <1>3 DEF CellAt, AddressAt, CacheAddress, Address

LEMMA PlannedMoves ==
  ASSUME Typing, Counting, Planned, Keeps, Waits \/ Advances
  PROVE  Planned' /\ (sdram_is_running' => count' \in 1 .. 4 * Lines /\ count' <= MemSize)
<1>1. CASE Waits
  <2>1. sdram_is_running' => sdram_is_running /\ count' = count
    BY <1>1 DEF Waits
  <2>2. ASSUME sdram_is_running', NEW i \in Rest'
        PROVE  Kept(CellAt(i)') /\ want_memory'[AddressAt(i)'] = want_cache'[CellAt(i)']
    <3>1. i \in Rest /\ i \in Nat /\ CellAt(i)' = CellAt(i) /\ AddressAt(i)' = AddressAt(i)
      <4>1. i \in Rest
        BY <1>1, <2>2, WaitsPlaces
      <4>2. i \in Nat
        BY <4>1, PositionsNow, Geometry DEF Rest
      <4> QED BY <1>1, <4>1, <4>2, WaitsPlaces
    <3>2. Kept(CellAt(i)) /\ want_memory[AddressAt(i)] = want_cache[CellAt(i)]
      BY <2>1, <2>2, <3>1 DEF Planned
    <3> QED BY <3>1, <3>2, CellTyped DEF Keeps
  <2> QED BY <2>1, <2>2 DEF Counting, Planned, Kept
<1>2. CASE Advances
  <2>1. /\ count \in 1 .. 4 * Lines /\ count \in 1 .. MemSize
        /\ sdram_is_running' => count' = count - 1 /\ count' >= 1
        /\ \A i \in 0 .. count - 2 : CellAt(i)' = CellAt(i + 1) /\ AddressAt(i)' = AddressAt(i + 1)
    BY <1>2, AdvancesPlaces
  <2>2. ASSUME sdram_is_running', NEW i \in Rest'
        PROVE  Kept(CellAt(i)') /\ want_memory'[AddressAt(i)'] = want_cache'[CellAt(i)']
    <3>1. i \in 0 .. count - 2 /\ i + 1 \in Rest /\ i + 1 \in Nat
      BY <2>1, <2>2, EvenLines DEF Rest
    <3>2. Kept(CellAt(i + 1)) /\ want_memory[AddressAt(i + 1)] = want_cache[CellAt(i + 1)]
      BY <1>2, <3>1 DEF Planned, Advances
    <3> QED BY <2>1, <3>1, <3>2, CellTyped DEF Keeps
  <2>3. sdram_is_running' => count' \in 1 .. 4 * Lines /\ count' <= MemSize
    BY <2>1, EvenLines, Geometry
  <2> QED BY <2>2, <2>3 DEF Planned, Kept
<1> QED BY <1>1, <1>2

\* The places that are left stay the same while it waits,
LEMMA WaitsRest ==
  ASSUME Typing, Waits
  PROVE  /\ \A a : ToSend(a)' <=> ToSend(a)
         /\ \A x : ToReceive(x)' <=> ToReceive(x)
<1>1. \A i \in Rest : i \in Nat
  BY PositionsNow, Geometry DEF Rest
<1> QED BY <1>1, WaitsPlaces DEF Waits, ToSend, ToReceive

\* and lose the word that moves.
LEMMA RestMoves ==
  ASSUME Typing, Counting, Waits \/ Advances
  PROVE  /\ \A a \in Address : ToSend(a)' => ToSend(a)
         /\ \A a \in Address : ToSend(a) => ToSend(a)' \/ (Advances /\ a = mem_addr)
         /\ \A x \in CacheAddress : ToReceive(x)' => ToReceive(x)
         /\ \A x \in CacheAddress : ToReceive(x) => ToReceive(x)' \/ (Advances /\ x = Here)
<1>1. CASE Waits
  BY <1>1, WaitsRest
<1>2. CASE Advances
  <2>1. /\ count \in 1 .. 4 * Lines /\ count \in 1 .. MemSize
        /\ sdram_is_running' => count' = count - 1 /\ count' >= 1
        /\ count > 1 => sdram_is_running'
        /\ \A i \in 0 .. count - 2 : CellAt(i)' = CellAt(i + 1) /\ AddressAt(i)' = AddressAt(i + 1)
    BY <1>2, AdvancesPlaces
  <2>2. CellAt(0) = Here /\ AddressAt(0) = mem_addr
    BY PositionsNow
  <2>3. \A i \in Rest : \/ i = 0
                        \/ /\ i - 1 \in 0 .. count - 2 /\ i - 1 \in Rest' /\ sdram_is_running'
                           /\ CellAt(i - 1)' = CellAt(i) /\ AddressAt(i - 1)' = AddressAt(i)
    <3> SUFFICES ASSUME NEW i \in Rest, i # 0
         PROVE  /\ i - 1 \in 0 .. count - 2 /\ i - 1 \in Rest' /\ sdram_is_running'
                /\ CellAt(i - 1)' = CellAt(i) /\ AddressAt(i - 1)' = AddressAt(i)
      OBVIOUS
    <3>1. i - 1 \in 0 .. count - 2 /\ (i - 1) + 1 = i /\ count > 1
      BY <2>1, EvenLines DEF Rest
    <3>2. CellAt(i - 1)' = CellAt((i - 1) + 1) /\ AddressAt(i - 1)' = AddressAt((i - 1) + 1)
      BY <2>1, <3>1
    <3>3. i - 1 \in Rest'
      BY <2>1, <3>1, EvenLines DEF Rest
    <3> QED BY <2>1, <3>1, <3>2, <3>3
  <2>4. \A i \in Rest' : sdram_is_running' =>
            i + 1 \in Rest /\ CellAt(i)' = CellAt(i + 1) /\ AddressAt(i)' = AddressAt(i + 1)
    <3> SUFFICES ASSUME NEW i \in Rest', sdram_is_running'
         PROVE  i + 1 \in Rest /\ CellAt(i)' = CellAt(i + 1) /\ AddressAt(i)' = AddressAt(i + 1)
      OBVIOUS
    <3>1. i \in 0 .. count - 2 /\ i + 1 \in Rest
      BY <2>1, EvenLines DEF Rest
    <3> QED BY <2>1, <3>1
  <2>5. wren' = wren /\ sdram_is_running
    BY <1>2 DEF Advances
  <2>6. \A a : ToSend(a)' => ToSend(a)
    BY <2>4, <2>5 DEF ToSend
  <2>7. \A x : ToReceive(x)' => ToReceive(x)
    BY <2>4, <2>5 DEF ToReceive
  <2>8. \A a : ToSend(a) => ToSend(a)' \/ a = mem_addr
    BY <2>2, <2>3, <2>5 DEF ToSend
  <2>9. \A x : ToReceive(x) => ToReceive(x)' \/ x = Here
    BY <2>2, <2>3, <2>5 DEF ToReceive
  <2> QED BY <1>2, <2>6, <2>7, <2>8, <2>9
<1> QED BY <1>1, <1>2

\* Memory and command memory have what is not left to be sent, the cache what
\* is not left to be received nor on its way.
MemoryDone == \A a \in Address : ToSend(a) \/ Landed[a] = want_memory[a]
CodePlace(c) == (CodeRow * COLS) + c
CodeDone == \A c \in Column : /\ ToSend(CodePlace(c)) => want_code[c] = want_memory[CodePlace(c)]
                              /\ ToSend(CodePlace(c)) \/ code[c] = want_code[c]
CacheDone == \A x \in CacheAddress : ToReceive(x) \/ Held(x) \/ cache[x] = want_cache[x]

\* The line buffers of a transfer from memory, and of one to memory: Warm once
\* the burst is open, when buf1 has been fetched.
Buffers ==
  /\ \A k \in cache_wen : /\ Kept((4 * cache_line) + k)
                          /\ buf0[k] = want_cache[(4 * cache_line) + k]
  /\ \A k \in wen1 : /\ Kept((4 * Collecting) + k)
                     /\ buf1[k] = want_cache[(4 * Collecting) + k]

Holds(buf, l) == \A k \in Lane : Kept((4 * l) + k) => buf[k] = want_cache[(4 * l) + k]
Warm == current = {CorePort} /\ burst /\ state \in Burst
Fetched ==
  wren /\ sdram_is_running =>
    /\ write_wait_to_start = 1 => Holds(sdram_rdata, Before(cache_line))
    /\ write_wait_to_start = 0 =>
         /\ Holds(buf0, Before(cache_line))
         /\ bi >= 1 => Holds(sdram_rdata, cache_line)
         /\ bi >= 2 /\ Warm => Holds(buf1, cache_line)

Exact ==
  phase = "working" =>
    /\ Operating
    /\ Counting /\ Planned /\ MemoryDone /\ CodeDone /\ CacheDone /\ Buffers /\ Fetched

\* The three memories and what they are to hold are functions.
Shapes ==
  /\ memory = [a \in Address |-> memory[a]] /\ want_memory = [a \in Address |-> want_memory[a]]
  /\ cache = [x \in CacheAddress |-> cache[x]]
  /\ want_cache = [x \in CacheAddress |-> want_cache[x]]
  /\ code = [c \in Column |-> code[c]] /\ want_code = [c \in Column |-> want_code[c]]

\* A clock in which the engine works on.
Going(use) ==
  /\ Normal /\ Inv /\ Inv' /\ Storing /\ Shapes /\ Exact /\ phase = "working"
  /\ use \in CoreUse /\ Engine(use) /\ Clock(use)

\* The contents of a cell after a clock in which the core may store to its own.
CellAfter(use, x, before) == IF "write" \in use /\ x = CoreCell THEN CoreData ELSE before

LEMMA CacheMoves ==
  ASSUME Program, Typing, NEW use \in CoreUse, CoreCache(use)
  PROVE  /\ sdram_en("read" \in use, core_wen(use))
         /\ sdram_rdata' = LineAt(cache_line)
         /\ \A x \in CacheAddress :
              cache'[x] = CellAfter(use, x, IF LineOf(x) = cache_line /\ LaneOf(x) \in cache_wen
                                            THEN buf0[LaneOf(x)] ELSE cache[x])
<1>1. ~("read" \in use /\ "write" \in use)
  <2>1. use \subseteq {"read", "write"} /\ use # {"read", "write"}
    BY SystemAssumption DEF Program, Collides
  <2> QED BY <2>1
<1>2. /\ sdram_en("read" \in use, core_wen(use))
      /\ sdram_port("read" \in use, core_wen(use)) # "none"
  BY <1>1 DEF sdram_en, sdram_port, core_wen
<1>3. CacheClock("read" \in use, CoreCell, core_wen(use), CoreCell,
                 [k \in Lane |-> CoreData], cache_wen, cache_line, buf0)
  BY DEF CoreCache
<1>4. sdram_rdata' = LineAt(cache_line)
  BY <1>2, <1>3 DEF CacheClock
<1>5. ASSUME NEW x \in CacheAddress
      PROVE  cache'[x] = CellAfter(use, x, IF LineOf(x) = cache_line /\ LaneOf(x) \in cache_wen
                                           THEN buf0[LaneOf(x)] ELSE cache[x])
  <2>0. DOMAIN cache = CacheAddress
    BY DEF Typing, TypeOK
  <2>1. CASE "write" \in use
    <3>1. core_wen(use) = {0} /\ core_wen(use) # {}
      BY <2>1 DEF core_wen
    <3>2. CoreCell \in CacheAddress
      BY SystemAssumption
    <3>3. CoreLanes({0}, CoreCell) = {LaneOf(CoreCell)}
      BY DEF CoreLanes
    <3>4. LineOf(x) = LineOf(CoreCell) /\ LaneOf(x) \in {LaneOf(CoreCell)} <=> x = CoreCell
      BY <3>2, CellPlaces
    <3>5. x = CoreCell => CoreWord([k \in Lane |-> CoreData], CoreCell, LaneOf(x)) = CoreData
      <4>1. LaneOf(x) \in Lane /\ 0 \in Lane
        BY CellPlaces DEF Lane
      <4> QED BY <4>1 DEF CoreWord
    <3>6. cache'[x] = IF LineOf(x) = LineOf(CoreCell) /\ LaneOf(x) \in CoreLanes({0}, CoreCell)
                      THEN CoreWord([k \in Lane |-> CoreData], CoreCell, LaneOf(x))
                      ELSE IF LineOf(x) = cache_line /\ LaneOf(x) \in cache_wen
                      THEN buf0[LaneOf(x)] ELSE cache[x]
      BY <1>2, <1>3, <2>0, <3>1 DEF CacheClock
    <3> QED BY <2>1, <3>3, <3>4, <3>5, <3>6 DEF CellAfter
  <2>2. CASE "write" \notin use
    <3>1. core_wen(use) = {}
      BY <2>2 DEF core_wen
    <3>2. cache' = IF cache_wen # {}
                   THEN [a \in DOMAIN cache |->
                           IF LineOf(a) = cache_line /\ LaneOf(a) \in cache_wen
                           THEN buf0[LaneOf(a)] ELSE cache[a]]
                   ELSE cache
      BY <1>3, <3>1 DEF CacheClock
    <3>3. cache'[x] = IF LineOf(x) = cache_line /\ LaneOf(x) \in cache_wen
                      THEN buf0[LaneOf(x)] ELSE cache[x]
      BY <2>0, <3>2
    <3> QED BY <2>2, <3>3 DEF CellAfter
  <2> QED BY <2>1, <2>2
<1> QED BY <1>2, <1>4, <1>5

LEMMA StoredCell ==
  ASSUME NEW use, NEW contents, DOMAIN contents = CacheAddress, NEW x \in CacheAddress
  PROVE  Stored(use, contents)[x] = CellAfter(use, x, contents[x])
BY SystemAssumption DEF Stored, CellAfter

LEMMA KeptCell ==
  ASSUME NEW use \in CoreUse, NEW x, NEW before, Kept(x)
  PROVE  CellAfter(use, x, before) = before
BY DEF Kept, CellAfter

\* What happens around the engine in such a clock.
LEMMA GoingIs ==
  ASSUME Program, NEW use, Going(use)
  PROVE  /\ Typing /\ Typing' /\ Operating /\ Polls /\ Keeps
         /\ UNCHANGED <<phase, want_memory, want_code>>
         /\ \A x \in CacheAddress : want_cache'[x] = CellAfter(use, x, want_cache[x])
         /\ sdram_rdata' = LineAt(cache_line)
         /\ \A x \in CacheAddress :
              cache'[x] = CellAfter(use, x, IF LineOf(x) = cache_line /\ LaneOf(x) \in cache_wen
                                            THEN buf0[LaneOf(x)] ELSE cache[x])
         /\ memory' = Landed
         /\ code' = IF request /\ wren /\ RowOf(mem_addr) = CodeRow
                    THEN [code EXCEPT ![ColumnOf(mem_addr)] = bus_data_write] ELSE code
<1>1. use \in CoreUse /\ Typing /\ Typing' /\ Operating /\ Polls /\ Engine(use) /\ Clock(use)
  BY DEF Going, Inv, Exact, Program
<1>2. want_cache' = Stored(use, want_cache) /\ UNCHANGED <<phase, want_memory, want_code>>
  BY <1>1 DEF Going, Engine
<1>3. DOMAIN want_cache = CacheAddress
  BY DEF Going, Shapes
<1>4. \A x \in CacheAddress : want_cache'[x] = CellAfter(use, x, want_cache[x])
  BY <1>2, <1>3, StoredCell
<1>5. Keeps
  BY <1>1, <1>2, <1>4, KeptCell DEF Keeps
<1>6. memory' = Landed
  BY <1>1, MemoryLands DEF Clock
<1>7. CoreCache(use) /\ CommandMemory
  BY <1>1 DEF Clock
<1>8. /\ sdram_rdata' = LineAt(cache_line)
      /\ \A x \in CacheAddress :
           cache'[x] = CellAfter(use, x, IF LineOf(x) = cache_line /\ LaneOf(x) \in cache_wen
                                         THEN buf0[LaneOf(x)] ELSE cache[x])
  BY <1>1, <1>7, CacheMoves
<1> QED BY <1>1, <1>2, <1>4, <1>5, <1>6, <1>7, <1>8 DEF CommandMemory

LEMMA EngineGoes ==
  ASSUME Program, NEW use, Going(use)
  PROVE  /\ sdram_en("read" \in use, core_wen(use))
         /\ Proceed(core_ready, sdram_en("read" \in use, core_wen(use)), sdram_rdata, data_read)
         /\ Typing
<1>1. use \in CoreUse /\ Typing /\ CoreCache(use) /\ Engine(use)
  BY DEF Going, Inv, Clock
<1> QED BY <1>1, CacheMoves DEF Engine

LEMMA FetchIs ==
  ASSUME Program, NEW use, Going(use), write_wait_to_start # 0
  PROVE  /\ UNCHANGED <<mem_addr, count, wren, buf1, bi, wen1, cache_wen, read_wait_to_start,
                        read_reload_buf, sdram_is_running>>
         /\ \/ /\ write_wait_to_start = 2 /\ write_wait_to_start' = 1
               /\ cache_line' = After(cache_line) /\ buf0' = buf0
            \/ /\ write_wait_to_start = 1 /\ write_wait_to_start' = 0
               /\ cache_line' = cache_line /\ buf0' = sdram_rdata
<1>1. /\ sdram_en("read" \in use, core_wen(use)) /\ Typing
      /\ Proceed(core_ready, sdram_en("read" \in use, core_wen(use)), sdram_rdata, data_read)
  BY EngineGoes
<1>2. FetchFirstLine(sdram_en("read" \in use, core_wen(use)), sdram_rdata)
  BY <1>1 DEF Proceed, Transfer
<1>3. write_wait_to_start \in {1, 2}
  BY <1>1 DEF Typing, TypeOK, ConnectorTypeOK
<1> QED BY <1>1, <1>2, <1>3 DEF FetchFirstLine, NextLine, After

LEMMA SendIs ==
  ASSUME Program, NEW use, Going(use), write_wait_to_start = 0, wren
  PROVE  /\ CountWord(core_ready)
         /\ UNCHANGED <<wren, wen1, cache_wen, write_wait_to_start>>
         /\ buf1' = sdram_rdata
         /\ IF core_ready /\ bi = 3 THEN buf0' = buf1 /\ cache_line' = After(cache_line)
                                    ELSE UNCHANGED <<buf0, cache_line>>
<1>1. /\ sdram_en("read" \in use, core_wen(use)) /\ Typing
      /\ Proceed(core_ready, sdram_en("read" \in use, core_wen(use)), sdram_rdata, data_read)
  BY EngineGoes
<1>2. Transfer(core_ready, sdram_en("read" \in use, core_wen(use)), sdram_rdata, data_read)
  BY <1>1 DEF Proceed, FetchFirstLine
<1>3. Send(core_ready, sdram_en("read" \in use, core_wen(use)), sdram_rdata)
  BY <1>2 DEF Transfer, Receive
<1> QED BY <1>1, <1>2, <1>3 DEF Transfer, Send, NextLine, After

NewLine == core_ready /\ bi = 0 /\ ~read_wait_to_start

LEMMA ReceiveIs ==
  ASSUME Program, NEW use, Going(use), write_wait_to_start = 0, ~wren
  PROVE  /\ CountWord(core_ready)
         /\ UNCHANGED <<wren, write_wait_to_start>>
         /\ buf1' = IF core_ready THEN [buf1 EXCEPT ![bi] = data_read] ELSE buf1
         /\ read_wait_to_start' = (read_wait_to_start /\ ~core_ready)
         /\ read_reload_buf' = IF NewLine THEN 1 - read_reload_buf ELSE read_reload_buf
         /\ wen1' = IF NewLine THEN {0}
                    ELSE IF core_ready THEN wen1 \cup {bi}
                    ELSE IF SameLine THEN {} ELSE wen1
         /\ buf0' = buf1 /\ cache_wen' = wen1 /\ cache_line' = Collecting
<1>1. /\ sdram_en("read" \in use, core_wen(use)) /\ Typing
      /\ Proceed(core_ready, sdram_en("read" \in use, core_wen(use)), sdram_rdata, data_read)
  BY EngineGoes
<1>2. Transfer(core_ready, sdram_en("read" \in use, core_wen(use)), sdram_rdata, data_read)
  BY <1>1 DEF Proceed, FetchFirstLine
<1>3. Receive(core_ready, sdram_en("read" \in use, core_wen(use)), data_read)
  BY <1>2 DEF Transfer, Send
<1>4. CountWord(core_ready) /\ UNCHANGED <<wren, write_wait_to_start>>
  BY <1>2 DEF Transfer
<1>5. /\ buf1' = IF core_ready THEN [buf1 EXCEPT ![bi] = data_read] ELSE buf1
      /\ read_wait_to_start' = (read_wait_to_start /\ ~core_ready)
      /\ read_reload_buf' = IF NewLine THEN 1 - read_reload_buf ELSE read_reload_buf
  BY <1>3 DEF Receive, NewLine
<1>6. wen1' = IF NewLine THEN {0}
              ELSE IF core_ready THEN wen1 \cup {bi}
              ELSE IF SameLine THEN {} ELSE wen1
  BY <1>1, <1>3 DEF Receive, NewLine, SameLine
<1>7. buf0' = buf1 /\ cache_wen' = wen1 /\ cache_line' = Collecting
  BY <1>1, <1>3 DEF Receive, SameLine, Collecting, NextLine, After
<1> QED BY <1>4, <1>5, <1>6, <1>7

-----------------------------------------------------------------------------
(* The places. *)

\* Only a running transfer of which a request is out is told "ready".
LEMMA WordWaits == ASSUME Inv, core_ready
  PROVE  /\ request /\ sdram_is_running /\ write_wait_to_start = 0
         /\ current = {0} /\ bus_request /\ burst /\ Ready(bus_request)
<1>1. request
  BY CoreReadyRequests
<1>2. 0 \in current /\ Ready(bus_request)
  BY DEF core_ready, PortReady, CorePort
<1>3. current = {0}
  BY <1>2, Owner DEF Inv, Typing, TypeOK
<1> QED BY <1>1, <1>2, <1>3 DEF request, Ready

LEMMA CountMoves ==
  ASSUME Inv, CountWord(core_ready), UNCHANGED wren,
         Here' = IF core_ready THEN (Here + 1) % (4 * Lines) ELSE Here
  PROVE  /\ core_ready => Advances
         /\ ~core_ready => Waits
<1>1. CASE core_ready
  BY <1>1, WordWaits DEF CountWord, Advances
<1>2. CASE ~core_ready
  BY <1>2 DEF CountWord, Waits
<1> QED BY <1>1, <1>2

LEMMA FetchMoves ==
  ASSUME Program, NEW use, Going(use), write_wait_to_start # 0
  PROVE  Waits /\ wren /\ ~core_ready /\ ~request
<1>1. wren /\ ~request
  BY DEF Going, Exact, Counting, request
<1>2. ~core_ready
  BY <1>1, CoreReadyRequests
<1>3. Here' = Here
  <2>1. cache_line \in Line
    BY Positions DEF Going, Inv
  <2>2. wren' /\ bi' = bi
    BY <1>1, FetchIs
  <2>3. SendLine' = SendLine
    BY <2>1, FetchIs, LineSteps DEF SendLine
  <2> QED BY <1>1, <2>2, <2>3 DEF Here, HereLine
<1> QED BY <1>1, <1>2, <1>3, FetchIs DEF Waits

LEMMA SendMoves ==
  ASSUME Program, NEW use, Going(use), write_wait_to_start = 0, wren
  PROVE  /\ core_ready => Advances
         /\ ~core_ready => Waits
<1>1. /\ CountWord(core_ready)
      /\ UNCHANGED <<wren, write_wait_to_start>>
      /\ cache_line' = IF core_ready /\ bi = 3 THEN After(cache_line) ELSE cache_line
  BY SendIs
<1>2. cache_line \in Line /\ bi \in Lane /\ Before(cache_line) \in Line
  BY Positions, LineSteps DEF Going, Inv
<1>3. Here = (4 * Before(cache_line)) + bi /\ Here' = (4 * Before(cache_line')) + bi'
  BY <1>1 DEF Here, HereLine, SendLine
<1>4. Here' = IF core_ready THEN (Here + 1) % (4 * Lines) ELSE Here
  <2>1. CASE core_ready /\ bi = 3
    <3>1. bi' = 0
      BY <1>1, <2>1 DEF CountWord
    <3>2. Before(cache_line') = cache_line /\ After(Before(cache_line)) = cache_line
      BY <1>1, <1>2, <2>1, LineSteps
    <3>3. (Here + 1) % (4 * Lines) = 4 * cache_line
      BY <1>2, <1>3, <2>1, <3>2, CellNext
    <3> QED BY <1>2, <1>3, <2>1, <3>1, <3>2, <3>3, EvenLines DEF Line
  <2>2. CASE core_ready /\ bi # 3
    <3>1. bi' = bi + 1
      BY <1>1, <1>2, <2>2 DEF CountWord, Lane
    <3>2. (Here + 1) % (4 * Lines) = (4 * Before(cache_line)) + (bi + 1)
      BY <1>2, <1>3, <2>2, CellNext
    <3> QED BY <1>1, <1>3, <2>2, <3>1, <3>2
  <2>3. CASE ~core_ready
    BY <1>1, <1>3, <2>3 DEF CountWord
  <2> QED BY <2>1, <2>2, <2>3
<1> QED BY <1>1, <1>4, CountMoves DEF Going

LEMMA ReceiveMoves ==
  ASSUME Program, NEW use, Going(use), write_wait_to_start = 0, ~wren
  PROVE  /\ core_ready => Advances
         /\ ~core_ready => Waits
         /\ Collecting' = IF NewLine THEN After(Collecting) ELSE Collecting
         /\ Here = (4 * ReceiveLine) + bi
         /\ ReceiveLine = IF bi = 0 /\ ~read_wait_to_start THEN After(Collecting) ELSE Collecting
<1>1. /\ CountWord(core_ready)
      /\ UNCHANGED <<wren, write_wait_to_start>>
      /\ read_wait_to_start' = (read_wait_to_start /\ ~core_ready)
      /\ read_reload_buf' = IF NewLine THEN 1 - read_reload_buf ELSE read_reload_buf
      /\ cache_line' = Collecting
  BY ReceiveIs
<1>2. Collecting \in Line /\ bi \in Lane /\ Collecting % 2 = read_reload_buf /\ read_reload_buf \in {0, 1}
  BY Positions DEF Going, Inv
<1>3. Collecting' = IF NewLine THEN After(Collecting) ELSE Collecting
  <2>1. SameLine' <=> ~NewLine
    BY <1>1, <1>2 DEF SameLine
  <2> QED BY <1>1, <2>1 DEF Collecting
<1>4. Here = (4 * ReceiveLine) + bi /\ Here' = (4 * ReceiveLine') + bi'
  BY <1>1 DEF Here, HereLine
<1>5. Here' = IF core_ready THEN (Here + 1) % (4 * Lines) ELSE Here
  <2>1. CASE ~core_ready
    <3>1. ~NewLine /\ bi' = bi /\ (read_wait_to_start' <=> read_wait_to_start)
      BY <1>1, <2>1 DEF NewLine, CountWord
    <3> QED BY <1>3, <1>4, <2>1, <3>1 DEF ReceiveLine
  <2>2. CASE core_ready
    <3>1. ~read_wait_to_start' /\ bi' = (bi + 1) % 4
      BY <1>1, <2>2 DEF CountWord
    <3>2. ReceiveLine = Collecting' /\ ReceiveLine \in Line
      BY <1>2, <1>3, <2>2, LineSteps DEF ReceiveLine, NewLine
    <3>3. CASE bi = 3
      <4>1. bi' = 0 /\ ReceiveLine' = After(Collecting')
        BY <3>1, <3>3 DEF ReceiveLine
      <4>2. (Here + 1) % (4 * Lines) = 4 * After(ReceiveLine)
        BY <1>2, <1>4, <3>2, <3>3, CellNext
      <4>3. After(ReceiveLine) \in Nat
        BY <3>2, LineSteps, EvenLines DEF Line
      <4> QED BY <1>4, <2>2, <3>2, <4>1, <4>2, <4>3
    <3>4. CASE bi # 3
      <4>1. bi' = bi + 1 /\ bi' # 0
        BY <1>2, <3>1, <3>4 DEF Lane
      <4>2. ReceiveLine' = Collecting'
        BY <4>1 DEF ReceiveLine
      <4>3. (Here + 1) % (4 * Lines) = (4 * ReceiveLine) + (bi + 1)
        BY <1>2, <1>4, <3>2, <3>4, CellNext
      <4> QED BY <1>4, <2>2, <3>2, <4>1, <4>2, <4>3
    <3> QED BY <3>3, <3>4
  <2> QED BY <2>1, <2>2
<1> QED BY <1>1, <1>3, <1>4, <1>5, CountMoves DEF Going, ReceiveLine

-----------------------------------------------------------------------------
(* The memories. *)

LEMMA MemoryKept ==
  ASSUME Program, NEW use, Going(use), ~(core_ready /\ wren), Waits \/ (Advances /\ ~wren)
  PROVE  MemoryDone'
<1>1. Landed' = Landed /\ want_memory' = want_memory
  BY GoingIs, NothingHanded DEF Going
<1>2. Typing /\ Counting /\ MemoryDone
  BY GoingIs DEF Going, Exact
<1>3. \A a \in Address : ToSend(a) => ToSend(a)'
  <2>1. \A a : ToSend(a) => wren
    BY DEF ToSend
  <2>2. CASE Waits
    BY <1>2, <2>2, WaitsRest
  <2>3. CASE Advances /\ ~wren
    BY <2>1, <2>3
  <2> QED BY <2>2, <2>3
<1> QED BY <1>1, <1>2, <1>3 DEF MemoryDone

LEMMA MemorySent ==
  ASSUME Program, NEW use, Going(use), core_ready, wren, Advances,
         bus_data_write = want_memory[mem_addr]
  PROVE  MemoryDone'
<1>1. /\ Landed' = [memory' EXCEPT ![mem_addr] = bus_data_write] /\ mem_addr \in Address
      /\ want_memory' = want_memory /\ memory' = Landed
  BY GoingIs, Handed DEF Going
<1>2. Typing /\ Typing' /\ Counting /\ MemoryDone
  BY GoingIs DEF Going, Exact
<1>3. DOMAIN memory' = Address
  BY <1>2 DEF Typing, TypeOK
<1>4. \A a \in Address : ToSend(a) => ToSend(a)' \/ a = mem_addr
  BY <1>2, RestMoves
<1> QED BY <1>1, <1>2, <1>3, <1>4 DEF MemoryDone

LEMMA CodePlaces ==
  \A c \in Column : /\ CodePlace(c) \in Address
                    /\ RowOf(CodePlace(c)) = CodeRow /\ ColumnOf(CodePlace(c)) = c
<1> TAKE c \in Column
<1>1. CodeRow \in Rows /\ CodeRow \in Nat
  BY SystemAssumption DEF Rows
<1>2. CodePlace(c) = COLS * CodeRow + c
  BY <1>1, Geometry DEF CodePlace
<1> QED BY <1>1, <1>2, Places

\* The first word that is left.
LEMMA FirstLeft ==
  ASSUME Typing, Counting, Planned, sdram_is_running
  PROVE  /\ Kept(Here) /\ want_memory[mem_addr] = want_cache[Here]
         /\ wren => ToSend(mem_addr)
         /\ ~wren => ToReceive(Here)
<1>1. 0 \in Rest /\ CellAt(0) = Here /\ AddressAt(0) = mem_addr
  BY PositionsNow, EvenLines DEF Counting, Rest
<1> QED BY <1>1 DEF Planned, ToSend, ToReceive

LEMMA CodeMoves ==
  ASSUME Program, NEW use, Going(use), Waits \/ (Advances /\ (wren => request)),
         request /\ wren => bus_data_write = want_memory[mem_addr]
  PROVE  CodeDone'
<1>1. /\ want_memory' = want_memory /\ want_code' = want_code
      /\ code' = IF request /\ wren /\ RowOf(mem_addr) = CodeRow
                 THEN [code EXCEPT ![ColumnOf(mem_addr)] = bus_data_write] ELSE code
      /\ Typing /\ Counting /\ Planned /\ CodeDone /\ DOMAIN code = Column
  BY GoingIs DEF Going, Exact, Shapes
<1> SUFFICES ASSUME NEW c \in Column
    PROVE  /\ ToSend(CodePlace(c))' => want_code[c] = want_memory[CodePlace(c)]
           /\ ToSend(CodePlace(c))' \/ code'[c] = want_code[c]
  BY <1>1 DEF CodeDone, CodePlace
<1>2. CodePlace(c) \in Address /\ RowOf(CodePlace(c)) = CodeRow /\ ColumnOf(CodePlace(c)) = c
  BY CodePlaces
<1>3. /\ ToSend(CodePlace(c))' => ToSend(CodePlace(c))
      /\ ToSend(CodePlace(c)) => ToSend(CodePlace(c))' \/ (request /\ CodePlace(c) = mem_addr)
  <2>1. (\A a \in Address : ToSend(a)' => ToSend(a)) => (ToSend(CodePlace(c))' => ToSend(CodePlace(c)))
    BY <1>2 DEF ToSend, CodePlace
  <2>2. CASE Waits
    <3>1. \A a : ToSend(a)' <=> ToSend(a)
      BY <1>1, <2>2, WaitsRest
    <3> QED BY <3>1 DEF ToSend, CodePlace
  <2>3. CASE Advances /\ (wren => request)
    <3>1. /\ \A a \in Address : ToSend(a)' => ToSend(a)
          /\ \A a \in Address : ToSend(a) => ToSend(a)' \/ a = mem_addr
      BY <1>1, <2>3, RestMoves
    <3>2. \A a : ToSend(a) => wren
      BY DEF ToSend
    <3>3. ToSend(CodePlace(c)) => ToSend(CodePlace(c))' \/ CodePlace(c) = mem_addr
      BY <1>2, <3>1 DEF ToSend, CodePlace
    <3> QED BY <2>1, <2>3, <3>1, <3>2, <3>3
  <2> QED BY <2>2, <2>3
<1>4. /\ ToSend(CodePlace(c)) => want_code[c] = want_memory[CodePlace(c)]
      /\ ToSend(CodePlace(c)) \/ code[c] = want_code[c]
  BY <1>1 DEF CodeDone
<1>5. CASE request /\ wren /\ CodePlace(c) = mem_addr
  <2>1. ToSend(mem_addr)
    BY <1>1, <1>5, FirstLeft DEF request
  <2>2. code'[c] = bus_data_write
    BY <1>1, <1>2, <1>5
  <2> QED BY <1>3, <1>4, <1>5, <2>1, <2>2
<1>6. CASE ~(request /\ wren /\ CodePlace(c) = mem_addr)
  <2>1. code'[c] = code[c]
    <3>1. CASE request /\ wren /\ RowOf(mem_addr) = CodeRow
      <4>1. ColumnOf(mem_addr) # c
        <5>1. mem_addr \in Address
          BY <1>1, PositionsNow
        <5>2. /\ mem_addr = COLS * RowOf(mem_addr) + ColumnOf(mem_addr)
              /\ CodePlace(c) = COLS * RowOf(CodePlace(c)) + ColumnOf(CodePlace(c))
          BY <1>2, <5>1, Division
        <5> QED BY <1>2, <1>6, <3>1, <5>2
      <4> QED BY <1>1, <3>1, <4>1
    <3>2. CASE ~(request /\ wren /\ RowOf(mem_addr) = CodeRow)
      BY <1>1, <3>2
    <3> QED BY <3>1, <3>2
  <2>2. ToSend(CodePlace(c)) => ToSend(CodePlace(c))'
    <3>1. ToSend(CodePlace(c)) => wren
      BY DEF ToSend
    <3> QED BY <1>3, <1>6, <3>1
  <2> QED BY <1>3, <1>4, <2>1, <2>2
<1> QED BY <1>5, <1>6

\* While a transfer to memory goes on the cache has what it is to hold.
LEMMA CacheKept ==
  ASSUME Program, NEW use, Going(use), wren, wren', UNCHANGED <<wen1, cache_wen>>
  PROVE  /\ CacheDone' /\ Buffers' /\ wen1' = {} /\ cache_wen' = {}
         /\ \A x \in CacheAddress : cache[x] = want_cache[x]
<1>1. wen1 = {} /\ cache_wen = {}
  BY GoingIs DEF Going, Exact, Counting
<1>2. \A x \in CacheAddress : cache[x] = want_cache[x]
  BY <1>1, GoingIs DEF Going, Exact, CacheDone, Held, ToReceive
<1>3. \A x \in CacheAddress : cache'[x] = want_cache'[x]
  BY <1>1, <1>2, GoingIs DEF CellAfter
<1> QED BY <1>1, <1>2, <1>3 DEF CacheDone, Buffers

-----------------------------------------------------------------------------
(* A transfer to memory. *)

LEMMA HoldsLater ==
  ASSUME Keeps, NEW l \in Line, NEW buf, Holds(buf, l)
  PROVE  \A k \in Lane : Kept((4 * l) + k) => buf[k] = want_cache'[(4 * l) + k]
BY Cells DEF Holds, Keeps

LEMMA HoldsLine ==
  ASSUME NEW l \in Line, \A x \in CacheAddress : cache[x] = want_cache[x]
  PROVE  Holds(LineAt(l), l)
BY Cells DEF Holds, LineAt

\* buf1 need not be right before the burst is open.
LEMMA ColdNext == ASSUME Normal, Inv, ~request PROVE ~Warm'
<1> SUFFICES ASSUME Warm' PROVE FALSE
  OBVIOUS
<1>1. bus_request /\ current' = current /\ current' = {0}
  BY BurstBefore DEF Warm, CorePort
<1> QED BY <1>1, WiresNow DEF Normal, OwnerWires

LEMMA ReadyWarm == ASSUME Inv, Operating, core_ready PROVE Warm
BY WordWaits DEF Inv, Granting, Warm, Ready, CorePort

LEMMA StepFetch ==
  ASSUME Program, NEW use, Going(use), write_wait_to_start # 0
  PROVE  Exact'
<1>1. Waits /\ wren /\ ~core_ready /\ ~request
  BY FetchMoves
<1>2. Typing /\ Typing' /\ Keeps /\ Counting /\ Planned /\ sdram_is_running
  BY GoingIs DEF Going, Exact, Counting
<1>3. cache_line \in Line /\ After(cache_line) \in Line /\ Before(cache_line) \in Line
      /\ Before(After(cache_line)) = cache_line
  BY <1>2, Positions, LineSteps
<1>4. wren' /\ UNCHANGED <<wen1, cache_wen, sdram_is_running>>
  BY <1>1, FetchIs
<1>5. CacheDone' /\ Buffers' /\ wen1' = {} /\ cache_wen' = {}
      /\ \A x \in CacheAddress : cache[x] = want_cache[x]
  BY <1>1, <1>4, CacheKept
<1>6. Planned' /\ Counting'
  BY <1>1, <1>2, <1>4, <1>5, PlannedMoves DEF Counting
<1>7. MemoryDone' /\ CodeDone'
  BY <1>1, MemoryKept, CodeMoves
<1>8. Fetched'
  <2>1. CASE write_wait_to_start = 2
    <3>1. write_wait_to_start' = 1 /\ cache_line' = After(cache_line)
      BY <2>1, FetchIs
    <3>2. sdram_rdata' = LineAt(cache_line)
      BY GoingIs
    <3>3. Holds(LineAt(cache_line), cache_line)
      BY <1>3, <1>5, HoldsLine
    <3>4. \A k \in Lane : Kept((4 * cache_line) + k) =>
             LineAt(cache_line)[k] = want_cache'[(4 * cache_line) + k]
      BY <1>2, <1>3, <3>3, HoldsLater
    <3> QED BY <1>3, <3>1, <3>2, <3>4 DEF Fetched, Holds, Kept
  <2>2. CASE write_wait_to_start = 1
    <3>1. write_wait_to_start' = 0 /\ cache_line' = cache_line /\ buf0' = sdram_rdata
      BY <2>2, FetchIs
    <3>2. sdram_rdata' = LineAt(cache_line)
      BY GoingIs
    <3>3. Holds(LineAt(cache_line), cache_line) /\ Holds(sdram_rdata, Before(cache_line))
      BY <1>1, <1>2, <1>3, <1>5, <2>2, HoldsLine DEF Going, Exact, Fetched
    <3>4. \A k \in Lane : Kept((4 * cache_line) + k) =>
             LineAt(cache_line)[k] = want_cache'[(4 * cache_line) + k]
      BY <1>2, <1>3, <3>3, HoldsLater
    <3>5. \A k \in Lane : Kept((4 * Before(cache_line)) + k) =>
             sdram_rdata[k] = want_cache'[(4 * Before(cache_line)) + k]
      BY <1>2, <1>3, <3>3, HoldsLater
    <3>6. ~Warm'
      BY <1>1, ColdNext DEF Going
    <3> QED BY <1>3, <3>1, <3>2, <3>4, <3>5, <3>6 DEF Fetched, Holds, Kept
  <2> QED BY <2>1, <2>2, FetchIs
<1>9. Operating'
  BY DEF Going, Normal
<1> QED BY <1>5, <1>6, <1>7, <1>8, <1>9 DEF Exact

LEMMA StepSend ==
  ASSUME Program, NEW use, Going(use), write_wait_to_start = 0, wren
  PROVE  Exact'
<1>1. (core_ready => Advances) /\ (~core_ready => Waits)
  BY SendMoves
<1>2. /\ CountWord(core_ready) /\ UNCHANGED <<wren, wen1, cache_wen, write_wait_to_start>>
      /\ buf1' = sdram_rdata
      /\ IF core_ready /\ bi = 3 THEN buf0' = buf1 /\ cache_line' = After(cache_line)
                                 ELSE UNCHANGED <<buf0, cache_line>>
  BY SendIs
<1>3. Typing /\ Typing' /\ Keeps /\ Counting /\ Planned /\ Operating
  BY GoingIs DEF Going, Exact
<1>4. cache_line \in Line /\ After(cache_line) \in Line /\ Before(cache_line) \in Line
      /\ Before(After(cache_line)) = cache_line /\ bi \in Lane
  BY <1>3, Positions, LineSteps
<1>5. CacheDone' /\ Buffers' /\ wen1' = {} /\ cache_wen' = {}
      /\ \A x \in CacheAddress : cache[x] = want_cache[x]
  BY <1>2, CacheKept
<1>6. Planned' /\ Counting'
  BY <1>1, <1>2, <1>3, <1>5, PlannedMoves DEF Counting
<1>7. sdram_is_running => /\ Holds(buf0, Before(cache_line))
                          /\ bi >= 1 => Holds(sdram_rdata, cache_line)
                          /\ bi >= 2 /\ Warm => Holds(buf1, cache_line)
  BY DEF Going, Exact, Fetched
<1>8. sdram_is_running => bus_data_write = want_memory[mem_addr]
  <2>1. Here = (4 * Before(cache_line)) + bi
    BY DEF Here, HereLine, SendLine
  <2>2. sdram_is_running => Kept(Here) /\ want_memory[mem_addr] = want_cache[Here]
    BY <1>3, FirstLeft
  <2> QED BY <1>4, <1>7, <2>1, <2>2 DEF Holds, bus_data_write
<1>9. MemoryDone'
  <2>1. core_ready => sdram_is_running
    BY WordWaits DEF Going
  <2> QED BY <1>1, <1>8, <2>1, MemoryKept, MemorySent
<1>10. CodeDone'
  <2>1. request <=> sdram_is_running
    BY DEF request
  <2>2. Advances => request
    BY <2>1 DEF Advances
  <2> QED BY <1>1, <1>8, <2>1, <2>2, CodeMoves
<1>11. Fetched'
  <2> SUFFICES ASSUME sdram_is_running'
      PROVE  /\ Holds(buf0, Before(cache_line))'
             /\ bi' >= 1 => Holds(sdram_rdata, cache_line)'
             /\ bi' >= 2 => Holds(buf1, cache_line)'
    BY <1>2 DEF Fetched
  <2>1. sdram_is_running
    BY <1>1 DEF Advances, Waits
  <2>2. sdram_rdata' = LineAt(cache_line)
    BY GoingIs
  <2>3. \A k \in Lane : Kept((4 * cache_line) + k) =>
             LineAt(cache_line)[k] = want_cache'[(4 * cache_line) + k]
    BY <1>3, <1>4, <1>5, HoldsLine, HoldsLater
  <2>4. CASE core_ready /\ bi = 3
    <3>1. bi' = 0 /\ buf0' = buf1 /\ cache_line' = After(cache_line)
      BY <1>2, <2>4 DEF CountWord
    <3>2. Holds(buf1, cache_line)
      BY <1>3, <1>7, <2>1, <2>4, ReadyWarm DEF Going
    <3>3. \A k \in Lane : Kept((4 * cache_line) + k) => buf1[k] = want_cache'[(4 * cache_line) + k]
      BY <1>3, <1>4, <3>2, HoldsLater
    <3>4. Holds(buf0, Before(cache_line))'
      BY <1>4, <3>1, <3>3 DEF Holds, Kept
    <3> QED BY <3>1, <3>4
  <2>5. CASE ~(core_ready /\ bi = 3)
    <3>1. UNCHANGED <<buf0, cache_line>> /\ buf1' = sdram_rdata
      BY <1>2, <2>5
    <3>2. \A k \in Lane : Kept((4 * Before(cache_line)) + k) =>
             buf0[k] = want_cache'[(4 * Before(cache_line)) + k]
      BY <1>3, <1>4, <1>7, <2>1, HoldsLater
    <3>3. bi' >= 2 => bi >= 1
      <4>1. core_ready => bi' = bi + 1
        BY <1>2, <1>4, <2>5 DEF CountWord, Lane
      <4>2. ~core_ready => bi' = bi
        BY <1>2 DEF CountWord
      <4> QED BY <1>4, <4>1, <4>2 DEF Lane
    <3>4. bi >= 1 => \A k \in Lane : Kept((4 * cache_line) + k) =>
             sdram_rdata[k] = want_cache'[(4 * cache_line) + k]
      BY <1>3, <1>4, <1>7, <2>1, HoldsLater
    <3>5. Holds(buf0, Before(cache_line))'
      BY <3>1, <3>2 DEF Holds, Kept
    <3>6. Holds(sdram_rdata, cache_line)'
      BY <2>2, <2>3, <3>1 DEF Holds, Kept
    <3>7. bi' >= 2 => Holds(buf1, cache_line)'
      BY <3>1, <3>3, <3>4 DEF Holds, Kept
    <3> QED BY <3>5, <3>6, <3>7
  <2> QED BY <2>4, <2>5
<1>12. Operating'
  BY DEF Going, Normal
<1> QED BY <1>5, <1>6, <1>9, <1>10, <1>11, <1>12 DEF Exact

-----------------------------------------------------------------------------
(* A transfer from memory. *)

\* The word the engine is handed.
LEMMA WordRead ==
  ASSUME Program, NEW use, Going(use), core_ready, ~wren
  PROVE  data_read = want_cache[Here] /\ Kept(Here)
<1>1. Typing /\ Counting /\ Planned /\ Operating /\ Polls /\ MemoryDone /\ Inv
  BY GoingIs DEF Going, Exact
<1>2. /\ sdram_is_running /\ current = {0} /\ bus_request /\ burst /\ Ready(bus_request)
  BY <1>1, WordWaits
<1>3. state \in Burst /\ ~write_enable
  BY <1>1, <1>2 DEF Inv, Granting, Ready, CorePort
<1>4. data_read = memory[Target] /\ Target = mem_addr
  BY <1>1, <1>2, <1>3, ReadyWord, WiresNow DEF Reading, OwnerWires
<1>5. Landed = memory
  BY <1>1, <1>3 DEF Landed, Touches, Access, Inv, Commands
<1>6. Landed[mem_addr] = want_memory[mem_addr]
  BY <1>1, PositionsNow DEF MemoryDone, ToSend
<1> QED BY <1>1, <1>2, <1>4, <1>5, <1>6, FirstLeft

LEMMA StepReceive ==
  ASSUME Program, NEW use, Going(use), write_wait_to_start = 0, ~wren
  PROVE  Exact'
<1>1. /\ core_ready => Advances
      /\ ~core_ready => Waits
      /\ Collecting' = IF NewLine THEN After(Collecting) ELSE Collecting
      /\ Here = (4 * ReceiveLine) + bi
      /\ ReceiveLine = IF bi = 0 /\ ~read_wait_to_start THEN After(Collecting) ELSE Collecting
  BY ReceiveMoves
<1>2. /\ ~wren' /\ write_wait_to_start' = 0
      /\ buf1' = IF core_ready THEN [buf1 EXCEPT ![bi] = data_read] ELSE buf1
      /\ wen1' = IF NewLine THEN {0}
                 ELSE IF core_ready THEN wen1 \cup {bi}
                 ELSE IF SameLine THEN {} ELSE wen1
      /\ buf0' = buf1 /\ cache_wen' = wen1 /\ cache_line' = Collecting
  BY ReceiveIs
<1>3. Typing /\ Typing' /\ Keeps /\ Counting /\ Planned /\ CacheDone /\ Buffers
  BY GoingIs DEF Going, Exact
<1>4. /\ bi \in Lane /\ cache_line \in Line /\ Collecting \in Line /\ Collecting' \in Line
      /\ wen1 \subseteq Lane /\ cache_wen \subseteq Lane /\ DOMAIN buf1 = Lane
  <2>1. Collecting \in Line /\ After(Collecting) \in Line
    BY <1>3, Positions, LineSteps
  <2> QED BY <1>1, <1>3, <2>1 DEF Typing, TypeOK, ConnectorTypeOK
<1>5. Planned' /\ Counting'
  BY <1>1, <1>2, <1>3, PlannedMoves DEF Counting
<1>6. MemoryDone' /\ CodeDone'
  BY <1>1, MemoryKept, CodeMoves
<1>7. Fetched'
  BY <1>2 DEF Fetched
<1>8. core_ready => /\ Here = (4 * Collecting') + bi /\ bi \in wen1' /\ buf1'[bi] = want_cache[Here]
                    /\ Kept(Here)
  <2>1. core_ready => ReceiveLine = Collecting' /\ bi \in wen1'
    BY <1>1, <1>2 DEF NewLine
  <2>2. core_ready => buf1'[bi] = data_read
    BY <1>2, <1>4
  <2> QED BY <1>1, <2>1, <2>2, WordRead
<1>9. Buffers'
  <2>1. ASSUME NEW k \in cache_wen'
        PROVE  /\ Kept((4 * cache_line') + k)
               /\ buf0'[k] = want_cache'[(4 * cache_line') + k]
    <3>1. k \in wen1 /\ k \in Lane
      BY <1>2, <1>4
    <3>2. Kept((4 * Collecting) + k) /\ buf1[k] = want_cache[(4 * Collecting) + k]
      BY <1>3, <3>1 DEF Buffers
    <3> QED BY <1>2, <1>3, <1>4, <3>1, <3>2, Cells DEF Keeps
  <2>2. ASSUME NEW k \in wen1'
        PROVE  /\ Kept((4 * Collecting') + k)
               /\ buf1'[k] = want_cache'[(4 * Collecting') + k]
    <3>1. CASE core_ready /\ k = bi
      BY <1>3, <1>4, <1>8, <3>1, Cells DEF Keeps
    <3>2. CASE ~(core_ready /\ k = bi)
      <4>1. k \in wen1 /\ ~NewLine
        BY <1>2, <2>2, <3>2 DEF NewLine
      <4>2. k \in Lane /\ Collecting' = Collecting /\ buf1'[k] = buf1[k]
        BY <1>1, <1>2, <1>4, <3>2, <4>1
      <4>3. Kept((4 * Collecting) + k) /\ buf1[k] = want_cache[(4 * Collecting) + k]
        BY <1>3, <4>1 DEF Buffers
      <4> QED BY <1>3, <1>4, <4>2, <4>3, Cells DEF Keeps
    <3> QED BY <3>1, <3>2
  <2> QED BY <2>1, <2>2 DEF Buffers, Kept
<1>10. CacheDone'
  <2> SUFFICES ASSUME NEW x \in CacheAddress
      PROVE  ToReceive(x)' \/ Held(x)' \/ cache'[x] = want_cache'[x]
    BY DEF CacheDone
  <2>1. /\ want_cache'[x] = CellAfter(use, x, want_cache[x])
        /\ cache'[x] = CellAfter(use, x, IF LineOf(x) = cache_line /\ LaneOf(x) \in cache_wen
                                         THEN buf0[LaneOf(x)] ELSE cache[x])
    BY GoingIs
  <2>2. ToReceive(x) => ToReceive(x)' \/ Held(x)'
    <3>1. ToReceive(x) => ToReceive(x)' \/ (Advances /\ x = Here)
      BY <1>1, <1>3, RestMoves
    <3>2. ToReceive(x) /\ ~ToReceive(x)' => core_ready
      BY <1>1, <1>3, WaitsRest
    <3>3. core_ready /\ x = Here => Held(x)'
      BY <1>8 DEF Held
    <3> QED BY <3>1, <3>2, <3>3
  <2>3. CASE LineOf(x) = cache_line /\ LaneOf(x) \in cache_wen
    <3>1. buf0[LaneOf(x)] = want_cache[x]
      BY <1>3, <2>3, CellPlaces DEF Buffers
    <3> QED BY <2>1, <2>3, <3>1
  <2>4. CASE ~(LineOf(x) = cache_line /\ LaneOf(x) \in cache_wen)
    <3>1. ~\E k \in cache_wen : x = (4 * cache_line) + k
      BY <1>4, <2>4, Cells
    <3>2. (\E k \in wen1 : x = (4 * Collecting) + k) => Held(x)'
      BY <1>2 DEF Held
    <3>3. cache[x] = want_cache[x] => cache'[x] = want_cache'[x]
      BY <2>1, <2>4
    <3> QED BY <1>3, <2>2, <3>1, <3>2, <3>3 DEF CacheDone, Held
  <2> QED BY <2>3, <2>4
<1>11. Operating'
  BY DEF Going, Normal
<1> QED BY <1>5, <1>6, <1>7, <1>9, <1>10, <1>11 DEF Exact

-----------------------------------------------------------------------------
(* The start of an operation. *)

LEMMA CopiedInside ==
  ASSUME NEW n \in Nat \ {0}, NEW target, DOMAIN target = 0 .. n - 1, NEW to \in 0 .. n - 1,
         NEW source, NEW m, NEW from, NEW words \in 0 .. n, NEW i \in 0 .. words - 1
  PROVE  Copied(target, n, to, source, m, from, words)[(to + i) % n] = source[(from + i) % m]
<1>1. i \in 0 .. n - 1 /\ i < words
  OBVIOUS
<1>2. (((to + i) % n) + n - to) % n = i /\ (to + i) % n \in 0 .. n - 1
  BY <1>1, OffsetOf
<1> QED BY <1>1, <1>2 DEF Copied

LEMMA CopiedOutside ==
  ASSUME NEW n \in Nat \ {0}, NEW target, DOMAIN target = 0 .. n - 1, NEW to \in 0 .. n - 1,
         NEW source, NEW m, NEW from, NEW words, NEW a \in 0 .. n - 1, ~((a + n - to) % n < words)
  PROVE  Copied(target, n, to, source, m, from, words)[a] = target[a]
BY DEF Copied

\* The engine's registers after it.
LEMMA StartIs ==
  ASSUME Program, Typing', NEW op \in Operations, Start(op.wren, op.mem, op.cell, op.count)
  PROVE  /\ sdram_is_running' /\ wren' = op.wren /\ op.wren \in BOOLEAN
         /\ count' = op.count /\ op.count \in 1 .. 4 * Lines /\ op.count \in 1 .. MemSize
         /\ mem_addr' = op.mem /\ op.mem \in Address
         /\ Here' = op.cell /\ op.cell \in CacheAddress
         /\ wen1' = {} /\ cache_wen' = {}
         /\ write_wait_to_start' = IF op.wren THEN 2 ELSE 0
         /\ \A i \in 0 .. op.count - 1 : Kept((op.cell + i) % (4 * Lines))
<1>1. /\ op.wren \in BOOLEAN /\ op.mem \in Address /\ op.cell \in CacheAddress
      /\ op.count \in 0 .. CountMod - 1
  BY SystemAssumption
<1>2. op.count \in 1 .. 4 * Lines /\ op.count \in 1 .. MemSize
  BY <1>1, EvenLines, Geometry DEF Program
<1>3. /\ cache_line' = LineOf(op.cell) /\ bi' = LaneOf(op.cell) /\ wren' = op.wren
      /\ write_wait_to_start' = IF op.wren THEN 2 ELSE 0
      /\ read_wait_to_start' = TRUE /\ read_reload_buf' = LineOf(op.cell) % 2
  BY DEF Start
<1>4. HereLine' = LineOf(op.cell)
  <2>1. CASE op.wren
    BY <1>3, <2>1 DEF HereLine, SendLine
  <2>2. CASE ~op.wren
    BY <1>3, <2>2 DEF HereLine, ReceiveLine, Collecting, SameLine
  <2> QED BY <2>1, <2>2
<1>5. Here' = op.cell
  BY <1>1, <1>3, <1>4, CellPlaces DEF Here
<1> QED BY <1>1, <1>2, <1>3, <1>5 DEF Start, Program

LEMMA StartPlaces ==
  ASSUME Program, Typing', NEW op \in Operations, Start(op.wren, op.mem, op.cell, op.count)
  PROVE  /\ \A i \in Nat : /\ CellAt(i)' = (op.cell + i) % (4 * Lines)
                           /\ AddressAt(i)' = (op.mem + i) % MemSize
         /\ Rest' = 0 .. op.count - 1
         /\ \A a : ToSend(a)' <=> op.wren /\ \E i \in 0 .. op.count - 1 : a = (op.mem + i) % MemSize
         /\ \A x : ToReceive(x)' <=>
                     ~op.wren /\ \E i \in 0 .. op.count - 1 : x = (op.cell + i) % (4 * Lines)
<1>1. /\ sdram_is_running' /\ wren' = op.wren /\ count' = op.count
      /\ mem_addr' = op.mem /\ Here' = op.cell /\ op.count \in 1 .. 4 * Lines
  BY StartIs
<1>2. \A i \in Nat : /\ CellAt(i)' = (op.cell + i) % (4 * Lines)
                     /\ AddressAt(i)' = (op.mem + i) % MemSize
  BY <1>1 DEF CellAt, AddressAt
<1>3. Rest' = 0 .. op.count - 1 /\ \A i \in 0 .. op.count - 1 : i \in Nat
  BY <1>1, EvenLines DEF Rest
<1> QED BY <1>1, <1>2, <1>3 DEF ToSend, ToReceive

(***************************************************************************)
(* An operation is started when the three memories have settled to mem,    *)
(* cells and commands.                                                     *)
(***************************************************************************)
Launching(use, op, mem, cells, commands) ==
  /\ Normal /\ Inv /\ Inv' /\ use \in CoreUse /\ op \in Operations /\ Clock(use)
  /\ ~is_running /\ Start(op.wren, op.mem, op.cell, op.count)
  /\ Promise(op, use, mem, cells, commands)
  /\ DOMAIN mem = Address /\ \A a \in Address : Landed[a] = mem[a]
  /\ DOMAIN cells = CacheAddress /\ \A x \in CacheAddress : cache[x] = cells[x]
  /\ DOMAIN commands = Column /\ \A c \in Column : code[c] = commands[c]

LEMMA LaunchSizes ==
  ASSUME Program, NEW use, NEW op, NEW mem, NEW cells, NEW commands,
         Launching(use, op, mem, cells, commands)
  PROVE  /\ MemSize \in Nat \ {0} /\ 4 * Lines \in Nat \ {0}
         /\ Address = 0 .. MemSize - 1 /\ CacheAddress = 0 .. (4 * Lines) - 1
         /\ op.mem \in 0 .. MemSize - 1 /\ op.cell \in 0 .. (4 * Lines) - 1
         /\ op.count \in 0 .. MemSize /\ op.count \in 0 .. 4 * Lines
         /\ DOMAIN mem = 0 .. MemSize - 1 /\ DOMAIN cells = 0 .. (4 * Lines) - 1
<1>1. /\ op.mem \in Address /\ op.cell \in CacheAddress
      /\ op.count \in 1 .. 4 * Lines /\ op.count \in 1 .. MemSize
      /\ DOMAIN mem = Address /\ DOMAIN cells = CacheAddress
  BY StartIs DEF Launching, Inv
<1> QED BY <1>1, EvenLines, Geometry DEF Address, CacheAddress

\* What it promises of memory, cache and command memory.
LEMMA LaunchMemory ==
  ASSUME Program, NEW use, NEW op, NEW mem, NEW cells, NEW commands,
         Launching(use, op, mem, cells, commands)
  PROVE  /\ \A i \in Nat : (op.mem + i) % MemSize \in Address
         /\ op.wren => \A i \in 0 .. op.count - 1 :
              want_memory'[(op.mem + i) % MemSize] = cells[(op.cell + i) % (4 * Lines)]
         /\ \A a \in Address : ToSend(a)' \/ want_memory'[a] = mem[a]
         /\ ~op.wren => want_memory' = mem
<1>1. op.wren => want_memory' = Copied(mem, MemSize, op.mem, cells, 4 * Lines, op.cell, op.count)
  BY DEF Launching, Promise
<1>2. ~op.wren => want_memory' = mem
  BY DEF Launching, Promise
<1>3. op.wren => /\ \A i \in 0 .. op.count - 1 :
                      want_memory'[(op.mem + i) % MemSize] = cells[(op.cell + i) % (4 * Lines)]
                 /\ \A a \in Address : \/ \E i \in 0 .. op.count - 1 : a = (op.mem + i) % MemSize
                                       \/ want_memory'[a] = mem[a]
  <2> DEFINE copy == Copied(mem, MemSize, op.mem, cells, 4 * Lines, op.cell, op.count)
  <2>1. /\ MemSize \in Nat \ {0} /\ DOMAIN mem = 0 .. MemSize - 1
        /\ op.mem \in 0 .. MemSize - 1 /\ op.count \in 0 .. MemSize
        /\ Address = 0 .. MemSize - 1
    BY LaunchSizes
  <2>2. ASSUME NEW i \in 0 .. op.count - 1
        PROVE  copy[(op.mem + i) % MemSize] = cells[(op.cell + i) % (4 * Lines)]
    BY <2>1, CopiedInside
  <2>3. ASSUME NEW a \in 0 .. MemSize - 1, ~\E i \in 0 .. op.count - 1 : a = (op.mem + i) % MemSize
        PROVE  copy[a] = mem[a]
    <3>1. ~((a + MemSize - op.mem) % MemSize < op.count)
      BY <2>1, <2>3, BlockPlaces
    <3> QED BY <2>1, <3>1, CopiedOutside
  <2> HIDE DEF copy
  <2>4. op.wren => want_memory' = copy
    BY <1>1 DEF copy
  <2> QED BY <2>1, <2>2, <2>3, <2>4
<1>4. \A a : ToSend(a)' <=> op.wren /\ \E i \in 0 .. op.count - 1 : a = (op.mem + i) % MemSize
  BY StartPlaces DEF Launching, Inv
<1>5. op.wren \in BOOLEAN
  BY StartIs DEF Launching, Inv
<1>6. \A i \in Nat : (op.mem + i) % MemSize \in Address
  BY LaunchSizes
<1> QED BY <1>2, <1>3, <1>4, <1>5, <1>6

LEMMA LaunchCache ==
  ASSUME Program, NEW use, NEW op, NEW mem, NEW cells, NEW commands,
         Launching(use, op, mem, cells, commands)
  PROVE  /\ \A i \in Nat : (op.cell + i) % (4 * Lines) \in CacheAddress
         /\ \A i \in 0 .. op.count - 1 :
              want_cache'[(op.cell + i) % (4 * Lines)] =
                IF op.wren THEN cells[(op.cell + i) % (4 * Lines)] ELSE mem[(op.mem + i) % MemSize]
         /\ \A x \in CacheAddress : ToReceive(x)' \/ want_cache'[x] = CellAfter(use, x, cells[x])
<1> DEFINE copy == Copied(cells, 4 * Lines, op.cell, mem, MemSize, op.mem, op.count)
<1>1. op.wren => want_cache' = Stored(use, cells)
  BY DEF Launching, Promise
<1>2. ~op.wren => want_cache' = Stored(use, copy)
  BY DEF Launching, Promise
<1>3. /\ \A i \in 0 .. op.count - 1 :
           copy[(op.cell + i) % (4 * Lines)] = mem[(op.mem + i) % MemSize]
      /\ \A x \in CacheAddress : \/ \E i \in 0 .. op.count - 1 : x = (op.cell + i) % (4 * Lines)
                                 \/ copy[x] = cells[x]
  <2>1. /\ 4 * Lines \in Nat \ {0} /\ DOMAIN cells = 0 .. (4 * Lines) - 1
        /\ op.cell \in 0 .. (4 * Lines) - 1 /\ op.count \in 0 .. 4 * Lines
        /\ CacheAddress = 0 .. (4 * Lines) - 1
    BY LaunchSizes
  <2>2. ASSUME NEW n, n = 4 * Lines
        PROVE  /\ \A i \in 0 .. op.count - 1 :
                    Copied(cells, n, op.cell, mem, MemSize, op.mem, op.count)[(op.cell + i) % n]
                      = mem[(op.mem + i) % MemSize]
               /\ \A x \in 0 .. n - 1 :
                    \/ \E i \in 0 .. op.count - 1 : x = (op.cell + i) % n
                    \/ Copied(cells, n, op.cell, mem, MemSize, op.mem, op.count)[x] = cells[x]
    <3>1. /\ n \in Nat \ {0} /\ DOMAIN cells = 0 .. n - 1
          /\ op.cell \in 0 .. n - 1 /\ op.count \in 0 .. n
      BY <2>1, <2>2
    <3>2. ASSUME NEW i \in 0 .. op.count - 1
          PROVE  Copied(cells, n, op.cell, mem, MemSize, op.mem, op.count)[(op.cell + i) % n]
                   = mem[(op.mem + i) % MemSize]
      BY <3>1, CopiedInside
    <3>3. ASSUME NEW x \in 0 .. n - 1, ~\E i \in 0 .. op.count - 1 : x = (op.cell + i) % n
          PROVE  Copied(cells, n, op.cell, mem, MemSize, op.mem, op.count)[x] = cells[x]
      <4>1. ~((x + n - op.cell) % n < op.count)
        BY <3>1, <3>3, BlockPlaces
      <4> QED BY <3>1, <4>1, CopiedOutside
    <3> QED BY <3>2, <3>3
  <2> QED BY <2>1, <2>2
<1>4. DOMAIN copy = CacheAddress
  BY DEF Launching, Copied
<1>5. \A x : ToReceive(x)' <=> ~op.wren /\ \E i \in 0 .. op.count - 1 : x = (op.cell + i) % (4 * Lines)
  BY StartPlaces DEF Launching, Inv
<1>6. \A i \in Nat : (op.cell + i) % (4 * Lines) \in CacheAddress
  BY LaunchSizes
<1>7. \A i \in 0 .. op.count - 1 : i \in Nat /\ Kept((op.cell + i) % (4 * Lines))
  BY StartIs, LaunchSizes DEF Launching, Inv
<1>8. use \in CoreUse /\ DOMAIN cells = CacheAddress /\ op.wren \in BOOLEAN
  BY StartIs DEF Launching, Inv
<1> HIDE DEF copy
<1>9. op.wren => \A x \in CacheAddress : want_cache'[x] = CellAfter(use, x, cells[x])
  BY <1>1, <1>8, StoredCell
<1>10. ~op.wren => \A x \in CacheAddress : want_cache'[x] = CellAfter(use, x, copy[x])
  BY <1>2, <1>4, StoredCell
<1>11. ASSUME NEW i \in 0 .. op.count - 1
       PROVE  want_cache'[(op.cell + i) % (4 * Lines)] =
                IF op.wren THEN cells[(op.cell + i) % (4 * Lines)] ELSE mem[(op.mem + i) % MemSize]
  <2> DEFINE x == (op.cell + i) % (4 * Lines)
  <2>1. x \in CacheAddress /\ Kept(x) /\ copy[x] = mem[(op.mem + i) % MemSize]
    BY <1>3, <1>6, <1>7
  <2> HIDE DEF x
  <2>2. \A before : CellAfter(use, x, before) = before
    BY <1>8, <2>1, KeptCell
  <2>3. want_cache'[x] = IF op.wren THEN cells[x] ELSE copy[x]
    BY <1>8, <1>9, <1>10, <2>1, <2>2
  <2> QED BY <2>1, <2>3 DEF x
<1>12. ASSUME NEW x \in CacheAddress, ~ToReceive(x)'
       PROVE  want_cache'[x] = CellAfter(use, x, cells[x])
  BY <1>3, <1>5, <1>8, <1>9, <1>10, <1>12
<1> QED BY <1>6, <1>11, <1>12

LEMMA LaunchCode ==
  ASSUME Program, NEW use, NEW op, NEW mem, NEW cells, NEW commands,
         Launching(use, op, mem, cells, commands)
  PROVE  \A c \in Column : /\ ToSend(CodePlace(c))' => want_code'[c] = want_memory'[CodePlace(c)]
                           /\ ToSend(CodePlace(c))' \/ want_code'[c] = commands[c]
<1> TAKE c \in Column
<1>1. \A a : ToSend(a)' <=> op.wren /\ \E i \in 0 .. op.count - 1 : a = (op.mem + i) % MemSize
  BY StartPlaces DEF Launching, Inv
<1>2. ToSend(CodePlace(c))' <=>
        op.wren /\ \E i \in 0 .. op.count - 1 : CodePlace(c) = (op.mem + i) % MemSize
  BY <1>1 DEF ToSend, CodePlace
<1>3. (CodePlace(c) + MemSize - op.mem) % MemSize < op.count
        <=> \E i \in 0 .. op.count - 1 : CodePlace(c) = (op.mem + i) % MemSize
  <2>1. /\ MemSize \in Nat \ {0} /\ op.mem \in 0 .. MemSize - 1 /\ op.count \in 0 .. MemSize
        /\ CodePlace(c) \in 0 .. MemSize - 1
    BY LaunchSizes, CodePlaces
  <2> QED BY <2>1, BlockPlaces
<1>4. op.wren => want_code'[c] = IF (CodePlace(c) + MemSize - op.mem) % MemSize < op.count
                                 THEN want_memory'[CodePlace(c)] ELSE commands[c]
  BY DEF Launching, Promise, CodePlace
<1>5. ~op.wren => want_code' = commands
  BY DEF Launching, Promise
<1> QED BY <1>2, <1>3, <1>4, <1>5

LEMMA StepLaunch ==
  ASSUME Program, NEW use, NEW op, NEW mem, NEW cells, NEW commands,
         Launching(use, op, mem, cells, commands)
  PROVE  Exact'
<1>1. /\ sdram_is_running' /\ wren' = op.wren /\ op.wren \in BOOLEAN /\ count' = op.count
      /\ op.count \in 1 .. 4 * Lines /\ op.count \in 1 .. MemSize
      /\ wen1' = {} /\ cache_wen' = {}
      /\ write_wait_to_start' = IF op.wren THEN 2 ELSE 0
      /\ \A i \in 0 .. op.count - 1 : Kept((op.cell + i) % (4 * Lines))
  BY StartIs DEF Launching, Inv
<1>2. /\ \A i \in Nat : /\ CellAt(i)' = (op.cell + i) % (4 * Lines)
                        /\ AddressAt(i)' = (op.mem + i) % MemSize
      /\ Rest' = 0 .. op.count - 1
  BY StartPlaces DEF Launching, Inv
<1>3. ~core_ready /\ ~request /\ wen1 = {} /\ cache_wen = {}
  BY CoreReadyRequests DEF Launching, is_running, request
<1>4. Landed' = Landed /\ memory' = Landed
  BY <1>3, NothingHanded, MemoryLands DEF Launching, Program, Clock
<1>5. \A x \in CacheAddress : cache'[x] = CellAfter(use, x, cells[x])
  BY <1>3, CacheMoves DEF Launching, Inv, Clock
<1>6. code' = code
  BY <1>3 DEF Launching, Clock, CommandMemory
<1>7. Counting'
  BY <1>1, EvenLines, Geometry DEF Counting
<1>8. Planned'
  <2>1. ASSUME NEW i \in 0 .. op.count - 1
        PROVE  i \in Nat /\ want_memory'[(op.mem + i) % MemSize] = want_cache'[(op.cell + i) % (4 * Lines)]
    <3>1. i \in Nat
      BY <1>1, EvenLines
    <3>2. want_cache'[(op.cell + i) % (4 * Lines)] =
            IF op.wren THEN cells[(op.cell + i) % (4 * Lines)] ELSE mem[(op.mem + i) % MemSize]
      BY LaunchCache
    <3>3. want_memory'[(op.mem + i) % MemSize] =
            IF op.wren THEN cells[(op.cell + i) % (4 * Lines)] ELSE mem[(op.mem + i) % MemSize]
      BY <1>1, LaunchMemory
    <3> QED BY <3>1, <3>2, <3>3
  <2> QED BY <1>1, <1>2, <2>1 DEF Planned, Kept
<1>9. MemoryDone'
  BY <1>4, LaunchMemory DEF MemoryDone, Launching
<1>10. CodeDone'
  <2>1. \A c \in Column : code'[c] = commands[c]
    BY <1>6 DEF Launching
  <2> QED BY <2>1, LaunchCode DEF CodeDone, CodePlace
<1>11. CacheDone'
  BY <1>5, LaunchCache DEF CacheDone
<1>12. Buffers' /\ Fetched'
  BY <1>1 DEF Buffers, Fetched
<1>13. Operating'
  BY DEF Launching, Normal
<1> QED BY <1>7, <1>8, <1>9, <1>10, <1>11, <1>12, <1>13 DEF Exact

-----------------------------------------------------------------------------
(* The invariant. *)

\* Out of reset the controller is in normal operation.
LEMMA RunsOn ==
  ASSUME Inv, Inv', Step \/ Launch, state_hi = 0, ~UNCHANGED vars
  PROVE  Normal
<1>1. Controller /\ Bus /\ [Next]_vars
  BY DEF Step, Launch, Clock, Next
<1>2. RunClock(bus_request, AnyOf(current, writes), AnyOf(current, last4s),
               Selected(current, addresses), Selected(last_current, data_writes), dq)
  BY <1>1 DEF Controller, InitClock
<1>3. state' = NextState(bus_request, AnyOf(current, last4s)) /\ state_hi' = 0
  BY <1>2 DEF RunClock
<1>4. state \in 0 .. TopState
  BY DEF Inv, Typing, TypeOK, SdramTypeOK
<1>5. state' # TopState
  BY <1>3, <1>4, Geometry DEF NextState, TopState, OpenState, RefreshState
<1>6. Operating'
  BY <1>3, <1>5 DEF Operating
<1> QED BY <1>1, <1>6, NormalStep DEF Inv

\* With the data pins released nothing is on its way into the memory.
LEMMA NothingLands ==
  ASSUME Inv, Polls, ~dq_out_mode,
         Operating \/ (access = "none" /\ command = "NOP")
  PROVE  Landed = memory
<1>1. Access # "write"
  <2>1. CASE Operating
    BY <2>1 DEF Inv, Commands, Driving
  <2>2. CASE access = "none" /\ command = "NOP"
    BY <2>2 DEF Access, AccessAfter
  <2> QED BY <2>1, <2>2
<1> QED BY <1>1 DEF Landed, Touches, Access

\* At rest everything is done.
LEMMA AtRest ==
  ASSUME Exact, phase = "working", ~is_running
  PROVE  /\ \A a \in Address : Landed[a] = want_memory[a]
         /\ \A x \in CacheAddress : cache[x] = want_cache[x]
         /\ \A c \in Column : code[c] = want_code[c]
<1>1. ~sdram_is_running /\ wen1 = {} /\ cache_wen = {}
  BY DEF is_running
<1> QED BY <1>1 DEF Exact, MemoryDone, CacheDone, CodeDone, ToSend, ToReceive, Held

LEMMA StepGoing ==
  ASSUME Program, Inv, Inv', Storing, Shapes, Exact, Step, ~UNCHANGED vars, phase' = "working"
  PROVE  Exact'
<1>1. PICK use \in CoreUse : Engine(use) /\ Clock(use)
  BY DEF Step
<1>2. phase = "working"
  BY <1>1 DEF Engine
<1>3. Operating /\ state_hi = 0
  BY <1>2 DEF Exact, Operating
<1>4. Going(use)
  BY <1>1, <1>2, <1>3, RunsOn DEF Going
<1>5. CASE write_wait_to_start # 0
  BY <1>4, <1>5, StepFetch
<1>6. CASE write_wait_to_start = 0 /\ wren
  BY <1>4, <1>6, StepSend
<1>7. CASE write_wait_to_start = 0 /\ ~wren
  BY <1>4, <1>7, StepReceive
<1> QED BY <1>5, <1>6, <1>7

LEMMA StepLaunches ==
  ASSUME Program, Inv, Inv', Shapes, Exact, Launch, ~UNCHANGED vars, phase' = "working"
  PROVE  Exact'
<1>1. PICK use \in CoreUse, op \in Operations : StartOperation(op, use) /\ Clock(use)
  BY DEF Launch
<1>2. Start(op.wren, op.mem, op.cell, op.count) /\ ~is_running /\ Polls
  BY <1>1 DEF StartOperation, Program
<1>3. CASE phase = "stale"
  <2>1. /\ state_hi = 0 /\ access = "none" /\ ~dq_out_mode
        /\ Promise(op, use, memory, cache, code)
    BY <1>1, <1>3 DEF StartOperation
  <2>2. Normal
    BY <2>1, RunsOn
  <2>3. Landed = memory
    BY <1>2, <2>1, <2>2, NothingLands DEF Normal
  <2>4. DOMAIN memory = Address /\ DOMAIN cache = CacheAddress /\ DOMAIN code = Column
    BY DEF Shapes
  <2>5. Launching(use, op, memory, cache, code)
    BY <1>1, <1>2, <2>1, <2>2, <2>3, <2>4 DEF Launching
  <2> QED BY <2>5, StepLaunch
<1>4. CASE phase # "stale"
  <2>1. phase = "working" /\ Promise(op, use, want_memory, want_cache, want_code)
    BY <1>1, <1>4 DEF StartOperation
  <2>2. state_hi = 0
    BY <2>1 DEF Exact, Operating
  <2>3. Normal
    BY <2>2, RunsOn
  <2>4. DOMAIN want_memory = Address /\ DOMAIN want_cache = CacheAddress /\ DOMAIN want_code = Column
    BY DEF Shapes
  <2>5. Launching(use, op, want_memory, want_cache, want_code)
    BY <1>1, <1>2, <2>1, <2>3, <2>4, AtRest DEF Launching
  <2> QED BY <2>5, StepLaunch
<1> QED BY <1>3, <1>4

\* A step that changes nothing.
LEMMA StorageStays ==
  ASSUME UNCHANGED vars
  PROVE  /\ UNCHANGED <<state_hi, state, burst, write_enable, column_address,
                        initial_column_address, new_ready, dq_out_mode, data_write,
                        command, pin_row, memory, open_row, access, access_column,
                        current, last_current>>
         /\ UNCHANGED <<mem_addr, count, wren, buf0, buf1, bi, wen1, cache_wen, cache_line,
                        write_wait_to_start, read_wait_to_start, read_reload_buf,
                        sdram_is_running>>
         /\ UNCHANGED <<cache, sdram_rdata, code, phase, want_memory, want_cache, want_code>>
BY DEF vars, sdramVars, counterVars, burstVars, pinVars, chipVars, muxVars, connectorVars,
       cacheVars, wantVars

LEMMA StorageStutter ==
  ASSUME Typing, Storing, Shapes, Exact, UNCHANGED vars
  PROVE  Storing' /\ Shapes' /\ Exact'
<1>1. bus_request' = bus_request /\ Access' = Access /\ Operating' = Operating
  BY WiresStay, StorageStays DEF Access, AccessAfter, Operating
<1>2. Storing'
  <2>1. StoreFlow'
    BY <1>1, StorageStays DEF Storing, StoreFlow, RowOf, ColumnOf, ColumnNow
  <2>2. LastOwner' /\ WriterStates'
    BY <1>1, StorageStays DEF Storing, LastOwner, WriterStates
  <2> QED BY <2>1, <2>2 DEF Storing
<1>3. Shapes'
  BY StorageStays DEF Shapes
<1>4. Landed' = Landed
  BY <1>1, StorageStays DEF Landed, Touches, AddressNow, ColumnNow, AccessAfter
<1>5. Collecting' = Collecting /\ Here' = Here
  BY StorageStays DEF Here, HereLine, SendLine, ReceiveLine, Collecting, SameLine
<1>6. Waits
  BY <1>5, StorageStays DEF Waits
<1>7. /\ \A a : ToSend(a)' <=> ToSend(a)
      /\ \A x : ToReceive(x)' <=> ToReceive(x)
      /\ \A x : Held(x)' <=> Held(x)
  BY <1>5, <1>6, WaitsRest, StorageStays DEF Held
<1> SUFFICES ASSUME phase = "working" PROVE Exact'
  BY <1>2, <1>3, StorageStays DEF Exact
<1>8. Operating' /\ Counting'
  BY <1>1, StorageStays DEF Exact, Counting
<1>9. Planned'
  BY <1>6, StorageStays, PlannedMoves DEF Exact, Keeps
<1>10. MemoryDone' /\ CacheDone'
  BY <1>4, <1>7, StorageStays DEF Exact, MemoryDone, CacheDone
<1>11. CodeDone'
  <2>1. \A c \in Column : ToSend(CodePlace(c))' <=> ToSend(CodePlace(c))
    BY <1>7 DEF ToSend, CodePlace
  <2> QED BY <2>1, StorageStays DEF Exact, CodeDone, CodePlace
<1>12. Buffers'
  BY <1>5, StorageStays DEF Exact, Buffers, Kept
<1>13. Fetched'
  BY StorageStays DEF Exact, Fetched, Holds, Kept, Warm
<1> QED BY <1>8, <1>9, <1>10, <1>11, <1>12, <1>13 DEF Exact

LEMMA StepShapes == ASSUME Typing, Shapes, Next PROVE Shapes'
<1>1. \E use : Bus /\ CommandMemory /\ CoreCache(use)
  BY DEF Next, Step, Launch, HoldReset, Clock
<1>2. memory' = [a \in Address |-> memory'[a]]
  BY <1>1 DEF Bus, ChipClock, Shapes
<1>3. code' = [c \in Column |-> code'[c]]
  BY <1>1 DEF CommandMemory, Shapes
<1>4. cache' = [x \in CacheAddress |-> cache'[x]]
  BY <1>1 DEF CoreCache, CacheClock, Shapes
<1>5. /\ want_memory' = [a \in Address |-> want_memory'[a]]
      /\ want_cache' = [x \in CacheAddress |-> want_cache'[x]]
      /\ want_code' = [c \in Column |-> want_code'[c]]
  <2>1. ASSUME NEW use, Engine(use)
        PROVE  /\ want_memory' = [a \in Address |-> want_memory'[a]]
               /\ want_cache' = [x \in CacheAddress |-> want_cache'[x]]
               /\ want_code' = [c \in Column |-> want_code'[c]]
    BY <2>1 DEF Engine, Stored, Shapes
  <2>2. ASSUME NEW use, NEW op, NEW mem, NEW cells, NEW commands,
               Promise(op, use, mem, cells, commands),
               mem = [a \in Address |-> mem[a]], cells = [x \in CacheAddress |-> cells[x]],
               commands = [c \in Column |-> commands[c]]
        PROVE  /\ want_memory' = [a \in Address |-> want_memory'[a]]
               /\ want_cache' = [x \in CacheAddress |-> want_cache'[x]]
               /\ want_code' = [c \in Column |-> want_code'[c]]
    BY <2>2 DEF Promise, Copied, Stored
  <2>3. ASSUME NEW use, NEW op, StartOperation(op, use)
        PROVE  /\ want_memory' = [a \in Address |-> want_memory'[a]]
               /\ want_cache' = [x \in CacheAddress |-> want_cache'[x]]
               /\ want_code' = [c \in Column |-> want_code'[c]]
    BY <2>2, <2>3 DEF StartOperation, Shapes
  <2>4. CASE HoldReset
    BY <2>4 DEF HoldReset, wantVars, Shapes
  <2> QED BY <2>1, <2>3, <2>4 DEF Next, Step, Launch
<1> QED BY <1>2, <1>3, <1>4, <1>5 DEF Shapes

TransferInv == Inv /\ Storing /\ Shapes /\ Exact

LEMMA StepTransfer == ASSUME Program PROVE TransferInv /\ [Next]_vars => TransferInv'
<1> SUFFICES ASSUME TransferInv, [Next]_vars PROVE TransferInv'
  OBVIOUS
<1>1. Inv /\ Inv' /\ Storing /\ Shapes /\ Exact /\ Typing /\ Typing'
  BY StepInv DEF TransferInv, Inv
<1>2. CASE UNCHANGED vars
  BY <1>1, <1>2, StorageStutter DEF TransferInv
<1>3. CASE ~UNCHANGED vars
  <2>1. Next
    BY <1>3
  <2>2. Storing'
    <3>1. CASE Operating'
      <4>1. Normal
        BY <1>1, <1>3, <3>1, NormalStep DEF Inv
      <4> QED BY <1>1, <4>1, StepStoring DEF Program
    <3>2. CASE ~Operating'
      BY <3>2 DEF Storing, StoreFlow, LastOwner, WriterStates
    <3> QED BY <3>1, <3>2
  <2>3. Exact'
    <3>1. CASE Step /\ phase' = "working"
      BY <1>1, <1>3, <3>1, StepGoing
    <3>2. CASE Launch /\ phase' = "working"
      BY <1>1, <1>3, <3>2, StepLaunches
    <3>3. HoldReset => phase' # "working"
      BY DEF HoldReset
    <3>4. CASE phase' # "working"
      BY <3>4 DEF Exact
    <3> QED BY <2>1, <3>1, <3>2, <3>3, <3>4 DEF Next
  <2> QED BY <1>1, <2>1, <2>2, <2>3, StepShapes DEF TransferInv
<1> QED BY <1>2, <1>3

LEMMA InitTransfer == Init => TransferInv
<1> SUFFICES ASSUME Init PROVE TransferInv
  OBVIOUS
<1>1. /\ state_hi = 0 /\ state = 0 /\ burst = FALSE /\ write_enable = FALSE /\ new_ready = FALSE
      /\ command = "NOP" /\ access = "none"
  BY DEF Init, SdramIdle, Registers, ChipInit
<1>2. ~sdram_is_running /\ write_wait_to_start = 0 /\ wen1 = {} /\ cache_wen = {}
  BY DEF Init, ConnectorInit
<1>3. /\ memory = [a \in Address |-> MemoryWord(a)] /\ cache = [x \in CacheAddress |-> CacheWord(x)]
      /\ code = [c \in Column |-> Blank]
      /\ want_memory = memory /\ want_cache = cache /\ want_code = code
  BY DEF Init, ChipInit
<1>4. Storing
  BY <1>1 DEF Storing, StoreFlow, LastOwner, WriterStates
<1>5. Shapes
  BY <1>3 DEF Shapes
<1>6. Operating
  BY <1>1, Geometry DEF Operating, TopState
<1>7. Landed = memory
  BY <1>1 DEF Landed, Touches, AccessAfter
<1>8. Counting /\ Planned /\ Fetched /\ Buffers
  BY <1>2 DEF Counting, Planned, Fetched, Buffers
<1>9. MemoryDone /\ CodeDone /\ CacheDone
  BY <1>2, <1>3, <1>7 DEF MemoryDone, CodeDone, CacheDone, ToSend
<1> QED BY <1>4, <1>5, <1>6, <1>8, <1>9, InitInv DEF TransferInv, Exact

LEMMA TransferDone == ASSUME Program PROVE TransferInv => TransferExact /\ CodeMirrorsMemory
<1> SUFFICES ASSUME TransferInv, Settled
    PROVE cache = want_cache /\ memory = want_memory /\ code = want_code
  BY DEF TransferExact, CodeMirrorsMemory
<1>1. phase = "working" /\ ~is_running /\ Operating
  BY DEF TransferInv, Settled, Exact
<1>2. Landed = memory
  BY <1>1, NothingLands DEF TransferInv, Settled, Program
<1> QED BY <1>1, <1>2, AtRest DEF TransferInv, Shapes

(***************************************************************************)
(* When flag m clears, a READ or WRITE has moved its block word for word,  *)
(* and nothing else has changed: for every size of memory, row and cache,  *)
(* every block and every sequence of them, however refreshes and row ends  *)
(* cut the bursts, whatever the display takes of the bus between them and  *)
(* whenever the timer resets the chip.                                     *)
(***************************************************************************)
THEOREM MemoryTransferExact == ASSUME Program PROVE Spec => []TransferExact
<1>1. Spec => []TransferInv
  BY InitTransfer, StepTransfer, PTL DEF Spec
<1> QED BY <1>1, TransferDone, PTL

(***************************************************************************)
(* And the command memory holds the code that the memory behind it holds:  *)
(* every word written to its row is in both, from the same transfer.       *)
(***************************************************************************)
THEOREM MemoryCodeMirrors == ASSUME Program PROVE Spec => []CodeMirrorsMemory
<1>1. Spec => []TransferInv
  BY InitTransfer, StepTransfer, PTL DEF Spec
<1> QED BY <1>1, TransferDone, PTL
==============================================================================
