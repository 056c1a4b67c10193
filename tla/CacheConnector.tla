--------------------------- MODULE CacheConnector ---------------------------
(***************************************************************************)
(* memory_to_cache_connector.sv: the engine behind READ and WRITE.  It     *)
(* moves a block between the SDRAM (one word at a time over mem_bus) and   *)
(* the data cache (one line of four words at a time, in the clocks in      *)
(* which the core leaves it a port).  buf1 collects a line from memory or  *)
(* fetches the next one from the cache; buf0 is the line being stored or   *)
(* sent.  One step is one rising edge of the system clock.                 *)
(***************************************************************************)
EXTENDS SdramGeometry, DataCache

CONSTANTS CountMod,   \* 2^16, the range of the count register
          Blank       \* contents of the line buffers at power-up

ASSUME ConnectorAssumption ==
  /\ CountMod \in Nat /\ CountMod >= 8

VARIABLES mem_addr, count,          \* next address and words left
          wren, last4,              \* registers that drive mem_bus
          buf0, buf1,               \* line buffers
          bi,                       \* word of the line
          wen1, cache_wen,          \* words of buf1, of buf0 to be stored
          cache_line,               \* cache_addr: line of the cache port
          write_wait_to_start,      \* 2: line wanted, 1: line read, 0: running
          read_wait_to_start,       \* no word has arrived yet
          read_reload_buf,          \* parity of the line buf1 belongs to
          sdram_is_running

connectorVars == <<mem_addr, count, wren, last4, buf0, buf1, bi, wen1, cache_wen,
                   cache_line, write_wait_to_start, read_wait_to_start,
                   read_reload_buf, sdram_is_running>>

ConnectorInit ==
  /\ mem_addr = 0
  /\ count = 0
  /\ wren = FALSE
  /\ last4 = FALSE
  /\ buf0 = [l \in Lane |-> Blank]
  /\ buf1 = [l \in Lane |-> Blank]
  /\ bi = 0
  /\ wen1 = {}
  /\ cache_wen = {}
  /\ cache_line = 0
  /\ write_wait_to_start = 0
  /\ read_wait_to_start = FALSE
  /\ read_reload_buf = 0
  /\ sdram_is_running = FALSE

-----------------------------------------------------------------------------
\* Wires.
request == sdram_is_running /\ write_wait_to_start = 0
bus_data_write == buf0[bi]
\* The source's is_running is also high in the clock of start_operation itself,
\* which is the action StartOperation.
is_running == sdram_is_running \/ wen1 # {} \/ cache_wen # {}

LastFour == count <= 5        \* count is the value before this clock's decrement

NextLine == (cache_line + 1) % Lines

-----------------------------------------------------------------------------
\* Mutant: a reset leaves the count.
ConnectorResetKeepingCount ==
  /\ cache_wen' = {}
  /\ wen1' = {}
  /\ UNCHANGED <<mem_addr, count, wren, last4, buf0, buf1, bi, cache_line,
                 write_wait_to_start, read_wait_to_start, read_reload_buf,
                 sdram_is_running>>

ConnectorReset == /\ count' = 0
                  /\ cache_wen' = {}
                  /\ wen1' = {}
                  /\ UNCHANGED <<mem_addr, wren, last4, buf0, buf1, bi, cache_line,
                                 write_wait_to_start, read_wait_to_start,
                                 read_reload_buf, sdram_is_running>>

\* The core starts an operation; it takes the engine whatever it was doing.
Start(new_wren, new_mem_addr, new_cache_addr, new_count) ==
  /\ cache_wen' = {}
  /\ mem_addr' = new_mem_addr
  /\ cache_line' = LineOf(new_cache_addr)
  /\ bi' = LaneOf(new_cache_addr)
  /\ count' = new_count
  /\ sdram_is_running' = TRUE
  /\ last4' = LastFour
  /\ wren' = new_wren
  /\ write_wait_to_start' = IF new_wren THEN 2 ELSE 0
  /\ read_wait_to_start' = TRUE
  /\ wen1' = {}
  /\ read_reload_buf' = LineOf(new_cache_addr) % 2
  /\ UNCHANGED <<buf0, buf1>>

\* Mutant: tests only that the engine still waits.
FetchFirstLineAgain(cache_en, cache_rdata) ==
  /\ write_wait_to_start # 0
  /\ IF cache_en
     THEN /\ write_wait_to_start' = 1
          /\ cache_line' = NextLine
          /\ UNCHANGED buf0
     ELSE IF write_wait_to_start = 1
     THEN /\ write_wait_to_start' = 0
          /\ buf0' = cache_rdata
          /\ UNCHANGED cache_line
     ELSE UNCHANGED <<write_wait_to_start, cache_line, buf0>>
  /\ UNCHANGED <<mem_addr, count, wren, last4, buf1, bi, wen1, cache_wen,
                 read_wait_to_start, read_reload_buf, sdram_is_running>>

\* Before a write burst is requested its first line is fetched.
FetchFirstLine(cache_en, cache_rdata) ==
  /\ write_wait_to_start # 0
  /\ IF cache_en /\ write_wait_to_start = 2
     THEN /\ write_wait_to_start' = 1
          /\ cache_line' = NextLine
          /\ UNCHANGED buf0
     ELSE IF write_wait_to_start = 1
     THEN /\ write_wait_to_start' = 0
          /\ buf0' = cache_rdata
          /\ UNCHANGED cache_line
     ELSE UNCHANGED <<write_wait_to_start, cache_line, buf0>>
  /\ UNCHANGED <<mem_addr, count, wren, last4, buf1, bi, wen1, cache_wen,
                 read_wait_to_start, read_reload_buf, sdram_is_running>>

\* A word is transferred in every clock in which the memory is ready.
CountWord(ready) ==
  IF ready
  THEN /\ mem_addr' = (mem_addr + 1) % MemSize
       /\ count' = (count + CountMod - 1) % CountMod
       /\ bi' = (bi + 1) % 4
       /\ last4' = LastFour
       /\ sdram_is_running' = (count \div 2 # 0)
  ELSE UNCHANGED <<mem_addr, count, bi, last4, sdram_is_running>>

\* Sending: buf1 holds the next line when the last word of buf0 goes.
Send(ready, cache_en, cache_rdata) ==
  /\ wren
  /\ buf1' = IF cache_en THEN cache_rdata ELSE buf1
  /\ IF ready /\ bi = 3
     THEN buf0' = buf1 /\ cache_line' = NextLine
     ELSE UNCHANGED <<buf0, cache_line>>
  /\ UNCHANGED <<wen1, cache_wen, read_wait_to_start, read_reload_buf>>

\* Mutant: a transfer that begins on a line boundary starts with the next line.
ReceiveEarlyLine(ready, cache_en, data) ==
  /\ ~wren
  /\ buf1' = IF ready THEN [buf1 EXCEPT ![bi] = data] ELSE buf1
  /\ read_wait_to_start' = (read_wait_to_start /\ ~ready)
  /\ LET newLine == ready /\ bi = 0
         sameLine == cache_line % 2 = read_reload_buf
     IN /\ read_reload_buf' = IF newLine THEN 1 - read_reload_buf
                                         ELSE read_reload_buf
        /\ wen1' = IF newLine THEN {0}
                   ELSE IF ready THEN wen1 \cup {bi}
                   ELSE IF sameLine /\ cache_en THEN {}
                   ELSE wen1
        /\ IF sameLine \/ cache_en
           THEN buf0' = buf1 /\ cache_wen' = wen1
           ELSE UNCHANGED <<buf0, cache_wen>>
        /\ cache_line' = IF ~sameLine /\ cache_en THEN NextLine ELSE cache_line

\* Receiving: words collect in buf1 and its line is stored through buf0.
Receive(ready, cache_en, data) ==
  /\ ~wren
  /\ buf1' = IF ready THEN [buf1 EXCEPT ![bi] = data] ELSE buf1
  /\ read_wait_to_start' = (read_wait_to_start /\ ~ready)
  /\ LET newLine == ready /\ bi = 0 /\ ~read_wait_to_start
         sameLine == cache_line % 2 = read_reload_buf
     IN /\ read_reload_buf' = IF newLine THEN 1 - read_reload_buf
                                         ELSE read_reload_buf
        /\ wen1' = IF newLine THEN {0}
                   ELSE IF ready THEN wen1 \cup {bi}
                   ELSE IF sameLine /\ cache_en THEN {}
                   ELSE wen1
        /\ IF sameLine \/ cache_en
           THEN buf0' = buf1 /\ cache_wen' = wen1
           ELSE UNCHANGED <<buf0, cache_wen>>
        /\ cache_line' = IF ~sameLine /\ cache_en THEN NextLine ELSE cache_line

Transfer(ready, cache_en, cache_rdata, data) ==
  /\ write_wait_to_start = 0
  /\ CountWord(ready)
  /\ \/ Send(ready, cache_en, cache_rdata)
     \/ Receive(ready, cache_en, data)
  /\ UNCHANGED <<wren, write_wait_to_start>>

\* A clock in which no operation is started.
Proceed(ready, cache_en, cache_rdata, data) ==
  \/ FetchFirstLine(cache_en, cache_rdata)
  \/ Transfer(ready, cache_en, cache_rdata, data)

ConnectorTypeOK ==
  /\ mem_addr \in Address
  /\ count \in 0 .. CountMod - 1
  /\ wren \in BOOLEAN
  /\ last4 \in BOOLEAN
  /\ DOMAIN buf0 = Lane /\ DOMAIN buf1 = Lane
  /\ bi \in Lane
  /\ wen1 \subseteq Lane
  /\ cache_wen \subseteq Lane
  /\ cache_line \in Line
  /\ write_wait_to_start \in 0 .. 2
  /\ read_wait_to_start \in BOOLEAN
  /\ read_reload_buf \in {0, 1}
  /\ sdram_is_running \in BOOLEAN
=============================================================================
