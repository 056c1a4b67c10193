----------------------------- MODULE DataCache ------------------------------
(***************************************************************************)
(* cache.sv: the data cache, a two-port memory of lines of four words.     *)
(* The core reads through port a and writes through port b.  The SDRAM     *)
(* engine gets port b when the core does not write, port a when the core   *)
(* writes but does not read, and no port when the core does both; then     *)
(* what it asked for does not happen and it sees the core's data instead.  *)
(* A read returns its line in the next clock, as it was before the clock's *)
(* writes.                                                                 *)
(***************************************************************************)
EXTENDS Naturals

CONSTANT Lines      \* lines of four words, one for each unit; 4096 in the chip

ASSUME LinesAssumption == Lines \in Nat /\ Lines >= 2 /\ Lines % 2 = 0

Lane == 0 .. 3
Line == 0 .. Lines - 1
CacheAddress == 0 .. 4 * Lines - 1
LineOf(a) == a \div 4
LaneOf(a) == a % 4

VARIABLES cache,        \* contents, by word address
          sdram_rdata   \* what the engine's port shows after the clock

cacheVars == <<cache, sdram_rdata>>

LineAt(l) == [k \in Lane |-> cache[4 * l + k]]

\* What the engine is told: it has a port in this clock.
sdram_en(core_ren, core_wen) == ~(core_ren /\ core_wen # {})

\* The port it has.
sdram_port(core_ren, core_wen) == IF core_wen = {} THEN "b"
                                  ELSE IF ~core_ren THEN "a" ELSE "none"

\* Lanes the core's write enables reach: all four only on a line boundary,
\* otherwise PU0 alone writes the addressed word.
CoreLanes(core_wen, core_waddr) ==
  IF LaneOf(core_waddr) = 0 THEN core_wen
  ELSE IF 0 \in core_wen THEN {LaneOf(core_waddr)} ELSE {}

CoreWord(core_wdata, core_waddr, k) ==
  IF LaneOf(core_waddr) = 0 THEN core_wdata[k] ELSE core_wdata[0]

CacheClock(ren, raddr, wen, waddr, wdata, sdram_wen, sdram_line, sdram_wdata) ==
  LET granted == sdram_port(ren, wen) # "none"
      coreWrites(a) == /\ LineOf(a) = LineOf(waddr)
                       /\ LaneOf(a) \in CoreLanes(wen, waddr)
      sdramWrites(a) == LineOf(a) = sdram_line /\ LaneOf(a) \in sdram_wen
  IN /\ cache' = IF wen # {}
                 THEN [a \in DOMAIN cache |->
                         IF coreWrites(a)
                         THEN CoreWord(wdata, waddr, LaneOf(a))
                         ELSE IF granted /\ sdramWrites(a)
                         THEN sdram_wdata[LaneOf(a)]
                         ELSE cache[a]]
                 ELSE IF sdram_wen # {}
                 THEN [a \in DOMAIN cache |->
                         IF sdramWrites(a) THEN sdram_wdata[LaneOf(a)] ELSE cache[a]]
                 ELSE cache
     /\ sdram_rdata' = IF granted THEN LineAt(sdram_line)
                                  ELSE LineAt(LineOf(raddr))
=============================================================================
