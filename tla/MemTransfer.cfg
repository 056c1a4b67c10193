SPECIFICATION Spec
CONSTANTS
  COLS = 8
  MemSize = 16
  Closed = Closed
  Undriven = Undriven
  RefreshDone = 16
  RefreshPeriod = 20
  InitRounds = 1
  PORT_COUNT = 2
  Lines = 4
  CountMod = 16
  Blank = Undriven
  VgaBlock = 6
  VgaBase = 10
  VgaUse = {"fetch", "withdraw"}
  Operations <- AllOps
  MaxOperations = 1
  Polls = TRUE
  CoreUse <- AnyUse
  ResetAfter = {}
  CodeRow = 0
  CoreCell = 13
INVARIANTS TypeOK TransferExact DisplayWordExact CodeMirrorsMemory StoresOnlyDriven
