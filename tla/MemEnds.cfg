SPECIFICATION FairSpec
CONSTANTS
  COLS = 8
  MemSize = 16
  Closed = Closed
  Undriven = Undriven
  RefreshDone = 16
  RefreshPeriod = 20
  InitRounds = 1
  PORT_COUNT = 2
  Lines = 4
  CountMod = 16
  Blank = Undriven
  VgaBlock = 6
  VgaBase = 8
  VgaUse = {"fetch"}
  Operations <- FewOps
  MaxOperations = 1
  Polls = TRUE
  CoreUse = {{}}
  ResetAfter = {1}
  CodeRow = 0
  CoreCell = 13
PROPERTIES OneLeftoverWord TransferEnds
