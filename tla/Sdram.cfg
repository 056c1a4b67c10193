SPECIFICATION Spec
CONSTANTS
  COLS = 3
  MemSize = 6
  Closed = Closed
  Undriven = Undriven
  RefreshDone = 11
  RefreshPeriod = 11
  InitRounds = 1
  MaxAge = 36
INVARIANTS CommandLegal RefreshInTime
