SPECIFICATION FairSpec
CONSTANTS
  Half = 1
  Bits = 1
  Timeout = 5
  Hold = 3
  SpacedWrites = TRUE
  MinHalf = 3
  MaxHalf = 3
  Prompt = 3
  Cap = 13
INVARIANTS FrameTaken WriteEndsWithFrame QuietLineRestores
PROPERTIES DeviceReadsByte WriteBegins
