SPECIFICATION Spec
CONSTANTS
  W = 8
  N = 2
  CacheSize = 4
  IpRange = 64
  LoReg <- MCLoReg
  HiReg <- MCHiReg
  Channels <- MCChannels
  Ports <- MCPorts
  And <- BitAnd
  Or <- BitOr
  Xor <- BitXor
  Darker <- Halved
  Lighter <- Saturated
  LighterWrapped <- Wrapped
  PortRoom <- MCPortRoom
  SharedDelay = 3
  PortDelay = 3
  Families <- MCFamilies
  Window = 5
  Length = 3
  MemorySize = 8
  Start = 60
  InitialLo <- MCInitialLo
  InitialHi <- MCInitialHi
  InitialCells <- MCInitialCells
  InitialFlags <- MCInitialFlags
  InitialMemory <- MCInitialMemory
INVARIANTS
  TypeOK
  FetchFollowsManual
  ProcessorFollowsManual
  StoresFollowManual
  PortsFollowManual
  RequestFollowsManual
  SimulatorFollowsManual
  SimulatorKeepsTime
  TransferCopiesBlock
CHECK_DEADLOCK FALSE
