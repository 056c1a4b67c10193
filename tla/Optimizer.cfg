SPECIFICATION Spec
CONSTANTS
    W = 8
    N = 1
    CacheSize = 8
    IpRange = 32768
    And <- BitAnd
    Or <- BitOr
    Xor <- BitXor
    Darker <- Halved
    Lighter <- Saturated
    LighterWrapped <- Wrapped
    LoReg <- MCLo
    HiReg <- MCHi
    Channels <- NoFields
    Ports <- NoFields
    PortRoom <- NoRoom
    SharedDelay = 3
    PortDelay = 3
    Inputs <- MCInputs
    Texts <- MCTexts
CHECK_DEADLOCK FALSE
INVARIANT OptimizedMeansSource
