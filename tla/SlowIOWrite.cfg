SPECIFICATION FairSpec
CONSTANTS
  Size = 4
  Byte = {b0, b1}
  Zero = b0
  SpacedWrites = TRUE
INVARIANT ReadyMeansRoom
PROPERTIES FifoSpec RingDrains
