SPECIFICATION Spec
CONSTANTS
  Size = 4
  Byte = {b0, b1, b2}
  Zero = b0
  HonoursStop = TRUE
PROPERTY FifoSpec
