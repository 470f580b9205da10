SPECIFICATION BufferSpec
CONSTANTS
  Byte = {a, b}
  Junk = Junk
  Size = 3
  HeadRoom = 1
  ExtraBuf = 2
  MaxCap = 7
  MaxChunk = 4
INVARIANTS NeverOverruns
CHECK_DEADLOCK FALSE
