SPECIFICATION ServerSpec
CONSTANTS
  HeaderWrites = 3
  MaxBlocks = 2
  MaxRequests = 3
CHECK_DEADLOCK FALSE
INVARIANT WholeFilePipelined
