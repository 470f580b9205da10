SPECIFICATION ServerSpec
CONSTANTS
  HeaderWrites = 2
  MaxBlocks = 1
  MaxRequests = 1
CHECK_DEADLOCK FALSE
PROPERTIES FileEndsUnread
