SPECIFICATION SafeSpec
CONSTANTS
  OfClient = {TRUE}
  SockCap = 1
  MaxWrite = 3
\* Both fail: run with -continue.
INVARIANTS StreamIntact
PROPERTIES EofLosesNothing
