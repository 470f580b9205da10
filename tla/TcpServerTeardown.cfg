SPECIFICATION TeardownSpec
CONSTANTS
  Conn = {c1}
  Fd = {fd1}
  NumLoops = 1
  NoConn = NoConn
  NoFd = NoFd
CHECK_DEADLOCK FALSE
\* Both fail: run with -continue.
INVARIANTS DeletedDisconnected RemoveAssertion
