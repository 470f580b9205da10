SPECIFICATION SafeSpec
CONSTANTS
  Sock = {s1, s2}
  NoSock = NoSock
  Reconnect = FALSE
  MaxStarts = 2
  MaxStops = 1
INVARIANTS OneAttempt
