SPECIFICATION SafeSpec
CONSTANTS
  Sock = {s1, s2}
  NoSock = NoSock
  Reconnect = TRUE
  MaxStarts = 1
  MaxStops = 2
\* Both fail: run with -continue.
INVARIANTS ChannelFound
PROPERTIES StopStops
