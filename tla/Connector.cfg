SPECIFICATION Spec
CONSTANTS
  Sock = {s1, s2, s3}
  NoSock = NoSock
  Reconnect = TRUE
  MaxStarts = 1
  MaxStops = 1
INVARIANTS SocketsAccounted ConnectorOutlives KeepsTrying
PROPERTY StopOnLoopStops
