SPECIFICATION LifeSpec
CONSTANTS
  Worker = {w1, w2}
  Adder = {builder}
  MaxQueueSize = 0
  MaxAdds = 2
  NumFds = 3
  Peer = {p1, p2, p3}
\* The server may be gone.
CHECK_DEADLOCK FALSE
INVARIANTS LoopsReady SpareIsOwn
PROPERTIES StartsAndStops Answered
