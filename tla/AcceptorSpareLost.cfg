SPECIFICATION Spec
CONSTANTS
  NumFds = 3
  Peer = {p1, p2, p3}
\* The acceptor may be gone.
CHECK_DEADLOCK FALSE
PROPERTY AnsweredAfterRace
