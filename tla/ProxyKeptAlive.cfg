SPECIFICATION Spec
CONSTANT MaxRequests = 2
\* Everything may have ended.
CHECK_DEADLOCK FALSE
INVARIANT NoDanglingKeptAlive
