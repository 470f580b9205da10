SPECIFICATION Spec
CONSTANT MaxRequests = 3
\* Everything may have ended.
CHECK_DEADLOCK FALSE
INVARIANT NoDangling
PROPERTIES EndsTogether ContextReleased
