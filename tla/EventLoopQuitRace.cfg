SPECIFICATION SafeSpec
CONSTANTS
  Caller = {c1}
  Task = {t1}
  OwnerQueuesBeforeLoop = FALSE
INVARIANTS LoopOutlivesCallers
CHECK_DEADLOCK FALSE
