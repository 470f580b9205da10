SPECIFICATION Spec
CONSTANTS
  Caller = {}
  Task = {t1}
  OwnerQueuesBeforeLoop = TRUE
PROPERTIES QueuedTaskRuns
CHECK_DEADLOCK FALSE
