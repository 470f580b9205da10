SPECIFICATION Spec
CONSTANTS
  Caller = {c1, c2}
  Task = {t1, t2}
  OwnerQueuesBeforeLoop = FALSE
INVARIANTS NoLostWakeup
PROPERTIES ImplementsExecutor QuitExits
\* After quit() the loop is destroyed and nothing more happens.
CHECK_DEADLOCK FALSE
