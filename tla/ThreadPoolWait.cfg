SPECIFICATION Spec
CONSTANTS
  Worker = {w1}
  Adder = {a1}
  MaxQueueSize = 0
  MaxAdds = 1
PROPERTIES WaitReturns
CHECK_DEADLOCK FALSE
