SPECIFICATION Spec
CONSTANTS
  OfClient = {TRUE}
  SockCap = 1
  MaxWrite = 2
PROPERTIES SpinEnds
