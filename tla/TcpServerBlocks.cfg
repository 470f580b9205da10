SPECIFICATION Spec
CONSTANTS
  OfClient = {FALSE}
  SockCap = 1
  MaxWrite = 2
PROPERTIES LoopComesBack
