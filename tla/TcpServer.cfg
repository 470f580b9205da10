SPECIFICATION Spec
CONSTANTS
  Conn = {c1, c2}
  Fd = {fd1, fd2}
  NumLoops = 2
  NoConn = NoConn
  NoFd = NoFd
INVARIANTS ErasesOwn NoUseAfterFree DeletedClean
PROPERTIES DescriptorReturned
