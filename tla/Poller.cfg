SPECIFICATION PollerSpec
CONSTANTS
  Channel = {ch1, ch2, ch3}
  Fd = {fd1, fd2}
  NoChannel = NoChannel
  TimerChannel = NoChannel
SYMMETRY Symmetry
INVARIANTS CtlSucceeds KernelAgrees PointersLive
