SPECIFICATION DestructorSpec
CONSTANTS
  Channel = {ch1, ch2}
  Fd = {fd1, fd2}
  NoChannel = NoChannel
  TimerChannel = ch1
INVARIANTS DeletedNotInLoop
