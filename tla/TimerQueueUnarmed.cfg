SPECIFICATION Spec
CONSTANTS
  Timer = {t1,t2}
  MaxTime = 3
  Interval = {1, 2}
  NoTimer = NoTimer
CHECK_DEADLOCK FALSE
PROPERTIES TimersRun
