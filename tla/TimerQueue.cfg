SPECIFICATION Spec
CONSTANTS
  Timer = {t1, t2}
  MaxTime = 3
  Interval = {1, 2}
  NoTimer = NoTimer
INVARIANTS NoUseAfterFree CancelledIsGone NeverArmedLate
PROPERTIES LoneTimerRuns
\* The process may abort.
CHECK_DEADLOCK FALSE
