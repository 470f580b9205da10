SPECIFICATION Spec
CONSTANTS
  Worker = {w1, w2}
  Adder = {a1, a2}
  MaxQueueSize = 2
  MaxAdds = 2
INVARIANT NobodyStranded
PROPERTY CallsReturn
\* The pool's threads have been joined.
CHECK_DEADLOCK FALSE
