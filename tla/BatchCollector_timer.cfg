SPECIFICATION Spec
CONSTANTS
  Producers = {p1, p2, p3}
  Flushers = {f}
  Closers = {c}
  Timer = timer
  MaxSize = 2
INVARIANTS
  FlushRunsToItsEnd
CHECK_DEADLOCK FALSE
