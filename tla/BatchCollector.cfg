SPECIFICATION FairSpec
CONSTANTS
  Producers = {p1, p2, p3}
  Flushers = {f}
  Closers = {c}
  Timer = timer
  MaxSize = 2
INVARIANTS
  BufferSound
  HandedInOrder
PROPERTIES
  EveryItemHanded
CHECK_DEADLOCK FALSE
