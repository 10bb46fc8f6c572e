SPECIFICATION FairSpec
CONSTANTS
  Events = {1, 2}
  Relays = {r1, r2}
  Consumers = {c1, c2}
  BatchSize = 2
  MaxCopies = 2
INVARIANTS
  Exclusive
  NoEventLost
PROPERTIES
  Implements
  EventuallyHandled
CHECK_DEADLOCK FALSE
