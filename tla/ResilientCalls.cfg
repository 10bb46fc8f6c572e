SPECIFICATION DemandSpec
CONSTANTS
  Calls = {c1, c2}
  Kinds = {"adhoc", "write", "idempotent_write"}
  Outcomes <- MCOutcomes
  Deadlines <- MCDeadlines
  Attempts = 3
  InitialDelay = 1
  MaximumDelay = 2
  Multiplier = 2
  Jitter = "full"
  MaximumTotal = 2
  RetryReads = TRUE
  RetryWrites = TRUE
  FailureThreshold = 2
  WindowSeconds = 1
  OpenSeconds = 2
  HalfOpenMaxCalls = 1
INVARIANTS
  AtMostOnceApplied
  CooldownHolds
  BackoffWithinLimits
PROPERTIES
  BreakerMoves
  EveryCallEnds
  ProbesUnlessSlotsLost
