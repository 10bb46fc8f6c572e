SPECIFICATION Spec
CONSTANTS
  Keys = {k1, k2}
  Queries <- QueryChoice
  Timeouts = {None, 0, 1}
  LockTimeouts = {None, 1}
  DefaultTimeout = 10
  MaxStatements = 2
  MaxDepth = 2
  None = None
INVARIANTS
  TimeoutsHold
  CommittedAsTold
  LocksKept
