SPECIFICATION Spec
CONSTANTS
  None = None
  Callers = {c1, c2}
  Admins = {a1}
  Settings = {"s1", "s2"}
  Limits <- LimitChoice
  PoolSize <- PoolChoice
  Kinds = {"expensive", "bulk"}
  MaxAttempts = 2
  MaxChanges = 1
  Ids = {1, 2, 3, 4}
INVARIANTS
  LimitsHold
  RightUnlessOverlapped
  WaitsEnd
SYMMETRY CallerSymmetry
