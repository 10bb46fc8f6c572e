SPECIFICATION FairSpec
CONSTANTS
  Users = {u1, u2}
  Modes = {"transaction", "write", "read", "stream"}
  PoolSize = 1
  MaxCancels = 3
INVARIANTS
  ToldRight
  CleanupUndisturbed
PROPERTIES
  ReturnsSound
  ConnectionGivenBack
