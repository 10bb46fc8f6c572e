SPECIFICATION RoutingSpec
CONSTANTS
  None = None
  Threads = {t1, t2}
  Replicas <- ReplicaChoice
  Weights <- WeightChoice
  Kinds <- KindChoice
  Keys = {"1", "True", "5"}
  Value <- ValueChoice
  Bucket <- BucketChoice
  CacheSize = 1
  Ranges <- RangeChoice
  Moves <- MoveChoice
  MaxTurns = 3
  MaxScopes = 2
INVARIANTS
  
  ReplicasRight
  RefusalsExplained
PROPERTIES
  TurnsAdvance
SYMMETRY ThreadSymmetry
