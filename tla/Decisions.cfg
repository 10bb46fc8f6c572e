SPECIFICATION DecisionsSpec
CONSTANTS
  None = None
  RetryConfigs <- RetryChoice
  Timings <- TimingChoice
  Waits = {0, 1, 3}
  BatchLimits <- LimitChoice
  RowSizes = {0, 1, 3}
  MaxRows = 4
  MaxColumns = 3
  Requests = {None, 0, 1, 2, 5}
  RawConfigs <- RawConfigChoice
INVARIANTS
  
  
  
  BatchesFit
  
