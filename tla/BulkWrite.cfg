SPECIFICATION Spec
CONSTANTS
  k1 = k1
  k2 = k2
  k3 = k3
  bad = bad
  Keys <- MCKeys
  Inputs <- MCInputs
  Refused <- MCRefused
  Modes = {"atomic", "best_effort", "split_on_failure"}
  Kinds = {"plain", "unique", "upsert"}
  Keyed = {TRUE, FALSE}
  BatchRows = 2
INVARIANTS
  RowsAccounted
  
  CountedRight
