SPECIFICATION Spec
CONSTANTS
  aPrimary = aPrimary
  aReplica = aReplica
  bPrimary = bPrimary
  Keys <- MCKeys
  DatabaseOf <- MCDatabaseOf
  Tasks = {t1, t2}
  Engines = {e1, e2, e3, e4, e5, e6}
  MaxEngines = 2
  EvictLru = {TRUE, FALSE}
SYMMETRY RegistrySymmetry

  
PROPERTIES
  
  EvictsLeastRecentlyUsed
