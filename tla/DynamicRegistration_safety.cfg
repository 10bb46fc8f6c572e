SPECIFICATION RegistrationSpec
CONSTANTS
  small = small
  large = large
  None = None
  Names = {a, b, c}
  Static = {a}
  Settings = {small, large}
  Connections <- MCConnections
  Budget = 4
  MaxDatabases = 1
  EngineCap = 2
  Registrars = {r1, r2}
  Queries = {q1}
  CancelledAt = {"waiting", "purging", "connecting"}
SYMMETRY RegistrationSymmetry
INVARIANTS
  
  LimiterCurrent
