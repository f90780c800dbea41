SPECIFICATION Spec
CONSTANTS
  c1 = c1
  Callers <- Solo
  Waiting <- Nobody
  MaxOps = 4
  MaxPolls = 2
  Prior = 0
  Reliable = TRUE
INVARIANT ResetRealigns
