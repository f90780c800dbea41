SPECIFICATION ScopesSpec
CONSTANTS
  c1 = c1
  c2 = c2
  c3 = c3
  s1 = s1
  Callers <- Solo
  Waiting <- Solo
  MaxOps = 5
  MaxPolls = 2
  Prior = 0
  Reliable = TRUE
  ScopeIds <- OneScope
INVARIANTS
  ResetRealigns
  NothingReplaced
