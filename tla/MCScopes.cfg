SPECIFICATION ScopesSpec
CONSTANTS
  c1 = c1
  c2 = c2
  c3 = c3
  s1 = s1
  Callers <- Trio
  Waiting <- Solo
  MaxOps = 1
  MaxPolls = 1
  Prior = 0
  Reliable = FALSE
  ScopeIds <- OneScope
SYMMETRY Exchange
INVARIANTS
  ScopesTypeOK
  FreshNumbers
  OverwritesOnlyUnseen
