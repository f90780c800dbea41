SPECIFICATION PoolSpec
CONSTANTS
  c1 = c1
  c2 = c2
  Callers <- Pair
  Waiting <- Pair
  MaxOps = 1
  MaxPolls = 1
  Prior = 0
  Reliable = FALSE
  Worlds <- MCWorlds
INVARIANTS
  PoolTypeOK
  ReportsOwnEvent
  CommittedIsAnswered
  LocatesOwnTx
  NoEffectErrors
PROPERTIES
  CallEnds
