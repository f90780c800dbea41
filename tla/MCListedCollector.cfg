SPECIFICATION ListSpec
CONSTANTS
  Keys <- MCKeys
  PageSize = 2
  RpcMayFail = TRUE
INVARIANTS
  TypeOK
  InOrder
  CompleteOnSuccess
PROPERTIES
  CollectorReturns
  NoGoroutineLeak
  ImplementsListing
