SPECIFICATION Spec
CONSTANTS
  Keys <- MCKeys
  PageSize = 2
  RpcMayFail = TRUE
INVARIANT ErrorReported
