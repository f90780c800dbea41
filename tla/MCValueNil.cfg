SPECIFICATION ValueSpec
CONSTANTS
  Keys <- MCThree
  NftKeys <- MCThree
  PageSize = 2
  PoolSize = 2
  RpcMayFail = FALSE
INVARIANT ErrorBranchReturnsError
