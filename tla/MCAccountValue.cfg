SPECIFICATION ValueSpec
CONSTANTS
  Keys <- MCKeys
  NftKeys <- MCSomeNfts
  PageSize = 4
  PoolSize = 2
  RpcMayFail = TRUE
INVARIANTS
  ValueTypeOK
  NoSendOnClosed
  TotalComplete
PROPERTIES
  EverythingEnds
