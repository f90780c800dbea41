SPECIFICATION UploadSpec
CONSTANTS
  k1 = k1
  k2 = k2
  Keys <- TwoKeys
  MaxAttrs = 4
  BatchSize = 2
  MaxForeign = 1
INVARIANTS
  TypeOK
  NoSendOnClosed
  EachReportedOnce
  SentInOrder
  ArrivesAsTold
PROPERTIES
  ChannelsClose
