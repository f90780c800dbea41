SPECIFICATION Spec
CONSTANTS
  Kinds <- BothKinds
  Urls <- TwoUrls
  Commit = 1
  Ours <- SecondUrl
  PageSize = 1
  MaxTime = 3
  Never = 9
  Skews <- AnySkew
INVARIANTS
  TypeOK
  GrantThenHas
  FoundIsUsable
PROPERTIES
  ImplementsListing
  QueryEnds
