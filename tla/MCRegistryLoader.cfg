SPECIFICATION LoaderSpec
CONSTANTS
  loader = loader
  Loader = loader
  Callers <- Single
  Waiting <- Single
  MaxOps = 9
  MaxPolls = 2
  Prior = 0
  Reliable = FALSE
  Entries = 5
  MaxPerTx = 2
  MaxRuns = 3
INVARIANTS
  OneInFlight
  AppliedOncePerRun
PROPERTIES
  ImplementsOrderedLoad
  RunEnds
