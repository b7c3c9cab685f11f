CONSTANTS
  None = None
  Callers = {c1}
  Phases = 1
  Install = 7
  Modern = TRUE
  Interval = 1
  Inputs <- Nothing
  FallbackCurrents <- Nothing
  FallbackTimes <- MCProgressTimes
  RawLimits <- MCRawLimits
  OtherLimits <- MCPaused
  RawPairs <- MCRawPairs
  MayFail = TRUE
SPECIFICATION FairSpec
PROPERTIES
  CommandEnds
  SnapshotCatchesUp
