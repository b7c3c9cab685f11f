CONSTANTS
  None = None
  Callers = {c1, c2}
  Phases = 1
  Install = 7
  Modern = TRUE
  Interval = 1
  Inputs <- MCInputs
  FallbackCurrents <- MCCurrents
  FallbackTimes <- MCTimes
  RawLimits <- MCRawLimits
  OtherLimits <- MCPaused
  RawPairs <- MCRawPairs
  MayFail = TRUE
SYMMETRY Symmetry
SPECIFICATION Spec
INVARIANTS
  TypeOK
  SingleFlight
  AckedLimitMatchesTarget
  TargetUsable
PROPERTIES
  TargetMovesWithItsAnswer
