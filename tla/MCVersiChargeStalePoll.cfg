CONSTANTS
  None = None
  Callers = {c1, c2}
  Phases = 1
  Install = 7
  Modern = TRUE
  Interval = 1
  Inputs <- MCInputs
  FallbackCurrents <- Nothing
  FallbackTimes <- Nothing
  RawLimits <- MCRawLimits
  OtherLimits <- Nothing
  RawPairs <- MCRawPairs
  MayFail = FALSE
SYMMETRY Symmetry
SPECIFICATION Spec
PROPERTIES
  TargetEditNeverStartsCharger
