CONSTANTS
  None = None
SPECIFICATION Spec
INVARIANTS
  InBoundsConvert
  RoundTrip
  BothReadbacksAgree
CHECK_DEADLOCK FALSE
