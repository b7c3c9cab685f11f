CONSTANTS
  None = None
  Confirmations = 3
  Readings <- MCReadings
  MaxReadings = 6
SPECIFICATION Spec
INVARIANTS
  TypeOK
  RisingRunShown
PROPERTIES
  FallsOnlyAfterReset
  RestartKeepsTotal
