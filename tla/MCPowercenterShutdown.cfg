CONSTANTS
  Callers = {c1, c2, c3, c4}
  Cooldown = 10
SPECIFICATION Spec
INVARIANTS
  ShutdownStopsTasks
