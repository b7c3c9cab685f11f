CONSTANTS
  Callers = {c1, c2}
  Cooldown = 2
  Values = {v1, v2, odd}
  OutOfRange = odd
  None = None
  TestTimeout = 3
  RcmSettle = 2
  AckWindow = 3
SPECIFICATION FairSpec
INVARIANTS
  TypeOK
  ShownWasHeld
  RunningHasTimeout
  UnlockFollowsWindow
PROPERTIES
  SentOnlyWhenAllowed
  RestartGetsFullTime
  DerivedStatesEnd
