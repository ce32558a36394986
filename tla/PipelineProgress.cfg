SPECIFICATION FairSpec
CONSTANTS
  Events = {e1, e2}
  History = {h}
  Worker = Worker
  Free = Free
  MaxDrawEvents = 2
  MaxAttempts = 4
  MaxFaults = 2
  Timely = TRUE
  CanExpire = TRUE
PROPERTIES OnlyUnwatchedStrokesExpire StrokesBecomeDurable LockIsReleased
