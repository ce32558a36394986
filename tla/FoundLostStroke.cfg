SPECIFICATION Spec
CONSTANTS
  Events = {e1, e2, e3}
  History = {}
  Worker = Worker
  Free = Free
  MaxDrawEvents = 2
  MaxAttempts = 4
  MaxFaults = 0
  Timely = TRUE
  CanExpire = FALSE
SYMMETRY StrokeSymmetry
INVARIANTS NoStrokeIsLost
