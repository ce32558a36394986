SPECIFICATION Spec
CONSTANTS
  Events = {e1, e2, e3}
  History = {h}
  Worker = Worker
  Free = Free
  MaxDrawEvents = 2
  MaxAttempts = 4
  MaxFaults = 2
  Timely = TRUE
  CanExpire = FALSE
SYMMETRY StrokeSymmetry
INVARIANTS TypeOK FlushMutex
PROPERTIES OnlyRacedStrokesVanish ImplementsContract
