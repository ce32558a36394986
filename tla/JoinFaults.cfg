SPECIFICATION JoinSpec
CONSTANTS
  Events = {e1, e2}
  History = {h}
  Worker = Worker
  Free = Free
  MaxDrawEvents = 2
  MaxAttempts = 4
  MaxFaults = 1
  Timely = TRUE
  ClocksAgree = TRUE
  CanExpire = TRUE
SYMMETRY StrokeSymmetry
INVARIANTS JoinTypeOK JoinerHasTheCanvas
