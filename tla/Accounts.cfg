SPECIFICATION Spec
CONSTANTS
  Requests = {q1, q2, q3, q4}
  Users = {1, 2}
  Authorizations = {a1, a2}
  GoogleName = GoogleName
  None = None
  MaxFaults = 1
SYMMETRY Symmetry
INVARIANTS TypeOK CacheIsCurrent OwnUpdateShows OnlyCrossedSignInsFail
CHECK_DEADLOCK FALSE
