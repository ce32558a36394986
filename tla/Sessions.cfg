SPECIFICATION Spec
CONSTANTS
  r1 = r1
  r2 = r2
  r3 = r3
  out = out
  Requests = {r1, r2, r3, out}
  Logouts = {out}
  SignIn = SignIn
  None = None
  MaxFaults = 1
INVARIANTS TypeOK SessionsDoNotMultiply SessionSurvives OnlyCrossedRequestsAreRefused
PROPERTIES RevokedTokensAreRefused
SYMMETRY RequestSymmetry
CHECK_DEADLOCK FALSE
