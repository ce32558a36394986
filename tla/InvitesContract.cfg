SPECIFICATION Spec
CONSTANTS
  Invites = {i1, i2}
  Users = {u1, u2}
  Requests = {r1, r2, r3}
  MaxFaults = 1
SYMMETRY InviteSymmetry
INVARIANTS TypeOK
PROPERTIES ImplementsInviteContract AcceptingAdmits
CHECK_DEADLOCK FALSE
