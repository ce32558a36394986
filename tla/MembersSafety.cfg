SPECIFICATION Spec
CONSTANTS
  anna = anna
  bob = bob
  a1 = a1
  A = A
  b1 = b1
  B = B
  None = None
  Users = {anna, bob}
  Sockets = {a1, b1, b2}
  Servers = {A, B}
  Commands = {c1, c2}
  OwnerOf <- Tabs
  Home <- TwoServers
  Rights <- AdminAndEditor
  MaxFaults = 0
  Unhurried = TRUE
  OneTab = TRUE
INVARIANTS TypeOK PresenceIsExact OnlyMembersAreThere ListedRoleIsCurrent GuardedRoleIsCurrent PagesShowTheOthers
CHECK_DEADLOCK FALSE
