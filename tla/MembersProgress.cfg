SPECIFICATION FairSpec
CONSTANTS
  anna = anna
  bob = bob
  a1 = a1
  A = A
  b1 = b1
  B = B
  None = None
  Users = {anna, bob}
  Sockets = {a1}
  Servers = {A}
  Commands = {c1, c2}
  OwnerOf <- Tabs
  Home <- OneServer
  Rights <- AdminAndEditor
  MaxFaults = 1
  Unhurried = FALSE
  OneTab = TRUE
PROPERTIES CommandsEnd
CHECK_DEADLOCK FALSE
