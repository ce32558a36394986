SPECIFICATION Spec
CONSTANTS
  Lists = {"rooms", "invites", "room-invites"}
  Rows = {1, 2, 3}
  here = here
  there = there
  Scopes = {here, there}
  ScopeOf <- Membership
  Limit = 1
  None = None
INVARIANTS TypeOK NewestFirst CompleteUnlessCut OwnRemovalShows
