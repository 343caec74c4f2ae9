SPECIFICATION Spec
CONSTANTS
  Usernames = {mikhmon, kasir}
  SeedName = mikhmon
  Passwords = {old, fresh}
  SeedPassword = old
  MaxTime = 3
  MaxRequests = 3
  MaxRestarts = 1
INVARIANTS
  TypeOK
  OneTokenPerUser
PROPERTIES
  LastAdminLeavesByRace
CHECK_DEADLOCK FALSE
