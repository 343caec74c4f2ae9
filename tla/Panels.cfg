SPECIFICATION FairSpec
CONSTANTS
  Routers = {r1, r2}
  None = None
  Store = Store
  Slots = {1, 2}
  MaxActs = 2
  MaxSwitches = 1
INVARIANTS
  TypeOK
  RestingPageIsTrue
  ActsHitTheRowsSeen
PROPERTY WaitingEnds
CHECK_DEADLOCK FALSE
