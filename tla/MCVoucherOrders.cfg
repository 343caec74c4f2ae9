SPECIFICATION FairSpec
CONSTANTS
  a1 = a1
  e1 = e1
  u1 = u1
  NoAmount = NoAmount
  NoEvent = NoEvent
  NoUser = NoUser
  MaxOrders = 1
  MaxRequests = 3
  Amounts <- MCAmounts
  Events <- MCEvents
  Users <- MCUsers
  Deliveries <- MCDeliveries
INVARIANTS
  TypeOK
  OneSettlerAtATime
  SoldOnce
  VoucherIsOnRouter
  PaidIsAnnounced
PROPERTIES
  PaidIsFinal
  ProcessingEnds
CHECK_DEADLOCK FALSE
