SPECIFICATION Spec
CONSTANTS
  a1 = a1
  e1 = e1
  u1 = u1
  NoAmount = NoAmount
  NoEvent = NoEvent
  NoUser = NoUser
  MaxOrders = 2
  MaxRequests = 2
  Amounts <- MCAmounts
  Events <- MCEvents
  Users <- MCUsers
  Deliveries <- MCDeliveries
INVARIANT EventSettlesOneOrder
CHECK_DEADLOCK FALSE
