SPECIFICATION FairSpec
CONSTANTS
  u1 = u1
  u2 = u2
  Nobody = Nobody
  Stranger = Stranger
  MaxBatches = 1
  Vouchers <- MCVouchers
  Flushes = {1, 2}
  TakeCount = 1
  ReadCount = 2
  MaxDeliveries = 2
  MaxFaults = 2
INVARIANTS
  TypeOK
  ClosedIsComplete
  ParkedAfterRetries
PROPERTIES
  DeliveryPromise
  EventuallyClosed
CHECK_DEADLOCK FALSE
