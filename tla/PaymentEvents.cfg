SPECIFICATION FairSpec
CONSTANTS
  MaxRows = 1
  WithPhone = {1}
  Flushes = {1, 2}
  BatchSize = 2
  ReadCount = 2
  MaxFaults = 2
INVARIANTS
  TypeOK
PROPERTIES
  DeliveryPromise
  EventuallyDelivered
CHECK_DEADLOCK FALSE
