SPECIFICATION FairSpec
CONSTANTS
  MaxDay = 2
  ReminderDays = {1}
  LateDay = 2
  MaxRequests = 2
  MaxFaults = 1
INVARIANTS
  TypeOK
  ReminderOncePerDay
  SuspendedOnlyWhenLate
PROPERTIES
  PaidIsFinal
  LateIsFlagged
CHECK_DEADLOCK FALSE
