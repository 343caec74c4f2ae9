SPECIFICATION FairSpec
CONSTANTS
  MaxDay = 2
  ReminderDays = {1}
  LateDay = 2
  MaxRequests = 0
  MaxFaults = 0
PROPERTY OverdueNotificationRetried
CHECK_DEADLOCK FALSE
