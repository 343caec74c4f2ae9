SPECIFICATION SettingsFairSpec
CONSTANTS
  BotIds = {b1, blank}
  Blank = blank
  Minutes = 2
  MaxTime = 2
  MaxSaves = 2
  MaxFailures = 1
INVARIANTS
  SettingsTypeOK
  OnePoller
  OneReportPerDay
PROPERTIES
  DisabledStops
CHECK_DEADLOCK FALSE
