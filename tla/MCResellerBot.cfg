SPECIFICATION FairSpec
CONSTANTS
  b1 = b1
  b2 = b2
  Bots <- MCBots
  Adjustments <- MCAdjustments
  Saldo = 1
  Price = 1
  TopupAmount = 2
  MaxPresses = 2
  MaxRequests = 1
  MaxVouchers = 2
  MaxPanel = 1
  MaxFaults = 2
INVARIANTS
  TypeOK
  DeliveredIsPaid
  StatusTellsCredit
PROPERTIES
  BalanceFollowsLedger
  PressesAnswered
CHECK_DEADLOCK FALSE
