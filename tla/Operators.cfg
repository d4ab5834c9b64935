SPECIFICATION OperatorsSpec
CONSTANTS
  ConfirmationDepth = 1
  CheckInterval = 2
  EventCapacity = 1
  SettingsDeclared = TRUE
  MaxReportEpoch = 1
  MaxMishaps = 1
  RewardWindow <- MCWindows
  BlockSlots <- MCBlockSlots
  InitialPool = 2
  EpochReward = 1
  MaxClaimsPerTx = 1
  FeedCapacity = 1
  MaxPowRestarts = 1
PROPERTIES ReportsAreDelivered TicketsAreClaimedOnce
CHECK_DEADLOCK FALSE
