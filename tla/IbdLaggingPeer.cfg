CONSTANTS
  MaxBlocks = 8
  MaxLength = 3
  MaxPending = 2
  RejectedSize = 1
  BatchSize = 1
  MaxFailures = 0
  StartState = "Online"
  Parts = {"ibd"}
  Headers <- MCHeaders
  SecurityParam <- KOne
  SGen <- SGenOne
  RecoveredLibs <- FromSlotOne
  Network <- NoBlocks
  BadBlock <- NoBlocks
  Local <- NoBlocks
  PeerTips <- LaggingTips
SPECIFICATION MCSpec
CHECK_DEADLOCK FALSE
PROPERTY ReturnsWhenCaughtUp
