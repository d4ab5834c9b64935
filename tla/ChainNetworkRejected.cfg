CONSTANTS
  MaxBlocks = 8
  MaxLength = 3
  MaxPending = 2
  RejectedSize = 2
  BatchSize = 1
  MaxFailures = 0
  StartState = "Bootstrapping"
  Parts = {"loop"}
  Headers <- MCHeaders
  SecurityParam <- KOne
  SGen <- SGenOne
  RecoveredLibs <- FromGenesis
  Network <- Forks
  BadBlock <- ForksBadBlock
  Local <- NoBlocks
  PeerTips <- ForkedTips
SPECIFICATION MCSpec
CHECK_DEADLOCK FALSE
INVARIANT RejectedIsUseless
