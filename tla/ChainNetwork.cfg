CONSTANTS
  MaxBlocks = 8
  MaxLength = 3
  MaxPending = 2
  RejectedSize = 1
  BatchSize = 1
  MaxFailures = 2
  StartState = "Bootstrapping"
  Parts = {"loop", "ibd"}
  Headers <- MCHeaders
  SecurityParam <- KOne
  SGen <- SGenOne
  RecoveredLibs <- FromGenesis
  Network <- BadAndLocal
  BadBlock <- MCBadBlock
  Local <- MCLocal
  PeerTips <- ForkedTips
SPECIFICATION MCSpec
CHECK_DEADLOCK FALSE
INVARIANTS QueuedNotApplied
PROPERTIES NoRejectedDownload DownloadsEnd IbdEnds
