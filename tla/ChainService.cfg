CONSTANTS
  Tags = {t1}
  MaxSlot = 4
  CrashSlot = 3
  MaxBlocks = 4
  MaxLength = 4
  MaxCrashes = 1
  BatchSize = 2
  Headers <- MCHeaders
  SecurityParam <- KOne
  SGen <- SGenOne
  RecoveredLibs <- FromGenesis
SPECIFICATION MCServiceSpec
INVARIANTS TreeIsBacked RestartIsSafe IndexComplete NothingLeaks 
PROPERTY EventuallyReady
