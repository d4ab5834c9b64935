CONSTANTS
  Tags = {t1}
  MaxSlot = 3
  CrashSlot = 3
  MaxBlocks = 4
  MaxLength = 3
  MaxCrashes = 1
  BatchSize = 2
  Headers <- MCHeaders
  SecurityParam <- KOne
  SGen <- SGenOne
  RecoveredLibs <- FromGenesis
SPECIFICATION MCServiceSpec
INVARIANT PublishedLibsAgree
