CONSTANTS
  MaxSlot = 4
  K = 2
  FInverse = 4
  W = 1
  MaxBlocks = 5
  MaxLength = 4
  Headers <- MCHeaders
  SecurityParam <- AllK
  SGen <- AllSGen
  RecoveredLibs <- FromGenesis
  UncleWindow <- AllWindow
  MaxUncles <- OneUncle
  EraStart <- OneEra
SPECIFICATION AgreementSpec
CHECK_DEADLOCK FALSE
INVARIANT UncleParentsAboveLib
