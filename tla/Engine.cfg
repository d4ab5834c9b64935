CONSTANTS
  Tags = {t1, t2}
  Late = t3
  MaxSlot = 4
  FirstLate = 6
  LastLate = 10
  EarlyBlocks = 5
  EarlyLength = 4
  MaxBlocks = 7
  MaxLength = 5
  Headers <- MCHeaders
  SecurityParam <- KVaries
  SGen <- SGenOne
  RecoveredLibs <- GenesisOrRecovered
  UncleWindow <- WindowThree
  MaxUncles <- TwoUncles
  EraStart <- TwoEras
  EraSchedules <- MCSchedules
  LastSlot = 9
  UncleReach = 1
SPECIFICATION ConsensusSpec
SYMMETRY TagSymmetry
CHECK_DEADLOCK FALSE
INVARIANTS TreeIsSound UnclesAreSound
PROPERTIES LibIsFinal ForkChoiceSettled CanonicalChangeExact PruningExact OnlineReorgBounded EpochsFollowHistory
