SPECIFICATION LedgerSpec
CONSTANTS
  z1 = z1 z2 = z2 p1 = p1 p2 = p2 n1 = n1 n2 = n2 k1 = k1 k2 = k2 k3 = k3
  ZkIds = {z1, z2}
  ProviderIds = {p1, p2}
  Notes = {n1, n2}
  StakeNotes = {n1, n2}
  Genesis <- MCDeclarations
  InactivityPeriod = 2
  MinimumNetworkSize = 1
  Distances = {0, 1}
  BlockIncome = 7
  MaxEpoch = 5
  MaxSequence = 2
  MaxIncome = 7
  ChannelIds = {c1}
  Keys = {k1, k2, k3}
  Configs <- MCConfigs
  MaxBlockSlot = 9
  MaxMessages = 3
  MaxConfigs = 2
  EpochSlots = 2
  SlotWindow <- MCWindow
  FeeWindowSize = 2
  GenesisPool = 7
  Payout <- MCTwoThirds
  PowShare <- MCHalf
  Emission <- MCEmission
  BlendShare <- MCThird
  TotalStake = 2
  BlockFees <- MCFees
  Attempts = {1}
  MaxHeadSlot = 5
  MaxClaims = 2
  GasTarget = 4
  Smoothing <- MCMost
  FeeRate <- MCEighth
  StorageSmoothing <- MCHalf
  StorageStep <- MCHalf
  ClaimTarget = 2
  ClaimFactor = 5
  ClaimPrecision = 7
  GenesisTarget = 9
  Gas = {0, 4, 8}
  StorageGas = {0, 3}
  Claims = {0, 2, 5}
  MaxPrice = 5
  NoteChannels = {c1, c2}
  GenesisNotes <- MCGenesisNotes
  MinStake = 2
  GasCosts = {1}
  Rewards = {2}
  OutputValues <- MCOutputs
  MaxNoteId = 6
  MaxOps = 2
  MaxHeight = 4
  SecurityParam = 1
  StreamCapacity = 1
  MaxChainBlocks = 5
  RestartBlocks = 4
  MaxForkBlocks = 1
  ChainEpochs <- MCEpochs
  MaxVouchers = 1
  MaxClaimsBuilt = 1
  MaxNodeRestarts = 1
INVARIANTS ProvidersAreSound ReportsPayOnce NotesAreSound  MmrMatchesTree
PROPERTIES  PoolsPayWhatTheyHold MarketsFollowLoad VouchersAreClaimable
CHECK_DEADLOCK FALSE
