CONSTANTS
  t1 = t1
  c1 = c1
  b1 = b1
  b2 = b2
  Txs = {t1, c1}
  PoolBlocks = {b1, b2}
  Anchors <- MCAnchors
  SlotStart <- MCSlotStart
  TxsOf <- MCTxsOf
  SlotOf <- MCSlotOf
  Digests <- MCDigests
  Fits <- MCFits
  TxTtl = 1
  Grace = 1
  SlotWindow = 1
  SecurityDepth = 1
  MaxNow = 2
  MaxPoolFaults = 1
  Transactions <- MCTransactions
  GenesisUnspent = {1, 2}
  MaxTransactions = 2
  MaxTransactionsSize = 2
  MaxGasPerBlock = 4
  MaxBlocksByOthers = 1
  Requests = {r1, r2}
  MaxInbound = 1
  SyncEras = 2
  Batch = 1
  BufferItems = 1
SPECIFICATION ExchangeSpec
CHECK_DEADLOCK FALSE
INVARIANTS PoolIsConsistent SelectionIsSound  InboundBounded
PROPERTIES EvictionIsByAge EveryRequestSettles
