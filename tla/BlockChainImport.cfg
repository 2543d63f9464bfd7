CONSTANTS
  g = g
  a1 = a1
  a2 = a2
  a3 = a3
  b1 = b1
  b2 = b2
  x1 = x1
  x2 = x2
  t1 = t1
  t2 = t2
  Genesis = g
  NoBlock = NoBlock
  NoTd <- MCNoTd
  Parent <- TreeParent
  Number <- TreeNumber
  Difficulty <- TreeDifficulty
  Chain <- TreeChain
  TotalDiff <- TreeTotalDiff
  Txs <- MCTxs
  Blocks <- MixedBlocks
  Time <- MixedTime
  BadHashes = {}
  BadHeaders = {x1}
  BadBlocks = {x2}
  Minable = {}
  Rewinds = {}
  MaxNumber = 3
  MaxBatch = 2
  MaxTime = 2
  MaxTimeFuture = 1
  MaxFutureBlocks = 2
  Tx = {t1, t2}
SPECIFICATION ForwardSpec
INVARIANTS
  IndexOnChain
  HeaviestHead
PROPERTIES
  ImplementsForkChoice
