SPECIFICATION Spec
CONSTANTS
  alice = alice
  bob = bob
  Accounts = {alice, bob}
  Txs <- MCTxs
  Sender <- MCSender
  Nonce <- MCNonce
  Price <- MCPrice
  Cost <- MCCost
  Locals <- LocalTxs
  PriceBump = 10
  AccountSlots = 1
  GlobalSlots = 2
  AccountQueue = 2
  GlobalQueue = 1
  GasPrices = {20}
  Balances = {1, 2}
  MaxNonce = 2
  MaxBatch = 2
INVARIANTS TypeOK ListsTracked PendingExecutable NothingReadyQueued
           EqualizesFairly ResetBoundsQueue
PROPERTY PendingBounded
