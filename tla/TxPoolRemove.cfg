SPECIFICATION Spec
CONSTANTS
  alice = alice
  bob = bob
  Accounts = {alice, bob}
  Txs <- FewTxs
  Sender <- MCSender
  Nonce <- MCNonce
  Price <- MCPrice
  Cost <- MCCost
  Locals = {}
  PriceBump = 10
  AccountSlots = 2
  GlobalSlots = 4
  AccountQueue = 2
  GlobalQueue = 2
  GasPrices = {}
  Balances = {2}
  MaxNonce = 2
  MaxBatch = 1
INVARIANT AllListed
