SPECIFICATION Spec
CONSTANTS
  Addresses <- FewAccounts
  InitialSigners <- TwoSigners
  Epoch = 4
  Keys = {1, 2}
  MaxNumber = 4
PROPERTY SealedVerifies
CHECK_DEADLOCK FALSE
