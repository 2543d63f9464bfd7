SPECIFICATION FollowSpec
CONSTANTS
  Addresses <- MoreAccounts
  InitialSigners <- FourSigners
  Epoch = 4
  Keys = {}
  MaxNumber = 3
INVARIANT NeverStuck
