SPECIFICATION Spec
CONSTANTS
  Addresses <- FewAccounts
  InitialSigners <- TwoSigners
  Epoch = 3
  Keys = {1, 2}
  MaxNumber = 5
INVARIANTS TypeOK VotesConsistent RecentsWindow SomeoneCanSign NeverStuck
PROPERTIES PreparedVerifies ImplementsVoting
CHECK_DEADLOCK FALSE
