SPECIFICATION FairSpec
CONSTANTS
  MaxBlock = 12
  MaxBlocksPerLogRequest = 10
INVARIANTS
  CollectedInOrder
  RequestsAcceptable
  RequestBudget
PROPERTY
  Terminates
