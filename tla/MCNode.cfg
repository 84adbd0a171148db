SPECIFICATION NodeSpec
CONSTANTS
  p1 = p1
  p2 = p2
  p3 = p3
  x = x
  EmptyID = EmptyID
  Chain <- MCChain
  VerifyTxs = {p1, p2}
  ActionOf <- MCActionOf
  StoreTransactions = TRUE
  Reliable = FALSE
  MaxCrashes = 1
  MaxPosts = 1
CHECK_DEADLOCK FALSE
INVARIANT TypeOK
INVARIANT AskedAreQueued
INVARIANT VerifyAfterFiles
INVARIANT VotesAreReports
PROPERTY IndexesWholeBlocks
PROPERTY BlocksIndexed
