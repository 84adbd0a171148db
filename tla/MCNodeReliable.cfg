SPECIFICATION ReliableSpec
CONSTANTS
  p1 = p1
  p2 = p2
  p3 = p3
  x = x
  EmptyID = EmptyID
  Chain <- MCChain2
  VerifyTxs = {p1, p2, p3}
  ActionOf <- MCActionOf2
  StoreTransactions = TRUE
  Reliable = TRUE
  MaxCrashes = 0
  MaxPosts = 1
CHECK_DEADLOCK FALSE
PROPERTY ProofsVoted
