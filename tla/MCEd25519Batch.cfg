SPECIFICATION Spec
CONSTANTS
  Counts = {0, 1, 2, 3, 4, 5, 6, 7, 8, 9, 12}
  Cores = {1, 2, 3}
  MinBatchSize = 3
CHECK_DEADLOCK FALSE
INVARIANT BatchInv
INVARIANT AllVerified
