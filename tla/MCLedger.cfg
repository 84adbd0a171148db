SPECIFICATION Spec
CONSTANTS
  a1 = a1
  a2 = a2
  a3 = a3
  Accounts = {a1, a2, a3}
  MaxUint64 = 12
  Allocations <- MCAllocations
  Values = {1, 2, 5, 12}
  Fees = {1, 2, 3}
CHECK_DEADLOCK FALSE
INVARIANT TypeOK
INVARIANT Conservation
INVARIANT CreditsFit
PROPERTY NoNewZeroRecord
 
