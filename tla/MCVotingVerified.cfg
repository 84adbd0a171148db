SPECIFICATION Spec
CONSTANTS
  t1 = t1
  t2 = t2
  v1 = v1
  v2 = v2
  v3 = v3
  a1 = a1
  a2 = a2
  a3 = a3
  k1 = k1
  k2 = k2
  Txs = {t1}
  Actors = {a1}
  Validators = {v1, v2, v3}
  Keys = {k1, k2}
  KeyOf <- MCKeyOf
  Weight <- MCWeight
  OwnTx = OwnTx
  Word = 4
  Blocks = {20}
  Times = {0, 20000}
CHECK_DEADLOCK FALSE
INVARIANT SuccessMeansVerified
