SPECIFICATION Spec
CONSTANTS
  n1 = n1
  n2 = n2
  v1 = v1
  v2 = v2
  v3 = v3
  a1 = a1
  k1 = k1
  k2 = k2
  t1 = t1
  Nodes = {n1, n2}
  Txs = {t1}
  Actors = {a1}
  Validators = {v1, v2, v3}
  Keys = {k1, k2}
  KeyOf <- MCKeyOf
  Weight <- MCWeight
  Word = 8
  MaxVotes = 2
CHECK_DEADLOCK FALSE
SYMMETRY Symmetry
INVARIANT AgreeWhereViewsAgree
 
