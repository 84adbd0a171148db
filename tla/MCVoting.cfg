SPECIFICATION Spec
CONSTANTS
  t1 = t1
  t2 = t2
  v1 = v1
  v2 = v2
  v3 = v3
  a1 = a1
  a2 = a2
  a3 = a3
  k1 = k1
  k2 = k2
  Txs = {t1}
  Actors = {a1, a2, a3}
  Validators = {v1, v2, v3}
  Keys = {k1, k2}
  KeyOf <- MCKeyOf
  Weight <- MCWeight
  OwnTx = OwnTx
  Word = 4
  Blocks = {0, 1, 301}
  Times = {0, 20000, 20001, 300001}
CHECK_DEADLOCK FALSE
SYMMETRY Symmetry
INVARIANT TypeOK
INVARIANT VotingInv
INVARIANT VotesInWindow
INVARIANT WeightIsTally
INVARIANT OneVotePerAccount
INVARIANT StatusNeedsTwoYes
INVARIANT VotesHaveNoEffect
INVARIANT StatusNeverWritten
PROPERTY ClosedIsFinal
PROPERTY BallotSpec
