SPECIFICATION Spec
CONSTANTS
  k1 = k1
  k2 = k2
  Keys = {k1, k2}
  SchemeOf <- MCSchemeOf
  MaxTxs = 3
 
INVARIANT AnswersAreOwn
INVARIANT ExitMeansAccepted
PROPERTY CommandsEnd
