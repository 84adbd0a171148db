SPECIFICATION Spec
CONSTANTS
  Radix = 64
  IDLen = 1
  Uint16Len = 1
  IntLen = 2
  Uint64Len = 4
  PublicKeyLen <- MCPublicKeyLen
  SignatureLen <- MCSignatureLen
  ToID <- MCToID
  ChunkSize = 4
  Dimensions = 5
  Requests <- MCRequests
  Accounts <- MCAccounts
  Supply = 3
  Weight = 1
  Times = {0, 20001}
  AuthUnits <- MCAuthUnits
CHECK_DEADLOCK FALSE
INVARIANT TypeOK
INVARIANT RoundTrip
INVARIANT SizeFallsShort
INVARIANT FilesMatchRoots
INVARIANT AskedHaveWindow
INVARIANT TxReplies
INVARIANT BalancesAddUp
INVARIANT PendingLooksUnknown
INVARIANT DefaultHoldsNoProof
PROPERTY VotingSpec
