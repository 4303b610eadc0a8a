SPECIFICATION FairSpec
CONSTANTS
  Actions = {lock, unlock}
  Permitted = {lock}
  GpioActions = {unlock}
  LockStates = {"locked", "moving"}
  Queries = {"lockstate", "battery"}
  NoAction = NoAction
  UnknownWord = UnknownWord
  NrOfRetries = 1
  OffEnabled = TRUE
  HybridActions = FALSE
  HybridRetry = {}
  NewSignalLimit = 1
  MaxRequests = 0
  MaxOfficial = 1
  MaxQueries = 1
  MaxMoves = 1
  MaxTroubles = 1
INVARIANT TypeOK
PROPERTY PublishedStateCatchesUp
