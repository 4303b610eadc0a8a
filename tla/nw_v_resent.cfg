SPECIFICATION FairSpec
CONSTANTS
  Actions = {lock, unlock}
  Permitted = {lock, unlock}
  GpioActions = {}
  LockStates = {"locked"}
  Queries = {"lockstate"}
  NoAction = NoAction
  UnknownWord = UnknownWord
  NrOfRetries = 1
  OffEnabled = TRUE
  HybridActions = TRUE
  HybridRetry = {TRUE}
  NewSignalLimit = 0
  MaxRequests = 2
  MaxOfficial = 1
  MaxQueries = 0
  MaxMoves = 0
  MaxTroubles = 0
PROPERTY FailedCommandResent
