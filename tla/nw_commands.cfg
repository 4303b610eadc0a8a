SPECIFICATION CommandSpec
CONSTANTS
  Actions = {lock, unlock, unlatch}
  Permitted = {lock}
  GpioActions = {unlock}
  LockStates = {"locked"}
  Queries = {"lockstate"}
  NoAction = NoAction
  UnknownWord = UnknownWord
  NrOfRetries = 1
  OffEnabled = TRUE
  HybridActions = TRUE
  HybridRetry = {FALSE, TRUE}
  NewSignalLimit = 0
  MaxRequests = 2
  MaxOfficial = 1
  MaxQueries = 0
  MaxMoves = 0
  MaxTroubles = 2
INVARIANT SentWasRequested
INVARIANT OneRoundPerRequest
INVARIANT RadioIdleIsVisible
PROPERTY LedgerSpec
PROPERTY PendingActionServed
PROPERTY GpioActionDispatched
