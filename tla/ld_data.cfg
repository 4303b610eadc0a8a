SPECIFICATION FairSpec
CONSTANTS
  Kinds = {"keypad", "topics", "timecontrol", "auth", "config"}
  Ids = {1}
  NoEntry = NoEntry
  Retries = 1
  Settings = {30, 300}
  MaxCommands = 1
  MaxTopicCommands = 2
  MaxFaults = 1
  MaxChanges = 1
INVARIANT DataTypeOK
INVARIANT ParametersServeOnce
PROPERTY UpdateIsComplete
PROPERTY CopiesCatchUp
CHECK_DEADLOCK FALSE
