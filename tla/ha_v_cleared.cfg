SPECIFICATION Spec
CONSTANTS
  Nukis = {"lock"}
  Names = {"smartlock"}
  Topics = {"", "homeassistant"}
  HubFlags = {}
  LockFlags = {}
  OpenerFlags = {}
  MaxSaves = 1
  MaxFaults = 0
CHECK_DEADLOCK FALSE
INVARIANT RetainedMessagesCleared
