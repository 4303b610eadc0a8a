SPECIFICATION FairSpec
CONSTANTS
  Devices = {}
  BrokerStates = {"down", "slow", "up"}
  Configurations = {{"broker", "networkTimeout"}, {"broker", "restartOnDisconnect", "web"}, {"broker", "disableNetwork"}}
  ConnectLimit = 0
  MaxCommands = 0
  MaxSaves = 0
INVARIANTS RescueWebServer
PROPERTIES HubComesOnline LiveConnectionKept LossRestarts
