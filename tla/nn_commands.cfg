SPECIFICATION Spec
CONSTANTS
  Devices = {"lock"}
  BrokerStates = {"down", "up"}
  Configurations = {{"broker", "web"}, {"web"}}
  ConnectLimit = 0
  MaxCommands = 1
  MaxSaves = 1
INVARIANTS MqttTypeOK ReceiversMatch CommandsAtMostOnce
