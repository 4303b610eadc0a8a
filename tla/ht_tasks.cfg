SPECIFICATION FairSpec
CONSTANTS
  Devices = {"lock"}
  RestartLimit = 1
  HybridReboot = TRUE
  MaxWeb = 1
  MaxOutages = 1
  MaxFailures = 1
INVARIANT HubTypeOK
 
INVARIANT OneRebootPerOutage
PROPERTY ErrorsEscalate
PROPERTY ServicesComeBack
