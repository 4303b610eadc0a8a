SPECIFICATION FairSpec
CONSTANTS
  Devices = {"lock"}
  RestartLimit = 1
  HybridReboot = TRUE
  MaxWeb = 0
  MaxOutages = 1
  MaxFailures = 0
PROPERTY RebootRequestServed
