\* Both programs, the web server and the network device, with crashes.
SPECIFICATION FairSpec
CONSTANTS
  Settings = {"ethernet", "reconfigure", "wifi", "bad", "bootloop_reset", "webserver", "disable_network", "restart_on_disconnect"}
  Given = {"bad"}
  Hardware = {"ok", "dead", "crashes"}
  Targets = {"esp32p4", "other"}
  CounterRange = 6
  CounterLimit = 2
  MaxAttempts = 2
  MaxRequests = 1
  MaxFaults = 1
INVARIANTS BootTypeOK BootableImage
PROPERTIES UpdateCompletes BackToMain FallbackToWifi BootloopEnds
CHECK_DEADLOCK FALSE
