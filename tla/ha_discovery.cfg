SPECIFICATION FairSpec
CONSTANTS
  Nukis = {"lock"}
  Names = {"reset", "smartlock", "unlatch"}
  Topics = {"", "homeassistant"}
  HubFlags = {}
  LockFlags = {"unlatch"}
  OpenerFlags = {}
  MaxSaves = 1
  MaxFaults = 1
INVARIANT HassTypeOK
INVARIANT NoGhostEntities
INVARIANT EntitiesFollowSettings
PROPERTY DevicesAppear
CHECK_DEADLOCK FALSE
