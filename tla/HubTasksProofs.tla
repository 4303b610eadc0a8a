--------------------------- MODULE HubTasksProofs ---------------------------
(***************************************************************************)
(* Proofs about HubTasks, for lock and opener, every restart limit and     *)
(* every number of outages, BLE failures and web requests.                 *)
(***************************************************************************)
EXTENDS HubTasks, TLAPS

\* Before the first request from the web page only nukiTask restarts the services, it
\* leaves the network objects alone, and between deleting and recreating the
\* wrappers it is busy doing just that.
SafeInv ==
  count["web"] = 0 =>
    /\ restartServ = 0
    /\ restartServRead = 0
    /\ pc["net"] \notin InServices
    /\ reconnect["nuki"] = FALSE
    /\ started = Devices
    /\ netObject = Devices
    /\ pc["nuki"] \notin {"scanner", "create"} => wrapper = Devices
    /\ esp # "panic"
    /\ borrowed = FALSE

\* The count kept by nukiTask is never behind the number of restarts since the
\* device last answered: it is reset only when the present wrapper has seen an
\* answer, and that ended the strikes too.
StrikesInv ==
  \A d \in Devices :
    /\ strikes[d] <= restartCount[d]
    /\ pc["nuki"] \notin {"delete", "scanner", "create"} /\ hasConnected[d] => strikes[d] = 0

\* A loss of the lock's connection is in one place only until the reboot: not
\* noticed yet, noted with its time, in the flag, or in update()'s argument.
\* The flag does not count while nukiTask is bound to clear it.
Unnoticed == IF offSeen /\ ~offConnected THEN 1 ELSE 0
Noted     == IF offLastConnected # "zero" THEN 1 ELSE 0
Flagged   == IF rebootLock /\ ~(pc["nuki"] \in {"update", "clear"} /\ dev = "lock") THEN 1 ELSE 0
Passed    == IF rebootArg THEN 1 ELSE 0
RebootInv ==
  /\ rebootArg => pc["nuki"] = "update" /\ dev = "lock"
  /\ pc["nuki"] = "clear" => dev = "lock"
  /\ reboots + Unnoticed + Noted + Flagged + Passed <= count["outage"]

HubInv == HubTypeOK /\ SafeInv /\ StrikesInv /\ RebootInv

USE DEF taskVars, objectVars, bleVars, rebootVars, networkVars, hybridVars, worldVars,
        ServicesFrame, NukiFrame, NetFrame, OutsideFrame, GoTo

\* The state setup() leaves behind.
LEMMA InitHub == Init => HubInv
  <1> SUFFICES ASSUME Init PROVE HubInv
    OBVIOUS
  <1> USE DEF Init, Fresh
  <1>1. HubTypeOK
    <2>1. TaskTypes
      BY LimitAssumption DEF TaskTypes, Tasks, NukiSteps, NetSteps, InServices, Nobody, Init
    <2>2. ObjectTypes
      BY LimitAssumption DEF ObjectTypes, Init
    <2>3. BleTypes
      BY LimitAssumption DEF BleTypes, Fresh, Init
    <2>4. NetworkTypes
      BY LimitAssumption DEF NetworkTypes, Init
    <2>5. HistoryTypes
      BY LimitAssumption DEF HistoryTypes, BoundedEvents, Init
    <2>6. QED
      BY <2>1, <2>2, <2>3, <2>4, <2>5 DEF HubTypeOK
  <1>2. SafeInv /\ StrikesInv /\ RebootInv
    BY LimitAssumption DEF SafeInv, StrikesInv, RebootInv, Unnoticed, Noted, Flagged, Passed,
          InServices, BoundedEvents, Tasks
  <1>3. QED
    BY <1>1, <1>2 DEF HubInv

\* Types; the guard of the restart bounds the counter.
LEMMA NextHubType == HubTypeOK /\ [Next]_hubVars => HubTypeOK'
  <1> SUFFICES ASSUME HubTypeOK, [Next]_hubVars PROVE HubTypeOK'
    OBVIOUS
  <1> USE DevicesAssumption, LimitAssumption DEF HubTypeOK
  <1>1. CASE NukiTask
    <2>1. CASE NukiTop
      BY <2>1 DEF TaskTypes, ObjectTypes, BleTypes, NetworkTypes, HistoryTypes,
             Tasks, NukiSteps, NetSteps, InServices, Nobody, BoundedEvents, NukiTop
    <2>2. CASE NukiScan
      BY <2>2 DEF TaskTypes, ObjectTypes, BleTypes, NetworkTypes, HistoryTypes,
             Tasks, NukiSteps, NetSteps, InServices, Nobody, BoundedEvents, NukiScan, Panics
    <2>3. CASE NoDevice
      BY <2>3 DEF TaskTypes, ObjectTypes, BleTypes, NetworkTypes, HistoryTypes,
             Tasks, NukiSteps, NetSteps, InServices, Nobody, BoundedEvents, NoDevice
    <2>4. CASE CheckController
      <3>1. TaskTypes'
        BY <2>4 DEF TaskTypes, Tasks, NukiSteps, NetSteps, InServices, Nobody, CheckController,
           UseDeletedWrapper, RestartBleServices, RestartServices,
             RestartChip, EnterUpdate, Panics
      <3>2. ObjectTypes'
        BY <2>4 DEF ObjectTypes, CheckController, UseDeletedWrapper, RestartBleServices,
           RestartServices,
             RestartChip, EnterUpdate, Panics
      <3>3. BleTypes'
        BY <2>4 DEF BleTypes, Fresh, CheckController, UseDeletedWrapper, RestartBleServices,
           RestartServices,
             RestartChip, EnterUpdate, Panics
      <3>4. NetworkTypes'
        BY <2>4 DEF NetworkTypes, CheckController, UseDeletedWrapper, RestartBleServices,
           RestartServices,
             RestartChip, EnterUpdate, Panics
      <3>5. HistoryTypes'
        BY <2>4 DEF HistoryTypes, BoundedEvents, CheckController, UseDeletedWrapper,
           RestartBleServices, RestartServices,
             RestartChip, EnterUpdate, Panics
      <3>6. QED
        BY <3>1, <3>2, <3>3, <3>4, <3>5 DEF HubTypeOK
    <2>5. ASSUME NEW answered \in BOOLEAN, NEW pinValid \in BOOLEAN, EndUpdate(answered, pinValid)
          PROVE  HubTypeOK'
      <3>1. TaskTypes'
        BY <2>5 DEF TaskTypes, Tasks, NukiSteps, NetSteps, InServices, Nobody, EndUpdate, Advance,
           Panics
      <3>2. ObjectTypes'
        BY <2>5 DEF ObjectTypes, EndUpdate, Advance, Panics
      <3>3. BleTypes'
        BY <2>5 DEF BleTypes, Fresh, EndUpdate, Advance, Panics
      <3>4. NetworkTypes'
        BY <2>5 DEF NetworkTypes, EndUpdate, Advance, Panics
      <3>5. HistoryTypes'
        BY <2>5 DEF HistoryTypes, BoundedEvents, EndUpdate, Advance, Panics
      <3>6. QED
        BY <3>1, <3>2, <3>3, <3>4, <3>5 DEF HubTypeOK
    <2>6. CASE ClearReboot
      <3>1. TaskTypes'
        <4>1. dev' \in Devices \cup {Nobody}
          BY <2>6 DEF ObjectTypes, TaskTypes, Tasks, NukiSteps, NetSteps, InServices, Nobody,
             ClearReboot, Advance
        <4>2. /\ pc' \in [Tasks -> NukiSteps \cup NetSteps]
              /\ pc'["nuki"] \in NukiSteps /\ pc'["net"] \in NetSteps
          BY <2>6 DEF ObjectTypes, TaskTypes, Tasks, NukiSteps, NetSteps, InServices, Nobody,
             ClearReboot, Advance
        <4>3. QED
          BY <2>6, <4>1, <4>2 DEF TaskTypes, ClearReboot, Advance
      <3>2. ObjectTypes'
        BY <2>6 DEF ObjectTypes, ClearReboot, Advance
      <3>3. BleTypes'
        BY <2>6 DEF BleTypes, Fresh, ClearReboot, Advance
      <3>4. NetworkTypes'
        BY <2>6 DEF NetworkTypes, ClearReboot, Advance
      <3>5. HistoryTypes'
        BY <2>6 DEF HistoryTypes, BoundedEvents, ClearReboot, Advance
      <3>6. QED
        BY <3>1, <3>2, <3>3, <3>4, <3>5 DEF HubTypeOK
    <2>7. CASE DeleteServices("nuki")
      <3>1. TaskTypes'
        BY <2>7 DEF TaskTypes, Tasks, NukiSteps, NetSteps, InServices, Nobody, DeleteServices
      <3>2. ObjectTypes'
        BY <2>7 DEF ObjectTypes, DeleteServices
      <3>3. BleTypes'
        BY <2>7 DEF BleTypes, Fresh, DeleteServices
      <3>4. NetworkTypes'
        BY <2>7 DEF NetworkTypes, DeleteServices
      <3>5. HistoryTypes'
        BY <2>7 DEF HistoryTypes, BoundedEvents, DeleteServices
      <3>6. QED
        BY <3>1, <3>2, <3>3, <3>4, <3>5 DEF HubTypeOK
    <2>8. CASE DeleteScanner("nuki")
      <3>1. TaskTypes'
        BY <2>8 DEF TaskTypes, Tasks, NukiSteps, NetSteps, InServices, Nobody, DeleteScanner
      <3>2. ObjectTypes'
        BY <2>8 DEF ObjectTypes, DeleteScanner
      <3>3. BleTypes'
        BY <2>8 DEF BleTypes, Fresh, DeleteScanner
      <3>4. NetworkTypes'
        BY <2>8 DEF NetworkTypes, DeleteScanner
      <3>5. HistoryTypes'
        BY <2>8 DEF HistoryTypes, BoundedEvents, DeleteScanner
      <3>6. QED
        BY <3>1, <3>2, <3>3, <3>4, <3>5 DEF HubTypeOK
    <2>9. CASE CreateServices("nuki")
      <3>1. TaskTypes'
        BY <2>9 DEF TaskTypes, Tasks, NukiSteps, NetSteps, InServices, Nobody, CreateServices,
           Panics
      <3>2. ObjectTypes'
        BY <2>9 DEF ObjectTypes, CreateServices, Panics
      <3>3. BleTypes'
        BY <2>9 DEF BleTypes, Fresh, CreateServices, Panics
      <3>4. NetworkTypes'
        BY <2>9 DEF NetworkTypes, CreateServices, Panics
      <3>5. HistoryTypes'
        BY <2>9 DEF HistoryTypes, BoundedEvents, CreateServices, Panics
      <3>6. QED
        BY <3>1, <3>2, <3>3, <3>4, <3>5 DEF HubTypeOK
    <2>10. CASE FinishServices("nuki")
      BY <2>10 DEF TaskTypes, ObjectTypes, BleTypes, NetworkTypes, HistoryTypes,
             Tasks, NukiSteps, NetSteps, InServices, Nobody, BoundedEvents, FinishServices
    <2>11. QED
      BY <1>1, <2>1, <2>2, <2>3, <2>4, <2>5, <2>6, <2>7, <2>8, <2>9, <2>10 DEF NukiTask, Services
  <1>2. CASE NetworkTask
    <2>1. CASE NetTop
      BY <2>1 DEF TaskTypes, ObjectTypes, BleTypes, NetworkTypes, HistoryTypes,
             Tasks, NukiSteps, NetSteps, InServices, Nobody, BoundedEvents, NetTop
    <2>2. CASE NetRead
      BY <2>2 DEF TaskTypes, ObjectTypes, BleTypes, NetworkTypes, HistoryTypes,
             Tasks, NukiSteps, NetSteps, InServices, Nobody, BoundedEvents, NetRead
    <2>3. CASE NetReadClear
      <3>1. TaskTypes'
        BY <2>3 DEF TaskTypes, Tasks, NukiSteps, NetSteps, InServices, Nobody, NetReadClear,
           RestartServices
      <3>2. ObjectTypes'
        BY <2>3 DEF ObjectTypes, NetReadClear, RestartServices
      <3>3. BleTypes'
        BY <2>3 DEF BleTypes, Fresh, NetReadClear, RestartServices
      <3>4. NetworkTypes'
        BY <2>3 DEF NetworkTypes, NetReadClear, RestartServices
      <3>5. HistoryTypes'
        BY <2>3 DEF HistoryTypes, BoundedEvents, NetReadClear, RestartServices
      <3>6. QED
        BY <3>1, <3>2, <3>3, <3>4, <3>5 DEF HubTypeOK
    <2>4. CASE NetDevices
      <3>1. TaskTypes'
        BY <2>4 DEF TaskTypes, Tasks, NukiSteps, NetSteps, InServices, Nobody, NetDevices,
           WatchOfficial, WentOffline, RebootDue, Panics
      <3>2. ObjectTypes'
        BY <2>4 DEF ObjectTypes, NetDevices, WatchOfficial, WentOffline, RebootDue, Panics
      <3>3. BleTypes'
        BY <2>4 DEF BleTypes, Fresh, NetDevices, WatchOfficial, WentOffline, RebootDue, Panics
      <3>4. NetworkTypes'
        BY <2>4 DEF NetworkTypes, NetDevices, WatchOfficial, WentOffline, RebootDue, Panics
      <3>5. HistoryTypes'
        BY <2>4 DEF HistoryTypes, BoundedEvents, NetDevices, WatchOfficial, WentOffline,
           RebootDue, Panics
      <3>6. QED
        BY <3>1, <3>2, <3>3, <3>4, <3>5 DEF HubTypeOK
    <2>5. CASE DeleteServices("net")
      <3>1. TaskTypes'
        BY <2>5 DEF TaskTypes, Tasks, NukiSteps, NetSteps, InServices, Nobody, DeleteServices
      <3>2. ObjectTypes'
        BY <2>5 DEF ObjectTypes, DeleteServices
      <3>3. BleTypes'
        BY <2>5 DEF BleTypes, Fresh, DeleteServices
      <3>4. NetworkTypes'
        BY <2>5 DEF NetworkTypes, DeleteServices
      <3>5. HistoryTypes'
        BY <2>5 DEF HistoryTypes, BoundedEvents, DeleteServices
      <3>6. QED
        BY <3>1, <3>2, <3>3, <3>4, <3>5 DEF HubTypeOK
    <2>6. CASE DeleteScanner("net")
      <3>1. TaskTypes'
        BY <2>6 DEF TaskTypes, Tasks, NukiSteps, NetSteps, InServices, Nobody, DeleteScanner
      <3>2. ObjectTypes'
        BY <2>6 DEF ObjectTypes, DeleteScanner
      <3>3. BleTypes'
        BY <2>6 DEF BleTypes, Fresh, DeleteScanner
      <3>4. NetworkTypes'
        BY <2>6 DEF NetworkTypes, DeleteScanner
      <3>5. HistoryTypes'
        BY <2>6 DEF HistoryTypes, BoundedEvents, DeleteScanner
      <3>6. QED
        BY <3>1, <3>2, <3>3, <3>4, <3>5 DEF HubTypeOK
    <2>7. CASE CreateServices("net")
      <3>1. TaskTypes'
        BY <2>7 DEF TaskTypes, Tasks, NukiSteps, NetSteps, InServices, Nobody, CreateServices,
           Panics
      <3>2. ObjectTypes'
        BY <2>7 DEF ObjectTypes, CreateServices, Panics
      <3>3. BleTypes'
        BY <2>7 DEF BleTypes, Fresh, CreateServices, Panics
      <3>4. NetworkTypes'
        BY <2>7 DEF NetworkTypes, CreateServices, Panics
      <3>5. HistoryTypes'
        BY <2>7 DEF HistoryTypes, BoundedEvents, CreateServices, Panics
      <3>6. QED
        BY <3>1, <3>2, <3>3, <3>4, <3>5 DEF HubTypeOK
    <2>8. CASE FinishServices("net")
      BY <2>8 DEF TaskTypes, ObjectTypes, BleTypes, NetworkTypes, HistoryTypes,
             Tasks, NukiSteps, NetSteps, InServices, Nobody, BoundedEvents, FinishServices
    <2>9. QED
      BY <1>2, <2>1, <2>2, <2>3, <2>4, <2>5, <2>6, <2>7, <2>8 DEF NetworkTask, Services
  <1>3. CASE Outside
    <2>1. ASSUME NEW k \in {1, 2}, WebRestart(k) PROVE HubTypeOK'
      BY <2>1 DEF TaskTypes, ObjectTypes, BleTypes, NetworkTypes, HistoryTypes,
             Tasks, NukiSteps, NetSteps, InServices, Nobody, BoundedEvents, WebRestart, Happens
    <2>2. ASSUME NEW d \in Devices, BleError(d) PROVE HubTypeOK'
      BY <2>2 DEF TaskTypes, ObjectTypes, BleTypes, NetworkTypes, HistoryTypes,
             Tasks, NukiSteps, NetSteps, InServices, Nobody, BoundedEvents, BleError
    <2>3. ASSUME NEW d \in Devices, BeaconReceived(d) PROVE HubTypeOK'
      BY <2>3 DEF TaskTypes, ObjectTypes, BleTypes, NetworkTypes, HistoryTypes,
             Tasks, NukiSteps, NetSteps, InServices, Nobody, BoundedEvents, BeaconReceived
    <2>4. ASSUME NEW d \in Devices, BeaconTimeout(d) PROVE HubTypeOK'
      BY <2>4 DEF TaskTypes, ObjectTypes, BleTypes, NetworkTypes, HistoryTypes,
             Tasks, NukiSteps, NetSteps, InServices, Nobody, BoundedEvents, BeaconTimeout
    <2>5. CASE BleDies
      BY <2>5 DEF TaskTypes, ObjectTypes, BleTypes, NetworkTypes, HistoryTypes,
             Tasks, NukiSteps, NetSteps, InServices, Nobody, BoundedEvents, BleDies, Happens
    <2>6. CASE OfficialConnection
      BY <2>6 DEF TaskTypes, ObjectTypes, BleTypes, NetworkTypes, HistoryTypes,
             Tasks, NukiSteps, NetSteps, InServices, Nobody, BoundedEvents, OfficialConnection, InHandlers,
             UsesDeletedWrapper, HandlerFrame, Happens
    <2>7. CASE OutageExpires
      BY <2>7 DEF TaskTypes, ObjectTypes, BleTypes, NetworkTypes, HistoryTypes,
             Tasks, NukiSteps, NetSteps, InServices, Nobody, BoundedEvents, OutageExpires
    <2>8. CASE NetUp
      BY <2>8 DEF TaskTypes, ObjectTypes, BleTypes, NetworkTypes, HistoryTypes,
             Tasks, NukiSteps, NetSteps, InServices, Nobody, BoundedEvents, NetUp
    <2>9. CASE NetLost
      <3>1. TaskTypes'
        BY <2>9 DEF TaskTypes, Tasks, NukiSteps, NetSteps, InServices, Nobody, NetLost, Happens
      <3>2. ObjectTypes'
        BY <2>9 DEF ObjectTypes, NetLost, Happens
      <3>3. BleTypes'
        BY <2>9 DEF BleTypes, Fresh, NetLost, Happens
      <3>4. NetworkTypes'
        BY <2>9 DEF NetworkTypes, NetLost, Happens
      <3>5. HistoryTypes'
        BY <2>9 DEF HistoryTypes, BoundedEvents, NetLost, Happens
      <3>6. QED
        BY <3>1, <3>2, <3>3, <3>4, <3>5 DEF HubTypeOK
    <2>10. ASSUME NEW d \in Devices, MqttMessage(d) PROVE HubTypeOK'
      BY <2>10 DEF TaskTypes, ObjectTypes, BleTypes, NetworkTypes, HistoryTypes,
             Tasks, NukiSteps, NetSteps, InServices, Nobody, BoundedEvents, MqttMessage, InHandlers, UsesDeletedWrapper, HandlerFrame
    <2>11. ASSUME NEW d \in Devices, PinEvent(d) PROVE HubTypeOK'
      BY <2>11 DEF TaskTypes, ObjectTypes, BleTypes, NetworkTypes, HistoryTypes,
             Tasks, NukiSteps, NetSteps, InServices, Nobody, BoundedEvents, PinEvent, UsesDeletedWrapper, HandlerFrame
    <2>12. QED
      BY <1>3, <2>1, <2>2, <2>3, <2>4, <2>5, <2>6, <2>7, <2>8, <2>9, <2>10, <2>11 DEF Outside, Services
  <1>4. CASE Boot
    <2>1. TaskTypes'
      BY <1>4 DEF TaskTypes, Tasks, NukiSteps, NetSteps, InServices, Nobody, Boot
    <2>2. ObjectTypes'
      BY <1>4 DEF ObjectTypes, Boot
    <2>3. BleTypes'
      BY <1>4 DEF BleTypes, Fresh, Boot
    <2>4. NetworkTypes'
      BY <1>4 DEF NetworkTypes, Boot
    <2>5. HistoryTypes'
      BY <1>4 DEF HistoryTypes, BoundedEvents, Boot
    <2>6. QED
      BY <2>1, <2>2, <2>3, <2>4, <2>5 DEF HubTypeOK
  <1>5. CASE UNCHANGED hubVars
    <2>1. TaskTypes'
      BY <1>5 DEF TaskTypes, Tasks, NukiSteps, NetSteps, InServices, Nobody, hubVars
    <2>2. ObjectTypes'
      BY <1>5 DEF ObjectTypes, hubVars
    <2>3. BleTypes'
      BY <1>5 DEF BleTypes, Fresh, hubVars
    <2>4. NetworkTypes'
      BY <1>5 DEF NetworkTypes, hubVars
    <2>5. HistoryTypes'
      BY <1>5 DEF HistoryTypes, BoundedEvents, hubVars
    <2>6. QED
      BY <2>1, <2>2, <2>3, <2>4, <2>5 DEF HubTypeOK
  <1>6. QED
    BY <1>1, <1>2, <1>3, <1>4, <1>5 DEF Next

\* Restarts by the watchdog are safe.
LEMMA NextSafe == HubTypeOK /\ SafeInv /\ [Next]_hubVars => SafeInv'
  <1> SUFFICES ASSUME HubTypeOK, SafeInv, [Next]_hubVars PROVE SafeInv'
    OBVIOUS
  <1> USE DevicesAssumption DEF HubTypeOK, TaskTypes, ObjectTypes, BleTypes, NetworkTypes, HistoryTypes,
          SafeInv, Tasks, InServices, BoundedEvents, Nobody
  <1>1. CASE NukiTask
    <2>1. CASE NukiTop
      BY <2>1 DEF NukiTop
    <2>2. CASE NukiScan
      BY <2>2 DEF NukiScan, Panics
    <2>3. CASE NoDevice
      BY <2>3 DEF NoDevice
    <2>4. CASE CheckController
      BY <2>4 DEF CheckController, UseDeletedWrapper, RestartBleServices, RestartServices,
             RestartChip, EnterUpdate, Panics
    <2>5. ASSUME NEW answered \in BOOLEAN, NEW pinValid \in BOOLEAN, EndUpdate(answered, pinValid)
          PROVE  SafeInv'
      BY <2>5 DEF EndUpdate, Advance, Panics
    <2>6. CASE ClearReboot
      BY <2>6 DEF ClearReboot, Advance
    <2>7. CASE DeleteServices("nuki")
      BY <2>7 DEF DeleteServices
    <2>8. CASE DeleteScanner("nuki")
      BY <2>8 DEF DeleteScanner
    <2>9. CASE CreateServices("nuki")
      BY <2>9 DEF CreateServices, Panics
    <2>10. CASE FinishServices("nuki")
      BY <2>10 DEF FinishServices
    <2>11. QED
      BY <1>1, <2>1, <2>2, <2>3, <2>4, <2>5, <2>6, <2>7, <2>8, <2>9, <2>10 DEF NukiTask, Services
  <1>2. CASE NetworkTask
    <2>1. CASE NetTop
      BY <2>1 DEF NetTop
    <2>2. CASE NetRead
      BY <2>2 DEF NetRead
    <2>3. CASE NetReadClear
      BY <2>3 DEF NetReadClear, RestartServices
    <2>4. CASE NetDevices
      BY <2>4 DEF NetDevices, WatchOfficial, WentOffline, RebootDue, Panics
    <2>5. CASE DeleteServices("net")
      BY <2>5 DEF DeleteServices
    <2>6. CASE DeleteScanner("net")
      BY <2>6 DEF DeleteScanner
    <2>7. CASE CreateServices("net")
      BY <2>7 DEF CreateServices, Panics
    <2>8. CASE FinishServices("net")
      BY <2>8 DEF FinishServices
    <2>9. QED
      BY <1>2, <2>1, <2>2, <2>3, <2>4, <2>5, <2>6, <2>7, <2>8 DEF NetworkTask, Services
  <1>3. CASE Outside
    <2>1. ASSUME NEW k \in {1, 2}, WebRestart(k) PROVE SafeInv'
      BY <2>1 DEF WebRestart, Happens
    <2>2. ASSUME NEW d \in Devices, BleError(d) PROVE SafeInv'
      BY <2>2 DEF BleError
    <2>3. ASSUME NEW d \in Devices, BeaconReceived(d) PROVE SafeInv'
      BY <2>3 DEF BeaconReceived
    <2>4. ASSUME NEW d \in Devices, BeaconTimeout(d) PROVE SafeInv'
      BY <2>4 DEF BeaconTimeout
    <2>5. CASE BleDies
      BY <2>5 DEF BleDies, Happens
    <2>6. CASE OfficialConnection
      BY <2>6 DEF OfficialConnection, InHandlers, UsesDeletedWrapper, HandlerFrame, Happens
    <2>7. CASE OutageExpires
      BY <2>7 DEF OutageExpires
    <2>8. CASE NetUp
      BY <2>8 DEF NetUp
    <2>9. CASE NetLost
      BY <2>9 DEF NetLost, Happens
    <2>10. ASSUME NEW d \in Devices, MqttMessage(d) PROVE SafeInv'
      BY <2>10 DEF MqttMessage, InHandlers, UsesDeletedWrapper, HandlerFrame
    <2>11. ASSUME NEW d \in Devices, PinEvent(d) PROVE SafeInv'
      BY <2>11 DEF PinEvent, UsesDeletedWrapper, HandlerFrame
    <2>12. QED
      BY <1>3, <2>1, <2>2, <2>3, <2>4, <2>5, <2>6, <2>7, <2>8, <2>9, <2>10, <2>11 DEF Outside, Services
  <1>4. CASE Boot
    BY <1>4 DEF Boot, Fresh
  <1>5. CASE UNCHANGED hubVars
    BY <1>5 DEF hubVars
  <1>6. QED
    BY <1>1, <1>2, <1>3, <1>4, <1>5 DEF Next

\* The counter keeps up with the restarts.
LEMMA NextStrikes == HubTypeOK /\ StrikesInv /\ [Next]_hubVars => StrikesInv'
  <1> SUFFICES ASSUME HubTypeOK, StrikesInv, [Next]_hubVars PROVE StrikesInv'
    OBVIOUS
  <1> USE DEF HubTypeOK, TaskTypes, ObjectTypes, BleTypes, NetworkTypes, HistoryTypes,
          StrikesInv, Tasks, InServices, Forgive, Fresh
  <1>1. CASE NukiTask
    <2>1. CASE NukiTop
      BY <2>1 DEF NukiTop
    <2>2. CASE NukiScan
      BY <2>2 DEF NukiScan, Panics
    <2>3. CASE NoDevice
      BY <2>3 DEF NoDevice
    <2>4. CASE CheckController
      BY <2>4 DEF CheckController, UseDeletedWrapper, RestartBleServices, RestartServices,
             RestartChip, EnterUpdate, Panics
    <2>5. ASSUME NEW answered \in BOOLEAN, NEW pinValid \in BOOLEAN, EndUpdate(answered, pinValid)
          PROVE  StrikesInv'
      BY <2>5 DEF EndUpdate, Advance, Panics
    <2>6. CASE ClearReboot
      BY <2>6 DEF ClearReboot, Advance
    <2>7. CASE DeleteServices("nuki")
      BY <2>7 DEF DeleteServices
    <2>8. CASE DeleteScanner("nuki")
      BY <2>8 DEF DeleteScanner
    <2>9. CASE CreateServices("nuki")
      BY <2>9 DEF CreateServices, Panics
    <2>10. CASE FinishServices("nuki")
      BY <2>10 DEF FinishServices
    <2>11. QED
      BY <1>1, <2>1, <2>2, <2>3, <2>4, <2>5, <2>6, <2>7, <2>8, <2>9, <2>10 DEF NukiTask, Services
  <1>2. CASE NetworkTask
    <2>1. CASE NetTop
      BY <2>1 DEF NetTop
    <2>2. CASE NetRead
      BY <2>2 DEF NetRead
    <2>3. CASE NetReadClear
      BY <2>3 DEF NetReadClear, RestartServices
    <2>4. CASE NetDevices
      BY <2>4 DEF NetDevices, WatchOfficial, WentOffline, RebootDue, Panics
    <2>5. CASE DeleteServices("net")
      BY <2>5 DEF DeleteServices
    <2>6. CASE DeleteScanner("net")
      BY <2>6 DEF DeleteScanner
    <2>7. CASE CreateServices("net")
      BY <2>7 DEF CreateServices, Panics
    <2>8. CASE FinishServices("net")
      BY <2>8 DEF FinishServices
    <2>9. QED
      BY <1>2, <2>1, <2>2, <2>3, <2>4, <2>5, <2>6, <2>7, <2>8 DEF NetworkTask, Services
  <1>3. CASE Outside
    <2>1. ASSUME NEW k \in {1, 2}, WebRestart(k) PROVE StrikesInv'
      BY <2>1 DEF WebRestart, Happens
    <2>2. ASSUME NEW d \in Devices, BleError(d) PROVE StrikesInv'
      BY <2>2 DEF BleError
    <2>3. ASSUME NEW d \in Devices, BeaconReceived(d) PROVE StrikesInv'
      BY <2>3 DEF BeaconReceived
    <2>4. ASSUME NEW d \in Devices, BeaconTimeout(d) PROVE StrikesInv'
      BY <2>4 DEF BeaconTimeout
    <2>5. CASE BleDies
      BY <2>5 DEF BleDies, Happens
    <2>6. CASE OfficialConnection
      BY <2>6 DEF OfficialConnection, InHandlers, UsesDeletedWrapper, HandlerFrame, Happens
    <2>7. CASE OutageExpires
      BY <2>7 DEF OutageExpires
    <2>8. CASE NetUp
      BY <2>8 DEF NetUp
    <2>9. CASE NetLost
      BY <2>9 DEF NetLost, Happens
    <2>10. ASSUME NEW d \in Devices, MqttMessage(d) PROVE StrikesInv'
      BY <2>10 DEF MqttMessage, InHandlers, UsesDeletedWrapper, HandlerFrame
    <2>11. ASSUME NEW d \in Devices, PinEvent(d) PROVE StrikesInv'
      BY <2>11 DEF PinEvent, UsesDeletedWrapper, HandlerFrame
    <2>12. QED
      BY <1>3, <2>1, <2>2, <2>3, <2>4, <2>5, <2>6, <2>7, <2>8, <2>9, <2>10, <2>11 DEF Outside, Services
  <1>4. CASE Boot
    BY <1>4 DEF Boot, Fresh
  <1>5. CASE UNCHANGED hubVars
    BY <1>5 DEF hubVars
  <1>6. QED
    BY <1>1, <1>2, <1>3, <1>4, <1>5 DEF Next

\* A loss buys one reboot.
LEMMA NextReboot == HubTypeOK /\ RebootInv /\ [Next]_hubVars => RebootInv'
  <1> SUFFICES ASSUME HubTypeOK, RebootInv, [Next]_hubVars PROVE RebootInv'
    OBVIOUS
  <1> USE DevicesAssumption DEF HubTypeOK, TaskTypes, ObjectTypes, BleTypes, NetworkTypes, HistoryTypes,
          RebootInv, Unnoticed, Noted, Flagged, Passed, Tasks, InServices,
          BoundedEvents, Nobody
  <1>1. CASE NukiTask
    <2>1. CASE NukiTop
      BY <2>1 DEF NukiTop
    <2>2. CASE NukiScan
      BY <2>2 DEF NukiScan, Panics
    <2>3. CASE NoDevice
      BY <2>3 DEF NoDevice
    <2>4. CASE CheckController
      BY <2>4 DEF CheckController, UseDeletedWrapper, RestartBleServices, RestartServices,
             RestartChip, EnterUpdate, Panics
    <2>5. ASSUME NEW answered \in BOOLEAN, NEW pinValid \in BOOLEAN, EndUpdate(answered, pinValid)
          PROVE  RebootInv'
      BY <2>5 DEF EndUpdate, Advance, Panics
    <2>6. CASE ClearReboot
      BY <2>6 DEF ClearReboot, Advance
    <2>7. CASE DeleteServices("nuki")
      BY <2>7 DEF DeleteServices
    <2>8. CASE DeleteScanner("nuki")
      BY <2>8 DEF DeleteScanner
    <2>9. CASE CreateServices("nuki")
      BY <2>9 DEF CreateServices, Panics
    <2>10. CASE FinishServices("nuki")
      BY <2>10 DEF FinishServices
    <2>11. QED
      BY <1>1, <2>1, <2>2, <2>3, <2>4, <2>5, <2>6, <2>7, <2>8, <2>9, <2>10 DEF NukiTask, Services
  <1>2. CASE NetworkTask
    <2>1. CASE NetTop
      BY <2>1 DEF NetTop
    <2>2. CASE NetRead
      BY <2>2 DEF NetRead
    <2>3. CASE NetReadClear
      BY <2>3 DEF NetReadClear, RestartServices
    <2>4. CASE NetDevices
      BY <2>4 DEF NetDevices, WatchOfficial, WentOffline, RebootDue, Panics
    <2>5. CASE DeleteServices("net")
      BY <2>5 DEF DeleteServices
    <2>6. CASE DeleteScanner("net")
      BY <2>6 DEF DeleteScanner
    <2>7. CASE CreateServices("net")
      BY <2>7 DEF CreateServices, Panics
    <2>8. CASE FinishServices("net")
      BY <2>8 DEF FinishServices
    <2>9. QED
      BY <1>2, <2>1, <2>2, <2>3, <2>4, <2>5, <2>6, <2>7, <2>8 DEF NetworkTask, Services
  <1>3. CASE Outside
    <2>1. ASSUME NEW k \in {1, 2}, WebRestart(k) PROVE RebootInv'
      BY <2>1 DEF WebRestart, Happens
    <2>2. ASSUME NEW d \in Devices, BleError(d) PROVE RebootInv'
      BY <2>2 DEF BleError
    <2>3. ASSUME NEW d \in Devices, BeaconReceived(d) PROVE RebootInv'
      BY <2>3 DEF BeaconReceived
    <2>4. ASSUME NEW d \in Devices, BeaconTimeout(d) PROVE RebootInv'
      BY <2>4 DEF BeaconTimeout
    <2>5. CASE BleDies
      BY <2>5 DEF BleDies, Happens
    <2>6. CASE OfficialConnection
      BY <2>6 DEF OfficialConnection, InHandlers, UsesDeletedWrapper, HandlerFrame, Happens
    <2>7. CASE OutageExpires
      BY <2>7 DEF OutageExpires
    <2>8. CASE NetUp
      BY <2>8 DEF NetUp
    <2>9. CASE NetLost
      BY <2>9 DEF NetLost, Happens
    <2>10. ASSUME NEW d \in Devices, MqttMessage(d) PROVE RebootInv'
      BY <2>10 DEF MqttMessage, InHandlers, UsesDeletedWrapper, HandlerFrame
    <2>11. ASSUME NEW d \in Devices, PinEvent(d) PROVE RebootInv'
      BY <2>11 DEF PinEvent, UsesDeletedWrapper, HandlerFrame
    <2>12. QED
      BY <1>3, <2>1, <2>2, <2>3, <2>4, <2>5, <2>6, <2>7, <2>8, <2>9, <2>10, <2>11 DEF Outside, Services
  <1>4. CASE Boot
    BY <1>4 DEF Boot, Fresh
  <1>5. CASE UNCHANGED hubVars
    BY <1>5 DEF hubVars
  <1>6. QED
    BY <1>1, <1>2, <1>3, <1>4, <1>5 DEF Next

\* The inductive invariant holds in every reachable state.
THEOREM HubInvariance == Spec => []HubInv
  <1>1. HubInv /\ [Next]_hubVars => HubInv'
    BY NextHubType, NextSafe, NextStrikes, NextReboot DEF HubInv
  <1>2. QED
    BY <1>1, InitHub, PTL DEF Spec

\* Every variable keeps its type, the restart counters their bound.
THEOREM HubTypeCorrect == Spec => []HubTypeOK
  <1>1. HubInv => HubTypeOK
    BY DEF HubInv
  <1>2. QED
    BY <1>1, HubInvariance, PTL

\* The code of the two tasks survives the BLE watchdog's restarts of the services.
THEOREM WatchdogSparesTheTasks == Spec => []WatchdogSparesTasks
  <1>1. HubInv => WatchdogSparesTasks
    BY DEF HubInv, SafeInv, WatchdogSparesTasks
  <1>2. QED
    BY <1>1, HubInvariance, PTL

\* A silent device costs at most RestartLimit + 1 restarts of the services.
THEOREM EscalationBounded == Spec => []StrikesBounded
  <1>1. HubInv => StrikesBounded
    BY LimitAssumption DEF HubInv, HubTypeOK, BleTypes, StrikesInv, StrikesBounded
  <1>2. QED
    BY <1>1, HubInvariance, PTL

\* The lock is rebooted at most once per loss of its own connection.
THEOREM RebootOnce == Spec => []OneRebootPerOutage
  <1>1. HubInv => OneRebootPerOutage
    BY DEF HubInv, HubTypeOK, HistoryTypes, NetworkTypes, RebootInv, Unnoticed, Noted, Flagged,
       Passed, OneRebootPerOutage,
           BoundedEvents
  <1>2. QED
    BY <1>1, HubInvariance, PTL

=============================================================================
