------------------------------ MODULE HubTasks ------------------------------
(***************************************************************************)
(* The two endless tasks of main.cpp and the objects they share.           *)
(*                                                                         *)
(*   networkTask  runs the network, restarts the services when the web     *)
(*                interface asks for it, and lets NukiNetworkLock watch    *)
(*                the lock's own MQTT connection                           *)
(*   nukiTask     runs the wrappers of the paired devices and escalates    *)
(*                their BLE problems: restart the services, then the chip  *)
(*                                                                         *)
(* restartServices() deletes and recreates the objects both tasks use; the *)
(* only thing that keeps them apart is the flag bleDone.  A step that      *)
(* dereferences an object that is gone is undefined behaviour: the chip    *)
(* panics or the task goes on.                                             *)
(***************************************************************************)
EXTENDS Naturals, FiniteSets

CONSTANTS
  Devices,      \* the enabled ones of "lock" and "opener"
  RestartLimit, \* the literal 3 in nukiTask
  HybridReboot, \* _hybridRebootOnDisconnect
  MaxWeb,       \* bound: restarts of the services asked for on the web page
  MaxOutages,   \* bound: losses of the lock's own MQTT connection
  MaxFailures   \* bound: silent failures of the Bluetooth stack and losses of the
                \* network connection, together

ASSUME DevicesAssumption == Devices \subseteq {"lock", "opener"} /\ "lock" \in Devices
ASSUME LimitAssumption == RestartLimit \in Nat
ASSUME HybridAssumption == HybridReboot \in BOOLEAN
ASSUME HubBoundsAssumption == /\ MaxWeb \in Nat
                              /\ MaxOutages \in Nat
                              /\ MaxFailures \in Nat

VARIABLES
  esp,               \* the chip: "running", "restarting" (restartEsp), "panic" in the
                     \* code of a task, "handlerPanic" in a message handler or pin callback
  pc,                \* the position of each task
  reconnect,         \* restartServices' parameter, per task
  dev,               \* the device nukiTask is looking after
  started,           \* lockStarted, openerStarted
  wrapper,           \* the devices whose wrapper exists
  netObject,         \* the devices whose NukiNetworkLock/-Opener exists
  scanner,           \* bleScanner exists
  bleDone,           \* bleDone
  borrowed,          \* nukiTask is inside a wrapper that was deleted meanwhile
  restartController, \* _restartController of each wrapper
  restartCount,      \* lockRestartControllerCount, openerRestartControllerCount
  hasConnected,      \* _hasConnected of each wrapper
  beacon,            \* the last beacon: "never", "fresh", "stale" (timed out)
  rebootLock,        \* rebootLock
  rebootArg,         \* the argument of nuki->update()
  restartServ,       \* NukiNetwork::_restartServices
  restartServRead,   \* networkTask's local restartServ
  connected,         \* networkTask's local connected
  wifiConnected,     \* wifiConnected
  offConnected,      \* NukiOfficial::offConnected
  offSeen,           \* NukiNetworkLock::_offConnected
  offLastConnected,  \* _offLastConnected: "zero", "recent" or "expired" (180 s)
  net,               \* the network is there
  ble,               \* the Bluetooth stack: "ok" or "dead"
  strikes,           \* history: watchdog restarts since the device last answered
  reboots,           \* history: reboots requested of the lock
  count              \* history: how often each bounded event has happened

taskVars    == <<pc, reconnect, dev>>
objectVars  == <<started, wrapper, netObject, scanner, bleDone, borrowed>>
bleVars     == <<restartController, hasConnected, beacon>>
rebootVars  == <<rebootLock, rebootArg>>
networkVars == <<restartServRead, connected, wifiConnected>>
hybridVars  == <<offSeen, offLastConnected>>
worldVars   == <<offConnected, net, ble>>
hubVars     == <<esp, taskVars, objectVars, bleVars, restartCount, rebootVars, restartServ,
                 networkVars, hybridVars, worldVars, strikes, reboots, count>>

----------------------------------------------------------------------------
(* State *)

Tasks == {"nuki", "net"}
Nobody == "nobody"

BoundedEvents == {"web", "outage", "failure"}
Happens(e, max) == /\ count[e] < max
                   /\ count' = [count EXCEPT ![e] = @ + 1]

InServices == {"delete", "scanner", "create", "done"}
NukiSteps == {"top", "scan", "device", "update", "clear"} \cup InServices
NetSteps == {"top", "read", "readClear", "devices"} \cup InServices

Fresh(v) == [d \in Devices |-> v]

TaskTypes ==
  /\ esp \in {"running", "restarting", "panic", "handlerPanic"}
  /\ pc \in [Tasks -> NukiSteps \cup NetSteps]
  /\ pc["nuki"] \in NukiSteps
  /\ pc["net"] \in NetSteps
  /\ reconnect \in [Tasks -> BOOLEAN]
  /\ dev \in Devices \cup {Nobody}

ObjectTypes ==
  /\ started \in SUBSET Devices
  /\ wrapper \in SUBSET Devices
  /\ netObject \in SUBSET Devices
  /\ scanner \in BOOLEAN
  /\ bleDone \in BOOLEAN
  /\ borrowed \in BOOLEAN

BleTypes ==
  /\ restartController \in [Devices -> 0..2]
  /\ restartCount \in [Devices -> 0..RestartLimit + 1]
  /\ hasConnected \in [Devices -> BOOLEAN]
  /\ beacon \in [Devices -> {"never", "fresh", "stale"}]
  /\ ble \in {"ok", "dead"}
  /\ strikes \in [Devices -> Nat]

NetworkTypes ==
  /\ rebootLock \in BOOLEAN
  /\ rebootArg \in BOOLEAN
  /\ restartServ \in {0, 1, 2}
  /\ restartServRead \in {0, 1, 2}
  /\ connected \in BOOLEAN
  /\ wifiConnected \in BOOLEAN
  /\ offConnected \in BOOLEAN
  /\ offSeen \in BOOLEAN
  /\ offLastConnected \in {"zero", "recent", "expired"}
  /\ net \in BOOLEAN

HistoryTypes ==
  /\ reboots \in Nat
  /\ count \in [BoundedEvents -> Nat]

\* The variables hold values of their C++ types, the restart counters stay within
\* the limit.
HubTypeOK == TaskTypes /\ ObjectTypes /\ BleTypes /\ NetworkTypes /\ HistoryTypes

\* What setup() leaves behind: everything created, both tasks at their top.
Init ==
  /\ esp = "running"
  /\ pc = [t \in Tasks |-> "top"]
  /\ reconnect = [t \in Tasks |-> FALSE]
  /\ dev = Nobody
  /\ started = Devices
  /\ wrapper = Devices
  /\ netObject = Devices
  /\ scanner = TRUE
  /\ bleDone = TRUE
  /\ borrowed = FALSE
  /\ restartController = Fresh(0)
  /\ restartCount = Fresh(0)
  /\ hasConnected = Fresh(FALSE)
  /\ beacon = Fresh("never")
  /\ rebootLock = FALSE
  /\ rebootArg = FALSE
  /\ restartServ = 0
  /\ restartServRead = 0
  /\ connected = FALSE
  /\ wifiConnected = FALSE
  /\ offConnected = FALSE
  /\ offSeen = FALSE
  /\ offLastConnected = "zero"
  /\ strikes = Fresh(0)
  /\ net = FALSE
  /\ ble = "ok"
  /\ reboots = 0
  /\ count = [e \in BoundedEvents |-> 0]

\* The chip starts again; only the network and the histories go on.
Boot ==
  /\ esp # "running"
  /\ esp' = "running"
  /\ pc' = [t \in Tasks |-> "top"]
  /\ reconnect' = [t \in Tasks |-> FALSE]
  /\ dev' = Nobody
  /\ started' = Devices
  /\ wrapper' = Devices
  /\ netObject' = Devices
  /\ scanner' = TRUE
  /\ bleDone' = TRUE
  /\ borrowed' = FALSE
  /\ restartController' = Fresh(0)
  /\ restartCount' = Fresh(0)
  /\ hasConnected' = Fresh(FALSE)
  /\ beacon' = Fresh("never")
  /\ rebootLock' = FALSE
  /\ rebootArg' = FALSE
  /\ restartServ' = 0
  /\ restartServRead' = 0
  /\ connected' = FALSE
  /\ wifiConnected' = FALSE
  /\ offConnected' = FALSE
  /\ offSeen' = FALSE
  /\ offLastConnected' = "zero"
  /\ strikes' = Fresh(0)
  /\ ble' = "ok"
  /\ UNCHANGED <<net, reboots, count>>

GoTo(t, from, to) == /\ esp = "running"
                     /\ pc[t] = from
                     /\ pc' = [pc EXCEPT ![t] = to]

\* Undefined behaviour that is noticed.
Panics == esp' = "panic"

----------------------------------------------------------------------------
(* restartServices(bool reconnect), called by either task *)

RestartServices(t, rec) ==
  /\ pc' = [pc EXCEPT ![t] = "delete"]
  /\ reconnect' = [reconnect EXCEPT ![t] = rec]
  /\ bleDone' = FALSE
  /\ UNCHANGED <<started, wrapper, netObject, scanner, borrowed>>

ServicesFrame == UNCHANGED <<reconnect, dev, restartCount, rebootVars, restartServ,
                             networkVars, net, ble, strikes, reboots, count>>

\* Mutant: the network objects are deleted in every case.
DeleteServicesAll(t) ==
  /\ GoTo(t, "delete", "scanner")
  /\ wrapper' = wrapper \ started
  /\ netObject' = netObject \ started
  /\ started' = IF reconnect[t] THEN {} ELSE started
  /\ borrowed' = (borrowed \/ (pc["nuki"] = "update" /\ started # {}))
  /\ UNCHANGED <<esp, scanner, bleDone, bleVars, hybridVars, offConnected>>
  /\ ServicesFrame

\* delete nuki, delete nukiOpener; after a change of the network settings also
\* the objects that publish for them.
DeleteServices(t) ==
  /\ GoTo(t, "delete", "scanner")
  /\ wrapper' = wrapper \ started
  /\ IF reconnect[t]
       THEN /\ started' = {}
            /\ netObject' = netObject \ started
       ELSE UNCHANGED <<started, netObject>>
  /\ borrowed' = (borrowed \/ (pc["nuki"] = "update" /\ started # {}))
  /\ UNCHANGED <<esp, scanner, bleDone, bleVars, hybridVars, offConnected>>
  /\ ServicesFrame

DeleteScanner(t) ==
  /\ GoTo(t, "scanner", "create")
  /\ scanner' = FALSE
  /\ UNCHANGED <<esp, started, wrapper, netObject, bleDone, borrowed, bleVars, hybridVars,
                 offConnected>>
  /\ ServicesFrame

\* New scanner, new wrappers.  Their constructors call into the network objects,
\* which only startNuki() recreates.
CreateServices(t) ==
  /\ GoTo(t, "create", "done")
  /\ scanner' = TRUE
  /\ IF reconnect[t]
       THEN /\ started' = Devices
            /\ netObject' = Devices
            /\ offConnected' = FALSE
            /\ offSeen' = FALSE
            /\ offLastConnected' = "zero"
       ELSE UNCHANGED <<started, netObject, hybridVars, offConnected>>
  /\ \/ UNCHANGED esp
     \/ netObject' # Devices /\ Panics
  /\ wrapper' = Devices
  /\ restartController' = Fresh(0)
  /\ hasConnected' = Fresh(FALSE)
  /\ beacon' = Fresh("never")
  /\ UNCHANGED <<bleDone, borrowed>>
  /\ ServicesFrame

\* Mutant: the flag is not set again.
FinishServicesForgets(t) ==
  /\ GoTo(t, "done", "top")
  /\ UNCHANGED <<esp, objectVars, bleVars, hybridVars, offConnected>>
  /\ ServicesFrame

FinishServices(t) ==
  /\ GoTo(t, "done", "top")
  /\ bleDone' = TRUE
  /\ UNCHANGED <<esp, started, wrapper, netObject, scanner, borrowed, bleVars, hybridVars,
                 offConnected>>
  /\ ServicesFrame

----------------------------------------------------------------------------
(* nukiTask *)

NukiFrame == UNCHANGED <<restartServ, networkVars, hybridVars, worldVars, count>>

\* (disableNetwork || wifiConnected) && bleDone
NukiTop ==
  /\ GoTo("nuki", "top", "scan")
  /\ wifiConnected /\ bleDone
  /\ UNCHANGED <<esp, reconnect, dev, objectVars, bleVars, restartCount, rebootVars,
                 strikes, reboots>>
  /\ NukiFrame

\* bleScanner->update() and isPaired() of every started wrapper.
NukiScan ==
  /\ GoTo("nuki", "scan", "device")
  /\ dev' = IF "lock" \in started THEN "lock" ELSE
            IF "opener" \in started THEN "opener" ELSE Nobody
  /\ \/ UNCHANGED esp
     \/ ~(started \subseteq wrapper) /\ Panics
  /\ UNCHANGED <<reconnect, objectVars, bleVars, restartCount, rebootVars, strikes, reboots>>
  /\ NukiFrame

\* The opener comes after the lock, then the loop begins again.
Advance == /\ dev' = IF dev = "lock" /\ "opener" \in started THEN "opener" ELSE Nobody
           /\ pc' = [pc EXCEPT !["nuki"] = IF dev' = Nobody THEN "top" ELSE "device"]

NoDevice ==
  /\ GoTo("nuki", "device", "top")
  /\ dev = Nobody
  /\ UNCHANGED <<esp, reconnect, dev, objectVars, bleVars, restartCount, rebootVars,
                 strikes, reboots>>
  /\ NukiFrame

\* Mutant: one restart more.
RestartBleServicesOnceMore(d) ==
  /\ restartCount[d] <= RestartLimit + 1
  /\ restartCount' = [restartCount EXCEPT ![d] = @ + 1]
  /\ strikes' = [strikes EXCEPT ![d] = @ + 1]
  /\ dev' = Nobody
  /\ RestartServices("nuki", FALSE)
  /\ UNCHANGED <<esp, rebootVars>>

RestartBleServices(d) ==
  /\ restartCount[d] <= RestartLimit
  /\ restartCount' = [restartCount EXCEPT ![d] = @ + 1]
  /\ strikes' = [strikes EXCEPT ![d] = @ + 1]
  /\ dev' = Nobody
  /\ RestartServices("nuki", FALSE)
  /\ UNCHANGED <<esp, rebootVars>>

\* Mutant: the last escalation is missing.
RestartChipNever(d) ==
  /\ restartCount[d] > RestartLimit
  /\ esp' = esp
  /\ UNCHANGED <<taskVars, objectVars, restartCount, strikes, rebootVars>>

\* restartEsp(BLEError) or restartEsp(BLEBeaconWatchdog)
RestartChip(d) ==
  /\ restartCount[d] > RestartLimit
  /\ esp' = "restarting"
  /\ UNCHANGED <<taskVars, objectVars, restartCount, strikes, rebootVars>>

\* The count starts again once a device has answered.
Forgive(d) == restartCount[d] > 0 /\ hasConnected[d]

EnterUpdate(d) ==
  /\ pc' = [pc EXCEPT !["nuki"] = "update"]
  /\ restartCount' = [restartCount EXCEPT ![d] = IF Forgive(d) THEN 0 ELSE @]
  /\ rebootArg' = (d = "lock" /\ rebootLock)
  /\ UNCHANGED <<esp, reconnect, dev, objectVars, strikes, rebootLock>>

\* The wrapper is gone: restartController() reads freed memory.
UseDeletedWrapper ==
  /\ Panics
  /\ UNCHANGED <<taskVars, objectVars, restartCount, strikes, rebootVars>>

CheckController ==
  /\ esp = "running" /\ pc["nuki"] = "device"
  /\ dev # Nobody
  /\ \/ dev \notin wrapper /\ UseDeletedWrapper
     \/ restartController[dev] > 0 /\ RestartBleServices(dev)
     \/ restartController[dev] > 0 /\ RestartChip(dev)
     \/ restartController[dev] = 0 /\ EnterUpdate(dev)
  /\ UNCHANGED <<bleVars, reboots>>
  /\ NukiFrame

\* update() of the wrapper: checkRestartByBeacon, an exchange that the device may
\* answer, and the requested reboot, which needs a valid PIN.  When the wrapper
\* has been deleted meanwhile it works on freed memory, or panics.
EndUpdate(answered, pinValid) ==
  /\ esp = "running" /\ pc["nuki"] = "update"
  /\ answered => ble = "ok"
  /\ IF dev = "lock"
       THEN pc' = [pc EXCEPT !["nuki"] = "clear"] /\ UNCHANGED dev
       ELSE Advance
  /\ \/ UNCHANGED esp
     \/ borrowed /\ Panics
  /\ borrowed' = FALSE
  /\ IF borrowed
       THEN UNCHANGED <<hasConnected, restartController, strikes>>
       ELSE /\ hasConnected' = [hasConnected EXCEPT ![dev] = @ \/ answered]
            /\ restartController' = [restartController EXCEPT ![dev] =
                                       IF beacon[dev] = "stale" THEN 2 ELSE @]
            /\ strikes' = [strikes EXCEPT ![dev] = IF answered THEN 0 ELSE @]
  /\ reboots' = IF rebootArg /\ pinValid THEN reboots + 1 ELSE reboots
  /\ rebootArg' = FALSE
  /\ UNCHANGED <<reconnect, started, wrapper, netObject, scanner, bleDone, beacon,
                 restartCount, rebootLock>>
  /\ NukiFrame

\* Mutant: the request stays.
ClearRebootForgotten ==
  /\ esp = "running" /\ pc["nuki"] = "clear"
  /\ Advance
  /\ UNCHANGED <<esp, reconnect, objectVars, bleVars, restartCount, rebootVars, strikes,
                 reboots>>
  /\ NukiFrame

\* rebootLock = false, whatever networkTask has stored since update() began.
ClearReboot ==
  /\ esp = "running" /\ pc["nuki"] = "clear"
  /\ Advance
  /\ rebootLock' = FALSE
  /\ UNCHANGED <<esp, reconnect, objectVars, bleVars, restartCount, rebootArg, strikes,
                 reboots>>
  /\ NukiFrame

----------------------------------------------------------------------------
(* networkTask *)

NetFrame == UNCHANGED <<dev, bleVars, restartCount, rebootArg, worldVars, strikes, reboots,
                        count>>

\* network->update(), isConnected() and wifiConnected().  The handlers that
\* update() calls for MQTT messages are OfficialConnection and MqttMessage below.
NetTop ==
  /\ GoTo("net", "top", "read")
  /\ connected' = net
  /\ wifiConnected' = net
  /\ UNCHANGED <<esp, reconnect, objectVars, rebootLock, restartServ, restartServRead,
                 hybridVars>>
  /\ NetFrame

\* getRestartServices() reads the request ...
NetRead ==
  /\ GoTo("net", "read", "readClear")
  /\ restartServRead' = restartServ
  /\ UNCHANGED <<esp, reconnect, objectVars, rebootLock, restartServ, connected,
                 wifiConnected, hybridVars>>
  /\ NetFrame

\* ... and clears it.
NetReadClear ==
  /\ esp = "running" /\ pc["net"] = "readClear"
  /\ restartServ' = 0
  /\ restartServRead' = 0
  /\ IF restartServRead = 0
       THEN /\ pc' = [pc EXCEPT !["net"] = "devices"]
            /\ UNCHANGED <<reconnect, objectVars>>
       ELSE RestartServices("net", restartServRead = 2)
  /\ UNCHANGED <<esp, rebootLock, connected, wifiConnected, hybridVars>>
  /\ NetFrame

\* NukiNetworkLock::update(): remember when the lock's own connection went away,
\* and 180 seconds later ask once for a reboot.
WentOffline == offSeen /\ ~offConnected
RebootDue == ~WentOffline /\ ~offSeen /\ offLastConnected = "expired"

WatchOfficial ==
  /\ rebootLock' = (HybridReboot /\ RebootDue)
  /\ IF HybridReboot
       THEN /\ offLastConnected' = IF WentOffline THEN "recent" ELSE
                                   IF RebootDue THEN "zero" ELSE offLastConnected
            /\ offSeen' = offConnected
       ELSE UNCHANGED hybridVars

\* rebootLock = networkLock->update(), networkOpener->update().
NetDevices ==
  /\ GoTo("net", "devices", "top")
  /\ IF connected /\ "lock" \in started
       THEN WatchOfficial
       ELSE UNCHANGED <<rebootLock, hybridVars>>
  /\ \/ UNCHANGED esp
     \/ connected /\ ~(started \subseteq netObject) /\ Panics
  /\ UNCHANGED <<reconnect, objectVars, restartServ, networkVars>>
  /\ NetFrame

----------------------------------------------------------------------------
(* The world *)

OutsideFrame == UNCHANGED <<esp, taskVars, objectVars, hasConnected, restartCount, rebootVars,
                            networkVars, strikes, reboots>>

\* setRestartServices, on the web server's thread.
WebRestart(k) ==
  /\ Happens("web", MaxWeb)
  /\ restartServ' = k
  /\ UNCHANGED <<restartController, beacon, hybridVars, worldVars>>
  /\ OutsideFrame

\* notify(BLE_ERROR_ON_DISCONNECT)
BleError(d) ==
  /\ d \in wrapper
  /\ restartController' = [restartController EXCEPT ![d] = 1]
  /\ UNCHANGED <<beacon, restartServ, hybridVars, worldVars, count>>
  /\ OutsideFrame

\* The library's lastReceivedBeaconTs; 0 until the first beacon.
BeaconReceived(d) ==
  /\ ble = "ok" /\ scanner /\ d \in wrapper
  /\ beacon' = [beacon EXCEPT ![d] = "fresh"]
  /\ UNCHANGED <<restartController, restartServ, hybridVars, worldVars, count>>
  /\ OutsideFrame

\* _restartBeaconTimeout has passed and the watchdog is not postponed.
BeaconTimeout(d) ==
  /\ beacon[d] = "fresh"
  /\ beacon' = [beacon EXCEPT ![d] = "stale"]
  /\ UNCHANGED <<restartController, restartServ, hybridVars, worldVars, count>>
  /\ OutsideFrame

BleDies ==
  /\ ble = "ok"
  /\ Happens("failure", MaxFailures)
  /\ ble' = "dead"
  /\ UNCHANGED <<restartController, beacon, restartServ, hybridVars, offConnected, net>>
  /\ OutsideFrame

\* network->update() is running the handlers of the MQTT messages for d.  They go
\* through nukiInst, which still points at a wrapper that has been deleted.
InHandlers(d) == pc["net"] = "top" /\ net /\ d \in netObject
UsesDeletedWrapper(d) == d \notin wrapper /\ esp' = "handlerPanic"

HandlerFrame == UNCHANGED <<taskVars, objectVars, bleVars, restartCount, rebootVars,
                            restartServ, networkVars, hybridVars, net, ble, strikes, reboots>>

\* mqtt_topic_official_connected
OfficialConnection ==
  /\ InHandlers("lock")
  /\ \/ offConnected /\ Happens("outage", MaxOutages)
     \/ ~offConnected /\ UNCHANGED count
  /\ offConnected' = ~offConnected
  /\ \/ UNCHANGED esp
     \/ UsesDeletedWrapper("lock")
  /\ HandlerFrame

\* Any other message for d: what it does to a living wrapper is not state of this
\* module.
MqttMessage(d) ==
  /\ InHandlers(d)
  /\ UsesDeletedWrapper(d)
  /\ UNCHANGED <<offConnected, count>>
  /\ HandlerFrame

\* The callback of an input pin, from the timer's interrupt: it stores the action
\* in the wrapper.
PinEvent(d) ==
  /\ UsesDeletedWrapper(d)
  /\ UNCHANGED <<offConnected, count>>
  /\ HandlerFrame

OutageExpires ==
  /\ offLastConnected = "recent"
  /\ offLastConnected' = "expired"
  /\ UNCHANGED <<restartController, beacon, restartServ, offSeen, worldVars, count>>
  /\ OutsideFrame

NetUp ==
  /\ ~net
  /\ net' = TRUE
  /\ UNCHANGED <<restartController, beacon, restartServ, hybridVars, offConnected, ble, count>>
  /\ OutsideFrame

NetLost ==
  /\ net
  /\ Happens("failure", MaxFailures)
  /\ net' = FALSE
  /\ UNCHANGED <<restartController, beacon, restartServ, hybridVars, offConnected, ble>>
  /\ OutsideFrame

----------------------------------------------------------------------------
(* Specification *)

Services(t) == \/ DeleteServices(t)
               \/ DeleteScanner(t)
               \/ CreateServices(t)
               \/ FinishServices(t)

NukiTask ==
  \/ NukiTop
  \/ NukiScan
  \/ NoDevice
  \/ CheckController
  \/ \E answered, pinValid \in BOOLEAN : EndUpdate(answered, pinValid)
  \/ ClearReboot
  \/ Services("nuki")

NetworkTask == NetTop \/ NetRead \/ NetReadClear \/ NetDevices \/ Services("net")

Outside ==
  /\ esp = "running"
  /\ \/ \E k \in {1, 2} : WebRestart(k)
     \/ \E d \in Devices : BleError(d) \/ BeaconReceived(d) \/ BeaconTimeout(d)
     \/ BleDies
     \/ OfficialConnection
     \/ \E d \in Devices : MqttMessage(d) \/ PinEvent(d)
     \/ OutageExpires
     \/ NetUp
     \/ NetLost

Next == NukiTask \/ NetworkTask \/ Outside \/ Boot

Spec == Init /\ [][Next]_hubVars

\* Both tasks are scheduled for ever, a restarted chip boots, time passes, and
\* the network comes back after each of the bounded losses.
Fairness == /\ WF_hubVars(NukiTask)
            /\ WF_hubVars(NetworkTask)
            /\ WF_hubVars(Boot)
            /\ WF_hubVars(esp = "running" /\ NetUp)
            /\ WF_hubVars(esp = "running" /\ OutageExpires)
            /\ \A d \in Devices : WF_hubVars(esp = "running" /\ BeaconTimeout(d))

FairSpec == Spec /\ Fairness

----------------------------------------------------------------------------
(* Properties *)

\* The restarts by the BLE watchdog run while networkTask goes on.  Until somebody
\* restarts the services on the web page, the code of the two tasks never touches
\* a wrapper, a network object or a scanner that restartServices() has deleted.
\* The message handlers and pin callbacks do: see MqttMessage and PinEvent.
WatchdogSparesTasks == count["web"] = 0 => esp # "panic" /\ ~borrowed

\* A device that never answers costs RestartLimit + 1 restarts of the services;
\* after that the chip is restarted.
StrikesBounded == \A d \in Devices : strikes[d] <= RestartLimit + 1

\* BLE errors that come again after every restart end in a restart of the chip
\* unless the device answers in between.
ErrorsEscalate ==
  \A d \in Devices :
    []<>(restartController[d] = 1) => []<>(esp # "running") \/ []<>hasConnected[d]

\* Whoever restarts the services, and even if both tasks do it at once, they are
\* back again and again.
ServicesComeBack == []<>(esp = "running" /\ bleDone /\ wrapper = Devices /\ scanner)

\* The lock is rebooted at most once for each time it was offline, although the
\* request passes through a flag that both tasks write.
OneRebootPerOutage == reboots <= count["outage"]

\* A reboot that networkTask asks for is carried out.
RebootRequestServed == rebootLock ~> rebootArg
=============================================================================
