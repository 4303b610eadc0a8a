---------------------------- MODULE NukiWrapper ----------------------------
(***************************************************************************)
(* One Nuki lock seen from the hub: NukiWrapper::update(), which nukiTask  *)
(* runs over and over, and the callbacks that other threads run against    *)
(* the same object while it does:                                          *)
(*                                                                         *)
(*   nukiTask     update(): queries, lock action, door sensor override,    *)
(*                lock state, periodic queries, GPIO action                *)
(*   networkTask  (MQTT client) onMqttDataReceived, onLockActionReceived,  *)
(*                onOfficialUpdateReceived, query and override topics      *)
(*   GPIO timer   onGpioActionReceived                                     *)
(*   BLE          notify                                                   *)
(*                                                                         *)
(* No field is protected by a lock, so every read or write of a shared     *)
(* field is a step of its own.  pc is nukiTask's position in update(),     *)
(* mqttPc networkTask's position in a handler of the MQTT client.          *)
(*                                                                         *)
(* Absolute timestamps are abstracted to whether they have been reached:   *)
(* a timer is "armed" when it is set and some later step makes it "due".   *)
(***************************************************************************)
EXTENDS Naturals, FiniteSets

CONSTANTS
  Actions,        \* the lock actions lockActionToEnum knows
  Permitted,      \* those whose entry in preference_acl is 1
  GpioActions,    \* the lock actions some input pin is configured for
  LockStates,     \* the states the lock reports
  Queries,        \* the query topics; "keypad" only with a keypad enabled
  NoAction,       \* (NukiLock::LockAction)0xff
  UnknownWord,    \* a payload that names no lock action
  NrOfRetries,    \* preference_command_nr_of_retries
  OffEnabled,     \* preference_official_hybrid_enabled
  HybridActions,  \* preference_official_hybrid_actions
  HybridRetry,    \* the values preference_official_hybrid_retry takes: it is read
                  \* anew for each command, and the web page may have changed it
  NewSignalLimit, \* the literal 5 in notify()
  MaxRequests,    \* bound: lock action messages received over MQTT and events raised
                  \* by GPIO inputs, together
  MaxOfficial,    \* bound: messages of the official MQTT API other than answers to commands
  MaxQueries,     \* bound: query and override messages over MQTT
  MaxMoves,       \* bound: changes of the lock's own state
  MaxTroubles     \* bound: failed BLE exchanges, losses of the MQTT connection and lock
                  \* action events the hub did not cause, together

ASSUME ActionsAssumption ==
  /\ Permitted \subseteq Actions
  /\ GpioActions \subseteq Actions
  /\ NoAction \notin Actions
  /\ UnknownWord \notin Actions

ASSUME QueriesAssumption ==
  /\ "lockstate" \in Queries
  /\ Queries \subseteq {"lockstate", "battery", "config", "keypad"}

ASSUME LockStatesAssumption == LockStates \subseteq {"locked", "unlocked", "moving"}

ASSUME SettingsAssumption ==
  /\ NrOfRetries \in Nat
  /\ NewSignalLimit \in Nat
  /\ OffEnabled \in BOOLEAN
  /\ HybridActions \in BOOLEAN
  /\ HybridRetry \subseteq BOOLEAN

ASSUME BoundsAssumption ==
  /\ MaxRequests \in Nat
  /\ MaxOfficial \in Nat
  /\ MaxQueries \in Nat
  /\ MaxMoves \in Nat
  /\ MaxTroubles \in Nat

VARIABLES
  pc,               \* nukiTask's position in update()
  mqttPc,           \* networkTask's position in a handler of the client
  mqttVal,          \* that handler's local: an action or a set of query bits
  nextLockAction,   \* _nextLockAction
  offCommand,       \* _offCommand
  offTs,            \* offCommandExecutedTs: "zero", "armed" or "due"
  offConnected,     \* offConnected: the lock is reachable over its own MQTT
  official,         \* the action handed to the official API and unanswered
  gpioAction,       \* gpioAction
  gpioRead,         \* the case checkGpioAction's switch has selected
  sending,          \* the action of the BLE exchange in progress
  attempts,         \* retryCount of retryComm
  success,          \* cmdResult of retryComm is Success
  commPin,          \* setCommPins level
  commErrorPin,     \* setCommErrorPins level
  actionTopic,      \* lock/action as last answered
  retryTopic,       \* lock/retry
  netDoor,          \* NukiNetworkLock::_requestDoorSensorOverride
  doorOverride,     \* NukiWrapper::_requestDoorSensorOverride
  queryCommands,    \* NukiNetworkLock::_queryCommands
  taken,            \* update()'s local queryCommands
  statusUpdated,    \* NukiWrapper::_statusUpdated
  offStatusUpdated, \* NukiOfficial::_statusUpdated
  offStatusRead,    \* getStatusUpdated()'s local
  newSignal,        \* _newSignal
  stateTimer,       \* _nextLockStateUpdateTs: "armed" or "due"
  queryDue,         \* queries whose own timer is due
  window,           \* espMillis() < _statusUpdatedTs + 10000
  device,           \* the state the lock is really in
  keyTurnerState,   \* _keyTurnerState.lockState
  lastKeyTurnerState, \* _lastKeyTurnerState.lockState
  published,        \* lock/state as last handed to the MQTT client, which
                    \* queues while it is not connected
  link,             \* the MQTT connection: "down", "recent" (< 6 s) or "up"
  requests,         \* history: requests that entitle to a BLE command
  rounds,           \* history: BLE commands started
  requested,        \* history: the actions of those requests
  owed,             \* history: the command handed to the official API with a BLE
                    \* retry and not carried out yet, and whether it has failed
  count             \* history: how often each bounded event has happened

commandVars == <<nextLockAction, offCommand, offTs>>
radioVars   == <<sending, attempts, success, commPin, commErrorPin>>
topicVars   == <<actionTopic, retryTopic>>
doorVars    == <<netDoor, doorOverride>>
queryVars   == <<queryCommands, taken>>
statusVars  == <<statusUpdated, offStatusUpdated, offStatusRead, newSignal>>
timerVars   == <<stateTimer, queryDue, window>>
stateVars   == <<device, keyTurnerState, lastKeyTurnerState, published>>
historyVars == <<requests, rounds, requested, owed>>
envVars     == <<offConnected, official, gpioAction, gpioRead, link>>
mqttVars    == <<mqttPc, mqttVal>>

vars == <<pc, mqttVars, commandVars, radioVars, topicVars, doorVars, queryVars,
          statusVars, timerVars, stateVars, historyVars, envVars, count>>

----------------------------------------------------------------------------
(* State *)

DoorRequests == {"DoorOpen", "DoorClosed"}
NoOverride == "NoOverride"
\* Every callback gets every input event, those for the opener and the
\* general inputs included.
OtherEvent == "OtherEvent"
GpioEvents == GpioActions \cup DoorRequests \cup {OtherEvent}
MaybeAction == Actions \cup {NoAction}
Owes(a, failed) == [act |-> a, failed |-> failed]
NothingOwed == Owes(NoAction, FALSE)

\* The states updateKeyTurnerState treats as final.  "moving" stands for the
\* intermediate ones, "undefined" is the value before any reading.
Stable == {"locked", "unlocked"}

BoundedEvents == {"request", "official", "query", "move", "trouble"}

NukiTaskSteps ==
  {"begin", "clearQueries", "offRead", "offCompare", "offTake", "offClear",
   "action", "send", "await", "finish", "doorRead", "doorClear", "doorApply",
   "stateRead", "stateClear", "query", "store", "queries", "gpio", "gpioOff",
   "gpioClear"}

\* The steps of update() inside the retryComm that sends a lock action.
InRound == {"send", "await", "finish"}

Happens(e, max) == /\ count[e] < max
                   /\ count' = [count EXCEPT ![e] = @ + 1]

CountOK == count \in [BoundedEvents -> Nat]

CommandTypes ==
  /\ pc \in NukiTaskSteps
  /\ mqttPc \in {"idle", "offCommand", "storeQuery"}
  /\ mqttVal \in [act: MaybeAction, bits: SUBSET Queries]
  /\ nextLockAction \in MaybeAction
  /\ offCommand \in MaybeAction
  /\ offTs \in {"zero", "armed", "due"}
  /\ offConnected \in BOOLEAN
  /\ official \in MaybeAction
  /\ gpioAction \in GpioEvents \cup {NoAction}
  /\ gpioRead \in MaybeAction

RadioTypes ==
  /\ sending \in MaybeAction
  /\ attempts \in 0..NrOfRetries + 1
  /\ success \in BOOLEAN
  /\ commPin \in BOOLEAN
  /\ commErrorPin \in BOOLEAN
  /\ actionTopic \in {"--", "ack", "unknown_action", "denied"}
  /\ retryTopic \in {"--", "retrying", "failed"}

StatusTypes ==
  /\ netDoor \in DoorRequests \cup {NoOverride}
  /\ doorOverride \in DoorRequests \cup {NoOverride}
  /\ queryCommands \in SUBSET Queries
  /\ taken \in SUBSET Queries
  /\ statusUpdated \in BOOLEAN
  /\ offStatusUpdated \in BOOLEAN
  /\ offStatusRead \in BOOLEAN
  /\ newSignal \in 0..NewSignalLimit
  /\ stateTimer \in {"armed", "due"}
  /\ queryDue \in SUBSET Queries
  /\ window \in BOOLEAN
  /\ device \in LockStates
  /\ keyTurnerState \in LockStates \cup {"undefined"}
  /\ lastKeyTurnerState \in LockStates \cup {"undefined"}
  /\ published \in LockStates \cup {"undefined"}
  /\ link \in {"down", "recent", "up"}

HistoryTypes ==
  /\ requests \in Nat
  /\ rounds \in Nat
  /\ requested \in SUBSET Actions
  /\ owed \in [act: MaybeAction, failed: BOOLEAN]

\* The fields hold values of their C++ types; the retry counter stays within
\* the configured number of attempts.
TypeOK == CommandTypes /\ RadioTypes /\ StatusTypes /\ HistoryTypes /\ CountOK

Init ==
  /\ pc = "begin"
  /\ mqttPc = "idle"
  /\ mqttVal = [act |-> NoAction, bits |-> {}]
  /\ nextLockAction = NoAction
  /\ offCommand = NoAction
  /\ offTs = "zero"
  /\ offConnected = FALSE
  /\ official = NoAction
  /\ gpioAction = NoAction
  /\ gpioRead = NoAction
  /\ sending = NoAction
  /\ attempts = 0
  /\ success = FALSE
  /\ commPin = FALSE
  /\ commErrorPin = FALSE
  /\ actionTopic = "--"
  /\ retryTopic = "--"
  /\ netDoor = NoOverride
  /\ doorOverride = NoOverride
  /\ queryCommands = {}
  /\ taken = {}
  /\ statusUpdated = FALSE
  /\ offStatusUpdated = FALSE
  /\ offStatusRead = FALSE
  /\ newSignal = 0
  /\ stateTimer = "due"
  /\ queryDue = Queries \ {"lockstate"}
  /\ window = FALSE
  /\ device \in LockStates
  /\ keyTurnerState = "undefined"
  \* The memset that should clear it has its last two arguments exchanged,
  \* so the first comparison reads whatever the heap held.
  /\ lastKeyTurnerState \in LockStates \cup {"undefined"}
  /\ published = "undefined"
  /\ link = "down"
  /\ requests = 0
  /\ rounds = 0
  /\ requested = {}
  /\ owed = NothingOwed
  /\ count = [e \in BoundedEvents |-> 0]

----------------------------------------------------------------------------
(* The MQTT client: lock actions.  A message on lock/action is dropped     *)
(* during the first six seconds of a connection; otherwise the answer goes *)
(* back to the same topic.                                                 *)

\* A request that may lead to a BLE command for action a.
Entitles(a) == /\ requests' = requests + 1
               /\ requested' = requested \cup {a}
               /\ UNCHANGED <<rounds, owed>>

MqttHandlerFrame == UNCHANGED <<pc, radioVars, retryTopic, doorVars, queryVars,
                                statusVars, timerVars, stateVars>>

\* onLockActionReceived: unknown word, or an action the ACL forbids.
RejectLockAction(v) ==
  /\ v \notin Permitted
  /\ actionTopic' = IF v \in Actions THEN "denied" ELSE "unknown_action"
  /\ UNCHANGED <<mqttVars, commandVars, envVars, historyVars>>

\* Mutant: the access control list is not consulted.
AcceptForBleUnchecked(a) ==
  /\ a \in Actions
  /\ ~offConnected \/ ~HybridActions
  /\ nextLockAction' = a
  /\ actionTopic' = "ack"
  /\ Entitles(a)
  /\ UNCHANGED <<mqttVars, offCommand, offTs, envVars>>

\* The action goes over BLE: it replaces whatever waits in _nextLockAction.
AcceptForBle(a) ==
  /\ a \in Permitted
  /\ ~offConnected \/ ~HybridActions
  /\ nextLockAction' = a
  /\ actionTopic' = "ack"
  /\ Entitles(a)
  /\ UNCHANGED <<mqttVars, offCommand, offTs, envVars>>

\* Mutant: without the retry the action also goes over BLE.
AcceptForOfficialToo(a) ==
  /\ a \in Permitted
  /\ offConnected /\ HybridActions /\ FALSE \in HybridRetry
  /\ official' = a
  /\ nextLockAction' = a
  /\ actionTopic' = "ack"
  /\ UNCHANGED <<mqttVars, offCommand, offTs, offConnected, gpioAction, gpioRead, link,
                 historyVars>>

\* Hybrid mode without the BLE retry: only published to the official API.
AcceptForOfficial(a) ==
  /\ a \in Permitted
  /\ offConnected /\ HybridActions /\ FALSE \in HybridRetry
  /\ official' = a
  /\ actionTopic' = "ack"
  /\ UNCHANGED <<mqttVars, commandVars, offConnected, gpioAction, gpioRead, link, historyVars>>

\* Hybrid mode with the BLE retry: the timestamp is written first, the command
\* it stands for afterwards (SetOffCommand).
AcceptWithRetry(a) ==
  /\ a \in Permitted
  /\ offConnected /\ HybridActions /\ TRUE \in HybridRetry
  /\ offTs' = "armed"
  /\ mqttPc' = "offCommand"
  /\ mqttVal' = [mqttVal EXCEPT !.act = a]
  /\ Entitles(a)
  /\ UNCHANGED <<nextLockAction, offCommand, actionTopic, envVars>>

OnLockActionReceived(v) ==
  /\ mqttPc = "idle"
  /\ link = "up"
  /\ Happens("request", MaxRequests)
  /\ \/ RejectLockAction(v)
     \/ AcceptForBle(v)
     \/ AcceptForOfficial(v)
     \/ AcceptWithRetry(v)
  /\ MqttHandlerFrame

SetOffCommand ==
  /\ mqttPc = "offCommand"
  /\ offCommand' = mqttVal.act
  /\ official' = mqttVal.act
  /\ actionTopic' = "ack"
  /\ mqttPc' = "idle"
  /\ mqttVal' = [mqttVal EXCEPT !.act = NoAction]
  /\ owed' = Owes(mqttVal.act, FALSE)
  /\ UNCHANGED <<nextLockAction, offTs, offConnected, gpioAction, gpioRead, link, requests,
                 rounds, requested, count>>
  /\ MqttHandlerFrame

(* The MQTT client: queries and the door sensor override *)

\* _queryCommands = _queryCommands | QUERY_COMMAND_x: read, then write back.
OnQueryReceived(q) ==
  /\ mqttPc = "idle"
  /\ link # "down"
  /\ Happens("query", MaxQueries)
  /\ mqttPc' = "storeQuery"
  /\ mqttVal' = [mqttVal EXCEPT !.bits = queryCommands \cup {q}]
  /\ UNCHANGED <<pc, commandVars, radioVars, topicVars, doorVars, queryVars,
                 statusVars, timerVars, stateVars, historyVars, envVars>>

StoreQuery ==
  /\ mqttPc = "storeQuery"
  /\ queryCommands' = mqttVal.bits
  /\ mqttPc' = "idle"
  /\ mqttVal' = [mqttVal EXCEPT !.bits = {}]
  /\ UNCHANGED <<pc, commandVars, radioVars, topicVars, doorVars, taken,
                 statusVars, timerVars, stateVars, historyVars, envVars, count>>

OnDoorOverrideReceived(d) ==
  /\ mqttPc = "idle"
  /\ link # "down"
  /\ Happens("query", MaxQueries)
  /\ netDoor' = d
  /\ UNCHANGED <<pc, mqttVars, commandVars, radioVars, topicVars, doorOverride, queryVars,
                 statusVars, timerVars, stateVars, historyVars, envVars>>

(* The MQTT client: messages of the official Nuki MQTT API.  What the lock *)
(* answers, and when, is up to the lock.                                   *)

OfficialFrame ==
  /\ mqttPc = "idle"
  /\ OffEnabled
  /\ link # "down"
  /\ UNCHANGED <<pc, mqttVars, nextLockAction, offCommand, radioVars, topicVars, doorVars,
                 queryVars, statusUpdated, offStatusRead, newSignal, timerVars,
                 device, keyTurnerState, lastKeyTurnerState, requests, rounds,
                 requested, gpioAction, gpioRead, link>>

OfficialConnected(b) ==
  /\ Happens("official", MaxOfficial)
  /\ offConnected' = b
  /\ UNCHANGED <<offTs, official, offStatusUpdated, published, owed>>
  /\ OfficialFrame

\* mqtt_topic_official_state: the MQTT client itself publishes lock/state.
OfficialState ==
  /\ Happens("official", MaxOfficial)
  /\ published' = device
  /\ offStatusUpdated' = TRUE
  /\ UNCHANGED <<offTs, offConnected, official, owed>>
  /\ OfficialFrame

OfficialDoorsensorState ==
  /\ Happens("official", MaxOfficial)
  /\ offStatusUpdated' = TRUE
  /\ UNCHANGED <<offTs, offConnected, official, published, owed>>
  /\ OfficialFrame

\* The lock's own word on the command it was handed.
Answered(ok) == owed' = IF owed.act # official THEN owed ELSE
                        IF ok THEN NothingOwed ELSE Owes(official, TRUE)

\* mqtt_topic_official_commandResponse.  The response 0 withdraws the retry,
\* any other leaves it pending, as does silence.
OfficialCommandResponse(ok) ==
  /\ official # NoAction
  /\ official' = NoAction
  /\ offTs' = IF ok THEN "zero" ELSE offTs
  /\ Answered(ok)
  /\ UNCHANGED <<offConnected, offStatusUpdated, published, count>>
  /\ OfficialFrame

\* mqtt_topic_official_lockActionEvent withdraws the retry whatever the event
\* is about: the hub's command or somebody at the door.
OfficialLockActionEvent ==
  /\ \/ /\ official # NoAction
        /\ official' = NoAction
        /\ Answered(TRUE)
        /\ UNCHANGED count
     \/ /\ Happens("trouble", MaxTroubles)
        /\ UNCHANGED <<official, owed>>
  /\ offTs' = "zero"
  /\ UNCHANGED <<offConnected, offStatusUpdated, published>>
  /\ OfficialFrame

(* GPIO timer and BLE *)

\* onGpioActionReceived: one slot, written from the timer's callback.
OnGpioActionReceived(e) ==
  /\ Happens("request", MaxRequests)
  /\ gpioAction' = e
  /\ IF e \in GpioActions THEN Entitles(e) ELSE UNCHANGED historyVars
  /\ UNCHANGED <<pc, mqttVars, commandVars, radioVars, topicVars, doorVars, queryVars,
                 statusVars, timerVars, stateVars, offConnected, official, gpioRead, link>>

\* Mutant: the limit is not looked at.
NotifyStatusUpdatedUnlimited ==
  /\ ~offConnected
  /\ \/ OffEnabled /\ UNCHANGED <<newSignal, window>>
     \/ ~statusUpdated /\ newSignal' = newSignal + 1 /\ window' = TRUE
  /\ statusUpdated' = TRUE
  /\ UNCHANGED <<pc, mqttVars, commandVars, radioVars, topicVars, doorVars, queryVars,
                 offStatusUpdated, offStatusRead, stateTimer, queryDue,
                 stateVars, historyVars, envVars, count>>

\* notify(KeyTurnerStatusUpdated): either the unconditional branch taken when
\* hybrid mode is enabled and the lock offline, or the rate limited one.
NotifyStatusUpdated ==
  /\ ~offConnected
  /\ \/ /\ OffEnabled
        /\ UNCHANGED <<newSignal, window>>
     \/ /\ ~statusUpdated
        /\ newSignal < NewSignalLimit
        /\ newSignal' = newSignal + 1
        /\ window' = TRUE
  /\ statusUpdated' = TRUE
  /\ UNCHANGED <<pc, mqttVars, commandVars, radioVars, topicVars, doorVars, queryVars,
                 offStatusUpdated, offStatusRead, stateTimer, queryDue,
                 stateVars, historyVars, envVars, count>>

NotifyStatusReset ==
  /\ ~offConnected
  /\ newSignal' = 0
  /\ UNCHANGED <<pc, mqttVars, commandVars, radioVars, topicVars, doorVars, queryVars,
                 statusUpdated, offStatusUpdated, offStatusRead, timerVars,
                 stateVars, historyVars, envVars, count>>

----------------------------------------------------------------------------
(* Time and the world *)

WorldFrame == UNCHANGED <<pc, mqttVars, nextLockAction, offCommand, radioVars, topicVars,
                          doorVars, queryVars, statusVars, keyTurnerState,
                          lastKeyTurnerState, published, historyVars,
                          offConnected, official, gpioAction, gpioRead>>

\* Two seconds after setOffCommandExecutedTs.  The assignment of _offCommand
\* that follows the call takes microseconds, so it comes first.
OffTsDue ==
  /\ offTs = "armed"
  /\ mqttPc # "offCommand"
  /\ pc # "gpioOff"
  /\ offTs' = "due"
  /\ UNCHANGED <<timerVars, device, link, count>>
  /\ WorldFrame

StateTimerDue ==
  /\ stateTimer = "armed"
  /\ stateTimer' = "due"
  /\ UNCHANGED <<offTs, queryDue, window, device, link, count>>
  /\ WorldFrame

QueryTimerDue(q) ==
  /\ q \in Queries \ ({"lockstate"} \cup queryDue)
  /\ queryDue' = queryDue \cup {q}
  /\ UNCHANGED <<offTs, stateTimer, window, device, link, count>>
  /\ WorldFrame

WindowCloses ==
  /\ window
  /\ window' = FALSE
  /\ UNCHANGED <<offTs, stateTimer, queryDue, device, link, count>>
  /\ WorldFrame

DeviceMoves(s) ==
  /\ s # device
  /\ Happens("move", MaxMoves)
  /\ device' = s
  /\ UNCHANGED <<offTs, timerVars, link>>
  /\ WorldFrame

LinkUp ==
  /\ \/ link = "down" /\ link' = "recent"
     \/ link = "recent" /\ link' = "up"
  /\ UNCHANGED <<offTs, timerVars, device, count>>
  /\ WorldFrame

LinkDown ==
  /\ link # "down"
  /\ Happens("trouble", MaxTroubles)
  /\ link' = "down"
  /\ UNCHANGED <<offTs, timerVars, device>>
  /\ WorldFrame

----------------------------------------------------------------------------
(* nukiTask: update() *)

Goto(from, to) == /\ pc = from
                  /\ pc' = to

\* update() and NukiNetworkLock::queryCommands(): the bits are read ...
BeginUpdate ==
  /\ Goto("begin", "clearQueries")
  /\ taken' = queryCommands
  /\ UNCHANGED <<mqttVars, commandVars, radioVars, topicVars, doorVars, queryCommands,
                 statusVars, timerVars, stateVars, historyVars, envVars, count>>

\* ... and cleared.
ClearQueries ==
  /\ Goto("clearQueries", "offRead")
  /\ queryCommands' = {}
  /\ UNCHANGED <<mqttVars, commandVars, radioVars, topicVars, doorVars, taken,
                 statusVars, timerVars, stateVars, historyVars, envVars, count>>

(* checkLockAction *)

LockActionFrame == UNCHANGED <<mqttVars, actionTopic, doorVars, queryVars,
                               offStatusUpdated, offStatusRead, newSignal, queryDue,
                               stateVars, envVars, requests, requested>>
QuietStatus == UNCHANGED <<statusUpdated, stateTimer, window>>

\* Mutant: the pending action is only looked at after a hybrid retry.
ReadOffTsElse ==
  /\ pc = "offRead"
  /\ pc' = IF offTs = "zero" THEN "doorRead" ELSE "offCompare"
  /\ UNCHANGED <<commandVars, radioVars, retryTopic, rounds, owed, count>>
  /\ QuietStatus /\ LockActionFrame

\* getOffCommandExecutedTs() > 0 ...
ReadOffTs ==
  /\ pc = "offRead"
  /\ pc' = IF offTs = "zero" THEN "action" ELSE "offCompare"
  /\ UNCHANGED <<commandVars, radioVars, retryTopic, rounds, owed, count>>
  /\ QuietStatus /\ LockActionFrame

\* ... && ts >= getOffCommandExecutedTs(): a second read, which also succeeds
\* when the field has been cleared in between.
CompareOffTs ==
  /\ pc = "offCompare"
  /\ pc' = IF offTs = "armed" THEN "action" ELSE "offTake"
  /\ UNCHANGED <<commandVars, radioVars, retryTopic, rounds, owed, count>>
  /\ QuietStatus /\ LockActionFrame

TakeOffCommand ==
  /\ Goto("offTake", "offClear")
  /\ nextLockAction' = offCommand
  /\ UNCHANGED <<offCommand, offTs, radioVars, retryTopic, rounds, owed, count>>
  /\ QuietStatus /\ LockActionFrame

ClearOffTs ==
  /\ Goto("offClear", "action")
  /\ offTs' = "zero"
  /\ UNCHANGED <<nextLockAction, offCommand, radioVars, retryTopic, rounds, owed, count>>
  /\ QuietStatus /\ LockActionFrame

\* retryComm is entered: the pins of role OutputHighBluetoothComm go high.
EnterRetryComm == /\ attempts' = 0
                  /\ success' = FALSE
                  /\ commPin' = TRUE

\* One more turn of retryComm's loop ended with cmdResult Success or not.
RetryCommResult(ok) ==
  /\ success' = ok
  /\ IF ok THEN UNCHANGED <<attempts, commErrorPin, count>>
           ELSE /\ Happens("trouble", MaxTroubles)
                /\ attempts' = attempts + 1
                /\ commErrorPin' = TRUE

\* The loop condition retryCount < _nrOfRetries + 1 && cmdResult != Success.
RetryAgain(ok) == ~ok /\ attempts + 1 < NrOfRetries + 1

\* Mutant: the error pins keep their level.
LeaveRetryCommErrorHigh == /\ commPin' = FALSE
                           /\ UNCHANGED commErrorPin
                           /\ attempts' = 0
                           /\ success' = FALSE

LeaveRetryComm == /\ commPin' = FALSE
                  /\ commErrorPin' = FALSE
                  /\ attempts' = 0
                  /\ success' = FALSE

CheckNextLockAction ==
  /\ pc = "action"
  /\ IF nextLockAction = NoAction
       THEN /\ pc' = "doorRead"
            /\ UNCHANGED <<radioVars, rounds>>
       ELSE /\ pc' = "send"
            /\ EnterRetryComm
            /\ rounds' = rounds + 1
            /\ UNCHANGED <<sending, commErrorPin>>
  /\ UNCHANGED <<commandVars, retryTopic, owed, count>>
  /\ QuietStatus /\ LockActionFrame

\* The lambda passes the field _nextLockAction, as it is now, to the lock.
SendLockAction ==
  /\ Goto("send", "await")
  /\ sending' = nextLockAction
  /\ owed' = IF owed.act = nextLockAction THEN NothingOwed ELSE owed
  /\ UNCHANGED <<commandVars, attempts, success, commPin, commErrorPin, retryTopic,
                 rounds, count>>
  /\ QuietStatus /\ LockActionFrame

LockActionResult(ok) ==
  /\ pc = "await"
  /\ pc' = IF RetryAgain(ok) THEN "send" ELSE "finish"
  /\ RetryCommResult(ok)
  /\ sending' = NoAction
  /\ retryTopic' = IF ok THEN retryTopic ELSE "retrying"
  /\ UNCHANGED <<commandVars, commPin, rounds, owed>>
  /\ QuietStatus /\ LockActionFrame

\* Mutant: a command that failed stays in _nextLockAction.
FinishLockActionKeeps ==
  /\ Goto("finish", "doorRead")
  /\ LeaveRetryComm
  /\ nextLockAction' = IF success THEN NoAction ELSE nextLockAction
  /\ IF success
       THEN /\ retryTopic' = "--"
            /\ statusUpdated' = (statusUpdated \/ ~offConnected)
            /\ window' = TRUE
            /\ stateTimer' \in {"armed", stateTimer}
       ELSE /\ retryTopic' = "failed"
            /\ QuietStatus
  /\ UNCHANGED <<offCommand, offTs, sending, rounds, owed, count>>
  /\ LockActionFrame

\* Both outcomes empty _nextLockAction, whatever it holds by now.  Success asks
\* for the new lock state and, unless the interval is ten seconds or less,
\* postpones the periodic query by ten seconds.
FinishLockAction ==
  /\ Goto("finish", "doorRead")
  /\ LeaveRetryComm
  /\ nextLockAction' = NoAction
  /\ IF success
       THEN /\ retryTopic' = "--"
            /\ statusUpdated' = (statusUpdated \/ ~offConnected)
            /\ window' = TRUE
            /\ stateTimer' \in {"armed", stateTimer}
       ELSE /\ retryTopic' = "failed"
            /\ QuietStatus
  /\ UNCHANGED <<offCommand, offTs, sending, rounds, owed, count>>
  /\ LockActionFrame

(* checkDoorSensorOverride and getRequestDoorSensorOverride *)

DoorFrame == UNCHANGED <<mqttVars, commandVars, radioVars, topicVars, queryVars, statusVars,
                         timerVars, stateVars, historyVars, envVars, count>>

ReadDoorOverride ==
  /\ pc = "doorRead"
  /\ IF doorOverride = NoOverride
       THEN pc' = "doorClear" /\ doorOverride' = netDoor
       ELSE pc' = "doorApply" /\ UNCHANGED doorOverride
  /\ UNCHANGED netDoor
  /\ DoorFrame

ClearNetDoor ==
  /\ Goto("doorClear", "doorApply")
  /\ netDoor' = NoOverride
  /\ UNCHANGED doorOverride
  /\ DoorFrame

ApplyDoorOverride ==
  /\ Goto("doorApply", "stateRead")
  /\ doorOverride' = NoOverride
  /\ UNCHANGED netDoor
  /\ DoorFrame

(* checkLockStateUpdate and updateKeyTurnerState *)

StateFrame == UNCHANGED <<mqttVars, commandVars, sending, topicVars, doorVars, queryCommands,
                          taken, newSignal, queryDue, device, lastKeyTurnerState,
                          historyVars, envVars>>

\* NukiOfficial::getStatusUpdated() reads the flag ...
ReadOffStatus ==
  /\ Goto("stateRead", "stateClear")
  /\ offStatusRead' = offStatusUpdated
  /\ UNCHANGED <<attempts, success, commPin, commErrorPin, statusUpdated,
                 offStatusUpdated, stateTimer, window, keyTurnerState, published, count>>
  /\ StateFrame

\* Mutant: no periodic query.
StateQueryWantedNoTimer == offStatusRead \/ statusUpdated \/ "lockstate" \in taken

StateQueryWanted == \/ offStatusRead
                    \/ statusUpdated
                    \/ stateTimer = "due"
                    \/ "lockstate" \in taken

\* ... and clears it; then the other reasons for a query are looked at.
CheckLockStateUpdate ==
  /\ pc = "stateClear"
  /\ offStatusUpdated' = FALSE
  /\ offStatusRead' = FALSE
  /\ IF StateQueryWanted
       THEN /\ pc' = "query"
            /\ stateTimer' = "armed"
            /\ EnterRetryComm
       ELSE /\ pc' = "queries"
            /\ UNCHANGED <<stateTimer, attempts, success, commPin>>
  /\ UNCHANGED <<commErrorPin, statusUpdated, window,
                 keyTurnerState, published, count>>
  /\ StateFrame

\* One requestKeyTurnerState inside retryComm; success fills _keyTurnerState
\* with what the lock reports at that moment.
RequestKeyTurnerState(ok) ==
  /\ pc = "query"
  /\ pc' = IF RetryAgain(ok) THEN "query" ELSE "store"
  /\ RetryCommResult(ok)
  /\ keyTurnerState' = IF ok THEN device ELSE keyTurnerState
  /\ UNCHANGED <<commPin, statusUpdated, offStatusUpdated, offStatusRead,
                 stateTimer, window, published>>
  /\ StateFrame

\* An intermediate state keeps the status "updated" for ten seconds after the
\* last change, unless the lock reports by itself.
KeepUpdating == /\ success
                /\ keyTurnerState \notin Stable
                /\ ~offConnected
                /\ window'

\* The rest of updateKeyTurnerState, and the assignment of its result to
\* _statusUpdated, which also overwrites what notify() stored meanwhile.
\* Failure and the Undefined state only move _nextLockStateUpdateTs.
StoreLockState ==
  /\ Goto("store", "queries")
  /\ LeaveRetryComm
  /\ window' = (window \/ (success /\ keyTurnerState # lastKeyTurnerState))
  /\ statusUpdated' = KeepUpdating
  /\ published' = IF offConnected \/ keyTurnerState = "undefined"
                  THEN published ELSE keyTurnerState
  /\ UNCHANGED <<offStatusUpdated, offStatusRead, stateTimer,
                 keyTurnerState, count>>
  /\ StateFrame

(* checkQueries: skipped while the MQTT connection is down or the status is *)
(* still moving; each query is due by its timer or by its bit.  What the   *)
(* lock answers is the subject of LockData; here only the timers go on.    *)

\* Mutant: checkGpioAction is part of the block for a working MQTT connection.
CheckQueriesGpioInside ==
  /\ pc = "queries"
  /\ pc' = IF link # "down" THEN "gpio" ELSE "gpioClear"
  /\ IF link # "down" /\ ~statusUpdated
       THEN queryDue' = {}
       ELSE UNCHANGED queryDue
  /\ UNCHANGED <<mqttVars, commandVars, radioVars, topicVars, doorVars, queryCommands,
                 taken, statusVars, stateTimer, window, stateVars, historyVars,
                 envVars, count>>

CheckQueries ==
  /\ Goto("queries", "gpio")
  /\ IF link # "down" /\ ~statusUpdated
       THEN queryDue' = {}
       ELSE UNCHANGED queryDue
  /\ UNCHANGED <<mqttVars, commandVars, radioVars, topicVars, doorVars, queryCommands,
                 taken, statusVars, stateTimer, window, stateVars, historyVars,
                 envVars, count>>

(* checkGpioAction *)

GpioFrame == UNCHANGED <<mqttVars, radioVars, topicVars, netDoor, queryCommands, statusVars,
                         timerVars, device, keyTurnerState, published, requests, rounds,
                         requested, offConnected, link, count>>

\* The switch: a door event, a lock action over BLE, or one over the official
\* API, whose BLE retry is armed first (SetGpioOffCommand completes it).
DispatchGpio ==
  /\ pc = "gpio"
  /\ \/ /\ gpioAction \in DoorRequests
        /\ doorOverride' = gpioAction
        /\ pc' = "gpioClear"
        /\ UNCHANGED <<nextLockAction, offTs, gpioRead>>
     \/ /\ gpioAction \in GpioActions
        /\ ~offConnected
        /\ nextLockAction' = gpioAction
        /\ pc' = "gpioClear"
        /\ UNCHANGED <<doorOverride, offTs, gpioRead>>
     \/ /\ gpioAction \in GpioActions
        /\ offConnected
        /\ offTs' = "armed"
        /\ gpioRead' = gpioAction
        /\ pc' = "gpioOff"
        /\ UNCHANGED <<doorOverride, nextLockAction>>
     \/ /\ gpioAction \in {NoAction, OtherEvent}
        /\ pc' = "gpioClear"
        /\ UNCHANGED <<doorOverride, nextLockAction, offTs, gpioRead>>
  /\ UNCHANGED <<offCommand, official, gpioAction, taken, lastKeyTurnerState, owed>>
  /\ GpioFrame

SetGpioOffCommand ==
  /\ Goto("gpioOff", "gpioClear")
  /\ offCommand' = gpioRead
  /\ official' = gpioRead
  /\ owed' = Owes(gpioRead, FALSE)
  /\ gpioRead' = NoAction
  /\ UNCHANGED <<nextLockAction, offTs, doorOverride, gpioAction, taken,
                 lastKeyTurnerState>>
  /\ GpioFrame

\* gpioAction = None, whatever it holds by now, and the end of update().
ClearGpioAction ==
  /\ Goto("gpioClear", "begin")
  /\ gpioAction' = NoAction
  /\ lastKeyTurnerState' = keyTurnerState
  /\ taken' = {}
  /\ UNCHANGED <<commandVars, doorOverride, official, gpioRead, owed>>
  /\ GpioFrame

----------------------------------------------------------------------------
(* Specification *)

MqttClient ==
  \/ \E v \in Actions \cup {UnknownWord} : OnLockActionReceived(v)
  \/ \E q \in Queries : OnQueryReceived(q)
  \/ \E d \in DoorRequests : OnDoorOverrideReceived(d)
  \/ \E b \in BOOLEAN : OfficialConnected(b)
  \/ OfficialState
  \/ OfficialDoorsensorState
  \/ \E ok \in BOOLEAN : OfficialCommandResponse(ok)
  \/ OfficialLockActionEvent

\* The steps that complete a handler the MQTT client has entered.
MqttContinues == SetOffCommand \/ StoreQuery

TimePasses ==
  \/ OffTsDue
  \/ StateTimerDue
  \/ \E q \in Queries : QueryTimerDue(q)
  \/ WindowCloses

World ==
  \/ \E e \in GpioEvents : OnGpioActionReceived(e)
  \/ NotifyStatusUpdated
  \/ NotifyStatusReset
  \/ \E s \in LockStates : DeviceMoves(s)
  \/ LinkUp
  \/ LinkDown

NukiTask ==
  \/ BeginUpdate
  \/ ClearQueries
  \/ ReadOffTs
  \/ CompareOffTs
  \/ TakeOffCommand
  \/ ClearOffTs
  \/ CheckNextLockAction
  \/ SendLockAction
  \/ \E ok \in BOOLEAN : LockActionResult(ok)
  \/ FinishLockAction
  \/ ReadDoorOverride
  \/ ClearNetDoor
  \/ ApplyDoorOverride
  \/ ReadOffStatus
  \/ CheckLockStateUpdate
  \/ \E ok \in BOOLEAN : RequestKeyTurnerState(ok)
  \/ StoreLockState
  \/ CheckQueries
  \/ DispatchGpio
  \/ SetGpioOffCommand
  \/ ClearGpioAction

Next == MqttClient \/ MqttContinues \/ TimePasses \/ World \/ NukiTask

Spec == Init /\ [][Next]_vars

\* FreeRTOS keeps both tasks running and every BLE exchange ends (the library
\* times out), so neither nukiTask nor a handler that has begun can stop for
\* ever, and time passes.  Nothing is assumed of users, pins or the lock.
Fairness == /\ WF_vars(NukiTask)
            /\ WF_vars(MqttContinues)
            /\ WF_vars(OffTsDue)
            /\ WF_vars(StateTimerDue)
            /\ WF_vars(WindowCloses)

FairSpec == Spec /\ Fairness

\* Commands need no more than nukiTask.
CommandSpec == Spec /\ WF_vars(NukiTask)

----------------------------------------------------------------------------
(* Properties *)

\* What a BLE exchange carries was asked for: by an MQTT message whose action
\* the access control list permits, or by a pin configured for that action.
\* retryComm's lambda reads the shared field anew on each attempt, so the
\* property is about every writer of the field, and about 0xff never being
\* sent although nukiTask itself stores it there.
SentWasRequested ==
  /\ pc = "await" => sending \in requested
  /\ requested \subseteq Permitted \cup GpioActions

\* A request leads to at most one BLE command (with its retries): neither a
\* failed command, nor the hybrid retry, nor a GPIO event that stays in its
\* slot makes the lock move again by itself.
OneRoundPerRequest == rounds <= requests

\* Outside retryComm the communication pins are low and lock/retry shows an
\* outcome: whatever way the loop ended, nothing is left behind.
RadioIdleIsVisible ==
  pc \notin InRound \cup {"query", "store"} =>
    ~commPin /\ ~commErrorPin /\ retryTopic # "retrying"

\* An action stored while no command is in progress is sent unless another
\* action takes its place first: the slot is never emptied under it.  An action
\* stored while a command is in progress is emptied with it by FinishLockAction,
\* although it has been answered with "ack".  No other actions are ever stored:
\* see SentWasRequested.
PendingActionServed ==
  \A a \in Permitted \cup GpioActions :
    (nextLockAction = a /\ pc \notin InRound)
      ~> (sending = a \/ nextLockAction \in Actions \ {a})

\* A GPIO action that is in the slot when checkGpioAction runs its switch, or
\* earlier, reaches the lock's command field or the official API unless
\* another event takes its place first.
GpioActionDispatched ==
  \A a \in GpioActions :
    (gpioAction = a /\ pc \notin {"gpioOff", "gpioClear"})
      ~> (nextLockAction = a \/ official = a \/ gpioAction \in GpioEvents \ {a})

\* When the lock stays in one state and does not report by itself, lock/state
\* comes to show it, although notifications may be lost, suppressed by
\* _newSignal, or overwritten by the result of a query in progress.
PublishedStateCatchesUp ==
  \A s \in LockStates : <>[](device = s /\ ~offConnected) => <>[](published = s)

\* HYBRID.md: a command the official API failed to execute is sent over BLE,
\* unless another action takes its place first.
FailedCommandResent ==
  \A a \in Actions :
    owed = Owes(a, TRUE)
      ~> (owed # Owes(a, TRUE) \/ nextLockAction \in Actions \ {a})

\* The commands form a ledger: see module CommandLedger.
Ledger == INSTANCE CommandLedger WITH
            busy <- pc \in InRound, report <- retryTopic

LedgerSpec == Ledger!Spec
============================================================================
