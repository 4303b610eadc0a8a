--------------------------- MODULE MqttConnection ---------------------------
(***************************************************************************)
(* The hub's connection to the network and to the MQTT broker:             *)
(* NukiNetwork::update() and reconnect(), the MQTT client that networkTask *)
(* runs from there, the watchdogs that restart the chip, and the part of   *)
(* restartServices() that builds a new client.                             *)
(*                                                                         *)
(* networkTask is the only thread here besides the web server.  The client *)
(* advances, and its callbacks run, only when networkTask calls loop().    *)
(* The broker keeps a session per client id and resends what was not       *)
(* acknowledged (QoS 1).  A command is identified with its topic:          *)
(* "maintenance" stands for maintenance/reset, a device for its action.    *)
(***************************************************************************)
EXTENDS Integers, Sequences

CONSTANTS
  Devices,        \* "lock", "opener": the ones that may be enabled
  BrokerStates,   \* "down" (or not reachable), "slow" (no CONNACK for now), "up"
  Configurations, \* the sets of options a hub may be configured with
  ConnectLimit,   \* the literal 15 in NukiNetwork::update
  MaxCommands,    \* bound: commands published by users, per topic
  MaxSaves        \* bound: changes and confirmations on the web page

AllOptions == {"broker", "restartOnDisconnect", "disableNetwork", "networkTimeout", "web"}
Topics == Devices \cup {"maintenance"}
Ids == {"hostname", "generated"}

ASSUME DevicesAssumption == Devices \subseteq {"lock", "opener"}
ASSUME BrokerStatesAssumption == BrokerStates \subseteq {"down", "slow", "up"}
ASSUME ConfigurationsAssumption == Configurations \subseteq SUBSET AllOptions
ASSUME MqttBoundsAssumption == /\ ConnectLimit \in Nat
                               /\ MaxCommands \in Nat
                               /\ MaxSaves \in Nat

VARIABLES
  esp,                  \* the chip: "running", "restarting" (restartEsp), "panic"
  pc,                   \* networkTask's position
  caller,               \* who called reconnect(): "update" or "services"
  settings,             \* the options that are on
  client,               \* the client's state: "disconnected", "tcp" (connectingTcp),
                        \* "mqtt" (connectingMqtt), "connected", "closing"
  clientId,             \* its id; the session is kept by the broker for "hostname"
  link,                 \* its TCP connection: "none", "up", "dead", "gone" (noticed)
  onMessage,            \* its message callback is set
  connectReplyReceived, \* _connectReplyReceived
  connectionState,      \* _mqttConnectionState
  connectCounter,       \* _mqttConnectCounter
  firstConnect,         \* _firstConnect
  firstDisconnected,    \* _firstDisconnected
  logIp,                \* _logIp
  reconnectDue,         \* espMillis() > _nextReconnect
  waited,               \* the 60 s for the reply have passed
  uptime60,             \* espMillis() > 60000
  connectedTs,          \* _mqttConnectedTs: "never", "recent" (6 s) or "old"
  lastConnected,        \* _lastConnectedTs: "recent" or "expired" (_networkTimeout)
  late,                 \* the same and uptime60, as of ts at the top of update()
  restartServ,          \* NukiNetwork::_restartServices
  servicesRequired,     \* WebCfgServer::_restartServicesRequired
  enabled,              \* preference_lock_enabled, preference_opener_enabled
  startEnabled,         \* lockEnabled and openerEnabled of main.cpp
  started,              \* the devices whose NukiNetworkLock/-Opener exists
  mqttReceivers,        \* how often each device is in _mqttReceivers
  subscribedTopics,     \* _subscribedTopics
  webStarted,           \* webStarted or webSSLStarted
  forceEnableWebServer, \* kept over a restart of the chip
  disableNetwork,       \* kept over a restart of the chip
  net,                  \* _device->isConnected()
  broker,               \* the state of the broker
  subscriptions,        \* the broker: subscribed topics of each session
  queue,                \* the broker: commands not acknowledged, of each session
  handled,              \* how many of them have been handled, the PUBACK not yet sent
  stale,                \* history: how many of them are older than the connection,
                        \* not acknowledged yet
  published,            \* history: commands published, per topic
  executed,             \* history: commands executed, per topic
  oldTimestamp,         \* history: a command was accepted by the time of an earlier
                        \* connection
  lateAnswer,           \* history: connected by a CONNACK nobody waited for
  rescue,               \* history: restarted by the timeout, not connected since
  saves                 \* history: events on the web page

clientVars  == <<client, clientId, link, onMessage, connectReplyReceived>>
stateVars   == <<connectionState, connectCounter, firstConnect, firstDisconnected, logIp>>
timeVars    == <<reconnectDue, waited, uptime60, connectedTs, lastConnected, late>>
serviceVars == <<startEnabled, started, mqttReceivers, subscribedTopics, webStarted>>
webVars     == <<servicesRequired, enabled, saves>>
keptVars    == <<forceEnableWebServer, disableNetwork, rescue>>
worldVars   == <<net, broker>>
brokerVars  == <<subscriptions, queue, handled, stale>>
historyVars == <<published, executed, oldTimestamp, lateAnswer>>
mqttVars    == <<esp, pc, caller, settings, clientVars, stateVars, timeVars, restartServ,
                 serviceVars, webVars, keptVars, worldVars, brokerVars, historyVars>>

----------------------------------------------------------------------------
(* State *)

Steps == {"top", "lost", "ip", "mqtt", "wait", "check", "rest", "services"}
Zero(S) == [x \in S |-> 0]
OneEach(S) == [d \in Devices |-> IF d \in S THEN 1 ELSE 0]

ChipTypes ==
  /\ esp \in {"running", "restarting", "panic"}
  /\ pc \in Steps
  /\ caller \in {"update", "services"}
  /\ settings \in Configurations
  /\ forceEnableWebServer \in BOOLEAN
  /\ disableNetwork \in BOOLEAN
  /\ net \in BOOLEAN
  /\ broker \in BrokerStates

ClientTypes ==
  /\ client \in {"disconnected", "tcp", "mqtt", "connected", "closing"}
  /\ clientId \in Ids
  /\ link \in {"none", "up", "dead", "gone"}
  /\ onMessage \in BOOLEAN
  /\ connectReplyReceived \in BOOLEAN
  /\ connectionState \in {0, 2}
  /\ connectCounter \in 0..ConnectLimit + 2
  /\ firstConnect \in BOOLEAN
  /\ firstDisconnected \in BOOLEAN
  /\ logIp \in BOOLEAN

TimeTypes ==
  /\ reconnectDue \in BOOLEAN
  /\ waited \in BOOLEAN
  /\ uptime60 \in BOOLEAN
  /\ connectedTs \in {"never", "recent", "old"}
  /\ lastConnected \in {"recent", "expired"}
  /\ late \in BOOLEAN

ServiceTypes ==
  /\ restartServ \in {0, 1, 2}
  /\ servicesRequired \in {0, 1, 2}
  /\ enabled \in SUBSET Devices
  /\ startEnabled \in SUBSET Devices
  /\ started \in SUBSET Devices
  /\ mqttReceivers \in [Devices -> {0, 1}]
  /\ subscribedTopics \in SUBSET Topics
  /\ webStarted \in BOOLEAN
  /\ saves \in 0..MaxSaves

BrokerTypes ==
  /\ subscriptions \in [Ids -> SUBSET Topics]
  /\ queue \in [Ids -> Seq(Topics)]
  /\ handled \in Nat
  /\ stale \in Nat
  /\ published \in [Topics -> Nat]
  /\ executed \in [Topics -> Nat]
  /\ oldTimestamp \in BOOLEAN
  /\ lateAnswer \in BOOLEAN
  /\ rescue \in BOOLEAN

\* The variables hold values of their types; no receiver is registered twice.
MqttTypeOK == ChipTypes /\ ClientTypes /\ TimeTypes /\ ServiceTypes /\ BrokerTypes

\* Mutant: the web server is started as the settings say.
BootWebIgnored == ~disableNetwork /\ "web" \in settings

\* The web server is started when it is enabled, or forced.
WebWanted == ~disableNetwork /\ (forceEnableWebServer \/ "web" \in settings)

\* Switched on for the first time, with some settings and some devices enabled.
Init ==
  /\ esp = "running" /\ pc = "top" /\ caller = "update"
  /\ settings \in Configurations
  /\ client = "disconnected" /\ clientId = "hostname" /\ link = "none"
  /\ onMessage = FALSE /\ connectReplyReceived = FALSE
  /\ connectionState = 0 /\ connectCounter = 0
  /\ firstConnect = TRUE /\ firstDisconnected = TRUE /\ logIp = TRUE
  /\ reconnectDue = TRUE /\ waited = FALSE /\ uptime60 = FALSE
  /\ connectedTs = "never" /\ lastConnected = "recent" /\ late = FALSE
  /\ restartServ = 0 /\ servicesRequired = 0
  /\ enabled \in SUBSET Devices
  /\ startEnabled = enabled /\ started = enabled
  /\ mqttReceivers = OneEach(enabled)
  /\ subscribedTopics = enabled
  /\ forceEnableWebServer = FALSE /\ disableNetwork = FALSE
  /\ webStarted = WebWanted
  /\ net = FALSE /\ broker \in BrokerStates
  /\ subscriptions = [i \in Ids |-> {}]
  /\ queue = [i \in Ids |-> <<>>]
  /\ handled = 0 /\ stale = 0
  /\ published = Zero(Topics) /\ executed = Zero(Topics)
  /\ oldTimestamp = FALSE /\ lateAnswer = FALSE /\ rescue = FALSE
  /\ saves = 0

\* The chip starts again: setup().  The two flags in RTC memory, the settings and
\* the world outside stay as they are.
Boot ==
  /\ esp # "running"
  /\ UNCHANGED <<settings, enabled, saves>>
  /\ UNCHANGED keptVars
  /\ esp' = "running" /\ pc' = "top" /\ caller' = "update"
  /\ client' = "disconnected" /\ clientId' = "hostname" /\ link' = "none"
  /\ onMessage' = FALSE /\ connectReplyReceived' = FALSE
  /\ connectionState' = 0 /\ connectCounter' = 0
  /\ firstConnect' = TRUE /\ firstDisconnected' = TRUE /\ logIp' = TRUE
  /\ reconnectDue' = TRUE /\ waited' = FALSE /\ uptime60' = FALSE
  /\ connectedTs' = "never" /\ lastConnected' = "recent" /\ late' = FALSE
  /\ restartServ' = 0 /\ servicesRequired' = 0
  /\ startEnabled' = enabled /\ started' = enabled
  /\ mqttReceivers' = OneEach(enabled)
  /\ subscribedTopics' = IF disableNetwork THEN {} ELSE enabled
  /\ webStarted' = WebWanted
  /\ handled' = 0 /\ lateAnswer' = FALSE
  /\ UNCHANGED <<worldVars, subscriptions, queue, stale, published, executed, oldTimestamp>>

Running == esp = "running"

\* setupTasks() creates networkTask unless the network is disabled.
At(from) == Running /\ ~disableNetwork /\ pc = from
RestartEsp == esp' = "restarting"

----------------------------------------------------------------------------
(* MqttClient::loop(), called from NukiNetwork::update() and, while it waits *)
(* for the reply, from reconnect()                                           *)

Pending == queue[clientId]

\* Mutant: a command is accepted at any time.
AcceptsAlways == onMessage /\ connectedTs # "never"

\* onMqttDataReceived is installed and mqttRecentlyConnected() is false.  The
\* first two seconds, in which every message is ignored, are over before
\* networkTask calls loop() again.
Accepts == onMessage /\ connectedTs = "old"

\* How many handlers act on a command: NukiNetwork itself on maintenance/reset,
\* every registered receiver of the device on an action.
Handlers(t) == IF t = "maintenance" THEN 1 ELSE mqttReceivers[t]

\* The k-th message is handed to the callback.  Its PUBACK is in the outbox and
\* is sent by a later loop(): a restart comes before it.  (The history is bounded:
\* one execution more than there are commands is enough.)
OnMqttDataReceived(k, connectedTsIsOld) ==
  /\ handled' = k
  /\ IF Accepts
       THEN LET t == Pending[k]
            IN  /\ executed' = [executed EXCEPT ![t] = IF @ > MaxCommands THEN @
                                                                          ELSE @ + Handlers(t)]
                /\ oldTimestamp' = (oldTimestamp \/ connectedTsIsOld)
                /\ IF t = "maintenance" THEN RestartEsp ELSE UNCHANGED esp
       ELSE UNCHANGED <<executed, oldTimestamp, esp>>

\* connectingTcp: the connection is there, or is not.
ClientTcp ==
  /\ client = "tcp"
  /\ IF net /\ broker # "down"
       THEN client' = "mqtt" /\ link' = "up"
       ELSE client' = "closing" /\ link' = "none"
  /\ UNCHANGED <<connectReplyReceived, brokerVars, executed, oldTimestamp, lateAnswer, esp>>

\* CONNACK: onMqttConnect.  The broker continues the session of "hostname"; the
\* generated id asks for a clean one.  When the broker resends at once, the first
\* message is handled in the same read, before reconnect() sees the reply.
ClientConnack ==
  /\ client = "mqtt" /\ link = "up" /\ broker = "up"
  /\ client' = "connected"
  /\ connectReplyReceived' = TRUE
  /\ lateAnswer' = (pc = "top")
  /\ IF clientId = "generated"
       THEN /\ subscriptions' = [subscriptions EXCEPT ![clientId] = {}]
            /\ queue' = [queue EXCEPT ![clientId] = <<>>]
            /\ stale' = 0
            /\ handled' = 0
            /\ UNCHANGED <<executed, oldTimestamp, esp>>
       ELSE /\ stale' = Len(Pending)
            /\ UNCHANGED <<subscriptions, queue>>
            /\ \/ handled' = 0 /\ UNCHANGED <<executed, oldTimestamp, esp>>
               \/ Pending # <<>> /\ OnMqttDataReceived(1, TRUE)
  /\ UNCHANGED link

\* PUBLISH
ClientPublish ==
  /\ client = "connected" /\ link = "up"
  /\ handled < Len(Pending)
  /\ OnMqttDataReceived(handled + 1, lateAnswer)
  /\ UNCHANGED <<client, link, connectReplyReceived, subscriptions, queue, stale, lateAnswer>>

\* The PUBACK leaves the outbox.
ClientPuback ==
  /\ client = "connected" /\ link = "up"
  /\ Pending # <<>> /\ handled > 0
  /\ queue' = [queue EXCEPT ![clientId] = Tail(@)]
  /\ stale' = IF stale > 0 THEN stale - 1 ELSE 0
  /\ handled' = handled - 1
  /\ UNCHANGED <<client, link, connectReplyReceived, subscriptions, executed, oldTimestamp,
                 lateAnswer, esp>>

\* The transport or the keep-alive has noticed that the connection is lost.
ClientGone ==
  /\ client \in {"mqtt", "connected"} /\ link = "gone"
  /\ client' = "closing"
  /\ UNCHANGED <<link, connectReplyReceived, brokerVars, executed, oldTimestamp, lateAnswer, esp>>

\* disconnectingTcp: onMqttDisconnect.
ClientClosed ==
  /\ client = "closing"
  /\ client' = "disconnected" /\ link' = "none"
  /\ connectReplyReceived' = FALSE
  /\ UNCHANGED <<brokerVars, executed, oldTimestamp, lateAnswer, esp>>

ClientIdle ==
  /\ \/ client = "disconnected"
     \/ client = "mqtt" /\ (link = "dead" \/ (link = "up" /\ broker # "up"))
     \/ client = "connected" /\ (link = "dead" \/ (link = "up" /\ Pending = <<>>))
  /\ UNCHANGED <<client, link, connectReplyReceived, brokerVars, executed, oldTimestamp,
                 lateAnswer, esp>>

ClientLoop == \/ ClientTcp
              \/ ClientConnack
              \/ ClientPublish
              \/ ClientPuback
              \/ ClientGone
              \/ ClientClosed

ClientFrame == UNCHANGED <<settings, clientId, onMessage, restartServ, serviceVars, webVars,
                           keptVars, worldVars, published>>

----------------------------------------------------------------------------
(* NukiNetwork::update() *)

\* int64_t ts = espMillis(); _device->update(); nothing more without a network.
Update ==
  /\ At("top")
  /\ ClientLoop \/ ClientIdle
  /\ pc' = "lost"
  /\ late' = (uptime60 /\ lastConnected = "expired")
  /\ UNCHANGED <<caller, stateVars, reconnectDue, waited, uptime60, connectedTs, lastConnected>>
  /\ ClientFrame

TaskFrame == UNCHANGED <<settings, clientId, webVars, worldVars, brokerVars, historyVars>>

Lost == ~net \/ (connectCounter > ConnectLimit /\ ~firstConnect)

CounterAfterLoss == IF Lost THEN 0 ELSE connectCounter

\* No network, or too many failed connections: drop the connection once, and
\* restart the chip if the settings say so.
CheckLost ==
  /\ At("lost")
  /\ pc' = "ip"
  /\ connectCounter' = CounterAfterLoss
  /\ firstDisconnected' = (firstDisconnected /\ ~Lost)
  /\ client' = IF Lost /\ firstDisconnected /\ client # "disconnected"
                 THEN "closing" ELSE client
  /\ IF Lost /\ uptime60 /\ settings \cap {"restartOnDisconnect", "disableNetwork"} # {}
       THEN /\ RestartEsp
            /\ disableNetwork' = ("restartOnDisconnect" \notin settings)
            /\ rescue' = (rescue /\ ~disableNetwork')
       ELSE UNCHANGED <<esp, disableNetwork, rescue>>
  /\ UNCHANGED <<caller, link, onMessage, connectReplyReceived, connectionState, firstConnect,
                 logIp, timeVars, restartServ, serviceVars, forceEnableWebServer>>
  /\ TaskFrame

CheckIp ==
  /\ At("ip")
  /\ pc' = "mqtt"
  /\ logIp' = (logIp /\ ~net)
  /\ firstDisconnected' = (firstDisconnected \/ (logIp /\ net))
  /\ UNCHANGED <<esp, caller, client, link, onMessage, connectReplyReceived, connectionState,
                 connectCounter, firstConnect, timeVars, restartServ, serviceVars, keptVars>>
  /\ TaskFrame

NeedsMqtt == ~logIp /\ net /\ client # "connected"

SkipReconnect ==
  /\ At("mqtt") /\ ~NeedsMqtt
  /\ pc' = "check"
  /\ UNCHANGED <<esp, caller, client, link, onMessage, connectReplyReceived, stateVars,
                 timeVars, restartServ, serviceVars, keptVars>>
  /\ TaskFrame

\* reconnect() returned false; the counter is only compared with the limit.
CountFailure == connectCounter' = IF connectCounter > ConnectLimit + 1 THEN connectCounter
                                                                      ELSE connectCounter + 1

\* It is too early for the next attempt, or no broker is configured.
ReconnectRefused ==
  /\ At("mqtt") /\ NeedsMqtt
  /\ ~reconnectDue \/ "broker" \notin settings
  /\ pc' = "rest"
  /\ connectionState' = 0
  /\ CountFailure
  /\ lastConnected' = IF reconnectDue THEN "recent" ELSE lastConnected
  /\ reconnectDue' = FALSE
  /\ late' = FALSE
  /\ UNCHANGED <<esp, caller, client, link, onMessage, connectReplyReceived, firstConnect,
                 firstDisconnected, logIp, waited, uptime60, connectedTs, restartServ,
                 serviceVars, keptVars>>
  /\ TaskFrame

\* mqttConnect() has an effect only on a client that is disconnected.
ReconnectStart ==
  /\ At("mqtt") /\ NeedsMqtt
  /\ reconnectDue /\ "broker" \in settings
  /\ pc' = "wait"
  /\ connectionState' = 0
  /\ connectReplyReceived' = FALSE
  /\ client' = IF client = "disconnected" THEN "tcp" ELSE client
  /\ UNCHANGED <<esp, caller, link, onMessage, connectCounter, firstConnect, firstDisconnected, logIp,
                 reconnectDue, waited, uptime60, connectedTs, lastConnected, late, restartServ,
                 serviceVars, keptVars>>
  /\ TaskFrame

\* while(!_connectReplyReceived && espMillis() < timeout)
WaitForReply ==
  /\ At("wait")
  /\ ~connectReplyReceived /\ ~waited
  /\ ClientLoop
  /\ UNCHANGED <<pc, caller, stateVars, timeVars>>
  /\ ClientFrame

WaitEnds == At("wait") /\ (connectReplyReceived \/ waited)

\* The 60 s have passed without a connection.
ReconnectFailed ==
  /\ WaitEnds /\ client # "connected"
  /\ connectionState' = 0
  /\ reconnectDue' = FALSE
  /\ waited' = FALSE /\ late' = FALSE /\ caller' = "update"
  /\ IF caller = "update"
       THEN pc' = "rest" /\ CountFailure
       ELSE pc' = "services" /\ UNCHANGED connectCounter
  /\ UNCHANGED <<esp, client, link, onMessage, connectReplyReceived, firstConnect,
                 firstDisconnected, logIp, uptime60, connectedTs, lastConnected,
                 restartServ, serviceVars, keptVars>>
  /\ TaskFrame

\* Mutant: the list is subscribed only by the first connection.
TopicsToSubscribeOnce == IF firstConnect THEN subscribedTopics \cup {"maintenance"} ELSE {}

\* The first connection adds the hub's own topics, every one subscribes the list.
TopicsToSubscribe == subscribedTopics \cup (IF firstConnect THEN {"maintenance"} ELSE {})

\* A web server that was only forced is given up: the services are restarted.
ReleaseWebServer ==
  /\ forceEnableWebServer' = (forceEnableWebServer /\ "web" \in settings)
  /\ restartServ' = IF forceEnableWebServer /\ "web" \notin settings THEN 1 ELSE restartServ

\* Mutant: failures are counted since the chip started.
CounterAfterSuccessKept == connectCounter

CounterAfterSuccess == 0

\* The connection is set up: callback, topics, subscriptions.
ReconnectSucceeded ==
  /\ WaitEnds /\ client = "connected"
  /\ connectedTs' = "recent"
  /\ waited' = FALSE /\ caller' = "update"
  /\ onMessage' = TRUE
  /\ firstConnect' = FALSE
  /\ subscribedTopics' = subscribedTopics \cup TopicsToSubscribe
  /\ subscriptions' = IF link = "up"
                        THEN [subscriptions EXCEPT ![clientId] = @ \cup TopicsToSubscribe]
                        ELSE subscriptions
  /\ connectionState' = 2
  /\ rescue' = FALSE
  /\ IF caller = "update"
       THEN pc' = "check" /\ connectCounter' = CounterAfterSuccess /\ ReleaseWebServer
       ELSE pc' = "services" /\ UNCHANGED <<connectCounter, forceEnableWebServer, restartServ>>
  /\ UNCHANGED <<esp, settings, client, clientId, link, connectReplyReceived,
                 firstDisconnected, logIp, reconnectDue, uptime60, lastConnected, late,
                 startEnabled, started, mqttReceivers, webStarted, webVars, disableNetwork, worldVars, queue,
                 handled, stale, historyVars>>

\* Nobody can reach the hub: after the restart the web server must run.
ForceWebServer == "web" \notin settings

\* Mutant: only the broker is looked at, and only with a network.
OfflineBrokerOnly == net /\ client # "connected"

Offline == ~net \/ client # "connected"

\* The network timeout watchdog.
NetworkTimeout ==
  /\ At("check") /\ Offline
  /\ late /\ "networkTimeout" \in settings
  /\ RestartEsp
  /\ forceEnableWebServer' = (forceEnableWebServer \/ ForceWebServer)
  /\ rescue' = (rescue \/ "web" \notin settings)
  /\ UNCHANGED <<pc, caller, client, link, onMessage, connectReplyReceived, stateVars, timeVars,
                 restartServ, serviceVars, disableNetwork>>
  /\ TaskFrame

StillOffline ==
  /\ At("check") /\ Offline
  /\ ~(late /\ "networkTimeout" \in settings)
  /\ pc' = "rest"
  /\ late' = FALSE
  /\ UNCHANGED <<esp, caller, client, link, onMessage, connectReplyReceived, stateVars,
                 reconnectDue, waited, uptime60, connectedTs, lastConnected, restartServ, serviceVars, keptVars>>
  /\ TaskFrame

\* _lastConnectedTs = ts
Online ==
  /\ At("check") /\ ~Offline
  /\ pc' = "rest"
  /\ lastConnected' = "recent"
  /\ late' = FALSE
  /\ UNCHANGED <<esp, caller, client, link, onMessage, connectReplyReceived, stateVars,
                 reconnectDue, waited, uptime60, connectedTs, restartServ, serviceVars,
                 keptVars>>
  /\ TaskFrame

----------------------------------------------------------------------------
(* networkTask after update(): the restart of the services *)

NoRestart ==
  /\ At("rest") /\ restartServ = 0
  /\ pc' = "top"
  /\ UNCHANGED <<esp, caller, client, link, onMessage, connectReplyReceived, stateVars, timeVars,
                 restartServ, serviceVars, keptVars>>
  /\ TaskFrame

\* The new web server has forgotten what the old one noted.
RecreateFrame == /\ servicesRequired' = 0
                 /\ UNCHANGED <<settings, clientId, enabled, saves, worldVars, brokerVars,
                                historyVars>>

\* restartServices(false) creates the wrappers of the enabled devices on top of
\* the network objects there are; one that is missing is dereferenced.
RestartServices ==
  /\ At("rest") /\ restartServ = 1
  /\ restartServ' = 0
  /\ pc' = "top"
  /\ startEnabled' = enabled
  /\ IF enabled \subseteq started
       THEN webStarted' = (webStarted \/ WebWanted) /\ UNCHANGED esp
       ELSE esp' = "panic" /\ UNCHANGED webStarted
  /\ UNCHANGED <<caller, client, link, onMessage, connectReplyReceived, stateVars, timeVars,
                 started, mqttReceivers, subscribedTopics, keptVars>>
  /\ RecreateFrame

\* Mutant: the receivers stay registered.
ReceiversAfterClearKept == mqttReceivers

ReceiversAfterClear == Zero(Devices)

\* restartServices(true) begins by reading which devices are enabled, then calls
\* reconnect(true): a new client, which gets neither the host name nor the
\* persistent session.
ForceReconnect ==
  /\ At("rest") /\ restartServ = 2
  /\ restartServ' = 0
  /\ startEnabled' = enabled
  /\ connectionState' = 0
  /\ mqttReceivers' = ReceiversAfterClear
  /\ clientId' = "generated" /\ link' = "none" /\ onMessage' = FALSE
  /\ handled' = 0
  /\ IF "broker" \in settings
       THEN /\ pc' = "wait" /\ caller' = "services" /\ client' = "tcp"
            /\ connectReplyReceived' = FALSE
            /\ UNCHANGED <<reconnectDue, lastConnected>>
       ELSE /\ pc' = "services" /\ client' = "disconnected" /\ UNCHANGED caller
            /\ reconnectDue' = FALSE
            /\ lastConnected' = IF net THEN "recent" ELSE lastConnected
            /\ UNCHANGED connectReplyReceived
  /\ UNCHANGED <<esp, settings, connectCounter, firstConnect, firstDisconnected, logIp,
                 waited, uptime60, connectedTs, late, started, subscribedTopics, webStarted,
                 webVars, keptVars, worldVars, subscriptions, queue, stale, historyVars>>

\* The objects are deleted and those of the devices that were enabled created:
\* each one registers itself and adds its topics to the list.
RecreateServices ==
  /\ At("services")
  /\ pc' = "top"
  /\ started' = startEnabled
  /\ mqttReceivers' = [d \in Devices |-> mqttReceivers[d] + OneEach(startEnabled)[d]]
  /\ subscribedTopics' = subscribedTopics \cup startEnabled
  /\ webStarted' = (webStarted \/ WebWanted)
  /\ UNCHANGED <<esp, caller, client, link, onMessage, connectReplyReceived, stateVars, timeVars,
                 restartServ, startEnabled, keptVars>>
  /\ RecreateFrame

NetworkTask ==
  \/ Update \/ CheckLost \/ CheckIp
  \/ SkipReconnect \/ ReconnectRefused \/ ReconnectStart
  \/ WaitForReply \/ ReconnectFailed \/ ReconnectSucceeded
  \/ NetworkTimeout \/ StillOffline \/ Online
  \/ NoRestart \/ RestartServices \/ ForceReconnect \/ RecreateServices

----------------------------------------------------------------------------
(* The web server's thread: saved settings wait for a confirmed restart *)

WebEvent == /\ Running /\ webStarted /\ net
            /\ saves < MaxSaves
            /\ saves' = saves + 1
            /\ UNCHANGED <<esp, pc, caller, settings, clientVars, stateVars, timeVars,
                           serviceVars, keptVars, worldVars, brokerVars, historyVars>>

\* LOCKENA, OPENA
SaveEnabled(d) ==
  /\ WebEvent
  /\ enabled' = IF d \in enabled THEN enabled \ {d} ELSE enabled \cup {d}
  /\ servicesRequired' = 2
  /\ UNCHANGED restartServ

\* A setting that needs no new connection replaces the note left by one that does.
SaveOther ==
  /\ WebEvent
  /\ servicesRequired' = 1
  /\ UNCHANGED <<enabled, restartServ>>

ConfirmRestart ==
  /\ WebEvent
  /\ restartServ' = IF servicesRequired = 1 THEN 1 ELSE 2
  /\ servicesRequired' = 0
  /\ UNCHANGED enabled

----------------------------------------------------------------------------
(* Time and the world *)

\* While the chip restarts nothing outside needs to happen: what would is seen as
\* happening before or after.
OutsideFrame ==
  /\ Running
  /\ UNCHANGED <<esp, pc, caller, settings, client, clientId, onMessage, connectReplyReceived,
                 stateVars, late, restartServ, serviceVars, webVars, keptVars, executed,
                 oldTimestamp, lateAnswer, subscriptions, handled, stale>>

Tick == /\ UNCHANGED <<link, worldVars, queue, published>>
        /\ OutsideFrame

\* 60 s since the chip started, which only the watchdogs ask for
UptimePasses ==
  /\ settings \cap {"restartOnDisconnect", "disableNetwork", "networkTimeout"} # {}
  /\ ~uptime60 /\ uptime60' = TRUE
  /\ UNCHANGED <<reconnectDue, waited, connectedTs, lastConnected>>
  /\ Tick

ReconnectTimePasses ==
  /\ ~reconnectDue /\ reconnectDue' = TRUE
  /\ UNCHANGED <<waited, uptime60, connectedTs, lastConnected>>
  /\ Tick

\* 60 s without a reply; a broker that is "up" answers within that time.
ReplyTimePasses ==
  /\ pc = "wait" /\ ~waited /\ ~connectReplyReceived
  /\ ~(client = "mqtt" /\ link = "up" /\ broker = "up")
  /\ waited' = TRUE
  /\ UNCHANGED <<reconnectDue, uptime60, connectedTs, lastConnected>>
  /\ Tick

\* 6 s since the connection.  The broker resends its backlog within that time.
ConnectionAges ==
  /\ connectedTs = "recent" /\ pc # "check"
  /\ client = "connected" /\ link = "up" => stale = 0
  /\ connectedTs' = "old"
  /\ UNCHANGED <<reconnectDue, waited, uptime60, lastConnected>>
  /\ Tick

\* _networkTimeout seconds since the last pass that was online
TimeoutPasses ==
  /\ "networkTimeout" \in settings
  /\ lastConnected = "recent" /\ lastConnected' = "expired"
  /\ UNCHANGED <<reconnectDue, waited, uptime60, connectedTs>>
  /\ Tick

\* The transport sees the reset, or the keep-alive expires.
LinkLossNoticed ==
  /\ link = "dead" \/ (link = "up" /\ client = "mqtt" /\ broker = "slow")
  /\ link' = "gone"
  /\ UNCHANGED <<reconnectDue, waited, uptime60, connectedTs, lastConnected, worldVars, queue,
                 published>>
  /\ OutsideFrame

Breaks == link' = IF link = "up" THEN "dead" ELSE link

NetChanges ==
  /\ net' = ~net
  /\ IF net THEN Breaks ELSE UNCHANGED link
  /\ UNCHANGED <<broker, reconnectDue, waited, uptime60, connectedTs, lastConnected, queue,
                 published>>
  /\ OutsideFrame

BrokerChanges ==
  /\ broker' \in BrokerStates \ {broker}
  /\ IF broker' = "down" THEN Breaks ELSE UNCHANGED link
  /\ UNCHANGED <<net, reconnectDue, waited, uptime60, connectedTs, lastConnected, queue,
                 published>>
  /\ OutsideFrame

\* The broker keeps a command for the session of "hostname", whoever is connected.
Receives(i, t) == /\ t \in subscriptions[i]
                  /\ \/ i = "hostname"
                     \/ i = clientId /\ client = "connected" /\ link = "up"

\* A user publishes a command.
Publish(t) ==
  /\ broker # "down"
  /\ published[t] < MaxCommands
  /\ published' = [published EXCEPT ![t] = @ + 1]
  /\ queue' = [i \in Ids |-> IF Receives(i, t) THEN Append(queue[i], t) ELSE queue[i]]
  /\ UNCHANGED <<link, worldVars, reconnectDue, waited, uptime60, connectedTs, lastConnected>>
  /\ OutsideFrame

\* The user takes a hub that has given up its network from the mains: the flags
\* are lost.
PowerCycle ==
  /\ Running /\ disableNetwork
  /\ esp' = "restarting"
  /\ forceEnableWebServer' = FALSE /\ disableNetwork' = FALSE /\ rescue' = FALSE
  /\ UNCHANGED <<pc, caller, settings, clientVars, stateVars, timeVars, restartServ,
                 serviceVars, webVars, worldVars, brokerVars, historyVars>>

World == \/ UptimePasses \/ ReconnectTimePasses \/ ReplyTimePasses
         \/ ConnectionAges \/ TimeoutPasses \/ LinkLossNoticed
         \/ NetChanges \/ BrokerChanges \/ PowerCycle
         \/ \E t \in Topics : Publish(t)

WebServer == \/ \E d \in Devices : SaveEnabled(d)
             \/ SaveOther
             \/ ConfirmRestart

Next == Boot \/ NetworkTask \/ WebServer \/ World

Spec == Init /\ [][Next]_mqttVars

\* networkTask runs, a chip that was restarted boots, clocks advance and a lost
\* connection is noticed.  Nothing is assumed of the network, the broker, the
\* users.
FairSpec == /\ Spec
            /\ WF_mqttVars(NetworkTask)
            /\ WF_mqttVars(Boot)
            /\ WF_mqttVars(UptimePasses)
            /\ WF_mqttVars(ReconnectTimePasses)
            /\ WF_mqttVars(ReplyTimePasses)
            /\ WF_mqttVars(ConnectionAges)
            /\ WF_mqttVars(TimeoutPasses)
            /\ WF_mqttVars(LinkLossNoticed)

----------------------------------------------------------------------------
(* Properties *)

\* In every pass of networkTask each device that runs is registered once for the
\* messages of the broker, and no other: reconnect(true) forgets the receivers
\* before their objects are deleted.  A receiver registered twice would execute
\* every command twice, one that is left over would be called after its deletion.
ReceiversMatch == Running /\ pc # "services" /\ ~(pc = "wait" /\ caller = "services") =>
                    mqttReceivers = OneEach(started)

\* A command is executed once at most, however often the connection is lost
\* between its execution and its acknowledgement: what the broker sends again
\* falls into the six seconds in which commands are ignored.  The exception are
\* commands judged by the time of an earlier connection.
CommandsAtMostOnce == oldTimestamp \/ \A t \in Topics : executed[t] <= published[t]

\* A hub that was restarted because it could not be reached runs the web server
\* until it is connected again.
RescueWebServer == Running /\ rescue => webStarted

\* The hub can do its work.
Connected == /\ Running
             /\ client = "connected" /\ link = "up"
             /\ connectionState = 2
             /\ onMessage
             /\ "maintenance" \in subscriptions[clientId]

\* With a network and a broker that stay available the hub gets connected and
\* remains so, whatever happened before; unless it gave up the network, or was
\* connected by an answer that came too late.
HubComesOnline ==
  <>[](net /\ broker = "up" /\ "broker" \in settings) =>
    <>[]Connected \/ <>[]disableNetwork \/ <>[]lateAnswer

\* The hub does not give up a connection that works: it neither closes it nor
\* restarts, except on command.  Connections made by reconnect(true), or by an
\* answer that came too late, are excepted: they leave the counter of failures as
\* it was, and the next pass may take them for lost ones; and so is a restart of
\* the services that finds a device enabled which has no network object.
LiveConnectionKept ==
  [][(/\ Running /\ net /\ client = "connected" /\ link = "up" /\ ~lateAnswer
      /\ clientId' = "hostname" /\ enabled \subseteq started) =>
       client' = "connected" /\ (Running' \/ handled' > handled)]_mqttVars

\* Both watchdogs restart a hub that has lost its network.
NetworkLossRestarts ==
  (Running /\ ~net /\ settings \cap {"networkTimeout", "restartOnDisconnect"} # {}) ~>
    (net \/ ~Running \/ disableNetwork)

\* "Restart on disconnect" restarts a hub that was connected and has lost the
\* broker, while the network is there.
LostBrokerRestarts ==
  (/\ Running /\ net /\ broker = "down" /\ ~firstConnect
   /\ {"broker", "restartOnDisconnect"} \subseteq settings) ~>
    (~net \/ broker # "down" \/ ~Running)

\* Both, which is what the two watchdogs are for.
LossRestarts == NetworkLossRestarts /\ LostBrokerRestarts

=============================================================================
