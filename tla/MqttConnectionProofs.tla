------------------------ MODULE MqttConnectionProofs ------------------------
(***************************************************************************)
(* Proofs about the connection to the broker, for every set of devices,    *)
(* every configuration and every limit: the types, the registration of the *)
(* receivers over any number of restarts of the services, the web server   *)
(* that is forced after the network timeout, the working connection that   *)
(* no restart interrupts, and the commands carried out at most once.       *)
(***************************************************************************)
EXTENDS MqttConnection, FiniteSetTheorems, TLAPS

----------------------------------------------------------------------------
(* The strengthening *)

\* From reconnect(true) until the devices are created anew nobody is registered.
ReceiversCleared ==
  /\ caller = "services" => pc = "wait"
  /\ (pc = "services" \/ caller = "services") => mqttReceivers = Zero(Devices)

\* The flag that forces the web server outlives the restart it was set for.
RescueForced == rescue => forceEnableWebServer /\ ~disableNetwork

MqttInv == MqttTypeOK /\ ReceiversMatch /\ ReceiversCleared

\* Messages can arrive.
Live == client = "connected" /\ link = "up"

\* The places in the queue of commands that were published since the connection
\* and that the hub has not been given yet.
Fresh(t) == {k \in 1..Len(Pending) : k > handled /\ k > stale /\ Pending[k] = t}

\* reconnect() returns with a connection as soon as it has the reply.
ReplyNoticed == pc = "wait" /\ client = "connected" => connectReplyReceived

\* Six seconds after a connection the broker has sent again all it had to.
StaleDelivered ==
  Live /\ connectedTs = "old" /\ pc # "wait" => lateAnswer \/ stale = 0

\* A command that can still be executed has not been executed before.
CommandsLeft ==
  oldTimestamp \/ \A t \in Topics :
    /\ executed[t] <= published[t]
    /\ Live => executed[t] + Cardinality(Fresh(t)) <= published[t]

CommandInv == ReplyNoticed /\ StaleDelivered /\ CommandsLeft

\* reconnect(true) is the only one to leave the counter of failures as it was, and
\* the only one to take another id; and a hub without network is not connected.
LiveInv ==
  /\ caller = "services" => clientId = "generated"
  /\ (/\ client = "connected" /\ clientId = "hostname"
      /\ ~lateAnswer /\ pc # "wait") => connectCounter = 0
  /\ Running /\ disableNetwork => client = "disconnected"

----------------------------------------------------------------------------
(* Types *)

\* A call of the client's loop() keeps what it works on well typed: a message is
\* only taken from a queue that has one.
LEMMA ClientLoopTypes ==
  ASSUME MqttTypeOK, ClientLoop \/ ClientIdle
  PROVE  /\ esp' \in {"running", "restarting", "panic"}
         /\ client' \in {"disconnected", "tcp", "mqtt", "connected", "closing"}
         /\ link' \in {"none", "up", "dead", "gone"}
         /\ connectReplyReceived' \in BOOLEAN
         /\ subscriptions' \in [Ids -> SUBSET Topics]
         /\ queue' \in [Ids -> Seq(Topics)]
         /\ handled' \in Nat
         /\ stale' \in Nat
         /\ executed' \in [Topics -> Nat]
         /\ oldTimestamp' \in BOOLEAN
         /\ lateAnswer' \in BOOLEAN
<1> USE DEF MqttTypeOK, ChipTypes, ClientTypes, BrokerTypes, brokerVars
<1>0. Pending \in Seq(Topics)
  BY DEF Pending, Ids
<1>1. ASSUME NEW k \in 1..Len(Pending), NEW b \in BOOLEAN, OnMqttDataReceived(k, b)
      PROVE  /\ handled' \in Nat
             /\ executed' \in [Topics -> Nat]
             /\ oldTimestamp' \in BOOLEAN
             /\ esp' \in {"running", "restarting", "panic"}
  <2>1. Pending[k] \in Topics
    BY <1>0
  <2>2. Handlers(Pending[k]) \in Nat
    <3>1. CASE Pending[k] = "maintenance"
      BY <3>1 DEF Handlers
    <3>2. CASE Pending[k] # "maintenance"
      <4>1. mqttReceivers[Pending[k]] \in {0, 1}
        BY <2>1, <3>2 DEF Topics, ServiceTypes
      <4> QED BY <3>2, <4>1 DEF Handlers
    <3> QED BY <3>1, <3>2
  <2>3. handled' \in Nat
    BY <1>0, <1>1 DEF OnMqttDataReceived
  <2>4. executed' \in [Topics -> Nat]
    BY <1>1, <2>1, <2>2 DEF OnMqttDataReceived
  <2>5. oldTimestamp' \in BOOLEAN
    BY <1>1 DEF OnMqttDataReceived
  <2>6. esp' \in {"running", "restarting", "panic"}
    BY <1>1 DEF OnMqttDataReceived, RestartEsp
  <2> QED BY <2>3, <2>4, <2>5, <2>6
<1>2. CASE ClientTcp
  BY <1>2 DEF ClientTcp
<1>3. CASE ClientConnack
  <2>1. CASE clientId = "generated"
    <3>0. {} \in SUBSET Topics /\ <<>> \in Seq(Topics)
      OBVIOUS
    <3>1. /\ subscriptions' \in [Ids -> SUBSET Topics]
          /\ queue' \in [Ids -> Seq(Topics)]
      BY <1>3, <2>1, <3>0 DEF ClientConnack
    <3> QED BY <1>3, <2>1, <3>1 DEF ClientConnack
  <2>2. CASE clientId # "generated"
    <3>1. stale' \in Nat /\ UNCHANGED <<subscriptions, queue, link>>
      BY <1>0, <1>3, <2>2 DEF ClientConnack
    <3>2. \/ handled' = 0 /\ UNCHANGED <<executed, oldTimestamp, esp>>
          \/ Pending # <<>> /\ OnMqttDataReceived(1, TRUE)
      BY <1>3, <2>2 DEF ClientConnack
    <3>3. CASE Pending # <<>> /\ OnMqttDataReceived(1, TRUE)
      <4>1. 1 \in 1..Len(Pending)
        BY <1>0, <3>3
      <4>2. /\ handled' \in Nat
            /\ executed' \in [Topics -> Nat]
            /\ oldTimestamp' \in BOOLEAN
            /\ esp' \in {"running", "restarting", "panic"}
        BY <1>1, <3>3, <4>1
      <4> QED BY <1>3, <3>1, <4>2 DEF ClientConnack
    <3>4. CASE handled' = 0 /\ UNCHANGED <<executed, oldTimestamp, esp>>
      BY <1>3, <3>1, <3>4 DEF ClientConnack
    <3> QED BY <3>2, <3>3, <3>4
  <2> QED BY <2>1, <2>2
<1>4. CASE ClientPublish
  <2>1. handled + 1 \in 1..Len(Pending) /\ lateAnswer \in BOOLEAN
    BY <1>0, <1>4 DEF ClientPublish
  <2>2. OnMqttDataReceived(handled + 1, lateAnswer)
    BY <1>4 DEF ClientPublish
  <2>3. /\ handled' \in Nat
        /\ executed' \in [Topics -> Nat]
        /\ oldTimestamp' \in BOOLEAN
        /\ esp' \in {"running", "restarting", "panic"}
    BY <1>1, <2>1, <2>2
  <2> QED BY <1>4, <2>3 DEF ClientPublish
<1>5. CASE ClientPuback
  <2>1. Tail(Pending) \in Seq(Topics)
    BY <1>0, <1>5 DEF ClientPuback
  <2>2. queue' \in [Ids -> Seq(Topics)]
    BY <1>5, <2>1 DEF ClientPuback, Pending
  <2>3. stale' \in Nat /\ handled' \in Nat
    BY <1>5 DEF ClientPuback
  <2> QED BY <1>5, <2>2, <2>3 DEF ClientPuback
<1>6. CASE ClientGone
  BY <1>6 DEF ClientGone
<1>7. CASE ClientClosed
  BY <1>7 DEF ClientClosed
<1>8. CASE ClientIdle
  BY <1>8 DEF ClientIdle
<1> QED BY <1>2, <1>3, <1>4, <1>5, <1>6, <1>7, <1>8 DEF ClientLoop

\* Every step keeps the types.
LEMMA TypeStep ==
  ASSUME MqttTypeOK, ReceiversCleared, Next
  PROVE  MqttTypeOK'
<1> USE MqttBoundsAssumption
    DEF MqttTypeOK, clientVars, stateVars, timeVars, serviceVars, webVars, keptVars,
        worldVars, brokerVars, historyVars, Steps, Topics, Ids, TaskFrame, Tick,
        OutsideFrame, At, Running, RestartEsp
<1>1. CASE Boot
  <2>1. ChipTypes'
    BY <1>1 DEF Boot, WebWanted, OneEach, ChipTypes
  <2>2. ClientTypes'
    <3>1. connectionState' \in {0, 2} /\ connectCounter' \in 0..ConnectLimit + 2
      BY <1>1 DEF Boot
    <3> QED BY <1>1, <3>1 DEF Boot, ClientTypes
  <2>3. TimeTypes'
    BY <1>1 DEF Boot, WebWanted, OneEach, TimeTypes
  <2>4. ServiceTypes'
    BY <1>1 DEF Boot, WebWanted, OneEach, ServiceTypes
  <2>5. BrokerTypes'
    BY <1>1 DEF Boot, WebWanted, OneEach, BrokerTypes
  <2> QED BY <2>1, <2>2, <2>3, <2>4, <2>5 DEF MqttTypeOK
<1>2. CASE Update
  <2>1. ChipTypes'
    BY <1>2, ClientLoopTypes DEF Update, ClientFrame, ChipTypes
  <2>2. ClientTypes'
    BY <1>2, ClientLoopTypes DEF Update, ClientFrame, ClientTypes
  <2>3. TimeTypes'
    BY <1>2, ClientLoopTypes DEF Update, ClientFrame, TimeTypes
  <2>4. ServiceTypes'
    BY <1>2, ClientLoopTypes DEF Update, ClientFrame, ServiceTypes
  <2>5. BrokerTypes'
    BY <1>2, ClientLoopTypes DEF Update, ClientFrame, BrokerTypes
  <2> QED BY <2>1, <2>2, <2>3, <2>4, <2>5 DEF MqttTypeOK
<1>3. CASE CheckLost
  BY <1>3 DEF CheckLost, CounterAfterLoss, Lost, ChipTypes, ClientTypes,
     TimeTypes, ServiceTypes, BrokerTypes
<1>4. CASE CheckIp
  BY <1>4 DEF CheckIp, ChipTypes, ClientTypes, TimeTypes, ServiceTypes,
     BrokerTypes
<1>5. CASE SkipReconnect
  BY <1>5 DEF SkipReconnect, ChipTypes, ClientTypes, TimeTypes, ServiceTypes,
     BrokerTypes
<1>6. CASE ReconnectRefused
  <2>1. ChipTypes'
    BY <1>6 DEF ReconnectRefused, CountFailure, ChipTypes
  <2>2. ClientTypes'
    BY <1>6 DEF ReconnectRefused, CountFailure, ClientTypes
  <2>3. TimeTypes'
    BY <1>6 DEF ReconnectRefused, CountFailure, TimeTypes
  <2>4. ServiceTypes'
    BY <1>6 DEF ReconnectRefused, CountFailure, ServiceTypes
  <2>5. BrokerTypes'
    BY <1>6 DEF ReconnectRefused, CountFailure, BrokerTypes
  <2> QED BY <2>1, <2>2, <2>3, <2>4, <2>5 DEF MqttTypeOK
<1>7. CASE ReconnectStart
  <2>1. ChipTypes'
    BY <1>7 DEF ReconnectStart, ChipTypes
  <2>2. ClientTypes'
    BY <1>7 DEF ReconnectStart, ClientTypes
  <2>3. TimeTypes'
    BY <1>7 DEF ReconnectStart, TimeTypes
  <2>4. ServiceTypes'
    BY <1>7 DEF ReconnectStart, ServiceTypes
  <2>5. BrokerTypes'
    BY <1>7 DEF ReconnectStart, BrokerTypes
  <2> QED BY <2>1, <2>2, <2>3, <2>4, <2>5 DEF MqttTypeOK
<1>8. CASE WaitForReply
  <2>1. ChipTypes'
    BY <1>8, ClientLoopTypes DEF WaitForReply, ClientFrame, ChipTypes
  <2>2. ClientTypes'
    BY <1>8, ClientLoopTypes DEF WaitForReply, ClientFrame, ClientTypes
  <2>3. TimeTypes'
    BY <1>8, ClientLoopTypes DEF WaitForReply, ClientFrame, TimeTypes
  <2>4. ServiceTypes'
    BY <1>8, ClientLoopTypes DEF WaitForReply, ClientFrame, ServiceTypes
  <2>5. BrokerTypes'
    BY <1>8, ClientLoopTypes DEF WaitForReply, ClientFrame, BrokerTypes
  <2> QED BY <2>1, <2>2, <2>3, <2>4, <2>5 DEF MqttTypeOK
<1>9. CASE ReconnectFailed
  <2>1. ChipTypes'
    BY <1>9 DEF ReconnectFailed, WaitEnds, CountFailure, ChipTypes
  <2>2. ClientTypes'
    BY <1>9 DEF ReconnectFailed, WaitEnds, CountFailure, ClientTypes
  <2>3. TimeTypes'
    BY <1>9 DEF ReconnectFailed, WaitEnds, CountFailure, TimeTypes
  <2>4. ServiceTypes'
    BY <1>9 DEF ReconnectFailed, WaitEnds, CountFailure, ServiceTypes
  <2>5. BrokerTypes'
    BY <1>9 DEF ReconnectFailed, WaitEnds, CountFailure, BrokerTypes
  <2> QED BY <2>1, <2>2, <2>3, <2>4, <2>5 DEF MqttTypeOK
<1>10. CASE ReconnectSucceeded
  <2>1. ChipTypes'
    BY <1>10 DEF ReconnectSucceeded, WaitEnds, ReleaseWebServer,
       TopicsToSubscribe, CounterAfterSuccess, ChipTypes
  <2>2. ClientTypes'
    <3>1. connectionState' \in {0, 2}
      BY <1>10 DEF ReconnectSucceeded
    <3>2. connectCounter' \in 0..ConnectLimit + 2
      BY <1>10 DEF ReconnectSucceeded, CounterAfterSuccess, ClientTypes
    <3> QED BY <1>10, <3>1, <3>2 DEF ReconnectSucceeded, ClientTypes
  <2>3. TimeTypes'
    BY <1>10 DEF ReconnectSucceeded, WaitEnds, ReleaseWebServer,
       TopicsToSubscribe, CounterAfterSuccess, TimeTypes
  <2>4. ServiceTypes'
    BY <1>10 DEF ReconnectSucceeded, WaitEnds, ReleaseWebServer,
       TopicsToSubscribe, CounterAfterSuccess, ServiceTypes
  <2>5. BrokerTypes'
    <3>1. TopicsToSubscribe \in SUBSET Topics
      BY DEF TopicsToSubscribe, ServiceTypes
    <3>2. subscriptions' \in [Ids -> SUBSET Topics]
      BY <1>10, <3>1 DEF ReconnectSucceeded, BrokerTypes, ClientTypes
    <3> QED BY <1>10, <3>2 DEF ReconnectSucceeded, BrokerTypes
  <2> QED BY <2>1, <2>2, <2>3, <2>4, <2>5 DEF MqttTypeOK
<1>11. CASE NetworkTimeout
  BY <1>11 DEF NetworkTimeout, ForceWebServer, ChipTypes, ClientTypes,
     TimeTypes, ServiceTypes, BrokerTypes
<1>12. CASE StillOffline
  <2>1. ChipTypes'
    BY <1>12 DEF StillOffline, ChipTypes
  <2>2. ClientTypes'
    BY <1>12 DEF StillOffline, ClientTypes
  <2>3. TimeTypes'
    BY <1>12 DEF StillOffline, TimeTypes
  <2>4. ServiceTypes'
    BY <1>12 DEF StillOffline, ServiceTypes
  <2>5. BrokerTypes'
    BY <1>12 DEF StillOffline, BrokerTypes
  <2> QED BY <2>1, <2>2, <2>3, <2>4, <2>5 DEF MqttTypeOK
<1>13. CASE Online
  <2>1. ChipTypes'
    BY <1>13 DEF Online, ChipTypes
  <2>2. ClientTypes'
    BY <1>13 DEF Online, ClientTypes
  <2>3. TimeTypes'
    BY <1>13 DEF Online, TimeTypes
  <2>4. ServiceTypes'
    BY <1>13 DEF Online, ServiceTypes
  <2>5. BrokerTypes'
    BY <1>13 DEF Online, BrokerTypes
  <2> QED BY <2>1, <2>2, <2>3, <2>4, <2>5 DEF MqttTypeOK
<1>14. CASE NoRestart
  BY <1>14 DEF NoRestart, ChipTypes, ClientTypes, TimeTypes, ServiceTypes,
     BrokerTypes
<1>15. CASE RestartServices
  <2>1. ChipTypes'
    BY <1>15 DEF RestartServices, RecreateFrame, ChipTypes
  <2>2. ClientTypes'
    BY <1>15 DEF RestartServices, RecreateFrame, ClientTypes
  <2>3. TimeTypes'
    BY <1>15 DEF RestartServices, RecreateFrame, TimeTypes
  <2>4. ServiceTypes'
    BY <1>15 DEF RestartServices, RecreateFrame, ServiceTypes
  <2>5. BrokerTypes'
    BY <1>15 DEF RestartServices, RecreateFrame, BrokerTypes
  <2> QED BY <2>1, <2>2, <2>3, <2>4, <2>5 DEF MqttTypeOK
<1>16. CASE ForceReconnect
  <2>1. ChipTypes'
    BY <1>16 DEF ForceReconnect, ReceiversAfterClear, Zero, ChipTypes
  <2>2. ClientTypes'
    BY <1>16 DEF ForceReconnect, ReceiversAfterClear, Zero, ClientTypes
  <2>3. TimeTypes'
    BY <1>16 DEF ForceReconnect, ReceiversAfterClear, Zero, TimeTypes
  <2>4. ServiceTypes'
    BY <1>16 DEF ForceReconnect, ReceiversAfterClear, Zero, ServiceTypes
  <2>5. BrokerTypes'
    BY <1>16 DEF ForceReconnect, ReceiversAfterClear, Zero, BrokerTypes
  <2> QED BY <2>1, <2>2, <2>3, <2>4, <2>5 DEF MqttTypeOK
<1>17. CASE RecreateServices
  <2>1. ChipTypes'
    BY <1>17 DEF RecreateServices, RecreateFrame, ChipTypes
  <2>2. ClientTypes'
    BY <1>17 DEF RecreateServices, RecreateFrame, ClientTypes
  <2>3. TimeTypes'
    BY <1>17 DEF RecreateServices, RecreateFrame, TimeTypes
  <2>4. ServiceTypes'
    BY <1>17 DEF RecreateServices, RecreateFrame, ServiceTypes,
       ReceiversCleared, Zero, OneEach
  <2>5. BrokerTypes'
    BY <1>17 DEF RecreateServices, RecreateFrame, BrokerTypes
  <2> QED BY <2>1, <2>2, <2>3, <2>4, <2>5 DEF MqttTypeOK
<1>18. CASE \E d \in Devices : SaveEnabled(d)
  BY <1>18 DEF SaveEnabled, WebEvent, ChipTypes, ClientTypes, TimeTypes,
     ServiceTypes, BrokerTypes
<1>19. CASE SaveOther
  BY <1>19 DEF SaveOther, WebEvent, ChipTypes, ClientTypes, TimeTypes,
     ServiceTypes, BrokerTypes
<1>20. CASE ConfirmRestart
  BY <1>20 DEF ConfirmRestart, WebEvent, ChipTypes, ClientTypes, TimeTypes,
     ServiceTypes, BrokerTypes
<1>21. CASE UptimePasses
  BY <1>21 DEF UptimePasses, ChipTypes, ClientTypes, TimeTypes, ServiceTypes,
     BrokerTypes
<1>22. CASE ReconnectTimePasses
  BY <1>22 DEF ReconnectTimePasses, ChipTypes, ClientTypes, TimeTypes,
     ServiceTypes, BrokerTypes
<1>23. CASE ReplyTimePasses
  BY <1>23 DEF ReplyTimePasses, ChipTypes, ClientTypes, TimeTypes,
     ServiceTypes, BrokerTypes
<1>24. CASE ConnectionAges
  BY <1>24 DEF ConnectionAges, ChipTypes, ClientTypes, TimeTypes,
     ServiceTypes, BrokerTypes
<1>25. CASE TimeoutPasses
  BY <1>25 DEF TimeoutPasses, ChipTypes, ClientTypes, TimeTypes, ServiceTypes,
     BrokerTypes
<1>26. CASE LinkLossNoticed
  BY <1>26 DEF LinkLossNoticed, ChipTypes, ClientTypes, TimeTypes,
     ServiceTypes, BrokerTypes
<1>27. CASE NetChanges
  BY <1>27 DEF NetChanges, Breaks, ChipTypes, ClientTypes, TimeTypes,
     ServiceTypes, BrokerTypes
<1>28. CASE BrokerChanges
  BY <1>28 DEF BrokerChanges, Breaks, ChipTypes, ClientTypes, TimeTypes,
     ServiceTypes, BrokerTypes
<1>29. CASE \E t \in Topics : Publish(t)
  BY <1>29 DEF Publish, Receives, ChipTypes, ClientTypes, TimeTypes,
     ServiceTypes, BrokerTypes
<1>30. CASE PowerCycle
  <2>1. ChipTypes'
    BY <1>30 DEF PowerCycle, ChipTypes
  <2>2. ClientTypes'
    BY <1>30 DEF PowerCycle, ClientTypes
  <2>3. TimeTypes'
    BY <1>30 DEF PowerCycle, TimeTypes
  <2>4. ServiceTypes'
    BY <1>30 DEF PowerCycle, ServiceTypes
  <2>5. BrokerTypes'
    BY <1>30 DEF PowerCycle, BrokerTypes
  <2> QED BY <2>1, <2>2, <2>3, <2>4, <2>5 DEF MqttTypeOK
<1> QED BY <1>1, <1>2, <1>3, <1>4, <1>5, <1>6, <1>7, <1>8, <1>9, <1>10, <1>11,
   <1>12, <1>13, <1>14, <1>15, <1>16, <1>17, <1>18, <1>19, <1>20, <1>21,
   <1>22, <1>23, <1>24, <1>25, <1>26, <1>27, <1>28, <1>29, <1>30 DEF Next,
   NetworkTask, WebServer, World

----------------------------------------------------------------------------
(* Receivers *)

\* Every step keeps the receivers in line with the objects that exist.
LEMMA ReceiverStep ==
  ASSUME MqttTypeOK, ReceiversMatch, ReceiversCleared, Next
  PROVE  ReceiversMatch' /\ ReceiversCleared'
<1> USE DEF ReceiversMatch, ReceiversCleared, Running, At, serviceVars
<1>1. CASE Boot
  BY <1>1 DEF Boot, OneEach
<1>2. CASE \/ CheckLost \/ CheckIp \/ SkipReconnect \/ ReconnectRefused \/ ReconnectStart
           \/ NetworkTimeout \/ StillOffline \/ Online \/ NoRestart
  BY <1>2 DEF CheckLost, CheckIp, SkipReconnect, ReconnectRefused, ReconnectStart,
     NetworkTimeout, StillOffline, Online, NoRestart, RestartEsp, OneEach
<1>3. CASE Update \/ WaitForReply
  <2>1. /\ caller' = caller
        /\ UNCHANGED <<started, mqttReceivers>>
        /\ \/ pc = "top" /\ pc' = "lost"
           \/ pc' = pc
    BY <1>3 DEF Update, WaitForReply, ClientFrame
  <2>2. Running
    BY <1>3 DEF Update, WaitForReply
  <2> QED BY <2>1, <2>2 DEF OneEach
<1>4. CASE ReconnectFailed \/ ReconnectSucceeded
  BY <1>4 DEF ReconnectFailed, ReconnectSucceeded, WaitEnds, MqttTypeOK, ChipTypes, OneEach
<1>5. CASE RestartServices
  BY <1>5 DEF RestartServices, OneEach
<1>6. CASE ForceReconnect
  BY <1>6 DEF ForceReconnect, ReceiversAfterClear
<1>7. CASE RecreateServices
  <2>1. mqttReceivers = Zero(Devices)
    BY <1>7 DEF RecreateServices
  <2>2. mqttReceivers' = OneEach(started')
    BY <1>7, <2>1 DEF RecreateServices, Zero, OneEach
  <2> QED BY <1>7, <2>2 DEF RecreateServices
<1>8. CASE WebServer
  BY <1>8 DEF WebServer, SaveEnabled, SaveOther, ConfirmRestart, WebEvent
<1>9. CASE World
  <2>1. CASE PowerCycle
    BY <2>1 DEF PowerCycle
  <2>2. CASE ~PowerCycle
    <3>1. UNCHANGED <<esp, pc, caller, started, mqttReceivers>>
      BY <1>9, <2>2 DEF World, UptimePasses, ReconnectTimePasses, ReplyTimePasses,
         ConnectionAges, TimeoutPasses, LinkLossNoticed, NetChanges, BrokerChanges, Publish,
         Tick, OutsideFrame
    <3> QED BY <3>1 DEF OneEach
  <2> QED BY <2>1, <2>2
<1> QED BY <1>1, <1>2, <1>3, <1>4, <1>5, <1>6, <1>7, <1>8, <1>9 DEF Next, NetworkTask

\* The initial states satisfy the invariant.
LEMMA MqttInit == Init => MqttInv
<1> SUFFICES ASSUME Init PROVE MqttInv
  OBVIOUS
<1>1. ChipTypes /\ TimeTypes
  BY DEF Init, ChipTypes, TimeTypes, Steps
<1>2. ClientTypes
  <2>1. connectionState \in {0, 2} /\ connectCounter \in 0..ConnectLimit + 2
    BY MqttBoundsAssumption DEF Init
  <2> QED BY <2>1 DEF Init, ClientTypes, Ids
<1>3. ServiceTypes
  BY MqttBoundsAssumption DEF Init, ServiceTypes, OneEach, Topics, WebWanted
<1>4. BrokerTypes
  <2>1. <<>> \in Seq(Topics)
    OBVIOUS
  <2>2. queue \in [Ids -> Seq(Topics)]
    BY <2>1 DEF Init
  <2>3. handled \in Nat /\ stale \in Nat
    BY DEF Init
  <2>4. published \in [Topics -> Nat] /\ executed \in [Topics -> Nat]
    BY DEF Init, Zero
  <2>5. subscriptions \in [Ids -> SUBSET Topics]
    BY DEF Init
  <2> QED BY <2>2, <2>3, <2>4, <2>5 DEF Init, BrokerTypes
<1>5. ReceiversMatch /\ ReceiversCleared
  BY DEF Init, ReceiversMatch, ReceiversCleared
<1> QED BY <1>1, <1>2, <1>3, <1>4, <1>5 DEF MqttInv, MqttTypeOK

\* A step that changes nothing keeps it.
LEMMA MqttStutter ==
  ASSUME MqttInv, UNCHANGED mqttVars
  PROVE  MqttInv'
BY DEF MqttInv, MqttTypeOK, ChipTypes, ClientTypes, TimeTypes, ServiceTypes, BrokerTypes,
   ReceiversMatch, ReceiversCleared, Running, Steps, OneEach, mqttVars, clientVars, stateVars,
   timeVars, serviceVars, webVars, keptVars, worldVars, brokerVars, historyVars

\* The invariant holds in every reachable state.
LEMMA MqttInvariant == Spec => []MqttInv
<1>1. Init => MqttInv
  BY MqttInit
<1>2. MqttInv /\ [Next]_mqttVars => MqttInv'
  BY TypeStep, ReceiverStep, MqttStutter DEF MqttInv
<1> QED BY <1>1, <1>2, PTL DEF Spec

\* The state of the connection is well typed; in particular reconnect() and the
\* restarts of the services never register a receiver twice.
THEOREM MqttTypeCorrect == Spec => []MqttTypeOK
<1>1. MqttInv => MqttTypeOK
  BY DEF MqttInv
<1> QED BY <1>1, MqttInvariant, PTL

\* NukiNetwork::_mqttReceivers holds exactly the devices that run whenever
\* networkTask is not in the middle of restartServices().
THEOREM ReceiversRegistered == Spec => []ReceiversMatch
<1>1. MqttInv => ReceiversMatch
  BY DEF MqttInv
<1> QED BY <1>1, MqttInvariant, PTL

----------------------------------------------------------------------------
(* The web server after the network timeout *)

\* Every step keeps the forced web server running until the hub is connected.
LEMMA RescueStep ==
  ASSUME RescueForced, RescueWebServer, Next
  PROVE  RescueForced' /\ RescueWebServer'
<1> USE DEF RescueForced, RescueWebServer, Running, At, keptVars, serviceVars
<1>1. CASE Boot
  BY <1>1 DEF Boot, WebWanted
<1>2. CASE CheckLost
  BY <1>2 DEF CheckLost, RestartEsp
<1>3. CASE NetworkTimeout
  BY <1>3 DEF NetworkTimeout, ForceWebServer, RestartEsp
<1>4. CASE ReconnectSucceeded
  BY <1>4 DEF ReconnectSucceeded
<1>5. CASE \/ CheckIp \/ SkipReconnect \/ ReconnectRefused \/ ReconnectStart
           \/ ReconnectFailed \/ StillOffline \/ Online \/ NoRestart
  BY <1>5 DEF CheckIp, SkipReconnect, ReconnectRefused, ReconnectStart, ReconnectFailed,
     StillOffline, Online, NoRestart
<1>6. CASE Update \/ WaitForReply
  <2>1. Running /\ UNCHANGED <<keptVars, webStarted>>
    BY <1>6 DEF Update, WaitForReply, ClientFrame
  <2> QED BY <2>1
<1>7. CASE RestartServices \/ ForceReconnect \/ RecreateServices
  <2>1. CASE RestartServices
    BY <2>1 DEF RestartServices
  <2>2. CASE ForceReconnect
    BY <2>2 DEF ForceReconnect
  <2>3. CASE RecreateServices
    BY <2>3 DEF RecreateServices
  <2> QED BY <1>7, <2>1, <2>2, <2>3
<1>8. CASE WebServer
  BY <1>8 DEF WebServer, SaveEnabled, SaveOther, ConfirmRestart, WebEvent
<1>9. CASE World
  <2>1. CASE PowerCycle
    BY <2>1 DEF PowerCycle
  <2>2. CASE ~PowerCycle
    <3>1. UNCHANGED <<esp, keptVars, webStarted>>
      BY <1>9, <2>2 DEF World, UptimePasses, ReconnectTimePasses, ReplyTimePasses,
         ConnectionAges, TimeoutPasses, LinkLossNoticed, NetChanges, BrokerChanges, Publish,
         Tick, OutsideFrame
    <3> QED BY <3>1
  <2> QED BY <2>1, <2>2
<1> QED BY <1>1, <1>2, <1>3, <1>4, <1>5, <1>6, <1>7, <1>8, <1>9 DEF Next, NetworkTask

\* A hub that the network timeout has restarted runs the web server until it is
\* connected: the flag survives every further restart, and is only cleared with
\* the connection, the network or the power.
THEOREM WebServerRescues == Spec => []RescueWebServer
<1>1. Init => RescueForced /\ RescueWebServer
  BY DEF Init, RescueForced, RescueWebServer
<1>2. RescueForced /\ RescueWebServer /\ [Next]_mqttVars => (RescueForced /\ RescueWebServer)'
  <2>1. ASSUME RescueForced, RescueWebServer, UNCHANGED mqttVars
        PROVE  RescueForced' /\ RescueWebServer'
    BY <2>1 DEF RescueForced, RescueWebServer, Running, mqttVars, keptVars, serviceVars
  <2> QED BY <2>1, RescueStep
<1> QED BY <1>1, <1>2, PTL DEF Spec

----------------------------------------------------------------------------
(* Commands are executed once *)

\* The commands that are left can be counted.
LEMMA FreshFinite ==
  ASSUME MqttTypeOK, NEW t
  PROVE  IsFiniteSet(Fresh(t)) /\ Cardinality(Fresh(t)) \in Nat
<1>1. Pending \in Seq(Topics)
  BY DEF Pending, MqttTypeOK, ClientTypes, BrokerTypes, Ids
<1>2. IsFiniteSet(1..Len(Pending))
  BY <1>1, FS_Interval
<1>3. Fresh(t) \in SUBSET (1..Len(Pending))
  BY DEF Fresh
<1>4. IsFiniteSet(Fresh(t))
  BY <1>2, <1>3, FS_Subset
<1> QED BY <1>4, FS_CardinalityType

\* The same, after a step.
LEMMA FreshFiniteNext ==
  ASSUME MqttTypeOK', NEW t
  PROVE  IsFiniteSet(Fresh(t)') /\ Cardinality(Fresh(t)') \in Nat
<1>1. Pending' \in Seq(Topics)
  BY DEF Pending, MqttTypeOK, ClientTypes, BrokerTypes, Ids
<1>2. IsFiniteSet(1..Len(Pending'))
  BY <1>1, FS_Interval
<1>3. Fresh(t)' \in SUBSET (1..Len(Pending'))
  BY DEF Fresh
<1>4. IsFiniteSet(Fresh(t)')
  BY <1>2, <1>3, FS_Subset
<1> QED BY <1>4, FS_CardinalityType

\* What takes none of them in keeps their number from growing.
LEMMA FewerFresh ==
  ASSUME MqttTypeOK, NEW t, Fresh(t)' \subseteq Fresh(t)
  PROVE  /\ Cardinality(Fresh(t)') <= Cardinality(Fresh(t))
         /\ Cardinality(Fresh(t)') \in Nat
<1>1. IsFiniteSet(Fresh(t))
  BY FreshFinite
<1>2. IsFiniteSet(Fresh(t)') /\ Cardinality(Fresh(t)') <= Cardinality(Fresh(t))
  BY <1>1, FS_Subset
<1> QED BY <1>2, FS_CardinalityType

\* A message is executed by one handler at most.
LEMMA Execution ==
  ASSUME MqttTypeOK, NEW k \in 1..Len(Pending), NEW b \in BOOLEAN, OnMqttDataReceived(k, b)
  PROVE  /\ handled' = k
         /\ \A t \in Topics : executed'[t] <= executed[t] + (IF t = Pending[k] THEN 1 ELSE 0)
         /\ ~Accepts => UNCHANGED <<executed, oldTimestamp>>
         /\ Accepts => oldTimestamp' = (oldTimestamp \/ b)
<1>1. Pending \in Seq(Topics) /\ executed \in [Topics -> Nat]
  BY DEF Pending, MqttTypeOK, ClientTypes, BrokerTypes, Ids
<1>2. Pending[k] \in Topics
  BY <1>1
<1>3. Handlers(Pending[k]) \in {0, 1}
  <2>1. CASE Pending[k] = "maintenance"
    BY <2>1 DEF Handlers
  <2>2. CASE Pending[k] # "maintenance"
    <3>1. mqttReceivers[Pending[k]] \in {0, 1}
      BY <1>2, <2>2 DEF Topics, MqttTypeOK, ServiceTypes
    <3> QED BY <2>2, <3>1 DEF Handlers
  <2> QED BY <2>1, <2>2
<1>4. ASSUME NEW t \in Topics
      PROVE  executed'[t] <= executed[t] + (IF t = Pending[k] THEN 1 ELSE 0)
  <2>1. executed[t] \in Nat
    BY <1>1
  <2>2. CASE ~Accepts
    <3>1. executed' = executed
      BY <2>2 DEF OnMqttDataReceived
    <3> QED BY <2>1, <3>1
  <2>3. CASE Accepts
    <3>1. executed' = [executed EXCEPT ![Pending[k]] =
                         IF @ > MaxCommands THEN @ ELSE @ + Handlers(Pending[k])]
      BY <2>3 DEF OnMqttDataReceived
    <3>2. CASE t = Pending[k]
      BY <1>1, <1>3, <2>1, <3>1, <3>2
    <3>3. CASE t # Pending[k]
      BY <1>1, <2>1, <3>1, <3>3
    <3> QED BY <3>2, <3>3
  <2> QED BY <2>2, <2>3
<1> QED BY <1>4 DEF OnMqttDataReceived

\* A call of loop() executes only what was published since the connection, each
\* command once; or it goes by the time of an earlier connection.
LEMMA LoopCommands ==
  ASSUME MqttTypeOK, MqttTypeOK', CommandInv, ClientLoop \/ ClientIdle,
         pc = "wait" => ~connectReplyReceived,
         UNCHANGED <<published, clientId>>
  PROVE  CommandsLeft'
<1>t. /\ clientId \in Ids /\ queue \in [Ids -> Seq(Topics)]
      /\ handled \in Nat /\ stale \in Nat
      /\ executed \in [Topics -> Nat] /\ published \in [Topics -> Nat]
      /\ lateAnswer \in BOOLEAN
      /\ executed' \in [Topics -> Nat]
  BY DEF MqttTypeOK, ClientTypes, BrokerTypes
<1>0. Pending \in Seq(Topics) /\ Len(Pending) \in Nat
  BY <1>t DEF Pending
<1>1. CASE ClientTcp \/ ClientGone \/ ClientClosed \/ ClientIdle
  <2>1. /\ UNCHANGED <<queue, handled, stale, executed, oldTimestamp>>
        /\ Live' => Live
    BY <1>1 DEF ClientTcp, ClientGone, ClientClosed, ClientIdle, brokerVars, Live
  <2>2. \A t : Fresh(t)' = Fresh(t)
    BY <2>1 DEF Fresh, Pending
  <2> QED BY <2>1, <2>2 DEF CommandInv, CommandsLeft
<1>2. CASE ClientConnack
  <2>1. \A t : Fresh(t)' = {}
    <3>1. CASE clientId = "generated"
      <4>1. Pending' = <<>>
        BY <1>t, <1>2, <3>1 DEF ClientConnack, Pending
      <4> QED BY <4>1 DEF Fresh
    <3>2. CASE clientId # "generated"
      <4>1. stale' = Len(Pending) /\ Pending' = Pending
        BY <1>2, <3>2 DEF ClientConnack, Pending
      <4> QED BY <1>t, <1>0, <4>1 DEF Fresh
    <3> QED BY <3>1, <3>2
  <2>2. \A t : Cardinality(Fresh(t)') = 0
    BY <2>1, FS_EmptySet
  <2>3. \/ UNCHANGED <<executed, oldTimestamp>>
        \/ Pending # <<>> /\ OnMqttDataReceived(1, TRUE)
    BY <1>2 DEF ClientConnack
  <2>4. CASE UNCHANGED <<executed, oldTimestamp>>
    <3>1. \A t \in Topics : executed[t] + Cardinality(Fresh(t)') = executed[t]
      BY <1>t, <2>2
    <3>2. ASSUME NEW t \in Topics, ~oldTimestamp
          PROVE  /\ executed[t] <= published[t]
                 /\ executed[t] + Cardinality(Fresh(t)') <= published[t]
      BY <3>1, <3>2 DEF CommandInv, CommandsLeft
    <3> QED BY <2>4, <3>2 DEF CommandsLeft
  <2>5. CASE Pending # <<>> /\ OnMqttDataReceived(1, TRUE)
    <3>1. 1 \in 1..Len(Pending)
      BY <1>t, <1>0, <2>5
    <3>2. (~Accepts => UNCHANGED <<executed, oldTimestamp>>) /\ (Accepts => oldTimestamp')
      BY <2>5, <3>1, Execution
    <3>3. CASE Accepts
      BY <3>2, <3>3 DEF CommandsLeft
    <3>4. CASE ~Accepts
      BY <2>4, <3>2, <3>4
    <3> QED BY <3>3, <3>4
  <2> QED BY <2>3, <2>4, <2>5
<1>3. CASE ClientPublish
  <2> DEFINE k == handled + 1
  <2>1. k \in 1..Len(Pending) /\ lateAnswer \in BOOLEAN
    BY <1>t, <1>0, <1>3 DEF ClientPublish
  <2>2. OnMqttDataReceived(k, lateAnswer)
    BY <1>3 DEF ClientPublish
  <2>3. /\ handled' = k
        /\ \A t \in Topics : executed'[t] <= executed[t] + (IF t = Pending[k] THEN 1 ELSE 0)
        /\ ~Accepts => UNCHANGED <<executed, oldTimestamp>>
        /\ Accepts => oldTimestamp' = (oldTimestamp \/ lateAnswer)
    <3> HIDE DEF k
    <3> QED BY <2>1, <2>2, Execution
  <2>4. UNCHANGED <<Pending, stale, client, link>> /\ Live
    BY <1>3 DEF ClientPublish, Pending, Live
  <2>5. \A t : Fresh(t)' = Fresh(t) \ {k}
    BY <1>t, <1>0, <2>3, <2>4 DEF Fresh
  <2>6. CASE ~Accepts
    <3>1. \A t \in Topics : /\ Cardinality(Fresh(t)') <= Cardinality(Fresh(t))
                            /\ Cardinality(Fresh(t)') \in Nat
                            /\ Cardinality(Fresh(t)) \in Nat
      BY <2>5, FewerFresh, FreshFinite
    <3>2. UNCHANGED <<executed, oldTimestamp>>
      BY <2>3, <2>6
    <3>3. ASSUME NEW t \in Topics, ~oldTimestamp
          PROVE  /\ executed[t] <= published[t]
                 /\ executed[t] + Cardinality(Fresh(t)') <= published[t]
      <4>1. /\ executed[t] <= published[t]
            /\ executed[t] + Cardinality(Fresh(t)) <= published[t]
            /\ executed[t] \in Nat /\ published[t] \in Nat
        BY <1>t, <2>4, <3>3 DEF CommandInv, CommandsLeft
      <4> QED BY <3>1, <4>1
    <3> QED BY <3>2, <3>3 DEF CommandsLeft
  <2>7. CASE Accepts /\ ~oldTimestamp /\ ~lateAnswer
    <3>1. pc # "wait"
      <4>1. client = "connected"
        BY <1>3 DEF ClientPublish
      <4> QED BY <4>1 DEF CommandInv, ReplyNoticed
    <3>2. stale = 0
      BY <2>4, <2>7, <3>1 DEF CommandInv, StaleDelivered, Accepts
    <3>3. k \in Fresh(Pending[k])
      BY <1>t, <1>0, <2>1, <3>2 DEF Fresh
    <3>4. ASSUME NEW t \in Topics
          PROVE  /\ executed'[t] <= published[t]
                 /\ executed'[t] + Cardinality(Fresh(t)') <= published[t]
      <4>1. /\ executed[t] + Cardinality(Fresh(t)) <= published[t]
            /\ executed[t] \in Nat /\ published[t] \in Nat
            /\ executed'[t] \in Nat
        BY <1>t, <2>4, <2>7 DEF CommandInv, CommandsLeft
      <4>2. IsFiniteSet(Fresh(t)) /\ Cardinality(Fresh(t)) \in Nat
        BY FreshFinite
      <4>3. Cardinality(Fresh(t)') =
              IF k \in Fresh(t) THEN Cardinality(Fresh(t)) - 1 ELSE Cardinality(Fresh(t))
        BY <2>5, <4>2, FS_RemoveElement
      <4>4. Cardinality(Fresh(t)') \in Nat
        BY <2>5, FewerFresh
      <4>5. CASE t = Pending[k]
        <5>1. executed'[t] <= executed[t] + 1
          BY <2>3, <4>5
        <5>2. Cardinality(Fresh(t)') = Cardinality(Fresh(t)) - 1
          BY <3>3, <4>3, <4>5
        <5> HIDE DEF k
        <5> QED BY <4>1, <4>2, <4>4, <5>1, <5>2
      <4>6. CASE t # Pending[k]
        <5>1. executed'[t] <= executed[t] + 0
          BY <2>3, <4>6
        <5>2. Cardinality(Fresh(t)') = Cardinality(Fresh(t))
          BY <4>3, <4>6 DEF Fresh
        <5> HIDE DEF k
        <5> QED BY <4>1, <4>2, <4>4, <5>1, <5>2
      <4> QED BY <4>5, <4>6
    <3> QED BY <3>4 DEF CommandsLeft
  <2>8. CASE Accepts /\ (oldTimestamp \/ lateAnswer)
    BY <2>3, <2>8 DEF CommandsLeft
  <2> QED BY <2>6, <2>7, <2>8
<1>4. CASE ClientPuback
  <2>1. /\ Pending # <<>> /\ Live
        /\ Pending' = Tail(Pending)
        /\ handled' = handled - 1 /\ handled > 0
        /\ stale' = IF stale > 0 THEN stale - 1 ELSE 0
        /\ UNCHANGED <<executed, oldTimestamp>>
    BY <1>t, <1>4 DEF ClientPuback, Pending, Live
  <2>2. ASSUME NEW t
        PROVE  Cardinality(Fresh(t)') <= Cardinality(Fresh(t))
    <3> DEFINE f == [k \in Fresh(t)' |-> k + 1]
    <3>1. ASSUME NEW k \in Fresh(t)'
          PROVE  k \in Nat /\ k + 1 \in Fresh(t)
      <4>1. k \in 1..Len(Tail(Pending)) /\ k > handled' /\ k > stale' /\ Tail(Pending)[k] = t
        BY <2>1 DEF Fresh
      <4>2. Len(Tail(Pending)) = Len(Pending) - 1
        BY <1>t, <1>0, <2>1
      <4>3. k + 1 \in 1..Len(Pending) /\ Pending[k + 1] = t
        BY <1>t, <1>0, <2>1, <4>1, <4>2
      <4>4. k + 1 > handled /\ k + 1 > stale
        BY <1>t, <1>0, <2>1, <4>1, <4>2
      <4> QED BY <4>1, <4>3, <4>4 DEF Fresh
    <3>2. f \in [Fresh(t)' -> Fresh(t)]
      BY <3>1
    <3>3. \A a, b \in Fresh(t)' : f[a] = f[b] => a = b
      BY <3>1
    <3>4. f \in Injection(Fresh(t)', Fresh(t))
      <4> HIDE DEF f
      <4> QED BY <3>2, <3>3 DEF Injection, IsInjective
    <3>5. IsFiniteSet(Fresh(t))
      BY FreshFinite
    <3> HIDE DEF f
    <3> QED BY <3>4, <3>5, FS_Injection
  <2>3. ASSUME NEW t \in Topics, ~oldTimestamp
        PROVE  /\ executed[t] <= published[t]
               /\ executed[t] + Cardinality(Fresh(t)') <= published[t]
    <3>1. /\ executed[t] <= published[t]
          /\ executed[t] + Cardinality(Fresh(t)) <= published[t]
          /\ executed[t] \in Nat /\ published[t] \in Nat
      BY <1>t, <2>1, <2>3 DEF CommandInv, CommandsLeft
    <3>2. Cardinality(Fresh(t)) \in Nat /\ Cardinality(Fresh(t)') \in Nat
      BY FreshFinite, FreshFiniteNext
    <3>3. Cardinality(Fresh(t)') <= Cardinality(Fresh(t))
      BY <2>2
    <3> QED BY <3>1, <3>2, <3>3
  <2> QED BY <2>1, <2>3 DEF CommandsLeft
<1> QED BY <1>1, <1>2, <1>3, <1>4 DEF ClientLoop

\* Every step keeps it; what is published becomes one command to be executed.
LEMMA CommandStep ==
  ASSUME MqttTypeOK, MqttTypeOK', CommandInv, Next
  PROVE  CommandInv'
<1> USE DEF At, Running
<1>t. /\ clientId \in Ids /\ queue \in [Ids -> Seq(Topics)]
      /\ handled \in Nat /\ stale \in Nat
      /\ executed \in [Topics -> Nat] /\ published \in [Topics -> Nat]
      /\ Pending \in Seq(Topics) /\ Len(Pending) \in Nat
  BY DEF MqttTypeOK, ClientTypes, BrokerTypes, Pending
<1>f. ASSUME UNCHANGED <<published, clientId, queue, handled, stale, executed, oldTimestamp>>,
             Live' => Live
      PROVE  CommandsLeft'
  <2>1. \A t : Fresh(t)' = Fresh(t)
    BY <1>f DEF Fresh, Pending
  <2> QED BY <1>f, <2>1 DEF CommandInv, CommandsLeft
<1>g. ASSUME UNCHANGED <<published, executed, oldTimestamp>>, ~Live'
      PROVE  CommandsLeft'
  BY <1>g DEF CommandInv, CommandsLeft
<1> USE DEF brokerVars, historyVars, stateVars, timeVars, clientVars
<1>1. CASE Boot
  <2>1. UNCHANGED <<published, executed, oldTimestamp>> /\ client' = "disconnected"
    BY <1>1 DEF Boot
  <2> QED BY <1>1, <1>g, <2>1 DEF Boot, CommandInv, ReplyNoticed, StaleDelivered, Live
<1>2. CASE Update \/ WaitForReply
  <2>1. /\ ClientLoop \/ ClientIdle
        /\ UNCHANGED <<published, clientId, connectedTs>>
        /\ \/ pc = "top" /\ pc' = "lost"
           \/ pc = "wait" /\ pc' = "wait" /\ ~connectReplyReceived
    BY <1>2 DEF Update, WaitForReply, ClientFrame
  <2>2. CommandsLeft'
    BY <2>1, LoopCommands
  <2>3. ReplyNoticed' /\ StaleDelivered'
    <3>1. CASE ClientConnack
      BY <2>1, <3>1 DEF ClientConnack, ReplyNoticed, StaleDelivered
    <3>2. CASE ClientTcp \/ ClientGone \/ ClientClosed
      BY <2>1, <3>2 DEF ClientTcp, ClientGone, ClientClosed, ReplyNoticed, StaleDelivered, Live
    <3>3. CASE ClientPublish \/ ClientPuback \/ ClientIdle
      <4>1. UNCHANGED <<client, link, connectReplyReceived, lateAnswer>>
        BY <3>3 DEF ClientPublish, ClientPuback, ClientIdle
      <4>2. stale = 0 => stale' = 0
        BY <3>3 DEF ClientPublish, ClientPuback, ClientIdle
      <4> QED BY <2>1, <4>1, <4>2 DEF CommandInv, ReplyNoticed, StaleDelivered, Live
    <3> QED BY <2>1, <3>1, <3>2, <3>3 DEF ClientLoop
  <2> QED BY <2>2, <2>3 DEF CommandInv
<1>3. CASE \/ CheckLost \/ CheckIp \/ SkipReconnect \/ ReconnectRefused \/ ReconnectStart
           \/ ReconnectFailed \/ NetworkTimeout \/ StillOffline \/ Online
  <2> USE DEF TaskFrame, WaitEnds, NeedsMqtt
  <2>1. /\ UNCHANGED <<published, clientId, queue, handled, stale, executed, oldTimestamp>>
        /\ UNCHANGED <<connectedTs, link, lateAnswer>>
        /\ client' = "connected" => client = "connected"
        /\ client' = "connected" => pc' # "wait" /\ pc # "wait"
    <3>1. CASE CheckLost
      BY <3>1 DEF CheckLost
    <3>2. CASE CheckIp \/ SkipReconnect \/ NetworkTimeout \/ StillOffline \/ Online
      BY <3>2 DEF CheckIp, SkipReconnect, NetworkTimeout, StillOffline, Online
    <3>3. CASE ReconnectRefused \/ ReconnectStart \/ ReconnectFailed
      BY <3>3 DEF ReconnectRefused, ReconnectStart, ReconnectFailed
    <3> QED BY <1>3, <3>1, <3>2, <3>3
  <2>2. CommandsLeft'
    BY <1>f, <2>1 DEF Live
  <2> QED BY <2>1, <2>2 DEF CommandInv, ReplyNoticed, StaleDelivered, Live
<1>4. CASE ReconnectSucceeded
  <2>1. /\ UNCHANGED <<published, clientId, queue, handled, stale, executed, oldTimestamp>>
        /\ UNCHANGED <<client, link>>
        /\ connectedTs' = "recent" /\ pc' # "wait"
    BY <1>4 DEF ReconnectSucceeded
  <2>2. CommandsLeft'
    BY <1>f, <2>1 DEF Live
  <2> QED BY <2>1, <2>2 DEF CommandInv, ReplyNoticed, StaleDelivered
<1>5. CASE NoRestart \/ RestartServices \/ RecreateServices
  <2> USE DEF TaskFrame, RecreateFrame
  <2>1. /\ UNCHANGED <<published, clientId, queue, handled, stale, executed, oldTimestamp>>
        /\ UNCHANGED <<connectedTs, client, link, lateAnswer>>
        /\ pc # "wait" /\ pc' # "wait"
    BY <1>5 DEF NoRestart, RestartServices, RecreateServices
  <2>2. CommandsLeft'
    BY <1>f, <2>1 DEF Live
  <2> QED BY <2>1, <2>2 DEF CommandInv, ReplyNoticed, StaleDelivered, Live
<1>6. CASE ForceReconnect
  <2>1. UNCHANGED <<published, executed, oldTimestamp>> /\ client' # "connected"
    BY <1>6 DEF ForceReconnect
  <2> QED BY <1>g, <2>1 DEF CommandInv, ReplyNoticed, StaleDelivered, Live
<1>7. CASE WebServer \/ PowerCycle
  <2>1. /\ UNCHANGED <<published, clientId, queue, handled, stale, executed, oldTimestamp>>
        /\ UNCHANGED <<pc, connectReplyReceived, connectedTs, client, link, lateAnswer>>
    BY <1>7 DEF WebServer, SaveEnabled, SaveOther, ConfirmRestart, WebEvent, PowerCycle
  <2>2. CommandsLeft'
    BY <1>f, <2>1 DEF Live
  <2> QED BY <2>1, <2>2 DEF CommandInv, ReplyNoticed, StaleDelivered, Live
<1>8. CASE \/ UptimePasses \/ ReconnectTimePasses \/ ReplyTimePasses \/ ConnectionAges
           \/ TimeoutPasses \/ LinkLossNoticed \/ NetChanges \/ BrokerChanges
  <2> USE DEF OutsideFrame, Tick, Breaks
  <2>1. /\ UNCHANGED <<published, clientId, queue, handled, stale, executed, oldTimestamp>>
        /\ UNCHANGED <<pc, connectReplyReceived, client, lateAnswer>>
        /\ link' = "up" => link = "up"
        /\ connectedTs' = "old" => connectedTs = "old" \/ (Live => stale = 0)
    BY <1>8 DEF UptimePasses, ReconnectTimePasses, ReplyTimePasses, ConnectionAges,
       TimeoutPasses, LinkLossNoticed, NetChanges, BrokerChanges, Live
  <2>2. CommandsLeft'
    BY <1>f, <2>1 DEF Live
  <2> QED BY <2>1, <2>2 DEF CommandInv, ReplyNoticed, StaleDelivered, Live
<1>9. ASSUME NEW u \in Topics, Publish(u)
      PROVE  CommandInv'
  <2>1. /\ UNCHANGED <<clientId, handled, stale, executed, oldTimestamp>>
        /\ UNCHANGED <<pc, connectReplyReceived, connectedTs, client, link, lateAnswer>>
        /\ published' = [published EXCEPT ![u] = @ + 1]
        /\ Pending' = Pending \/ Pending' = Append(Pending, u)
    BY <1>t, <1>9 DEF Publish, OutsideFrame, Pending
  <2>2. ASSUME NEW t \in Topics, t # u
        PROVE  Fresh(t)' \subseteq Fresh(t)
    <3>1. Pending \in Seq(Topics) /\ handled' = handled /\ stale' = stale
      BY <1>t, <2>1
    <3>2. CASE Pending' = Pending
      BY <3>1, <3>2 DEF Fresh
    <3>3. CASE Pending' = Append(Pending, u)
      <4> DEFINE p == Pending
                 q == Append(p, u)
      <4>1. p \in Seq(Topics)
        BY <3>1
      <4> HIDE DEF p
      <4>2. \A k \in 1 .. Len(q) : q[k] = t => k \in 1 .. Len(p) /\ p[k] = t
        BY <2>2, <4>1
      <4>3. Pending' = q /\ Pending = p
        BY <3>3 DEF p
      <4> HIDE DEF q
      <4> QED BY <3>1, <4>2, <4>3 DEF Fresh
    <3> QED BY <2>1, <3>2, <3>3
  <2>3. Fresh(u)' \subseteq Fresh(u) \cup {Len(Pending) + 1}
    BY <1>t, <2>1 DEF Fresh
  <2>4. ASSUME NEW t \in Topics
        PROVE  Cardinality(Fresh(t)') <= Cardinality(Fresh(t)) + (IF t = u THEN 1 ELSE 0)
    <3>1. IsFiniteSet(Fresh(t)) /\ Cardinality(Fresh(t)) \in Nat
      BY FreshFinite
    <3>2. CASE t = u
      <4> DEFINE x == Len(Pending) + 1
                 F == Fresh(t)
                 S == F \cup {x}
      <4>1. /\ IsFiniteSet(S)
            /\ Cardinality(S) <= Cardinality(Fresh(t)) + 1
            /\ Cardinality(S) \in Nat
        <5> HIDE DEF x, F
        <5>1. IsFiniteSet(F) /\ Cardinality(F) \in Nat
          BY <3>1 DEF F
        <5>2. /\ IsFiniteSet(S)
              /\ Cardinality(S) = IF x \in F THEN Cardinality(F) ELSE Cardinality(F) + 1
          BY <5>1, FS_AddElement
        <5> QED BY <5>1, <5>2 DEF F
      <4>2. Fresh(t)' \in SUBSET S
        BY <2>3, <3>2
      <4> HIDE DEF S
      <4>3. Cardinality(Fresh(t)') <= Cardinality(S)
        BY <4>1, <4>2, FS_Subset
      <4>4. Cardinality(Fresh(t)') \in Nat
        BY FreshFiniteNext
      <4> QED BY <3>1, <3>2, <4>1, <4>3, <4>4
    <3>3. CASE t # u
      <4>1. Cardinality(Fresh(t)') <= Cardinality(Fresh(t))
        BY <2>2, <3>3, FewerFresh
      <4> QED BY <3>1, <3>3, <4>1
    <3> QED BY <3>2, <3>3
  <2>5. ASSUME NEW t \in Topics, ~oldTimestamp
        PROVE  /\ executed[t] <= published'[t]
               /\ Live => executed[t] + Cardinality(Fresh(t)') <= published'[t]
    <3>1. /\ executed[t] <= published[t]
          /\ Live => executed[t] + Cardinality(Fresh(t)) <= published[t]
          /\ executed[t] \in Nat /\ published[t] \in Nat
      BY <1>t, <2>5 DEF CommandInv, CommandsLeft
    <3>2. Cardinality(Fresh(t)) \in Nat /\ Cardinality(Fresh(t)') \in Nat
      BY FreshFinite, FreshFiniteNext
    <3>3. Cardinality(Fresh(t)') <= Cardinality(Fresh(t)) + (IF t = u THEN 1 ELSE 0)
      BY <2>4
    <3>4. published'[t] = published[t] + (IF t = u THEN 1 ELSE 0)
      BY <1>t, <2>1, <3>1
    <3> QED BY <3>1, <3>2, <3>3, <3>4
  <2>6. CommandsLeft'
    BY <2>1, <2>5 DEF CommandsLeft, Live
  <2> QED BY <2>1, <2>6 DEF CommandInv, ReplyNoticed, StaleDelivered, Live
<1> QED BY <1>1, <1>2, <1>3, <1>4, <1>5, <1>6, <1>7, <1>8, <1>9 DEF Next, NetworkTask, World

\* A command is executed once at most, over any number of lost connections and
\* restarts: commands that the broker repeats come within the six seconds in which
\* onMqttDataReceived ignores them.
THEOREM CommandsExecutedOnce == Spec => []CommandsAtMostOnce
<1>1. Init => CommandInv
  BY DEF Init, CommandInv, ReplyNoticed, StaleDelivered, CommandsLeft, Live, Zero
<1>2. MqttInv /\ MqttInv' /\ CommandInv /\ [Next]_mqttVars => CommandInv'
  <2>1. ASSUME CommandInv, UNCHANGED mqttVars
        PROVE  CommandInv'
    BY <2>1 DEF CommandInv, ReplyNoticed, StaleDelivered, CommandsLeft, Live, Fresh, Pending,
       mqttVars, clientVars, timeVars, brokerVars, historyVars
  <2> QED BY <2>1, CommandStep DEF MqttInv
<1>3. CommandInv => CommandsAtMostOnce
  BY DEF CommandInv, CommandsLeft, CommandsAtMostOnce
<1> QED BY <1>1, <1>2, <1>3, MqttInvariant, PTL DEF Spec

----------------------------------------------------------------------------
(* A connection that works is kept *)

\* Every step keeps what the counter of failures, the ids and the network have to
\* do with each other.
LEMMA LiveStep ==
  ASSUME MqttTypeOK, LiveInv, Next
  PROVE  LiveInv'
<1> USE DEF LiveInv, At, Running, stateVars, clientVars, keptVars, historyVars
<1>1. CASE Boot
  BY <1>1 DEF Boot
<1>2. CASE Update \/ WaitForReply
  <2>1. /\ ClientLoop \/ ClientIdle
        /\ UNCHANGED <<clientId, caller, connectCounter, disableNetwork>>
        /\ Running /\ ~disableNetwork
        /\ \/ pc = "top" /\ pc' = "lost"
           \/ pc = "wait" /\ pc' = "wait"
    BY <1>2 DEF Update, WaitForReply, ClientFrame
  <2>2. CASE ClientConnack
    BY <2>1, <2>2 DEF ClientConnack
  <2>3. CASE ClientTcp \/ ClientGone \/ ClientClosed
    BY <2>1, <2>3 DEF ClientTcp, ClientGone, ClientClosed
  <2>4. CASE ClientPublish \/ ClientPuback \/ ClientIdle
    <3>1. UNCHANGED <<client, lateAnswer>>
      BY <2>4 DEF ClientPublish, ClientPuback, ClientIdle
    <3> QED BY <2>1, <3>1
  <2> QED BY <2>1, <2>2, <2>3, <2>4 DEF ClientLoop
<1>3. CASE CheckLost
  BY <1>3 DEF CheckLost, CounterAfterLoss, TaskFrame, RestartEsp
<1>4. CASE CheckIp \/ SkipReconnect \/ NetworkTimeout \/ StillOffline \/ Online \/ NoRestart
  BY <1>4 DEF CheckIp, SkipReconnect, NetworkTimeout, StillOffline, Online, NoRestart, TaskFrame
<1>5. CASE ReconnectRefused \/ ReconnectStart \/ ReconnectFailed
  BY <1>5 DEF ReconnectRefused, ReconnectStart, ReconnectFailed, NeedsMqtt, TaskFrame
<1>6. CASE ReconnectSucceeded
  BY <1>6 DEF ReconnectSucceeded, WaitEnds, CounterAfterSuccess, MqttTypeOK, ChipTypes
<1>7. CASE RestartServices \/ ForceReconnect \/ RecreateServices
  BY <1>7 DEF RestartServices, ForceReconnect, RecreateServices, RecreateFrame
<1>8. CASE WebServer
  BY <1>8 DEF WebServer, SaveEnabled, SaveOther, ConfirmRestart, WebEvent
<1>9. CASE World
  <2>1. CASE PowerCycle
    BY <2>1 DEF PowerCycle
  <2>2. CASE ~PowerCycle
    <3>1. UNCHANGED <<esp, pc, caller, client, clientId, connectCounter, lateAnswer,
                      disableNetwork>>
      BY <1>9, <2>2 DEF World, UptimePasses, ReconnectTimePasses, ReplyTimePasses,
         ConnectionAges, TimeoutPasses, LinkLossNoticed, NetChanges, BrokerChanges, Publish,
         Tick, OutsideFrame
    <3> QED BY <3>1
  <2> QED BY <2>1, <2>2
<1> QED BY <1>1, <1>2, <1>3, <1>4, <1>5, <1>6, <1>7, <1>8, <1>9 DEF Next, NetworkTask

\* No step takes a connection that works down, or the chip with it, except one that
\* executes a command.
LEMMA LiveKept ==
  ASSUME MqttTypeOK, LiveInv, Next,
         Running, net, client = "connected", link = "up", ~lateAnswer,
         clientId' = "hostname", enabled \subseteq started
  PROVE  client' = "connected" /\ (Running' \/ handled' > handled)
<1> USE DEF At, Running, stateVars, clientVars
<1>1. CASE Boot
  BY <1>1 DEF Boot
<1>2. CASE Update \/ WaitForReply
  <2>1. ClientLoop \/ ClientIdle
    BY <1>2 DEF Update, WaitForReply
  <2>2. ClientPublish \/ ClientPuback \/ ClientIdle
    BY <2>1 DEF ClientLoop, ClientTcp, ClientConnack, ClientGone, ClientClosed
  <2>3. CASE ClientPublish
    <3>1. client' = client /\ handled' = handled + 1
      BY <2>3 DEF ClientPublish, OnMqttDataReceived
    <3> QED BY <3>1 DEF MqttTypeOK, BrokerTypes
  <2>4. CASE ClientPuback \/ ClientIdle
    BY <2>4 DEF ClientPuback, ClientIdle
  <2> QED BY <2>2, <2>3, <2>4
<1>3. CASE CheckLost
  <2>1. clientId = "hostname"
    BY <1>3 DEF CheckLost, TaskFrame
  <2>2. connectCounter = 0
    BY <1>3, <2>1 DEF CheckLost, LiveInv
  <2>3. ~Lost
    BY <2>2, MqttBoundsAssumption DEF Lost
  <2> QED BY <1>3, <2>3 DEF CheckLost
<1>4. CASE CheckIp \/ SkipReconnect \/ StillOffline \/ Online \/ NoRestart
  BY <1>4 DEF CheckIp, SkipReconnect, StillOffline, Online, NoRestart
<1>5. CASE \/ ReconnectRefused \/ ReconnectStart \/ ReconnectFailed \/ NetworkTimeout
           \/ ForceReconnect
  BY <1>5 DEF ReconnectRefused, ReconnectStart, ReconnectFailed, NetworkTimeout, NeedsMqtt,
     Offline, ForceReconnect
<1>6. CASE ReconnectSucceeded \/ RestartServices \/ RecreateServices
  BY <1>6 DEF ReconnectSucceeded, RestartServices, RecreateServices
<1>7. CASE WebServer
  BY <1>7 DEF WebServer, SaveEnabled, SaveOther, ConfirmRestart, WebEvent
<1>8. CASE World
  <2>1. CASE PowerCycle
    BY <2>1 DEF PowerCycle, LiveInv
  <2>2. CASE ~PowerCycle
    <3>1. UNCHANGED <<esp, client>>
      BY <1>8, <2>2 DEF World, UptimePasses, ReconnectTimePasses, ReplyTimePasses,
         ConnectionAges, TimeoutPasses, LinkLossNoticed, NetChanges, BrokerChanges, Publish,
         Tick, OutsideFrame
    <3> QED BY <3>1
  <2> QED BY <2>1, <2>2
<1> QED BY <1>1, <1>2, <1>3, <1>4, <1>5, <1>6, <1>7, <1>8 DEF Next, NetworkTask

\* The hub never closes a connection that update() has made and that still works,
\* nor restarts while it has one: the counter of failures is zero as long as it is
\* connected, so the pass after the connection does not take it for lost.
THEOREM WorkingConnectionKept == Spec => LiveConnectionKept
<1>1. Init => LiveInv
  BY DEF Init, LiveInv
<1>2. MqttInv /\ LiveInv /\ [Next]_mqttVars => LiveInv'
  <2>1. ASSUME LiveInv, UNCHANGED mqttVars
        PROVE  LiveInv'
    BY <2>1 DEF LiveInv, Running, mqttVars, clientVars, stateVars, keptVars, historyVars
  <2> QED BY <2>1, LiveStep DEF MqttInv
<1>3. MqttInv /\ LiveInv /\ [Next]_mqttVars =>
        [(/\ Running /\ net /\ client = "connected" /\ link = "up" /\ ~lateAnswer
          /\ clientId' = "hostname" /\ enabled \subseteq started) =>
           client' = "connected" /\ (Running' \/ handled' > handled)]_mqttVars
  BY LiveKept DEF MqttInv
<1> QED BY <1>1, <1>2, <1>3, MqttInvariant, PTL DEF Spec, LiveConnectionKept
=============================================================================
