------------------------- MODULE NukiWrapperProofs -------------------------
(***************************************************************************)
(* Proofs about NukiWrapper, for every set of actions, access control      *)
(* list, pin configuration, number of retries and event bound.             *)
(***************************************************************************)
EXTENDS NukiWrapper, TLAPS

\* Inside the two retry loops the number of failed attempts is below the limit
\* whenever another attempt is made.
AttemptsInv == pc \in {"send", "await", "query"} => attempts < NrOfRetries + 1

\* Every place an action can be on its way to the lock holds nothing or an
\* action that was requested; the slot is never empty while a command runs.
FlowInv ==
  /\ requested \subseteq Permitted \cup GpioActions
  /\ nextLockAction \in requested \cup {NoAction}
  /\ offCommand \in requested \cup {NoAction}
  /\ mqttVal.act \in requested \cup {NoAction}
  /\ gpioRead \in requested \cup {NoAction}
  /\ gpioAction \in GpioActions => gpioAction \in requested
  /\ pc \in InRound => nextLockAction # NoAction
  /\ pc = "await" => sending \in requested

\* A request that has not been used up yet is in exactly one place: in
\* _nextLockAction, behind an armed or just taken hybrid retry, or in the
\* GPIO slot.
SlotToken  == IF nextLockAction # NoAction /\ pc \notin InRound THEN 1 ELSE 0
RetryToken == IF \/ pc \in {"offCompare", "offTake"}
                 \/ offTs # "zero" /\ pc # "offClear" THEN 1 ELSE 0
PressToken == IF gpioAction \in GpioActions /\ pc \notin {"gpioOff", "gpioClear"}
              THEN 1 ELSE 0
TokenInv == rounds + SlotToken + RetryToken + PressToken <= requests

\* Where nukiTask is about to take _offCommand, or will be unless the handler in
\* progress stores it first, it holds an action.
RetryInv ==
  /\ mqttPc = "offCommand" => mqttVal.act \in Actions /\ (offTs = "armed" \/ offCommand \in Actions)
  /\ pc = "gpioOff" => gpioRead \in Actions
  /\ offTs # "zero" /\ mqttPc # "offCommand" /\ pc # "gpioOff" => offCommand \in Actions
  /\ pc = "offCompare" /\ mqttPc # "offCommand" => offCommand \in Actions
  /\ pc \in {"offTake", "offClear"} => offCommand \in Actions

\* What is left on the pins and on lock/retry outside the retry loops.
QuietInv ==
  /\ pc \notin InRound \cup {"query", "store"} => ~commPin /\ ~commErrorPin
  /\ pc \notin InRound => retryTopic # "retrying"

IInv == TypeOK /\ AttemptsInv /\ FlowInv /\ TokenInv /\ RetryInv /\ QuietInv

USE DEF commandVars, radioVars, topicVars, doorVars, queryVars, statusVars,
        timerVars, stateVars, historyVars, envVars, mqttVars,
        MqttHandlerFrame, OfficialFrame, WorldFrame, LockActionFrame, QuietStatus,
        DoorFrame, StateFrame, GpioFrame, Goto, Entitles

\* The initial states satisfy the inductive invariant.
LEMMA InitIInv == Init => IInv
  <1> SUFFICES ASSUME Init PROVE IInv
    OBVIOUS
  <1> USE DEF Init
  <1>1. CommandTypes
    BY Zenon DEF CommandTypes, MaybeAction, NukiTaskSteps
  <1>2. RadioTypes
    <2>1. attempts \in 0..NrOfRetries + 1
      BY SettingsAssumption
    <2>2. QED
      BY <2>1, Zenon DEF RadioTypes, MaybeAction
  <1>3. StatusTypes
    <2>1. newSignal \in 0..NewSignalLimit
      BY SettingsAssumption
    <2>2. QED
      BY <2>1, Zenon DEF StatusTypes
  <1>4. HistoryTypes /\ CountOK
    BY DEF HistoryTypes, CountOK, MaybeAction, NothingOwed, Owes
  <1>5. AttemptsInv /\ FlowInv /\ TokenInv /\ RetryInv /\ QuietInv
    BY ActionsAssumption DEF AttemptsInv, FlowInv, RetryInv, TokenInv, QuietInv, InRound, SlotToken,
          RetryToken, PressToken
  <1>6. QED
    BY <1>1, <1>2, <1>3, <1>4, <1>5 DEF IInv, TypeOK

\* Counting a bounded event keeps the counters typed.
LEMMA HappensType ==
  ASSUME CountOK, NEW e \in BoundedEvents, NEW max, Happens(e, max)
  PROVE  CountOK'
  BY DEF CountOK, Happens

\* The event counters stay natural numbers.
LEMMA NextCount == CountOK /\ [Next]_vars => CountOK'
  <1> SUFFICES ASSUME CountOK, [Next]_vars PROVE CountOK'
    OBVIOUS
  <1>1. CASE MqttClient
    <2>1. ASSUME NEW v \in Actions \cup {UnknownWord}, OnLockActionReceived(v) PROVE CountOK'
      BY <2>1, HappensType DEF OnLockActionReceived, RejectLockAction, AcceptForBle,
                  AcceptForOfficial, AcceptWithRetry, BoundedEvents
    <2>2. ASSUME NEW q \in Queries, OnQueryReceived(q) PROVE CountOK'
      BY <2>2, HappensType DEF OnQueryReceived, BoundedEvents
    <2>3. ASSUME NEW d \in DoorRequests, OnDoorOverrideReceived(d) PROVE CountOK'
      BY <2>3, HappensType DEF OnDoorOverrideReceived, BoundedEvents
    <2>4. ASSUME NEW b \in BOOLEAN, OfficialConnected(b) PROVE CountOK'
      BY <2>4, HappensType DEF OfficialConnected, BoundedEvents
    <2>5. CASE OfficialState
      BY <2>5, HappensType DEF OfficialState, BoundedEvents
    <2>6. CASE OfficialDoorsensorState
      BY <2>6, HappensType DEF OfficialDoorsensorState, BoundedEvents
    <2>7. ASSUME NEW ok \in BOOLEAN, OfficialCommandResponse(ok) PROVE CountOK'
      BY <2>7 DEF OfficialCommandResponse, CountOK
    <2>8. CASE OfficialLockActionEvent
      BY <2>8, HappensType DEF OfficialLockActionEvent, CountOK, BoundedEvents
    <2>9. QED
      BY <1>1, <2>1, <2>2, <2>3, <2>4, <2>5, <2>6, <2>7, <2>8 DEF MqttClient
  <1>2. CASE MqttContinues
    <2>1. CASE SetOffCommand
      BY <2>1 DEF SetOffCommand, CountOK
    <2>2. CASE StoreQuery
      BY <2>2 DEF StoreQuery, CountOK
    <2>3. QED
      BY <1>2, <2>1, <2>2 DEF MqttContinues
  <1>3. CASE TimePasses
    <2>1. CASE OffTsDue
      BY <2>1 DEF OffTsDue, CountOK
    <2>2. CASE StateTimerDue
      BY <2>2 DEF StateTimerDue, CountOK
    <2>3. ASSUME NEW q \in Queries, QueryTimerDue(q) PROVE CountOK'
      BY <2>3 DEF QueryTimerDue, CountOK
    <2>4. CASE WindowCloses
      BY <2>4 DEF WindowCloses, CountOK
    <2>5. QED
      BY <1>3, <2>1, <2>2, <2>3, <2>4 DEF TimePasses
  <1>4. CASE World
    <2>1. ASSUME NEW e \in GpioEvents, OnGpioActionReceived(e) PROVE CountOK'
      BY <2>1, HappensType DEF OnGpioActionReceived, BoundedEvents
    <2>2. CASE NotifyStatusUpdated
      BY <2>2 DEF NotifyStatusUpdated, CountOK
    <2>3. CASE NotifyStatusReset
      BY <2>3 DEF NotifyStatusReset, CountOK
    <2>4. ASSUME NEW s \in LockStates, DeviceMoves(s) PROVE CountOK'
      BY <2>4, HappensType DEF DeviceMoves, BoundedEvents
    <2>5. CASE LinkUp
      BY <2>5 DEF LinkUp, CountOK
    <2>6. CASE LinkDown
      BY <2>6, HappensType DEF LinkDown, BoundedEvents
    <2>7. QED
      BY <1>4, <2>1, <2>2, <2>3, <2>4, <2>5, <2>6 DEF World
  <1>5. CASE NukiTask
    <2>1. CASE BeginUpdate
      BY <2>1 DEF BeginUpdate, CountOK
    <2>2. CASE ClearQueries
      BY <2>2 DEF ClearQueries, CountOK
    <2>3. CASE ReadOffTs
      BY <2>3 DEF ReadOffTs, CountOK
    <2>4. CASE CompareOffTs
      BY <2>4 DEF CompareOffTs, CountOK
    <2>5. CASE TakeOffCommand
      BY <2>5 DEF TakeOffCommand, CountOK
    <2>6. CASE ClearOffTs
      BY <2>6 DEF ClearOffTs, CountOK
    <2>7. CASE CheckNextLockAction
      BY <2>7 DEF CheckNextLockAction, EnterRetryComm, CountOK
    <2>8. CASE SendLockAction
      BY <2>8 DEF SendLockAction, CountOK
    <2>9. ASSUME NEW ok \in BOOLEAN, LockActionResult(ok) PROVE CountOK'
      BY <2>9, HappensType DEF LockActionResult, RetryCommResult, RetryAgain, CountOK, BoundedEvents
    <2>10. CASE FinishLockAction
      BY <2>10 DEF FinishLockAction, LeaveRetryComm, CountOK
    <2>11. CASE ReadDoorOverride
      BY <2>11 DEF ReadDoorOverride, CountOK
    <2>12. CASE ClearNetDoor
      BY <2>12 DEF ClearNetDoor, CountOK
    <2>13. CASE ApplyDoorOverride
      BY <2>13 DEF ApplyDoorOverride, CountOK
    <2>14. CASE ReadOffStatus
      BY <2>14 DEF ReadOffStatus, CountOK
    <2>15. CASE CheckLockStateUpdate
      BY <2>15 DEF CheckLockStateUpdate, EnterRetryComm, CountOK
    <2>16. ASSUME NEW ok \in BOOLEAN, RequestKeyTurnerState(ok) PROVE CountOK'
      BY <2>16, HappensType DEF RequestKeyTurnerState, RetryCommResult, RetryAgain, CountOK,
         BoundedEvents
    <2>17. CASE StoreLockState
      BY <2>17 DEF StoreLockState, LeaveRetryComm, KeepUpdating, CountOK
    <2>18. CASE CheckQueries
      BY <2>18 DEF CheckQueries, CountOK
    <2>19. CASE DispatchGpio
      BY <2>19 DEF DispatchGpio, CountOK
    <2>20. CASE SetGpioOffCommand
      BY <2>20 DEF SetGpioOffCommand, CountOK
    <2>21. CASE ClearGpioAction
      BY <2>21 DEF ClearGpioAction, CountOK
    <2>22. QED
      BY <1>5, <2>1, <2>2, <2>3, <2>4, <2>5, <2>6, <2>7, <2>8, <2>9, <2>10, <2>11, <2>12, <2>13,
         <2>14, <2>15, <2>16, <2>17, <2>18, <2>19, <2>20, <2>21 DEF NukiTask
  <1>6. CASE UNCHANGED vars
    BY <1>6 DEF vars, CountOK
  <1>7. QED
    BY <1>1, <1>2, <1>3, <1>4, <1>5, <1>6 DEF Next

\* The types are preserved; AttemptsInv bounds retryComm's counter.
LEMMA NextTypeOK == TypeOK /\ AttemptsInv /\ [Next]_vars => TypeOK'
  <1> SUFFICES ASSUME TypeOK, AttemptsInv, [Next]_vars PROVE TypeOK'
    OBVIOUS
  <1>c. CountOK'
    BY NextCount DEF TypeOK
  <1> USE <1>c, ActionsAssumption, SettingsAssumption
          DEF TypeOK, CommandTypes, RadioTypes, StatusTypes, HistoryTypes, MaybeAction,
              NukiTaskSteps, GpioEvents, AttemptsInv
  <1>1. CASE MqttClient
    <2>1. ASSUME NEW v \in Actions \cup {UnknownWord}, OnLockActionReceived(v) PROVE TypeOK'
      <3>1. CASE RejectLockAction(v)
        BY <2>1, <3>1 DEF OnLockActionReceived, RejectLockAction
      <3>2. CASE AcceptForBle(v)
        BY <2>1, <3>2 DEF OnLockActionReceived, AcceptForBle
      <3>3. CASE AcceptForOfficial(v)
        BY <2>1, <3>3 DEF OnLockActionReceived, AcceptForOfficial
      <3>4. CASE AcceptWithRetry(v)
        BY <2>1, <3>4 DEF OnLockActionReceived, AcceptWithRetry
      <3>5. QED
        BY <2>1, <3>1, <3>2, <3>3, <3>4 DEF OnLockActionReceived
    <2>2. ASSUME NEW q \in Queries, OnQueryReceived(q) PROVE TypeOK'
      BY <2>2 DEF OnQueryReceived
    <2>3. ASSUME NEW d \in DoorRequests, OnDoorOverrideReceived(d) PROVE TypeOK'
      BY <2>3 DEF OnDoorOverrideReceived
    <2>4. ASSUME NEW b \in BOOLEAN, OfficialConnected(b) PROVE TypeOK'
      BY <2>4 DEF OfficialConnected
    <2>5. CASE OfficialState
      BY <2>5 DEF OfficialState
    <2>6. CASE OfficialDoorsensorState
      BY <2>6 DEF OfficialDoorsensorState
    <2>7. ASSUME NEW ok \in BOOLEAN, OfficialCommandResponse(ok) PROVE TypeOK'
      <3>1. owed' \in [act: MaybeAction, failed: BOOLEAN]
        BY <2>7, Zenon DEF OfficialCommandResponse, Answered, NothingOwed, Owes
      <3>2. CommandTypes'
        BY <2>7 DEF OfficialCommandResponse
      <3>3. RadioTypes'
        BY <2>7 DEF OfficialCommandResponse
      <3>4. StatusTypes'
        BY <2>7 DEF OfficialCommandResponse
      <3>5. HistoryTypes'
        BY <2>7, <3>1 DEF OfficialCommandResponse
      <3>6. QED
        BY <1>c, <3>2, <3>3, <3>4, <3>5 DEF TypeOK
    <2>8. CASE OfficialLockActionEvent
      <3>a. ASSUME official' = NoAction, Answered(TRUE)
            PROVE  owed' \in [act: MaybeAction, failed: BOOLEAN] /\ official' \in MaybeAction
        <4>1. owed' \in [act: MaybeAction, failed: BOOLEAN]
          BY <3>a, Zenon DEF Answered, NothingOwed, Owes
        <4>2. QED
          BY <3>a, <4>1
      <3>b. ASSUME UNCHANGED <<official, owed>>
            PROVE  owed' \in [act: MaybeAction, failed: BOOLEAN] /\ official' \in MaybeAction
        BY <3>b
      <3>e. \/ official' = NoAction /\ Answered(TRUE)
            \/ UNCHANGED <<official, owed>>
        BY <2>8, Zenon DEF OfficialLockActionEvent
      <3>f. /\ UNCHANGED <<pc, mqttVars, nextLockAction, offCommand, offConnected, gpioAction,
                           gpioRead>>
            /\ offTs' = "zero"
        BY <2>8, Zenon DEF OfficialLockActionEvent, OfficialFrame
      <3>1. owed' \in [act: MaybeAction, failed: BOOLEAN] /\ official' \in MaybeAction
        BY <3>a, <3>b, <3>e
      <3>2. CommandTypes'
        BY <3>1, <3>f DEF mqttVars
      <3>3. RadioTypes'
        BY <2>8 DEF OfficialLockActionEvent
      <3>4. StatusTypes'
        BY <2>8 DEF OfficialLockActionEvent
      <3>5. HistoryTypes'
        BY <2>8, <3>1 DEF OfficialLockActionEvent
      <3>6. QED
        BY <1>c, <3>2, <3>3, <3>4, <3>5 DEF TypeOK
    <2>9. QED
      BY <1>1, <2>1, <2>2, <2>3, <2>4, <2>5, <2>6, <2>7, <2>8 DEF MqttClient
  <1>2. CASE MqttContinues
    <2>1. CASE SetOffCommand
      BY <2>1 DEF SetOffCommand, Owes
    <2>2. CASE StoreQuery
      BY <2>2 DEF StoreQuery
    <2>3. QED
      BY <1>2, <2>1, <2>2 DEF MqttContinues
  <1>3. CASE TimePasses
    <2>1. CASE OffTsDue
      BY <2>1 DEF OffTsDue
    <2>2. CASE StateTimerDue
      BY <2>2 DEF StateTimerDue
    <2>3. ASSUME NEW q \in Queries, QueryTimerDue(q) PROVE TypeOK'
      BY <2>3 DEF QueryTimerDue
    <2>4. CASE WindowCloses
      <3>1. CommandTypes'
        BY <2>4 DEF WindowCloses
      <3>2. RadioTypes'
        BY <2>4 DEF WindowCloses
      <3>3. StatusTypes'
        BY <2>4 DEF WindowCloses
      <3>4. HistoryTypes'
        BY <2>4 DEF WindowCloses
      <3>5. QED
        BY <1>c, <3>1, <3>2, <3>3, <3>4 DEF TypeOK
    <2>5. QED
      BY <1>3, <2>1, <2>2, <2>3, <2>4 DEF TimePasses
  <1>4. CASE World
    <2>1. ASSUME NEW e \in GpioEvents, OnGpioActionReceived(e) PROVE TypeOK'
      BY <2>1 DEF OnGpioActionReceived
    <2>2. CASE NotifyStatusUpdated
      <3>1. newSignal' \in 0..NewSignalLimit
        BY <2>2 DEF NotifyStatusUpdated
      <3>2. StatusTypes'
        BY <2>2, <3>1, Zenon DEF NotifyStatusUpdated
      <3>3. CommandTypes'
        BY <2>2 DEF NotifyStatusUpdated
      <3>4. RadioTypes'
        BY <2>2 DEF NotifyStatusUpdated
      <3>5. HistoryTypes'
        BY <2>2 DEF NotifyStatusUpdated
      <3>6. QED
        BY <1>c, <3>2, <3>3, <3>4, <3>5 DEF TypeOK
    <2>3. CASE NotifyStatusReset
      BY <2>3 DEF NotifyStatusReset
    <2>4. ASSUME NEW s \in LockStates, DeviceMoves(s) PROVE TypeOK'
      BY <2>4 DEF DeviceMoves
    <2>5. CASE LinkUp
      BY <2>5 DEF LinkUp
    <2>6. CASE LinkDown
      BY <2>6 DEF LinkDown
    <2>7. QED
      BY <1>4, <2>1, <2>2, <2>3, <2>4, <2>5, <2>6 DEF World
  <1>5. CASE NukiTask
    <2>1. CASE BeginUpdate
      BY <2>1 DEF BeginUpdate
    <2>2. CASE ClearQueries
      BY <2>2 DEF ClearQueries
    <2>3. CASE ReadOffTs
      BY <2>3 DEF ReadOffTs
    <2>4. CASE CompareOffTs
      BY <2>4 DEF CompareOffTs
    <2>5. CASE TakeOffCommand
      BY <2>5 DEF TakeOffCommand
    <2>6. CASE ClearOffTs
      BY <2>6 DEF ClearOffTs
    <2>7. CASE CheckNextLockAction
      <3>1. attempts' \in 0..NrOfRetries + 1
        BY <2>7 DEF CheckNextLockAction, EnterRetryComm
      <3>2. RadioTypes'
        BY <2>7, <3>1, Zenon DEF CheckNextLockAction, EnterRetryComm
      <3>3. CommandTypes'
        BY <2>7 DEF CheckNextLockAction, EnterRetryComm
      <3>4. StatusTypes'
        BY <2>7 DEF CheckNextLockAction, EnterRetryComm
      <3>5. HistoryTypes'
        BY <2>7 DEF CheckNextLockAction, EnterRetryComm
      <3>6. QED
        BY <1>c, <3>2, <3>3, <3>4, <3>5 DEF TypeOK
    <2>8. CASE SendLockAction
      BY <2>8 DEF SendLockAction, NothingOwed, Owes
    <2>9. ASSUME NEW ok \in BOOLEAN, LockActionResult(ok) PROVE TypeOK'
      <3>1. attempts' \in 0..NrOfRetries + 1
        BY <2>9 DEF LockActionResult, RetryCommResult, RetryAgain
      <3>2. RadioTypes'
        BY <2>9, <3>1, Zenon DEF LockActionResult, RetryCommResult, RetryAgain
      <3>3. CommandTypes'
        BY <2>9 DEF LockActionResult, RetryCommResult, RetryAgain
      <3>4. StatusTypes'
        BY <2>9 DEF LockActionResult, RetryCommResult, RetryAgain
      <3>5. HistoryTypes'
        BY <2>9 DEF LockActionResult, RetryCommResult, RetryAgain
      <3>6. QED
        BY <1>c, <3>2, <3>3, <3>4, <3>5 DEF TypeOK
    <2>10. CASE FinishLockAction
      <3>1. attempts' \in 0..NrOfRetries + 1
        BY <2>10 DEF FinishLockAction, LeaveRetryComm
      <3>2. RadioTypes'
        BY <2>10, <3>1, Zenon DEF FinishLockAction, LeaveRetryComm
      <3>3. statusUpdated' \in BOOLEAN /\ window' \in BOOLEAN
        BY <2>10, Zenon DEF FinishLockAction, LeaveRetryComm
      <3>4. stateTimer' \in {"armed", "due"}
        BY <2>10 DEF FinishLockAction, LeaveRetryComm
      <3>5. StatusTypes'
        BY <2>10, <3>3, <3>4, Zenon DEF FinishLockAction, LeaveRetryComm
      <3>6. CommandTypes'
        BY <2>10 DEF FinishLockAction, LeaveRetryComm
      <3>7. HistoryTypes'
        BY <2>10 DEF FinishLockAction, LeaveRetryComm
      <3>8. QED
        BY <1>c, <3>2, <3>5, <3>6, <3>7 DEF TypeOK
    <2>11. CASE ReadDoorOverride
      BY <2>11 DEF ReadDoorOverride
    <2>12. CASE ClearNetDoor
      BY <2>12 DEF ClearNetDoor
    <2>13. CASE ApplyDoorOverride
      BY <2>13 DEF ApplyDoorOverride
    <2>14. CASE ReadOffStatus
      BY <2>14 DEF ReadOffStatus
    <2>15. CASE CheckLockStateUpdate
      <3>1. attempts' \in 0..NrOfRetries + 1
        BY <2>15 DEF CheckLockStateUpdate, EnterRetryComm
      <3>2. RadioTypes'
        BY <2>15, <3>1, Zenon DEF CheckLockStateUpdate, EnterRetryComm
      <3>3. CommandTypes'
        BY <2>15 DEF CheckLockStateUpdate, EnterRetryComm
      <3>4. StatusTypes'
        BY <2>15 DEF CheckLockStateUpdate, EnterRetryComm
      <3>5. HistoryTypes'
        BY <2>15 DEF CheckLockStateUpdate, EnterRetryComm
      <3>6. QED
        BY <1>c, <3>2, <3>3, <3>4, <3>5 DEF TypeOK
    <2>16. ASSUME NEW ok \in BOOLEAN, RequestKeyTurnerState(ok) PROVE TypeOK'
      <3>1. attempts' \in 0..NrOfRetries + 1
        BY <2>16 DEF RequestKeyTurnerState, RetryCommResult, RetryAgain
      <3>2. RadioTypes'
        BY <2>16, <3>1, Zenon DEF RequestKeyTurnerState, RetryCommResult, RetryAgain
      <3>3. CommandTypes'
        BY <2>16 DEF RequestKeyTurnerState, RetryCommResult, RetryAgain
      <3>4. StatusTypes'
        BY <2>16 DEF RequestKeyTurnerState, RetryCommResult, RetryAgain
      <3>5. HistoryTypes'
        BY <2>16 DEF RequestKeyTurnerState, RetryCommResult, RetryAgain
      <3>6. QED
        BY <1>c, <3>2, <3>3, <3>4, <3>5 DEF TypeOK
    <2>17. CASE StoreLockState
      <3>1. attempts' \in 0..NrOfRetries + 1
        BY <2>17 DEF StoreLockState, LeaveRetryComm, KeepUpdating
      <3>2. RadioTypes'
        BY <2>17, <3>1, Zenon DEF StoreLockState, LeaveRetryComm, KeepUpdating
      <3>3. statusUpdated' \in BOOLEAN /\ window' \in BOOLEAN
        BY <2>17, Zenon DEF StoreLockState, LeaveRetryComm, KeepUpdating
      <3>5. published' \in LockStates \cup {"undefined"}
        BY <2>17 DEF StoreLockState, LeaveRetryComm, KeepUpdating
      <3>6. StatusTypes'
        BY <2>17, <3>3, <3>5, Zenon DEF StoreLockState, LeaveRetryComm, KeepUpdating
      <3>7. CommandTypes'
        BY <2>17 DEF StoreLockState, LeaveRetryComm, KeepUpdating
      <3>8. HistoryTypes'
        BY <2>17 DEF StoreLockState, LeaveRetryComm, KeepUpdating
      <3>9. QED
        BY <1>c, <3>2, <3>6, <3>7, <3>8 DEF TypeOK
    <2>18. CASE CheckQueries
      BY <2>18 DEF CheckQueries
    <2>19. CASE DispatchGpio
      BY <2>19 DEF DispatchGpio
    <2>20. CASE SetGpioOffCommand
      BY <2>20 DEF SetGpioOffCommand, Owes
    <2>21. CASE ClearGpioAction
      BY <2>21 DEF ClearGpioAction
    <2>22. QED
      BY <1>5, <2>1, <2>2, <2>3, <2>4, <2>5, <2>6, <2>7, <2>8, <2>9, <2>10, <2>11, <2>12, <2>13,
         <2>14, <2>15, <2>16, <2>17, <2>18, <2>19, <2>20, <2>21 DEF NukiTask
  <1>6. CASE UNCHANGED vars
    BY <1>6 DEF vars
  <1>7. QED
    BY <1>1, <1>2, <1>3, <1>4, <1>5, <1>6 DEF Next

\* retryComm makes another attempt only below the limit.
LEMMA NextAttempts == TypeOK /\ AttemptsInv /\ [Next]_vars => AttemptsInv'
  <1> SUFFICES ASSUME TypeOK, AttemptsInv, [Next]_vars PROVE AttemptsInv'
    OBVIOUS
  <1> USE SettingsAssumption DEF TypeOK, RadioTypes, AttemptsInv
  <1>1. CASE MqttClient
    <2>1. ASSUME NEW v \in Actions \cup {UnknownWord}, OnLockActionReceived(v) PROVE AttemptsInv'
      BY <2>1 DEF OnLockActionReceived, RejectLockAction, AcceptForBle,
                  AcceptForOfficial, AcceptWithRetry
    <2>2. ASSUME NEW q \in Queries, OnQueryReceived(q) PROVE AttemptsInv'
      BY <2>2 DEF OnQueryReceived
    <2>3. ASSUME NEW d \in DoorRequests, OnDoorOverrideReceived(d) PROVE AttemptsInv'
      BY <2>3 DEF OnDoorOverrideReceived
    <2>4. ASSUME NEW b \in BOOLEAN, OfficialConnected(b) PROVE AttemptsInv'
      BY <2>4 DEF OfficialConnected
    <2>5. CASE OfficialState
      BY <2>5 DEF OfficialState
    <2>6. CASE OfficialDoorsensorState
      BY <2>6 DEF OfficialDoorsensorState
    <2>7. ASSUME NEW ok \in BOOLEAN, OfficialCommandResponse(ok) PROVE AttemptsInv'
      BY <2>7 DEF OfficialCommandResponse, Answered
    <2>8. CASE OfficialLockActionEvent
      BY <2>8 DEF OfficialLockActionEvent, Answered
    <2>9. QED
      BY <1>1, <2>1, <2>2, <2>3, <2>4, <2>5, <2>6, <2>7, <2>8 DEF MqttClient
  <1>2. CASE MqttContinues
    <2>1. CASE SetOffCommand
      BY <2>1 DEF SetOffCommand
    <2>2. CASE StoreQuery
      BY <2>2 DEF StoreQuery
    <2>3. QED
      BY <1>2, <2>1, <2>2 DEF MqttContinues
  <1>3. CASE TimePasses
    <2>1. CASE OffTsDue
      BY <2>1 DEF OffTsDue
    <2>2. CASE StateTimerDue
      BY <2>2 DEF StateTimerDue
    <2>3. ASSUME NEW q \in Queries, QueryTimerDue(q) PROVE AttemptsInv'
      BY <2>3 DEF QueryTimerDue
    <2>4. CASE WindowCloses
      BY <2>4 DEF WindowCloses
    <2>5. QED
      BY <1>3, <2>1, <2>2, <2>3, <2>4 DEF TimePasses
  <1>4. CASE World
    <2>1. ASSUME NEW e \in GpioEvents, OnGpioActionReceived(e) PROVE AttemptsInv'
      BY <2>1 DEF OnGpioActionReceived
    <2>2. CASE NotifyStatusUpdated
      BY <2>2 DEF NotifyStatusUpdated
    <2>3. CASE NotifyStatusReset
      BY <2>3 DEF NotifyStatusReset
    <2>4. ASSUME NEW s \in LockStates, DeviceMoves(s) PROVE AttemptsInv'
      BY <2>4 DEF DeviceMoves
    <2>5. CASE LinkUp
      BY <2>5 DEF LinkUp
    <2>6. CASE LinkDown
      BY <2>6 DEF LinkDown
    <2>7. QED
      BY <1>4, <2>1, <2>2, <2>3, <2>4, <2>5, <2>6 DEF World
  <1>5. CASE NukiTask
    <2>1. CASE BeginUpdate
      BY <2>1 DEF BeginUpdate
    <2>2. CASE ClearQueries
      BY <2>2 DEF ClearQueries
    <2>3. CASE ReadOffTs
      BY <2>3 DEF ReadOffTs
    <2>4. CASE CompareOffTs
      BY <2>4 DEF CompareOffTs
    <2>5. CASE TakeOffCommand
      BY <2>5 DEF TakeOffCommand
    <2>6. CASE ClearOffTs
      BY <2>6 DEF ClearOffTs
    <2>7. CASE CheckNextLockAction
      BY <2>7 DEF CheckNextLockAction, EnterRetryComm
    <2>8. CASE SendLockAction
      BY <2>8 DEF SendLockAction
    <2>9. ASSUME NEW ok \in BOOLEAN, LockActionResult(ok) PROVE AttemptsInv'
      BY <2>9 DEF LockActionResult, RetryCommResult, RetryAgain
    <2>10. CASE FinishLockAction
      BY <2>10 DEF FinishLockAction, LeaveRetryComm
    <2>11. CASE ReadDoorOverride
      BY <2>11 DEF ReadDoorOverride
    <2>12. CASE ClearNetDoor
      BY <2>12 DEF ClearNetDoor
    <2>13. CASE ApplyDoorOverride
      BY <2>13 DEF ApplyDoorOverride
    <2>14. CASE ReadOffStatus
      BY <2>14 DEF ReadOffStatus
    <2>15. CASE CheckLockStateUpdate
      BY <2>15 DEF CheckLockStateUpdate, EnterRetryComm
    <2>16. ASSUME NEW ok \in BOOLEAN, RequestKeyTurnerState(ok) PROVE AttemptsInv'
      BY <2>16 DEF RequestKeyTurnerState, RetryCommResult, RetryAgain
    <2>17. CASE StoreLockState
      BY <2>17 DEF StoreLockState, LeaveRetryComm, KeepUpdating
    <2>18. CASE CheckQueries
      BY <2>18 DEF CheckQueries
    <2>19. CASE DispatchGpio
      BY <2>19 DEF DispatchGpio
    <2>20. CASE SetGpioOffCommand
      BY <2>20 DEF SetGpioOffCommand
    <2>21. CASE ClearGpioAction
      BY <2>21 DEF ClearGpioAction
    <2>22. QED
      BY <1>5, <2>1, <2>2, <2>3, <2>4, <2>5, <2>6, <2>7, <2>8, <2>9, <2>10, <2>11, <2>12, <2>13,
         <2>14, <2>15, <2>16, <2>17, <2>18, <2>19, <2>20, <2>21 DEF NukiTask
  <1>6. CASE UNCHANGED vars
    BY <1>6 DEF vars
  <1>7. QED
    BY <1>1, <1>2, <1>3, <1>4, <1>5, <1>6 DEF Next

\* Requested actions are all that flows.
LEMMA NextFlow == TypeOK /\ FlowInv /\ [Next]_vars => FlowInv'
  <1> SUFFICES ASSUME TypeOK, FlowInv, [Next]_vars PROVE FlowInv'
    OBVIOUS
  <1> USE ActionsAssumption DEF TypeOK, CommandTypes, HistoryTypes, MaybeAction,
          GpioEvents, FlowInv, InRound
  <1>1. CASE MqttClient
    <2>1. ASSUME NEW v \in Actions \cup {UnknownWord}, OnLockActionReceived(v) PROVE FlowInv'
      BY <2>1 DEF OnLockActionReceived, RejectLockAction, AcceptForBle,
                  AcceptForOfficial, AcceptWithRetry
    <2>2. ASSUME NEW q \in Queries, OnQueryReceived(q) PROVE FlowInv'
      BY <2>2 DEF OnQueryReceived
    <2>3. ASSUME NEW d \in DoorRequests, OnDoorOverrideReceived(d) PROVE FlowInv'
      BY <2>3 DEF OnDoorOverrideReceived
    <2>4. ASSUME NEW b \in BOOLEAN, OfficialConnected(b) PROVE FlowInv'
      BY <2>4 DEF OfficialConnected
    <2>5. CASE OfficialState
      BY <2>5 DEF OfficialState
    <2>6. CASE OfficialDoorsensorState
      BY <2>6 DEF OfficialDoorsensorState
    <2>7. ASSUME NEW ok \in BOOLEAN, OfficialCommandResponse(ok) PROVE FlowInv'
      BY <2>7 DEF OfficialCommandResponse, Answered
    <2>8. CASE OfficialLockActionEvent
      BY <2>8 DEF OfficialLockActionEvent, Answered
    <2>9. QED
      BY <1>1, <2>1, <2>2, <2>3, <2>4, <2>5, <2>6, <2>7, <2>8 DEF MqttClient
  <1>2. CASE MqttContinues
    <2>1. CASE SetOffCommand
      BY <2>1 DEF SetOffCommand
    <2>2. CASE StoreQuery
      BY <2>2 DEF StoreQuery
    <2>3. QED
      BY <1>2, <2>1, <2>2 DEF MqttContinues
  <1>3. CASE TimePasses
    <2>1. CASE OffTsDue
      BY <2>1 DEF OffTsDue
    <2>2. CASE StateTimerDue
      BY <2>2 DEF StateTimerDue
    <2>3. ASSUME NEW q \in Queries, QueryTimerDue(q) PROVE FlowInv'
      BY <2>3 DEF QueryTimerDue
    <2>4. CASE WindowCloses
      BY <2>4 DEF WindowCloses
    <2>5. QED
      BY <1>3, <2>1, <2>2, <2>3, <2>4 DEF TimePasses
  <1>4. CASE World
    <2>1. ASSUME NEW e \in GpioEvents, OnGpioActionReceived(e) PROVE FlowInv'
      BY <2>1 DEF OnGpioActionReceived
    <2>2. CASE NotifyStatusUpdated
      BY <2>2 DEF NotifyStatusUpdated
    <2>3. CASE NotifyStatusReset
      BY <2>3 DEF NotifyStatusReset
    <2>4. ASSUME NEW s \in LockStates, DeviceMoves(s) PROVE FlowInv'
      BY <2>4 DEF DeviceMoves
    <2>5. CASE LinkUp
      BY <2>5 DEF LinkUp
    <2>6. CASE LinkDown
      BY <2>6 DEF LinkDown
    <2>7. QED
      BY <1>4, <2>1, <2>2, <2>3, <2>4, <2>5, <2>6 DEF World
  <1>5. CASE NukiTask
    <2>1. CASE BeginUpdate
      BY <2>1 DEF BeginUpdate
    <2>2. CASE ClearQueries
      BY <2>2 DEF ClearQueries
    <2>3. CASE ReadOffTs
      BY <2>3 DEF ReadOffTs
    <2>4. CASE CompareOffTs
      BY <2>4 DEF CompareOffTs
    <2>5. CASE TakeOffCommand
      BY <2>5 DEF TakeOffCommand
    <2>6. CASE ClearOffTs
      BY <2>6 DEF ClearOffTs
    <2>7. CASE CheckNextLockAction
      BY <2>7 DEF CheckNextLockAction, EnterRetryComm
    <2>8. CASE SendLockAction
      BY <2>8 DEF SendLockAction
    <2>9. ASSUME NEW ok \in BOOLEAN, LockActionResult(ok) PROVE FlowInv'
      BY <2>9 DEF LockActionResult, RetryCommResult, RetryAgain
    <2>10. CASE FinishLockAction
      BY <2>10 DEF FinishLockAction, LeaveRetryComm
    <2>11. CASE ReadDoorOverride
      BY <2>11 DEF ReadDoorOverride
    <2>12. CASE ClearNetDoor
      BY <2>12 DEF ClearNetDoor
    <2>13. CASE ApplyDoorOverride
      BY <2>13 DEF ApplyDoorOverride
    <2>14. CASE ReadOffStatus
      BY <2>14 DEF ReadOffStatus
    <2>15. CASE CheckLockStateUpdate
      BY <2>15 DEF CheckLockStateUpdate, EnterRetryComm
    <2>16. ASSUME NEW ok \in BOOLEAN, RequestKeyTurnerState(ok) PROVE FlowInv'
      BY <2>16 DEF RequestKeyTurnerState, RetryCommResult, RetryAgain
    <2>17. CASE StoreLockState
      BY <2>17 DEF StoreLockState, LeaveRetryComm, KeepUpdating
    <2>18. CASE CheckQueries
      BY <2>18 DEF CheckQueries
    <2>19. CASE DispatchGpio
      BY <2>19 DEF DispatchGpio
    <2>20. CASE SetGpioOffCommand
      BY <2>20 DEF SetGpioOffCommand
    <2>21. CASE ClearGpioAction
      BY <2>21 DEF ClearGpioAction
    <2>22. QED
      BY <1>5, <2>1, <2>2, <2>3, <2>4, <2>5, <2>6, <2>7, <2>8, <2>9, <2>10, <2>11, <2>12, <2>13,
         <2>14, <2>15, <2>16, <2>17, <2>18, <2>19, <2>20, <2>21 DEF NukiTask
  <1>6. CASE UNCHANGED vars
    BY <1>6 DEF vars
  <1>7. QED
    BY <1>1, <1>2, <1>3, <1>4, <1>5, <1>6 DEF Next

\* Every command is paid for by a request.
LEMMA NextToken == TypeOK /\ TokenInv /\ [Next]_vars => TokenInv'
  <1> SUFFICES ASSUME TypeOK, TokenInv, [Next]_vars PROVE TokenInv'
    OBVIOUS
  <1> USE ActionsAssumption DEF TypeOK, CommandTypes, HistoryTypes, TokenInv, SlotToken,
          RetryToken, PressToken, InRound
  <1>1. CASE MqttClient
    <2>1. ASSUME NEW v \in Actions \cup {UnknownWord}, OnLockActionReceived(v) PROVE TokenInv'
      <3>1. CASE RejectLockAction(v)
        BY <2>1, <3>1 DEF OnLockActionReceived, RejectLockAction
      <3>2. CASE AcceptForBle(v)
        BY <2>1, <3>2 DEF OnLockActionReceived, AcceptForBle
      <3>3. CASE AcceptForOfficial(v)
        BY <2>1, <3>3 DEF OnLockActionReceived, AcceptForOfficial
      <3>4. CASE AcceptWithRetry(v)
        BY <2>1, <3>4 DEF OnLockActionReceived, AcceptWithRetry
      <3>5. QED
        BY <2>1, <3>1, <3>2, <3>3, <3>4 DEF OnLockActionReceived
    <2>2. ASSUME NEW q \in Queries, OnQueryReceived(q) PROVE TokenInv'
      BY <2>2 DEF OnQueryReceived
    <2>3. ASSUME NEW d \in DoorRequests, OnDoorOverrideReceived(d) PROVE TokenInv'
      BY <2>3 DEF OnDoorOverrideReceived
    <2>4. ASSUME NEW b \in BOOLEAN, OfficialConnected(b) PROVE TokenInv'
      BY <2>4 DEF OfficialConnected
    <2>5. CASE OfficialState
      BY <2>5 DEF OfficialState
    <2>6. CASE OfficialDoorsensorState
      BY <2>6 DEF OfficialDoorsensorState
    <2>7. ASSUME NEW ok \in BOOLEAN, OfficialCommandResponse(ok) PROVE TokenInv'
      BY <2>7 DEF OfficialCommandResponse, Answered
    <2>8. CASE OfficialLockActionEvent
      BY <2>8 DEF OfficialLockActionEvent, Answered
    <2>9. QED
      BY <1>1, <2>1, <2>2, <2>3, <2>4, <2>5, <2>6, <2>7, <2>8 DEF MqttClient
  <1>2. CASE MqttContinues
    <2>1. CASE SetOffCommand
      BY <2>1 DEF SetOffCommand
    <2>2. CASE StoreQuery
      BY <2>2 DEF StoreQuery
    <2>3. QED
      BY <1>2, <2>1, <2>2 DEF MqttContinues
  <1>3. CASE TimePasses
    <2>1. CASE OffTsDue
      BY <2>1 DEF OffTsDue
    <2>2. CASE StateTimerDue
      BY <2>2 DEF StateTimerDue
    <2>3. ASSUME NEW q \in Queries, QueryTimerDue(q) PROVE TokenInv'
      BY <2>3 DEF QueryTimerDue
    <2>4. CASE WindowCloses
      BY <2>4 DEF WindowCloses
    <2>5. QED
      BY <1>3, <2>1, <2>2, <2>3, <2>4 DEF TimePasses
  <1>4. CASE World
    <2>1. ASSUME NEW e \in GpioEvents, OnGpioActionReceived(e) PROVE TokenInv'
      BY <2>1 DEF OnGpioActionReceived
    <2>2. CASE NotifyStatusUpdated
      BY <2>2 DEF NotifyStatusUpdated
    <2>3. CASE NotifyStatusReset
      BY <2>3 DEF NotifyStatusReset
    <2>4. ASSUME NEW s \in LockStates, DeviceMoves(s) PROVE TokenInv'
      BY <2>4 DEF DeviceMoves
    <2>5. CASE LinkUp
      BY <2>5 DEF LinkUp
    <2>6. CASE LinkDown
      BY <2>6 DEF LinkDown
    <2>7. QED
      BY <1>4, <2>1, <2>2, <2>3, <2>4, <2>5, <2>6 DEF World
  <1>5. CASE NukiTask
    <2>1. CASE BeginUpdate
      BY <2>1 DEF BeginUpdate
    <2>2. CASE ClearQueries
      BY <2>2 DEF ClearQueries
    <2>3. CASE ReadOffTs
      BY <2>3 DEF ReadOffTs
    <2>4. CASE CompareOffTs
      BY <2>4 DEF CompareOffTs
    <2>5. CASE TakeOffCommand
      BY <2>5 DEF TakeOffCommand
    <2>6. CASE ClearOffTs
      BY <2>6 DEF ClearOffTs
    <2>7. CASE CheckNextLockAction
      BY <2>7 DEF CheckNextLockAction, EnterRetryComm
    <2>8. CASE SendLockAction
      BY <2>8 DEF SendLockAction
    <2>9. ASSUME NEW ok \in BOOLEAN, LockActionResult(ok) PROVE TokenInv'
      BY <2>9 DEF LockActionResult, RetryCommResult, RetryAgain
    <2>10. CASE FinishLockAction
      BY <2>10 DEF FinishLockAction, LeaveRetryComm
    <2>11. CASE ReadDoorOverride
      BY <2>11 DEF ReadDoorOverride
    <2>12. CASE ClearNetDoor
      BY <2>12 DEF ClearNetDoor
    <2>13. CASE ApplyDoorOverride
      BY <2>13 DEF ApplyDoorOverride
    <2>14. CASE ReadOffStatus
      BY <2>14 DEF ReadOffStatus
    <2>15. CASE CheckLockStateUpdate
      BY <2>15 DEF CheckLockStateUpdate, EnterRetryComm
    <2>16. ASSUME NEW ok \in BOOLEAN, RequestKeyTurnerState(ok) PROVE TokenInv'
      BY <2>16 DEF RequestKeyTurnerState, RetryCommResult, RetryAgain
    <2>17. CASE StoreLockState
      BY <2>17 DEF StoreLockState, LeaveRetryComm, KeepUpdating
    <2>18. CASE CheckQueries
      BY <2>18 DEF CheckQueries
    <2>19. CASE DispatchGpio
      BY <2>19 DEF DispatchGpio
    <2>20. CASE SetGpioOffCommand
      BY <2>20 DEF SetGpioOffCommand
    <2>21. CASE ClearGpioAction
      BY <2>21 DEF ClearGpioAction
    <2>22. QED
      BY <1>5, <2>1, <2>2, <2>3, <2>4, <2>5, <2>6, <2>7, <2>8, <2>9, <2>10, <2>11, <2>12, <2>13,
         <2>14, <2>15, <2>16, <2>17, <2>18, <2>19, <2>20, <2>21 DEF NukiTask
  <1>6. CASE UNCHANGED vars
    BY <1>6 DEF vars
  <1>7. QED
    BY <1>1, <1>2, <1>3, <1>4, <1>5, <1>6 DEF Next

\* Whatever way the retry loops end, they clean up.
LEMMA NextQuiet == TypeOK /\ QuietInv /\ [Next]_vars => QuietInv'
  <1> SUFFICES ASSUME TypeOK, QuietInv, [Next]_vars PROVE QuietInv'
    OBVIOUS
  <1> USE DEF QuietInv, InRound
  <1>1. CASE MqttClient
    <2>1. ASSUME NEW v \in Actions \cup {UnknownWord}, OnLockActionReceived(v) PROVE QuietInv'
      BY <2>1 DEF OnLockActionReceived, RejectLockAction, AcceptForBle,
                  AcceptForOfficial, AcceptWithRetry
    <2>2. ASSUME NEW q \in Queries, OnQueryReceived(q) PROVE QuietInv'
      BY <2>2 DEF OnQueryReceived
    <2>3. ASSUME NEW d \in DoorRequests, OnDoorOverrideReceived(d) PROVE QuietInv'
      BY <2>3 DEF OnDoorOverrideReceived
    <2>4. ASSUME NEW b \in BOOLEAN, OfficialConnected(b) PROVE QuietInv'
      BY <2>4 DEF OfficialConnected
    <2>5. CASE OfficialState
      BY <2>5 DEF OfficialState
    <2>6. CASE OfficialDoorsensorState
      BY <2>6 DEF OfficialDoorsensorState
    <2>7. ASSUME NEW ok \in BOOLEAN, OfficialCommandResponse(ok) PROVE QuietInv'
      BY <2>7 DEF OfficialCommandResponse, Answered
    <2>8. CASE OfficialLockActionEvent
      BY <2>8 DEF OfficialLockActionEvent, Answered
    <2>9. QED
      BY <1>1, <2>1, <2>2, <2>3, <2>4, <2>5, <2>6, <2>7, <2>8 DEF MqttClient
  <1>2. CASE MqttContinues
    <2>1. CASE SetOffCommand
      BY <2>1 DEF SetOffCommand
    <2>2. CASE StoreQuery
      BY <2>2 DEF StoreQuery
    <2>3. QED
      BY <1>2, <2>1, <2>2 DEF MqttContinues
  <1>3. CASE TimePasses
    <2>1. CASE OffTsDue
      BY <2>1 DEF OffTsDue
    <2>2. CASE StateTimerDue
      BY <2>2 DEF StateTimerDue
    <2>3. ASSUME NEW q \in Queries, QueryTimerDue(q) PROVE QuietInv'
      BY <2>3 DEF QueryTimerDue
    <2>4. CASE WindowCloses
      BY <2>4 DEF WindowCloses
    <2>5. QED
      BY <1>3, <2>1, <2>2, <2>3, <2>4 DEF TimePasses
  <1>4. CASE World
    <2>1. ASSUME NEW e \in GpioEvents, OnGpioActionReceived(e) PROVE QuietInv'
      BY <2>1 DEF OnGpioActionReceived
    <2>2. CASE NotifyStatusUpdated
      BY <2>2 DEF NotifyStatusUpdated
    <2>3. CASE NotifyStatusReset
      BY <2>3 DEF NotifyStatusReset
    <2>4. ASSUME NEW s \in LockStates, DeviceMoves(s) PROVE QuietInv'
      BY <2>4 DEF DeviceMoves
    <2>5. CASE LinkUp
      BY <2>5 DEF LinkUp
    <2>6. CASE LinkDown
      BY <2>6 DEF LinkDown
    <2>7. QED
      BY <1>4, <2>1, <2>2, <2>3, <2>4, <2>5, <2>6 DEF World
  <1>5. CASE NukiTask
    <2>1. CASE BeginUpdate
      BY <2>1 DEF BeginUpdate
    <2>2. CASE ClearQueries
      BY <2>2 DEF ClearQueries
    <2>3. CASE ReadOffTs
      BY <2>3 DEF ReadOffTs
    <2>4. CASE CompareOffTs
      BY <2>4 DEF CompareOffTs
    <2>5. CASE TakeOffCommand
      BY <2>5 DEF TakeOffCommand
    <2>6. CASE ClearOffTs
      BY <2>6 DEF ClearOffTs
    <2>7. CASE CheckNextLockAction
      BY <2>7 DEF CheckNextLockAction, EnterRetryComm
    <2>8. CASE SendLockAction
      BY <2>8 DEF SendLockAction
    <2>9. ASSUME NEW ok \in BOOLEAN, LockActionResult(ok) PROVE QuietInv'
      BY <2>9 DEF LockActionResult, RetryCommResult, RetryAgain
    <2>10. CASE FinishLockAction
      BY <2>10 DEF FinishLockAction, LeaveRetryComm
    <2>11. CASE ReadDoorOverride
      BY <2>11 DEF ReadDoorOverride
    <2>12. CASE ClearNetDoor
      BY <2>12 DEF ClearNetDoor
    <2>13. CASE ApplyDoorOverride
      BY <2>13 DEF ApplyDoorOverride
    <2>14. CASE ReadOffStatus
      BY <2>14 DEF ReadOffStatus
    <2>15. CASE CheckLockStateUpdate
      BY <2>15 DEF CheckLockStateUpdate, EnterRetryComm
    <2>16. ASSUME NEW ok \in BOOLEAN, RequestKeyTurnerState(ok) PROVE QuietInv'
      BY <2>16 DEF RequestKeyTurnerState, RetryCommResult, RetryAgain
    <2>17. CASE StoreLockState
      BY <2>17 DEF StoreLockState, LeaveRetryComm, KeepUpdating
    <2>18. CASE CheckQueries
      BY <2>18 DEF CheckQueries
    <2>19. CASE DispatchGpio
      BY <2>19 DEF DispatchGpio
    <2>20. CASE SetGpioOffCommand
      BY <2>20 DEF SetGpioOffCommand
    <2>21. CASE ClearGpioAction
      BY <2>21 DEF ClearGpioAction
    <2>22. QED
      BY <1>5, <2>1, <2>2, <2>3, <2>4, <2>5, <2>6, <2>7, <2>8, <2>9, <2>10, <2>11, <2>12, <2>13,
         <2>14, <2>15, <2>16, <2>17, <2>18, <2>19, <2>20, <2>21 DEF NukiTask
  <1>6. CASE UNCHANGED vars
    BY <1>6 DEF vars
  <1>7. QED
    BY <1>1, <1>2, <1>3, <1>4, <1>5, <1>6 DEF Next

\* Whenever nukiTask takes _offCommand there is one.
LEMMA NextRetry == TypeOK /\ RetryInv /\ [Next]_vars => RetryInv'
  <1> SUFFICES ASSUME TypeOK, RetryInv, [Next]_vars PROVE RetryInv'
    OBVIOUS
  <1> USE ActionsAssumption DEF TypeOK, CommandTypes, RetryInv
  <1>1. CASE MqttClient
    <2>1. ASSUME NEW v \in Actions \cup {UnknownWord}, OnLockActionReceived(v)
          PROVE  RetryInv'
      BY <2>1 DEF OnLockActionReceived, RejectLockAction, AcceptForBle,
                  AcceptForOfficial, AcceptWithRetry
    <2>2. ASSUME NEW q \in Queries, OnQueryReceived(q) PROVE RetryInv'
      BY <2>2 DEF OnQueryReceived
    <2>3. ASSUME NEW d \in DoorRequests, OnDoorOverrideReceived(d) PROVE RetryInv'
      BY <2>3 DEF OnDoorOverrideReceived
    <2>4. ASSUME NEW b \in BOOLEAN, OfficialConnected(b) PROVE RetryInv'
      BY <2>4 DEF OfficialConnected
    <2>5. CASE OfficialState
      BY <2>5 DEF OfficialState
    <2>6. CASE OfficialDoorsensorState
      BY <2>6 DEF OfficialDoorsensorState
    <2>7. ASSUME NEW ok \in BOOLEAN, OfficialCommandResponse(ok) PROVE RetryInv'
      BY <2>7 DEF OfficialCommandResponse, Answered
    <2>8. CASE OfficialLockActionEvent
      BY <2>8 DEF OfficialLockActionEvent, Answered
    <2>9. QED
      BY <1>1, <2>1, <2>2, <2>3, <2>4, <2>5, <2>6, <2>7, <2>8 DEF MqttClient
  <1>2. CASE MqttContinues
    <2>1. CASE SetOffCommand
      BY <2>1 DEF SetOffCommand
    <2>2. CASE StoreQuery
      BY <2>2 DEF StoreQuery
    <2>3. QED
      BY <1>2, <2>1, <2>2 DEF MqttContinues
  <1>3. CASE TimePasses
    <2>1. CASE OffTsDue
      BY <2>1 DEF OffTsDue
    <2>2. CASE StateTimerDue
      BY <2>2 DEF StateTimerDue
    <2>3. ASSUME NEW q \in Queries, QueryTimerDue(q) PROVE RetryInv'
      BY <2>3 DEF QueryTimerDue
    <2>4. CASE WindowCloses
      BY <2>4 DEF WindowCloses
    <2>5. QED
      BY <1>3, <2>1, <2>2, <2>3, <2>4 DEF TimePasses
  <1>4. CASE World
    <2>1. ASSUME NEW e \in GpioEvents, OnGpioActionReceived(e) PROVE RetryInv'
      BY <2>1 DEF OnGpioActionReceived
    <2>2. CASE NotifyStatusUpdated
      BY <2>2 DEF NotifyStatusUpdated
    <2>3. CASE NotifyStatusReset
      BY <2>3 DEF NotifyStatusReset
    <2>4. ASSUME NEW s \in LockStates, DeviceMoves(s) PROVE RetryInv'
      BY <2>4 DEF DeviceMoves
    <2>5. CASE LinkUp
      BY <2>5 DEF LinkUp
    <2>6. CASE LinkDown
      BY <2>6 DEF LinkDown
    <2>7. QED
      BY <1>4, <2>1, <2>2, <2>3, <2>4, <2>5, <2>6 DEF World
  <1>5. CASE NukiTask
    <2>1. CASE BeginUpdate
      BY <2>1 DEF BeginUpdate
    <2>2. CASE ClearQueries
      BY <2>2 DEF ClearQueries
    <2>3. CASE ReadOffTs
      BY <2>3 DEF ReadOffTs
    <2>4. CASE CompareOffTs
      BY <2>4 DEF CompareOffTs
    <2>5. CASE TakeOffCommand
      BY <2>5 DEF TakeOffCommand
    <2>6. CASE ClearOffTs
      BY <2>6 DEF ClearOffTs
    <2>7. CASE CheckNextLockAction
      BY <2>7 DEF CheckNextLockAction, EnterRetryComm
    <2>8. CASE SendLockAction
      BY <2>8 DEF SendLockAction
    <2>9. ASSUME NEW ok \in BOOLEAN, LockActionResult(ok) PROVE RetryInv'
      BY <2>9 DEF LockActionResult, RetryCommResult, RetryAgain
    <2>10. CASE FinishLockAction
      BY <2>10 DEF FinishLockAction, LeaveRetryComm
    <2>11. CASE ReadDoorOverride
      BY <2>11 DEF ReadDoorOverride
    <2>12. CASE ClearNetDoor
      BY <2>12 DEF ClearNetDoor
    <2>13. CASE ApplyDoorOverride
      BY <2>13 DEF ApplyDoorOverride
    <2>14. CASE ReadOffStatus
      BY <2>14 DEF ReadOffStatus
    <2>15. CASE CheckLockStateUpdate
      BY <2>15 DEF CheckLockStateUpdate, EnterRetryComm
    <2>16. ASSUME NEW ok \in BOOLEAN, RequestKeyTurnerState(ok) PROVE RetryInv'
      BY <2>16 DEF RequestKeyTurnerState, RetryCommResult, RetryAgain
    <2>17. CASE StoreLockState
      BY <2>17 DEF StoreLockState, LeaveRetryComm, KeepUpdating
    <2>18. CASE CheckQueries
      BY <2>18 DEF CheckQueries
    <2>19. CASE DispatchGpio
      BY <2>19 DEF DispatchGpio
    <2>20. CASE SetGpioOffCommand
      BY <2>20 DEF SetGpioOffCommand
    <2>21. CASE ClearGpioAction
      BY <2>21 DEF ClearGpioAction
    <2>22. QED
      BY <1>5, <2>1, <2>2, <2>3, <2>4, <2>5, <2>6, <2>7, <2>8, <2>9, <2>10, <2>11, <2>12, <2>13,
         <2>14, <2>15, <2>16, <2>17, <2>18, <2>19, <2>20, <2>21 DEF NukiTask
  <1>6. CASE UNCHANGED vars
    BY <1>6 DEF vars
  <1>7. QED
    BY <1>1, <1>2, <1>3, <1>4, <1>5, <1>6 DEF Next

\* The inductive invariant holds in every reachable state: whatever the ACL,
\* the pins, the number of retries and the interleaving of nukiTask with the
\* MQTT client, the GPIO timer and the BLE notifications.
THEOREM Invariance == Spec => []IInv
  <1>1. Init => IInv
    BY InitIInv
  <1>2. IInv /\ [Next]_vars => IInv'
    BY NextTypeOK, NextAttempts, NextFlow, NextToken, NextRetry, NextQuiet DEF IInv
  <1>3. QED
    BY <1>1, <1>2, PTL DEF Spec

\* Every field keeps its type, retryComm's counter its bound.
THEOREM TypeCorrect == Spec => []TypeOK
  <1>1. IInv => TypeOK
    BY DEF IInv
  <1>2. QED
    BY <1>1, Invariance, PTL

\* No BLE exchange carries an action nobody was allowed to ask for.
THEOREM OnlyRequestedIsSent == Spec => []SentWasRequested
  <1>1. IInv => SentWasRequested
    BY DEF IInv, FlowInv, SentWasRequested
  <1>2. QED
    BY <1>1, Invariance, PTL

\* A request is worth one BLE command at most.
THEOREM NoCommandTwice == Spec => []OneRoundPerRequest
  <1>1. IInv => OneRoundPerRequest
    BY DEF IInv, TypeOK, HistoryTypes, TokenInv, SlotToken, RetryToken, PressToken,
           OneRoundPerRequest
  <1>2. QED
    BY <1>1, Invariance, PTL

\* Pins and retry topic are clean outside retryComm.
THEOREM RadioCleansUp == Spec => []RadioIdleIsVisible
  <1>1. IInv => RadioIdleIsVisible
    BY DEF IInv, QuietInv, RadioIdleIsVisible
  <1>2. QED
    BY <1>1, Invariance, PTL

\* Outside a command a stored action stays until another takes its place.
ActionKept == nextLockAction \in Actions /\ pc \notin InRound => nextLockAction' \in Actions

\* nukiTask takes only an existing _offCommand, and empties the slot in
\* FinishLockAction alone.
LEMMA NextKept == ASSUME IInv, Next PROVE ActionKept
  <1> USE ActionsAssumption DEF ActionKept
  <1>1. CASE MqttClient
    <2>1. ASSUME NEW v \in Actions \cup {UnknownWord}, OnLockActionReceived(v)
          PROVE  ActionKept
      BY <2>1 DEF OnLockActionReceived, RejectLockAction, AcceptForBle, AcceptForOfficial,
                  AcceptWithRetry
    <2>2. ASSUME NEW q \in Queries, OnQueryReceived(q) PROVE ActionKept
      BY <2>2 DEF OnQueryReceived
    <2>3. ASSUME NEW d \in DoorRequests, OnDoorOverrideReceived(d) PROVE ActionKept
      BY <2>3 DEF OnDoorOverrideReceived
    <2>4. ASSUME NEW b \in BOOLEAN, OfficialConnected(b) \/ OfficialCommandResponse(b)
          PROVE  ActionKept
      BY <2>4 DEF OfficialConnected, OfficialCommandResponse
    <2>5. CASE OfficialState \/ OfficialDoorsensorState \/ OfficialLockActionEvent
      BY <2>5 DEF OfficialState, OfficialDoorsensorState, OfficialLockActionEvent
    <2>6. QED
      BY <1>1, <2>1, <2>2, <2>3, <2>4, <2>5 DEF MqttClient
  <1>2. CASE MqttContinues
    BY <1>2 DEF MqttContinues, SetOffCommand, StoreQuery
  <1>3. CASE TimePasses
    BY <1>3 DEF TimePasses, OffTsDue, StateTimerDue, QueryTimerDue, WindowCloses
  <1>4. CASE World
    BY <1>4 DEF World, OnGpioActionReceived, NotifyStatusUpdated, NotifyStatusReset,
                DeviceMoves, LinkUp, LinkDown
  <1>5. CASE NukiTask
    <2>1. CASE TakeOffCommand
      BY <2>1 DEF TakeOffCommand, IInv, RetryInv
    <2>2. CASE FinishLockAction
      BY <2>2 DEF FinishLockAction, InRound
    <2>3. CASE DispatchGpio
      BY <2>3 DEF DispatchGpio
    <2>4. CASE \/ BeginUpdate \/ ClearQueries \/ ReadOffTs \/ CompareOffTs \/ ClearOffTs
               \/ CheckNextLockAction \/ SendLockAction
               \/ \E ok \in BOOLEAN : LockActionResult(ok)
      BY <2>4 DEF BeginUpdate, ClearQueries, ReadOffTs, CompareOffTs, ClearOffTs,
                  CheckNextLockAction, SendLockAction, LockActionResult
    <2>5. CASE \/ ReadDoorOverride \/ ClearNetDoor \/ ApplyDoorOverride
               \/ ReadOffStatus \/ CheckLockStateUpdate \/ StoreLockState
               \/ \E ok \in BOOLEAN : RequestKeyTurnerState(ok)
      BY <2>5 DEF ReadDoorOverride, ClearNetDoor, ApplyDoorOverride, ReadOffStatus,
                  CheckLockStateUpdate, StoreLockState, RequestKeyTurnerState
    <2>6. CASE CheckQueries \/ SetGpioOffCommand \/ ClearGpioAction
      BY <2>6 DEF CheckQueries, SetGpioOffCommand, ClearGpioAction
    <2>7. QED
      BY <1>5, <2>1, <2>2, <2>3, <2>4, <2>5, <2>6 DEF NukiTask
  <1>6. QED
    BY <1>1, <1>2, <1>3, <1>4, <1>5 DEF Next

\* An action that waits in _nextLockAction while no command is in progress is
\* never dropped: neither the hybrid retry nor a pin stores 0xff over it.
THEOREM PendingActionKept == Spec => [][ActionKept]_vars
  <1>1. IInv /\ [Next]_vars => [ActionKept]_vars
    BY NextKept
  <1>2. QED
    BY <1>1, Invariance, PTL DEF Spec

\* A step of the wrapper is a step of the ledger or leaves it alone.
LEMMA NextLedger == IInv /\ [Next]_vars => [Ledger!Next]_(Ledger!ledgerVars)
  <1> SUFFICES ASSUME IInv, [Next]_vars
               PROVE  Ledger!Next \/ UNCHANGED <<requests, rounds, pc \in InRound, retryTopic>>
    BY DEF Ledger!ledgerVars
  <1>1. CASE MqttClient
    <2>1. ASSUME NEW v \in Actions \cup {UnknownWord}, OnLockActionReceived(v)
         PROVE  Ledger!Request \/ UNCHANGED <<requests, rounds, pc \in InRound, retryTopic>>
      BY <2>1 DEF OnLockActionReceived, RejectLockAction, AcceptForBle,
                  AcceptForOfficial, AcceptWithRetry, InRound, Ledger!Request
    <2>2. ASSUME NEW q \in Queries, OnQueryReceived(q)
         PROVE  UNCHANGED <<requests, rounds, pc \in InRound, retryTopic>>
      BY <2>2 DEF OnQueryReceived, InRound
    <2>3. ASSUME NEW d \in DoorRequests, OnDoorOverrideReceived(d)
         PROVE  UNCHANGED <<requests, rounds, pc \in InRound, retryTopic>>
      BY <2>3 DEF OnDoorOverrideReceived, InRound
    <2>4. ASSUME NEW b \in BOOLEAN, OfficialConnected(b)
         PROVE  UNCHANGED <<requests, rounds, pc \in InRound, retryTopic>>
      BY <2>4 DEF OfficialConnected, InRound
    <2>5. ASSUME OfficialState
         PROVE  UNCHANGED <<requests, rounds, pc \in InRound, retryTopic>>
      BY <2>5 DEF OfficialState, InRound
    <2>6. ASSUME OfficialDoorsensorState
         PROVE  UNCHANGED <<requests, rounds, pc \in InRound, retryTopic>>
      BY <2>6 DEF OfficialDoorsensorState, InRound
    <2>7. ASSUME NEW ok \in BOOLEAN, OfficialCommandResponse(ok)
         PROVE  UNCHANGED <<requests, rounds, pc \in InRound, retryTopic>>
      BY <2>7 DEF OfficialCommandResponse, InRound
    <2>8. ASSUME OfficialLockActionEvent
         PROVE  UNCHANGED <<requests, rounds, pc \in InRound, retryTopic>>
      BY <2>8 DEF OfficialLockActionEvent, InRound
    <2>9. QED
      BY <1>1, <2>1, <2>2, <2>3, <2>4, <2>5, <2>6, <2>7, <2>8 DEF MqttClient, Ledger!Next
  <1>2. CASE MqttContinues
    <2>1. ASSUME SetOffCommand
         PROVE  UNCHANGED <<requests, rounds, pc \in InRound, retryTopic>>
      BY <2>1 DEF SetOffCommand, InRound
    <2>2. ASSUME StoreQuery
         PROVE  UNCHANGED <<requests, rounds, pc \in InRound, retryTopic>>
      BY <2>2 DEF StoreQuery, InRound
    <2>3. QED
      BY <1>2, <2>1, <2>2 DEF MqttContinues, Ledger!Next
  <1>3. CASE TimePasses
    <2>1. ASSUME OffTsDue
         PROVE  UNCHANGED <<requests, rounds, pc \in InRound, retryTopic>>
      BY <2>1 DEF OffTsDue, InRound
    <2>2. ASSUME StateTimerDue
         PROVE  UNCHANGED <<requests, rounds, pc \in InRound, retryTopic>>
      BY <2>2 DEF StateTimerDue, InRound
    <2>3. ASSUME NEW q \in Queries, QueryTimerDue(q)
         PROVE  UNCHANGED <<requests, rounds, pc \in InRound, retryTopic>>
      BY <2>3 DEF QueryTimerDue, InRound
    <2>4. ASSUME WindowCloses
         PROVE  UNCHANGED <<requests, rounds, pc \in InRound, retryTopic>>
      BY <2>4 DEF WindowCloses, InRound
    <2>5. QED
      BY <1>3, <2>1, <2>2, <2>3, <2>4 DEF TimePasses, Ledger!Next
  <1>4. CASE World
    <2>1. ASSUME NEW e \in GpioEvents, OnGpioActionReceived(e)
         PROVE  Ledger!Request \/ UNCHANGED <<requests, rounds, pc \in InRound, retryTopic>>
      BY <2>1 DEF OnGpioActionReceived, InRound, Ledger!Request
    <2>2. ASSUME NotifyStatusUpdated
         PROVE  UNCHANGED <<requests, rounds, pc \in InRound, retryTopic>>
      BY <2>2 DEF NotifyStatusUpdated, InRound
    <2>3. ASSUME NotifyStatusReset
         PROVE  UNCHANGED <<requests, rounds, pc \in InRound, retryTopic>>
      BY <2>3 DEF NotifyStatusReset, InRound
    <2>4. ASSUME NEW s \in LockStates, DeviceMoves(s)
         PROVE  UNCHANGED <<requests, rounds, pc \in InRound, retryTopic>>
      BY <2>4 DEF DeviceMoves, InRound
    <2>5. ASSUME LinkUp
         PROVE  UNCHANGED <<requests, rounds, pc \in InRound, retryTopic>>
      BY <2>5 DEF LinkUp, InRound
    <2>6. ASSUME LinkDown
         PROVE  UNCHANGED <<requests, rounds, pc \in InRound, retryTopic>>
      BY <2>6 DEF LinkDown, InRound
    <2>7. QED
      BY <1>4, <2>1, <2>2, <2>3, <2>4, <2>5, <2>6 DEF World, Ledger!Next
  <1>5. CASE NukiTask
    <2>1. ASSUME BeginUpdate
         PROVE  UNCHANGED <<requests, rounds, pc \in InRound, retryTopic>>
      BY <2>1 DEF BeginUpdate, InRound
    <2>2. ASSUME ClearQueries
         PROVE  UNCHANGED <<requests, rounds, pc \in InRound, retryTopic>>
      BY <2>2 DEF ClearQueries, InRound
    <2>3. ASSUME ReadOffTs
         PROVE  UNCHANGED <<requests, rounds, pc \in InRound, retryTopic>>
      BY <2>3 DEF ReadOffTs, InRound
    <2>4. ASSUME CompareOffTs
         PROVE  UNCHANGED <<requests, rounds, pc \in InRound, retryTopic>>
      BY <2>4 DEF CompareOffTs, InRound
    <2>5. ASSUME TakeOffCommand
         PROVE  UNCHANGED <<requests, rounds, pc \in InRound, retryTopic>>
      BY <2>5 DEF TakeOffCommand, InRound
    <2>6. ASSUME ClearOffTs
         PROVE  UNCHANGED <<requests, rounds, pc \in InRound, retryTopic>>
      BY <2>6 DEF ClearOffTs, InRound
    <2>7. ASSUME CheckNextLockAction
         PROVE  Ledger!Start \/ UNCHANGED <<requests, rounds, pc \in InRound, retryTopic>>
      BY <2>7 DEF CheckNextLockAction, EnterRetryComm, InRound, Ledger!Start, IInv, TypeOK,
         CommandTypes, HistoryTypes, TokenInv, SlotToken,
                  RetryToken, PressToken
    <2>8. ASSUME SendLockAction
         PROVE  UNCHANGED <<requests, rounds, pc \in InRound, retryTopic>>
      BY <2>8 DEF SendLockAction, InRound
    <2>9. ASSUME NEW ok \in BOOLEAN, LockActionResult(ok)
         PROVE  Ledger!Retry \/ UNCHANGED <<requests, rounds, pc \in InRound, retryTopic>>
      BY <2>9 DEF LockActionResult, RetryCommResult, RetryAgain, InRound, Ledger!Retry
    <2>10. ASSUME FinishLockAction
         PROVE  Ledger!End \/ UNCHANGED <<requests, rounds, pc \in InRound, retryTopic>>
      BY <2>10 DEF FinishLockAction, LeaveRetryComm, InRound, Ledger!End
    <2>11. ASSUME ReadDoorOverride
         PROVE  UNCHANGED <<requests, rounds, pc \in InRound, retryTopic>>
      BY <2>11 DEF ReadDoorOverride, InRound
    <2>12. ASSUME ClearNetDoor
         PROVE  UNCHANGED <<requests, rounds, pc \in InRound, retryTopic>>
      BY <2>12 DEF ClearNetDoor, InRound
    <2>13. ASSUME ApplyDoorOverride
         PROVE  UNCHANGED <<requests, rounds, pc \in InRound, retryTopic>>
      BY <2>13 DEF ApplyDoorOverride, InRound
    <2>14. ASSUME ReadOffStatus
         PROVE  UNCHANGED <<requests, rounds, pc \in InRound, retryTopic>>
      BY <2>14 DEF ReadOffStatus, InRound
    <2>15. ASSUME CheckLockStateUpdate
         PROVE  UNCHANGED <<requests, rounds, pc \in InRound, retryTopic>>
      BY <2>15 DEF CheckLockStateUpdate, EnterRetryComm, InRound
    <2>16. ASSUME NEW ok \in BOOLEAN, RequestKeyTurnerState(ok)
         PROVE  UNCHANGED <<requests, rounds, pc \in InRound, retryTopic>>
      BY <2>16 DEF RequestKeyTurnerState, RetryCommResult, RetryAgain, InRound
    <2>17. ASSUME StoreLockState
         PROVE  UNCHANGED <<requests, rounds, pc \in InRound, retryTopic>>
      BY <2>17 DEF StoreLockState, LeaveRetryComm, KeepUpdating, InRound
    <2>18. ASSUME CheckQueries
         PROVE  UNCHANGED <<requests, rounds, pc \in InRound, retryTopic>>
      BY <2>18 DEF CheckQueries, InRound
    <2>19. ASSUME DispatchGpio
         PROVE  UNCHANGED <<requests, rounds, pc \in InRound, retryTopic>>
      BY <2>19 DEF DispatchGpio, InRound
    <2>20. ASSUME SetGpioOffCommand
         PROVE  UNCHANGED <<requests, rounds, pc \in InRound, retryTopic>>
      BY <2>20 DEF SetGpioOffCommand, InRound
    <2>21. ASSUME ClearGpioAction
         PROVE  UNCHANGED <<requests, rounds, pc \in InRound, retryTopic>>
      BY <2>21 DEF ClearGpioAction, InRound
    <2>22. QED
      BY <1>5, <2>1, <2>2, <2>3, <2>4, <2>5, <2>6, <2>7, <2>8, <2>9, <2>10, <2>11, <2>12, <2>13,
         <2>14, <2>15, <2>16, <2>17, <2>18, <2>19, <2>20, <2>21 DEF NukiTask, Ledger!Next
  <1>6. CASE UNCHANGED vars
    BY <1>6 DEF vars
  <1>7. QED
    BY <1>1, <1>2, <1>3, <1>4, <1>5, <1>6 DEF Next

\* The wrapper implements the ledger of commands: a request buys at most one
\* command, commands do not overlap, lock/retry tells about the current one.
THEOREM ImplementsLedger == Spec => LedgerSpec
  <1>1. Init => Ledger!Init
    BY DEF Init, Ledger!Init, InRound
  <1>2. QED
    BY <1>1, NextLedger, Invariance, PTL DEF Spec, LedgerSpec, Ledger!Spec

============================================================================
