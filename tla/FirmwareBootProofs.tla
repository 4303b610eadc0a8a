------------------------- MODULE FirmwareBootProofs -------------------------
(***************************************************************************)
(* Proofs about starting and updating, for every set of settings, every    *)
(* kind of Ethernet chip, every width and limit of the counter and any     *)
(* number of requests, crashes and lost connections: the types, and that   *)
(* the boot loader always finds an intact program.                         *)
(***************************************************************************)
EXTENDS FirmwareBoot, TLAPS

-----------------------------------------------------------------------------
(* The strengthening                                                       *)

(* A download is written only by an attempt that the limit allows.         *)
AttemptsInv == at = "write" => attempts < MaxAttempts

(* The web server's handlers run beside the tasks, and never in setup() or *)
(* beside otaTask, which writes the same partition.                        *)
HandlersInv == httpd # "idle" => at = "run"

(* The partition to start is the one that runs, and so the one that is not *)
(* written, until the chip has restarted: it is switched only when nothing *)
(* but the restart is left to do.                                          *)
PartitionInv == at # "off" /\ httpd # "restart" => boot = running

BootInv == BootTypeOK /\ AttemptsInv /\ HandlersInv /\ PartitionInv /\ BootableImage

-----------------------------------------------------------------------------
(* The counter                                                             *)

(* Whatever is counted, Int8 returns a value of the counter's width.       *)
LEMMA Int8Range ==
  ASSUME NEW n \in Int
  PROVE  Int8(n) \in -(CounterRange \div 2) .. CounterRange \div 2 - 1
<1>1. PICK half \in Nat : CounterRange = 2 * half /\ half > 0
  BY BootCounterAssumption
<1>2. CounterRange \div 2 = half
  BY <1>1
<1>3. (n + half) % CounterRange \in 0 .. 2 * half - 1
  BY <1>1
<1> QED BY <1>1, <1>2, <1>3 DEF Int8

(* Zero is one of its values.                                              *)
LEMMA ZeroInRange == 0 \in -(CounterRange \div 2) .. CounterRange \div 2 - 1
  BY BootCounterAssumption

-----------------------------------------------------------------------------
(* Types                                                                   *)

(* The three parts of BootTypeOK: flags, the counter, and the rest.         *)
FlagsOK == doOta \in BOOLEAN /\ connected \in BOOLEAN /\ webServer \in BOOLEAN

CounterOK == bootloopCounter \in -(CounterRange \div 2) .. CounterRange \div 2 - 1

ValuesOK ==
  /\ image \in [Images -> {"old", "new", "damaged"}]
  /\ boot \in Images /\ running \in Images
  /\ urls \subseteq Images
  /\ prefs \subseteq Settings \cup {"ethernet", "reconfigure", "wifi"}
  /\ rtc \subseteq {"wifiFallback", "disableNetwork", "forceEnableWebServer",
                    "ethCriticalFailure"}
  /\ at \in {"off", "device", "initialize", "tasks", "ota", "wait", "download", "write", "run"}
  /\ resetReason \in {"power", "software", "panic"}
  /\ device \in {"none", "wifi", "ap", "ethernet"}
  /\ age \in 0 .. 3 /\ attempts \in 0 .. MaxAttempts
  /\ httpd \in {"idle", "restart", "switch", "upload"}
  /\ requests \in 0 .. MaxRequests /\ faults \in 0 .. MaxFaults
  /\ update \in {"none", "clean", "disturbed"}

LEMMA BootTypeParts == BootTypeOK <=> FlagsOK /\ CounterOK /\ ValuesOK
  BY DEF BootTypeOK, FlagsOK, CounterOK, ValuesOK

(* A flag is only ever switched on or off.                                 *)
LEMMA NextFlags == FlagsOK /\ [Next]_vars => FlagsOK'
<1>0. SUFFICES ASSUME FlagsOK, [Next]_vars PROVE FlagsOK'
  OBVIOUS
<1> USE DEF FlagsOK, flash, chip, network, program, history
<1>1. CASE Setup
  <2>1. CASE Start
    BY <2>1, <1>0 DEF Start, KeptFlags, UpdateRequested
  <2>2. CASE SetupDevice
    BY <2>2, <1>0 DEF SetupDevice, Disturbed, Reset
  <2>3. CASE SkipInitialize
    BY <2>3, <1>0 DEF SkipInitialize
  <2>4. CASE InitializeWifi
    BY <2>4, <1>0 DEF InitializeWifi
  <2>5. CASE InitializeEthernet
    BY <2>5, <1>0 DEF InitializeEthernet, Reset, Disturbed, BeginMark
  <2>6. CASE StartTasks
    BY <2>6, <1>0 DEF StartTasks, atPortal, HubServes, UpdaterServes, networkDisabled, Disturbed
  <2> QED BY <1>1, <2>1, <2>2, <2>3, <2>4, <2>5, <2>6 DEF Setup
<1>2. CASE Ota
  <2>1. CASE TakeUrl
    BY <2>1, <1>0 DEF TakeUrl
  <2>2. CASE WaitForNetwork
    BY <2>2, <1>0 DEF WaitForNetwork
  <2>3. CASE DownloadBegins
    BY <2>3, <1>0 DEF DownloadBegins
  <2>4. CASE DownloadFails
    BY <2>4, <1>0 DEF DownloadFails
  <2>5. CASE DownloadEnds
    BY <2>5, <1>0 DEF DownloadEnds, Reset
  <2>6. CASE GiveUp
    BY <2>6, <1>0 DEF GiveUp, Reset, Disturbed, SetBootPartition
  <2> QED BY <1>2, <2>1, <2>2, <2>3, <2>4, <2>5, <2>6 DEF Ota
<1>3. CASE Tasks
  <2>1. CASE RestartTimer
    BY <2>1, <1>0 DEF RestartTimer, Reset, SetBootPartition
  <2>2. CASE NetworkLost
    BY <2>2, <1>0 DEF NetworkLost, Reset, Disturbed
  <2>3. CASE WifiConnectFails
    BY <2>3, <1>0 DEF WifiConnectFails, Reset, Disturbed
  <2>4. CASE MqttConnects
    BY <2>4, <1>0 DEF MqttConnects
  <2> QED BY <1>3, <2>1, <2>2, <2>3, <2>4 DEF Tasks
<1>4. CASE Httpd
  <2>1. CASE SwitchPartition
    BY <2>1, <1>0 DEF SwitchPartition, SetBootPartition
  <2>2. CASE UploadEnds
    BY <2>2, <1>0 DEF UploadEnds
  <2>3. CASE HandlerRestarts
    BY <2>3, <1>0 DEF HandlerRestarts, Reset, Disturbed
  <2> QED BY <1>4, <2>1, <2>2, <2>3 DEF Httpd
<1>5. CASE Users
  <2>1. CASE ProcessUpdate
    BY <2>1, <1>0 DEF ProcessUpdate, Request, Reachable
  <2>2. CASE UpdateCommand
    BY <2>2, <1>0 DEF UpdateCommand, Reset
  <2>3. CASE ResetCommand
    BY <2>3, <1>0 DEF ResetCommand, Reset, Disturbed
  <2>4. CASE RebootToOther
    BY <2>4, <1>0 DEF RebootToOther, Request, Reachable
  <2>5. CASE Upload
    BY <2>5, <1>0 DEF Upload, Request, Reachable, Disturbed
  <2>6. CASE ChangeSettings
    BY <2>6, <1>0 DEF ChangeSettings, Request, Reachable
  <2>7. CASE RequestReboot
    BY <2>7, <1>0 DEF RequestReboot, Request, Reachable
  <2>8. CASE ProcessWifi
    BY <2>8, <1>0 DEF ProcessWifi, Request, Reachable
  <2>9. CASE ReconfigureWifi
    BY <2>9, <1>0 DEF ReconfigureWifi, Request, Reachable
  <2> QED BY <1>5, <2>1, <2>2, <2>3, <2>4, <2>5, <2>6, <2>7, <2>8, <2>9 DEF Users
<1>6. CASE Faults
  <2>1. CASE Disconnect
    BY <2>1, <1>0 DEF Disconnect, Reset, Disturbed
  <2>2. CASE Crash("power")
    BY <2>2, <1>0 DEF Crash, Reset, Disturbed
  <2>3. CASE Crash("panic")
    BY <2>3, <1>0 DEF Crash, Reset, Disturbed
  <2>4. CASE BadSettingsCrash
    BY <2>4, <1>0 DEF BadSettingsCrash, Reset, Disturbed
  <2> QED BY <1>6, <2>1, <2>2, <2>3, <2>4 DEF Faults
<1>7. CASE WaitTooLong
  BY <1>7, <1>0 DEF WaitTooLong, Reset, Disturbed
<1>8. CASE Tick
  BY <1>8, <1>0 DEF Tick
<1>9. CASE Connect
  BY <1>9, <1>0 DEF Connect
<1>10. CASE UNCHANGED vars
  BY <1>10, <1>0 DEF vars
<1> QED BY <1>0, <1>1, <1>2, <1>3, <1>4, <1>5, <1>6, <1>7, <1>8, <1>9, <1>10 DEF Next

(* The counter is counted by the boot loop detection alone, in its width.  *)
LEMMA NextCounter == CounterOK /\ [Next]_vars => CounterOK'
<1>0. SUFFICES ASSUME CounterOK, [Next]_vars PROVE CounterOK'
  OBVIOUS
<1> USE DEF CounterOK, flash, chip, network, program, history
<1>1. CASE Setup
  <2>1. CASE Start
    <3>1. (boot = "main" /\ BootloopDetection) \/ UNCHANGED bootloopCounter
      BY <2>1 DEF Start
    <3>2. bootloopCounter + 1 \in Int
      BY <1>0, BootCounterAssumption
    <3>3. bootloopCounter' \in {0, Int8(bootloopCounter + 1), bootloopCounter}
      BY <3>1 DEF BootloopDetection
    <3> QED BY <1>0, <3>2, <3>3, ZeroInRange, Int8Range
  <2>2. CASE SetupDevice
    BY <2>2, <1>0 DEF SetupDevice, Disturbed, Reset
  <2>3. CASE SkipInitialize
    BY <2>3, <1>0 DEF SkipInitialize
  <2>4. CASE InitializeWifi
    BY <2>4, <1>0 DEF InitializeWifi
  <2>5. CASE InitializeEthernet
    BY <2>5, <1>0 DEF InitializeEthernet, Reset, Disturbed, BeginMark
  <2>6. CASE StartTasks
    BY <2>6, <1>0 DEF StartTasks, atPortal, HubServes, UpdaterServes, networkDisabled, Disturbed
  <2> QED BY <1>1, <2>1, <2>2, <2>3, <2>4, <2>5, <2>6 DEF Setup
<1>2. CASE Ota
  <2>1. CASE TakeUrl
    BY <2>1, <1>0 DEF TakeUrl
  <2>2. CASE WaitForNetwork
    BY <2>2, <1>0 DEF WaitForNetwork
  <2>3. CASE DownloadBegins
    BY <2>3, <1>0 DEF DownloadBegins
  <2>4. CASE DownloadFails
    BY <2>4, <1>0 DEF DownloadFails
  <2>5. CASE DownloadEnds
    BY <2>5, <1>0 DEF DownloadEnds, Reset
  <2>6. CASE GiveUp
    BY <2>6, <1>0 DEF GiveUp, Reset, Disturbed, SetBootPartition
  <2> QED BY <1>2, <2>1, <2>2, <2>3, <2>4, <2>5, <2>6 DEF Ota
<1>3. CASE Tasks
  <2>1. CASE RestartTimer
    BY <2>1, <1>0 DEF RestartTimer, Reset, SetBootPartition
  <2>2. CASE NetworkLost
    BY <2>2, <1>0 DEF NetworkLost, Reset, Disturbed
  <2>3. CASE WifiConnectFails
    BY <2>3, <1>0 DEF WifiConnectFails, Reset, Disturbed
  <2>4. CASE MqttConnects
    BY <2>4, <1>0 DEF MqttConnects
  <2> QED BY <1>3, <2>1, <2>2, <2>3, <2>4 DEF Tasks
<1>4. CASE Httpd
  <2>1. CASE SwitchPartition
    BY <2>1, <1>0 DEF SwitchPartition, SetBootPartition
  <2>2. CASE UploadEnds
    BY <2>2, <1>0 DEF UploadEnds
  <2>3. CASE HandlerRestarts
    BY <2>3, <1>0 DEF HandlerRestarts, Reset, Disturbed
  <2> QED BY <1>4, <2>1, <2>2, <2>3 DEF Httpd
<1>5. CASE Users
  <2>1. CASE ProcessUpdate
    BY <2>1, <1>0 DEF ProcessUpdate, Request, Reachable
  <2>2. CASE UpdateCommand
    BY <2>2, <1>0 DEF UpdateCommand, Reset
  <2>3. CASE ResetCommand
    BY <2>3, <1>0 DEF ResetCommand, Reset, Disturbed
  <2>4. CASE RebootToOther
    BY <2>4, <1>0 DEF RebootToOther, Request, Reachable
  <2>5. CASE Upload
    BY <2>5, <1>0 DEF Upload, Request, Reachable, Disturbed
  <2>6. CASE ChangeSettings
    BY <2>6, <1>0 DEF ChangeSettings, Request, Reachable
  <2>7. CASE RequestReboot
    BY <2>7, <1>0 DEF RequestReboot, Request, Reachable
  <2>8. CASE ProcessWifi
    BY <2>8, <1>0 DEF ProcessWifi, Request, Reachable
  <2>9. CASE ReconfigureWifi
    BY <2>9, <1>0 DEF ReconfigureWifi, Request, Reachable
  <2> QED BY <1>5, <2>1, <2>2, <2>3, <2>4, <2>5, <2>6, <2>7, <2>8, <2>9 DEF Users
<1>6. CASE Faults
  <2>1. CASE Disconnect
    BY <2>1, <1>0 DEF Disconnect, Reset, Disturbed
  <2>2. CASE Crash("power")
    BY <2>2, <1>0 DEF Crash, Reset, Disturbed
  <2>3. CASE Crash("panic")
    BY <2>3, <1>0 DEF Crash, Reset, Disturbed
  <2>4. CASE BadSettingsCrash
    BY <2>4, <1>0 DEF BadSettingsCrash, Reset, Disturbed
  <2> QED BY <1>6, <2>1, <2>2, <2>3, <2>4 DEF Faults
<1>7. CASE WaitTooLong
  BY <1>7, <1>0 DEF WaitTooLong, Reset, Disturbed
<1>8. CASE Tick
  BY <1>8, <1>0, ZeroInRange DEF Tick
<1>9. CASE Connect
  BY <1>9, <1>0 DEF Connect
<1>10. CASE UNCHANGED vars
  BY <1>10, <1>0 DEF vars
<1> QED BY <1>0, <1>1, <1>2, <1>3, <1>4, <1>5, <1>6, <1>7, <1>8, <1>9, <1>10 DEF Next

(* The number of attempts keeps its type as a download can only fail while *)
(* the limit allows one.                                                   *)
LEMMA NextValues == ValuesOK /\ AttemptsInv /\ [Next]_vars => ValuesOK'
<1>0. SUFFICES ASSUME ValuesOK, AttemptsInv, [Next]_vars PROVE ValuesOK'
  OBVIOUS
<1> USE BootSettingsAssumption, BootBoundsAssumption
     DEF ValuesOK, flash, chip, network, program, history, Images, Other
<1>1. CASE Setup
  <2>1. CASE Start
    <3>1. prefs' \in {prefs, SettingsReset}
      BY <2>1 DEF Start, BootloopDetection
    <3>2. SettingsReset \subseteq Settings \cup {"ethernet", "reconfigure", "wifi"}
      BY <1>0 DEF SettingsReset
    <3>3. prefs' \subseteq Settings \cup {"ethernet", "reconfigure", "wifi"}
      BY <1>0, <3>1, <3>2
    <3> QED BY <2>1, <1>0, <3>3 DEF Start, KeptFlags
  <2>2. CASE SetupDevice
    <3>1. /\ UNCHANGED <<image, boot, urls, prefs, running, requests, faults>>
          /\ rtc' \subseteq {"wifiFallback", "disableNetwork", "forceEnableWebServer",
                              "ethCriticalFailure"}
      BY <2>2, <1>0 DEF SetupDevice, Reset
    <3>2. CASE "wifiFallback" \in rtc /\ "reconfigure" \notin prefs
      BY <2>2, <1>0, <3>1, <3>2 DEF SetupDevice, Disturbed, Reset
    <3>3. CASE ~("wifiFallback" \in rtc /\ "reconfigure" \notin prefs)
      BY <2>2, <1>0, <3>1, <3>3 DEF SetupDevice
    <3> QED BY <3>2, <3>3
  <2>3. CASE SkipInitialize
    BY <2>3, <1>0 DEF SkipInitialize
  <2>4. CASE InitializeWifi
    BY <2>4, <1>0 DEF InitializeWifi
  <2>5. CASE InitializeEthernet
    <3>1. /\ UNCHANGED <<image, boot, urls, prefs, running, requests, faults>>
          /\ rtc' \subseteq {"wifiFallback", "disableNetwork", "forceEnableWebServer",
                              "ethCriticalFailure"}
      BY <2>5, <1>0 DEF InitializeEthernet, Reset, BeginMark
    <3>2. CASE Disturbed /\ \E reason \in {"software", "panic"} : Reset(reason)
      BY <1>0, <3>1, <3>2 DEF Disturbed, Reset
    <3>3. CASE at' = "tasks" /\ UNCHANGED <<resetReason, network, program, update>>
      BY <1>0, <3>1, <3>3
    <3> QED BY <2>5, <3>2, <3>3 DEF InitializeEthernet
  <2>6. CASE StartTasks
    BY <2>6, <1>0 DEF StartTasks, atPortal, HubServes, UpdaterServes, networkDisabled, Disturbed
  <2> QED BY <1>1, <2>1, <2>2, <2>3, <2>4, <2>5, <2>6 DEF Setup
<1>2. CASE Ota
  <2>1. CASE TakeUrl
    BY <2>1, <1>0 DEF TakeUrl
  <2>2. CASE WaitForNetwork
    BY <2>2, <1>0 DEF WaitForNetwork
  <2>3. CASE DownloadBegins
    BY <2>3, <1>0 DEF DownloadBegins
  <2>4. CASE DownloadFails
    BY <2>4, <1>0 DEF DownloadFails, AttemptsInv
  <2>5. CASE DownloadEnds
    BY <2>5, <1>0 DEF DownloadEnds, Reset
  <2>6. CASE GiveUp
    BY <2>6, <1>0 DEF GiveUp, Reset, Disturbed, SetBootPartition
  <2> QED BY <1>2, <2>1, <2>2, <2>3, <2>4, <2>5, <2>6 DEF Ota
<1>3. CASE Tasks
  <2>1. CASE RestartTimer
    BY <2>1, <1>0 DEF RestartTimer, Reset, SetBootPartition
  <2>2. CASE NetworkLost
    <3>1. /\ UNCHANGED <<image, boot, urls, prefs, requests, faults>>
          /\ rtc' \subseteq {"wifiFallback", "disableNetwork", "forceEnableWebServer",
                              "ethCriticalFailure"}
      BY <2>2, <1>0 DEF NetworkLost
    <3>2. Reset("software") /\ Disturbed
      BY <2>2 DEF NetworkLost
    <3> QED BY <1>0, <3>1, <3>2 DEF Reset, Disturbed
  <2>3. CASE WifiConnectFails
    BY <2>3, <1>0 DEF WifiConnectFails, Reset, Disturbed
  <2>4. CASE MqttConnects
    BY <2>4, <1>0 DEF MqttConnects
  <2> QED BY <1>3, <2>1, <2>2, <2>3, <2>4 DEF Tasks
<1>4. CASE Httpd
  <2>1. CASE SwitchPartition
    BY <2>1, <1>0 DEF SwitchPartition, SetBootPartition
  <2>2. CASE UploadEnds
    BY <2>2, <1>0 DEF UploadEnds
  <2>3. CASE HandlerRestarts
    BY <2>3, <1>0 DEF HandlerRestarts, Reset, Disturbed
  <2> QED BY <1>4, <2>1, <2>2, <2>3 DEF Httpd
<1>5. CASE Users
  <2>1. CASE ProcessUpdate
    BY <2>1, <1>0 DEF ProcessUpdate, Request, Reachable
  <2>2. CASE UpdateCommand
    BY <2>2, <1>0 DEF UpdateCommand, Reset
  <2>3. CASE ResetCommand
    BY <2>3, <1>0 DEF ResetCommand, Reset, Disturbed
  <2>4. CASE RebootToOther
    BY <2>4, <1>0 DEF RebootToOther, Request, Reachable
  <2>5. CASE Upload
    BY <2>5, <1>0 DEF Upload, Request, Reachable, Disturbed
  <2>6. CASE ChangeSettings
    <3>1. prefs' \subseteq Settings \cup {"ethernet", "reconfigure", "wifi"}
      BY <2>6, <1>0 DEF ChangeSettings
    <3>2. Request("idle") /\ UNCHANGED <<image, boot, urls, rtc, chip, device, age, attempts,
                                       faults, update>>
      BY <2>6 DEF ChangeSettings
    <3> QED BY <1>0, <3>1, <3>2 DEF Request
  <2>7. CASE RequestReboot
    BY <2>7, <1>0 DEF RequestReboot, Request, Reachable
  <2>8. CASE ProcessWifi
    BY <2>8, <1>0 DEF ProcessWifi, Request, Reachable
  <2>9. CASE ReconfigureWifi
    BY <2>9, <1>0 DEF ReconfigureWifi, Request, Reachable
  <2> QED BY <1>5, <2>1, <2>2, <2>3, <2>4, <2>5, <2>6, <2>7, <2>8, <2>9 DEF Users
<1>6. CASE Faults
  <2>1. CASE Disconnect
    BY <2>1, <1>0 DEF Disconnect, Reset, Disturbed
  <2>2. CASE Crash("power")
    BY <2>2, <1>0 DEF Crash, Reset, Disturbed
  <2>3. CASE Crash("panic")
    BY <2>3, <1>0 DEF Crash, Reset, Disturbed
  <2>4. CASE BadSettingsCrash
    BY <2>4, <1>0 DEF BadSettingsCrash, Reset, Disturbed
  <2> QED BY <1>6, <2>1, <2>2, <2>3, <2>4 DEF Faults
<1>7. CASE WaitTooLong
  BY <1>7, <1>0 DEF WaitTooLong, Reset, Disturbed
<1>8. CASE Tick
  BY <1>8, <1>0 DEF Tick
<1>9. CASE Connect
  BY <1>9, <1>0 DEF Connect
<1>10. CASE UNCHANGED vars
  BY <1>10, <1>0 DEF vars
<1> QED BY <1>0, <1>1, <1>2, <1>3, <1>4, <1>5, <1>6, <1>7, <1>8, <1>9, <1>10 DEF Next

LEMMA NextBootType == BootTypeOK /\ AttemptsInv /\ [Next]_vars => BootTypeOK'
<1>1. BootTypeOK' <=> FlagsOK' /\ CounterOK' /\ ValuesOK'
  BY DEF BootTypeOK, FlagsOK, CounterOK, ValuesOK
<1> QED BY <1>1, BootTypeParts, NextFlags, NextCounter, NextValues

-----------------------------------------------------------------------------
(* Attempts, handlers, partitions                                          *)

LEMMA NextAttempts == AttemptsInv /\ BootTypeOK /\ [Next]_vars => AttemptsInv'
<1>0. SUFFICES ASSUME AttemptsInv, BootTypeOK, [Next]_vars PROVE AttemptsInv'
  OBVIOUS
<1> USE DEF AttemptsInv, flash, chip, network, program, history
<1>1. CASE Setup
  <2>1. CASE Start
    BY <2>1, <1>0 DEF Start, KeptFlags, UpdateRequested
  <2>2. CASE SetupDevice
    BY <2>2, <1>0 DEF SetupDevice, Disturbed, Reset
  <2>3. CASE SkipInitialize
    BY <2>3, <1>0 DEF SkipInitialize
  <2>4. CASE InitializeWifi
    BY <2>4, <1>0 DEF InitializeWifi
  <2>5. CASE InitializeEthernet
    BY <2>5, <1>0 DEF InitializeEthernet, Reset, Disturbed, BeginMark
  <2>6. CASE StartTasks
    BY <2>6, <1>0 DEF StartTasks, atPortal, HubServes, UpdaterServes, networkDisabled, Disturbed
  <2> QED BY <1>1, <2>1, <2>2, <2>3, <2>4, <2>5, <2>6 DEF Setup
<1>2. CASE Ota
  <2>1. CASE TakeUrl
    BY <2>1, <1>0 DEF TakeUrl
  <2>2. CASE WaitForNetwork
    BY <2>2, <1>0 DEF WaitForNetwork
  <2>3. CASE DownloadBegins
    BY <2>3, <1>0 DEF DownloadBegins
  <2>4. CASE DownloadFails
    BY <2>4, <1>0 DEF DownloadFails
  <2>5. CASE DownloadEnds
    BY <2>5, <1>0 DEF DownloadEnds, Reset
  <2>6. CASE GiveUp
    BY <2>6, <1>0 DEF GiveUp, Reset, Disturbed, SetBootPartition
  <2> QED BY <1>2, <2>1, <2>2, <2>3, <2>4, <2>5, <2>6 DEF Ota
<1>3. CASE Tasks
  <2>1. CASE RestartTimer
    BY <2>1, <1>0 DEF RestartTimer, Reset, SetBootPartition
  <2>2. CASE NetworkLost
    BY <2>2, <1>0 DEF NetworkLost, Reset, Disturbed
  <2>3. CASE WifiConnectFails
    BY <2>3, <1>0 DEF WifiConnectFails, Reset, Disturbed
  <2>4. CASE MqttConnects
    BY <2>4, <1>0 DEF MqttConnects
  <2> QED BY <1>3, <2>1, <2>2, <2>3, <2>4 DEF Tasks
<1>4. CASE Httpd
  <2>1. CASE SwitchPartition
    BY <2>1, <1>0 DEF SwitchPartition, SetBootPartition
  <2>2. CASE UploadEnds
    BY <2>2, <1>0 DEF UploadEnds
  <2>3. CASE HandlerRestarts
    BY <2>3, <1>0 DEF HandlerRestarts, Reset, Disturbed
  <2> QED BY <1>4, <2>1, <2>2, <2>3 DEF Httpd
<1>5. CASE Users
  <2>1. CASE ProcessUpdate
    BY <2>1, <1>0 DEF ProcessUpdate, Request, Reachable
  <2>2. CASE UpdateCommand
    BY <2>2, <1>0 DEF UpdateCommand, Reset
  <2>3. CASE ResetCommand
    BY <2>3, <1>0 DEF ResetCommand, Reset, Disturbed
  <2>4. CASE RebootToOther
    BY <2>4, <1>0 DEF RebootToOther, Request, Reachable
  <2>5. CASE Upload
    BY <2>5, <1>0 DEF Upload, Request, Reachable, Disturbed
  <2>6. CASE ChangeSettings
    BY <2>6, <1>0 DEF ChangeSettings, Request, Reachable
  <2>7. CASE RequestReboot
    BY <2>7, <1>0 DEF RequestReboot, Request, Reachable
  <2>8. CASE ProcessWifi
    BY <2>8, <1>0 DEF ProcessWifi, Request, Reachable
  <2>9. CASE ReconfigureWifi
    BY <2>9, <1>0 DEF ReconfigureWifi, Request, Reachable
  <2> QED BY <1>5, <2>1, <2>2, <2>3, <2>4, <2>5, <2>6, <2>7, <2>8, <2>9 DEF Users
<1>6. CASE Faults
  <2>1. CASE Disconnect
    BY <2>1, <1>0 DEF Disconnect, Reset, Disturbed
  <2>2. CASE Crash("power")
    BY <2>2, <1>0 DEF Crash, Reset, Disturbed
  <2>3. CASE Crash("panic")
    BY <2>3, <1>0 DEF Crash, Reset, Disturbed
  <2>4. CASE BadSettingsCrash
    BY <2>4, <1>0 DEF BadSettingsCrash, Reset, Disturbed
  <2> QED BY <1>6, <2>1, <2>2, <2>3, <2>4 DEF Faults
<1>7. CASE WaitTooLong
  BY <1>7, <1>0 DEF WaitTooLong, Reset, Disturbed
<1>8. CASE Tick
  BY <1>8, <1>0 DEF Tick
<1>9. CASE Connect
  BY <1>9, <1>0 DEF Connect
<1>10. CASE UNCHANGED vars
  BY <1>10, <1>0 DEF vars
<1> QED BY <1>0, <1>1, <1>2, <1>3, <1>4, <1>5, <1>6, <1>7, <1>8, <1>9, <1>10 DEF Next

LEMMA NextHandlers == HandlersInv /\ [Next]_vars => HandlersInv'
<1>0. SUFFICES ASSUME HandlersInv, [Next]_vars PROVE HandlersInv'
  OBVIOUS
<1> USE DEF HandlersInv, flash, chip, network, program, history
<1>1. CASE Setup
  <2>1. CASE Start
    BY <2>1, <1>0 DEF Start, KeptFlags, UpdateRequested
  <2>2. CASE SetupDevice
    BY <2>2, <1>0 DEF SetupDevice, Disturbed, Reset
  <2>3. CASE SkipInitialize
    BY <2>3, <1>0 DEF SkipInitialize
  <2>4. CASE InitializeWifi
    BY <2>4, <1>0 DEF InitializeWifi
  <2>5. CASE InitializeEthernet
    BY <2>5, <1>0 DEF InitializeEthernet, Reset, Disturbed, BeginMark
  <2>6. CASE StartTasks
    BY <2>6, <1>0 DEF StartTasks, atPortal, HubServes, UpdaterServes, networkDisabled, Disturbed
  <2> QED BY <1>1, <2>1, <2>2, <2>3, <2>4, <2>5, <2>6 DEF Setup
<1>2. CASE Ota
  <2>1. CASE TakeUrl
    BY <2>1, <1>0 DEF TakeUrl
  <2>2. CASE WaitForNetwork
    BY <2>2, <1>0 DEF WaitForNetwork
  <2>3. CASE DownloadBegins
    BY <2>3, <1>0 DEF DownloadBegins
  <2>4. CASE DownloadFails
    BY <2>4, <1>0 DEF DownloadFails
  <2>5. CASE DownloadEnds
    BY <2>5, <1>0 DEF DownloadEnds, Reset
  <2>6. CASE GiveUp
    BY <2>6, <1>0 DEF GiveUp, Reset, Disturbed, SetBootPartition
  <2> QED BY <1>2, <2>1, <2>2, <2>3, <2>4, <2>5, <2>6 DEF Ota
<1>3. CASE Tasks
  <2>1. CASE RestartTimer
    BY <2>1, <1>0 DEF RestartTimer, Reset, SetBootPartition
  <2>2. CASE NetworkLost
    BY <2>2, <1>0 DEF NetworkLost, Reset, Disturbed
  <2>3. CASE WifiConnectFails
    BY <2>3, <1>0 DEF WifiConnectFails, Reset, Disturbed
  <2>4. CASE MqttConnects
    BY <2>4, <1>0 DEF MqttConnects
  <2> QED BY <1>3, <2>1, <2>2, <2>3, <2>4 DEF Tasks
<1>4. CASE Httpd
  <2>1. CASE SwitchPartition
    BY <2>1, <1>0 DEF SwitchPartition, SetBootPartition
  <2>2. CASE UploadEnds
    BY <2>2, <1>0 DEF UploadEnds
  <2>3. CASE HandlerRestarts
    BY <2>3, <1>0 DEF HandlerRestarts, Reset, Disturbed
  <2> QED BY <1>4, <2>1, <2>2, <2>3 DEF Httpd
<1>5. CASE Users
  <2>1. CASE ProcessUpdate
    BY <2>1, <1>0 DEF ProcessUpdate, Request, Reachable
  <2>2. CASE UpdateCommand
    BY <2>2, <1>0 DEF UpdateCommand, Reset
  <2>3. CASE ResetCommand
    BY <2>3, <1>0 DEF ResetCommand, Reset, Disturbed
  <2>4. CASE RebootToOther
    BY <2>4, <1>0 DEF RebootToOther, Request, Reachable
  <2>5. CASE Upload
    BY <2>5, <1>0 DEF Upload, Request, Reachable, Disturbed
  <2>6. CASE ChangeSettings
    BY <2>6, <1>0 DEF ChangeSettings, Request, Reachable
  <2>7. CASE RequestReboot
    BY <2>7, <1>0 DEF RequestReboot, Request, Reachable
  <2>8. CASE ProcessWifi
    BY <2>8, <1>0 DEF ProcessWifi, Request, Reachable
  <2>9. CASE ReconfigureWifi
    BY <2>9, <1>0 DEF ReconfigureWifi, Request, Reachable
  <2> QED BY <1>5, <2>1, <2>2, <2>3, <2>4, <2>5, <2>6, <2>7, <2>8, <2>9 DEF Users
<1>6. CASE Faults
  <2>1. CASE Disconnect
    BY <2>1, <1>0 DEF Disconnect, Reset, Disturbed
  <2>2. CASE Crash("power")
    BY <2>2, <1>0 DEF Crash, Reset, Disturbed
  <2>3. CASE Crash("panic")
    BY <2>3, <1>0 DEF Crash, Reset, Disturbed
  <2>4. CASE BadSettingsCrash
    BY <2>4, <1>0 DEF BadSettingsCrash, Reset, Disturbed
  <2> QED BY <1>6, <2>1, <2>2, <2>3, <2>4 DEF Faults
<1>7. CASE WaitTooLong
  BY <1>7, <1>0 DEF WaitTooLong, Reset, Disturbed
<1>8. CASE Tick
  BY <1>8, <1>0 DEF Tick
<1>9. CASE Connect
  BY <1>9, <1>0 DEF Connect
<1>10. CASE UNCHANGED vars
  BY <1>10, <1>0 DEF vars
<1> QED BY <1>0, <1>1, <1>2, <1>3, <1>4, <1>5, <1>6, <1>7, <1>8, <1>9, <1>10 DEF Next

LEMMA NextPartition == PartitionInv /\ HandlersInv /\ [Next]_vars => PartitionInv'
<1>0. SUFFICES ASSUME PartitionInv, HandlersInv, [Next]_vars PROVE PartitionInv'
  OBVIOUS
<1> USE DEF PartitionInv, HandlersInv, flash, chip, network, program, history
<1>1. CASE Setup
  <2>1. CASE Start
    BY <2>1, <1>0 DEF Start, KeptFlags, UpdateRequested
  <2>2. CASE SetupDevice
    BY <2>2, <1>0 DEF SetupDevice, Disturbed, Reset
  <2>3. CASE SkipInitialize
    BY <2>3, <1>0 DEF SkipInitialize
  <2>4. CASE InitializeWifi
    BY <2>4, <1>0 DEF InitializeWifi
  <2>5. CASE InitializeEthernet
    BY <2>5, <1>0 DEF InitializeEthernet, Reset, Disturbed, BeginMark
  <2>6. CASE StartTasks
    BY <2>6, <1>0 DEF StartTasks, atPortal, HubServes, UpdaterServes, networkDisabled, Disturbed
  <2> QED BY <1>1, <2>1, <2>2, <2>3, <2>4, <2>5, <2>6 DEF Setup
<1>2. CASE Ota
  <2>1. CASE TakeUrl
    BY <2>1, <1>0 DEF TakeUrl
  <2>2. CASE WaitForNetwork
    BY <2>2, <1>0 DEF WaitForNetwork
  <2>3. CASE DownloadBegins
    BY <2>3, <1>0 DEF DownloadBegins
  <2>4. CASE DownloadFails
    BY <2>4, <1>0 DEF DownloadFails
  <2>5. CASE DownloadEnds
    BY <2>5, <1>0 DEF DownloadEnds, Reset
  <2>6. CASE GiveUp
    BY <2>6, <1>0 DEF GiveUp, Reset, Disturbed, SetBootPartition
  <2> QED BY <1>2, <2>1, <2>2, <2>3, <2>4, <2>5, <2>6 DEF Ota
<1>3. CASE Tasks
  <2>1. CASE RestartTimer
    BY <2>1, <1>0 DEF RestartTimer, Reset, SetBootPartition
  <2>2. CASE NetworkLost
    BY <2>2, <1>0 DEF NetworkLost, Reset, Disturbed
  <2>3. CASE WifiConnectFails
    BY <2>3, <1>0 DEF WifiConnectFails, Reset, Disturbed
  <2>4. CASE MqttConnects
    BY <2>4, <1>0 DEF MqttConnects
  <2> QED BY <1>3, <2>1, <2>2, <2>3, <2>4 DEF Tasks
<1>4. CASE Httpd
  <2>1. CASE SwitchPartition
    BY <2>1, <1>0 DEF SwitchPartition, SetBootPartition
  <2>2. CASE UploadEnds
    BY <2>2, <1>0 DEF UploadEnds
  <2>3. CASE HandlerRestarts
    BY <2>3, <1>0 DEF HandlerRestarts, Reset, Disturbed
  <2> QED BY <1>4, <2>1, <2>2, <2>3 DEF Httpd
<1>5. CASE Users
  <2>1. CASE ProcessUpdate
    BY <2>1, <1>0 DEF ProcessUpdate, Request, Reachable
  <2>2. CASE UpdateCommand
    BY <2>2, <1>0 DEF UpdateCommand, Reset
  <2>3. CASE ResetCommand
    BY <2>3, <1>0 DEF ResetCommand, Reset, Disturbed
  <2>4. CASE RebootToOther
    BY <2>4, <1>0 DEF RebootToOther, Request, Reachable
  <2>5. CASE Upload
    BY <2>5, <1>0 DEF Upload, Request, Reachable, Disturbed
  <2>6. CASE ChangeSettings
    BY <2>6, <1>0 DEF ChangeSettings, Request, Reachable
  <2>7. CASE RequestReboot
    BY <2>7, <1>0 DEF RequestReboot, Request, Reachable
  <2>8. CASE ProcessWifi
    BY <2>8, <1>0 DEF ProcessWifi, Request, Reachable
  <2>9. CASE ReconfigureWifi
    BY <2>9, <1>0 DEF ReconfigureWifi, Request, Reachable
  <2> QED BY <1>5, <2>1, <2>2, <2>3, <2>4, <2>5, <2>6, <2>7, <2>8, <2>9 DEF Users
<1>6. CASE Faults
  <2>1. CASE Disconnect
    BY <2>1, <1>0 DEF Disconnect, Reset, Disturbed
  <2>2. CASE Crash("power")
    BY <2>2, <1>0 DEF Crash, Reset, Disturbed
  <2>3. CASE Crash("panic")
    BY <2>3, <1>0 DEF Crash, Reset, Disturbed
  <2>4. CASE BadSettingsCrash
    BY <2>4, <1>0 DEF BadSettingsCrash, Reset, Disturbed
  <2> QED BY <1>6, <2>1, <2>2, <2>3, <2>4 DEF Faults
<1>7. CASE WaitTooLong
  BY <1>7, <1>0 DEF WaitTooLong, Reset, Disturbed
<1>8. CASE Tick
  BY <1>8, <1>0 DEF Tick
<1>9. CASE Connect
  BY <1>9, <1>0 DEF Connect
<1>10. CASE UNCHANGED vars
  BY <1>10, <1>0 DEF vars
<1> QED BY <1>0, <1>1, <1>2, <1>3, <1>4, <1>5, <1>6, <1>7, <1>8, <1>9, <1>10 DEF Next

(* Only the partition that does not run is written, and only an intact one *)
(* is made the next one.                                                   *)
LEMMA NextBootable == BootInv /\ [Next]_vars => BootableImage'
<1>0. SUFFICES ASSUME BootInv, [Next]_vars PROVE BootableImage'
  OBVIOUS
<1> USE DEF BootInv, BootTypeOK, HandlersInv, PartitionInv, BootableImage,
            flash, chip, network, program, history, Images, Other
<1>1. CASE Setup
  <2>1. CASE Start
    BY <2>1, <1>0 DEF Start, KeptFlags, UpdateRequested
  <2>2. CASE SetupDevice
    BY <2>2, <1>0 DEF SetupDevice, Disturbed, Reset
  <2>3. CASE SkipInitialize
    BY <2>3, <1>0 DEF SkipInitialize
  <2>4. CASE InitializeWifi
    BY <2>4, <1>0 DEF InitializeWifi
  <2>5. CASE InitializeEthernet
    BY <2>5, <1>0 DEF InitializeEthernet, Reset, Disturbed, BeginMark
  <2>6. CASE StartTasks
    BY <2>6, <1>0 DEF StartTasks, atPortal, HubServes, UpdaterServes, networkDisabled, Disturbed
  <2> QED BY <1>1, <2>1, <2>2, <2>3, <2>4, <2>5, <2>6 DEF Setup
<1>2. CASE Ota
  <2>1. CASE TakeUrl
    BY <2>1, <1>0 DEF TakeUrl
  <2>2. CASE WaitForNetwork
    BY <2>2, <1>0 DEF WaitForNetwork
  <2>3. CASE DownloadBegins
    BY <2>3, <1>0 DEF DownloadBegins
  <2>4. CASE DownloadFails
    BY <2>4, <1>0 DEF DownloadFails
  <2>5. CASE DownloadEnds
    BY <2>5, <1>0 DEF DownloadEnds, Reset
  <2>6. CASE GiveUp
    BY <2>6, <1>0 DEF GiveUp, Reset, Disturbed, SetBootPartition
  <2> QED BY <1>2, <2>1, <2>2, <2>3, <2>4, <2>5, <2>6 DEF Ota
<1>3. CASE Tasks
  <2>1. CASE RestartTimer
    BY <2>1, <1>0 DEF RestartTimer, Reset, SetBootPartition
  <2>2. CASE NetworkLost
    BY <2>2, <1>0 DEF NetworkLost, Reset, Disturbed
  <2>3. CASE WifiConnectFails
    BY <2>3, <1>0 DEF WifiConnectFails, Reset, Disturbed
  <2>4. CASE MqttConnects
    BY <2>4, <1>0 DEF MqttConnects
  <2> QED BY <1>3, <2>1, <2>2, <2>3, <2>4 DEF Tasks
<1>4. CASE Httpd
  <2>1. CASE SwitchPartition
    BY <2>1, <1>0 DEF SwitchPartition, SetBootPartition
  <2>2. CASE UploadEnds
    BY <2>2, <1>0 DEF UploadEnds
  <2>3. CASE HandlerRestarts
    BY <2>3, <1>0 DEF HandlerRestarts, Reset, Disturbed
  <2> QED BY <1>4, <2>1, <2>2, <2>3 DEF Httpd
<1>5. CASE Users
  <2>1. CASE ProcessUpdate
    BY <2>1, <1>0 DEF ProcessUpdate, Request, Reachable
  <2>2. CASE UpdateCommand
    BY <2>2, <1>0 DEF UpdateCommand, Reset
  <2>3. CASE ResetCommand
    BY <2>3, <1>0 DEF ResetCommand, Reset, Disturbed
  <2>4. CASE RebootToOther
    BY <2>4, <1>0 DEF RebootToOther, Request, Reachable
  <2>5. CASE Upload
    BY <2>5, <1>0 DEF Upload, Request, Reachable, Disturbed
  <2>6. CASE ChangeSettings
    BY <2>6, <1>0 DEF ChangeSettings, Request, Reachable
  <2>7. CASE RequestReboot
    BY <2>7, <1>0 DEF RequestReboot, Request, Reachable
  <2>8. CASE ProcessWifi
    BY <2>8, <1>0 DEF ProcessWifi, Request, Reachable
  <2>9. CASE ReconfigureWifi
    BY <2>9, <1>0 DEF ReconfigureWifi, Request, Reachable
  <2> QED BY <1>5, <2>1, <2>2, <2>3, <2>4, <2>5, <2>6, <2>7, <2>8, <2>9 DEF Users
<1>6. CASE Faults
  <2>1. CASE Disconnect
    BY <2>1, <1>0 DEF Disconnect, Reset, Disturbed
  <2>2. CASE Crash("power")
    BY <2>2, <1>0 DEF Crash, Reset, Disturbed
  <2>3. CASE Crash("panic")
    BY <2>3, <1>0 DEF Crash, Reset, Disturbed
  <2>4. CASE BadSettingsCrash
    BY <2>4, <1>0 DEF BadSettingsCrash, Reset, Disturbed
  <2> QED BY <1>6, <2>1, <2>2, <2>3, <2>4 DEF Faults
<1>7. CASE WaitTooLong
  BY <1>7, <1>0 DEF WaitTooLong, Reset, Disturbed
<1>8. CASE Tick
  BY <1>8, <1>0 DEF Tick
<1>9. CASE Connect
  BY <1>9, <1>0 DEF Connect
<1>10. CASE UNCHANGED vars
  BY <1>10, <1>0 DEF vars
<1> QED BY <1>0, <1>1, <1>2, <1>3, <1>4, <1>5, <1>6, <1>7, <1>8, <1>9, <1>10 DEF Next

-----------------------------------------------------------------------------
LEMMA BootInvariance == Spec => []BootInv
<1>1. Init => BootInv
  <2> SUFFICES ASSUME Init PROVE BootInv
    OBVIOUS
  <2>1. FlagsOK /\ CounterOK
    BY ZeroInRange DEF Init, FlagsOK, CounterOK
  <2>2. ValuesOK
    BY BootBoundsAssumption DEF Init, ValuesOK, Images
  <2>3. AttemptsInv /\ HandlersInv /\ PartitionInv /\ BootableImage
    BY DEF Init, AttemptsInv, HandlersInv, PartitionInv, BootableImage, Images
  <2> QED BY <2>1, <2>2, <2>3, BootTypeParts DEF BootInv
<1>2. BootInv /\ [Next]_vars => BootInv'
  BY NextBootType, NextAttempts, NextHandlers, NextPartition, NextBootable DEF BootInv
<1> QED BY <1>1, <1>2, PTL DEF Spec

(* The state stays well typed: the counter keeps its width and otaTask its *)
(* number of attempts.                                                     *)
THEOREM BootTypeCorrect == Spec => []BootTypeOK
<1>1. BootInv => BootTypeOK
  BY DEF BootInv
<1> QED BY <1>1, BootInvariance, PTL

(* Wherever a download, an upload or a start is cut off, however often and *)
(* for whichever reason, the boot loader finds an intact program.          *)
THEOREM AlwaysBootable == Spec => []BootableImage
<1>1. BootInv => BootableImage
  BY DEF BootInv
<1> QED BY <1>1, BootInvariance, PTL
=============================================================================
