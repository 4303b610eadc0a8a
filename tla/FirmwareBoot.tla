---------------------------- MODULE FirmwareBoot ----------------------------
(***************************************************************************)
(* Starting, crashing and updating.  The flash holds two programs: the hub *)
(* ("main") and the updater ("updater").  Each can only write the other:   *)
(* an update replaces the updater first, starts it, and lets it replace    *)
(* the hub.  What a start does depends on settings in flash, which         *)
(* survive everything, and on flags in RTC memory, which survive restarts  *)
(* and crashes but not the loss of power.                                  *)
(*                                                                         *)
(* The module follows the chip from reset through setup() into the tasks   *)
(* (or into otaTask), with the handlers of the web server in parallel and  *)
(* a crash or a loss of power possible at every step.                      *)
(***************************************************************************)
EXTENDS Integers

CONSTANTS
  Settings,     \* the settings that vary; see prefs
  Given,        \* those that are on at first
  Hardware,     \* what the Ethernet chip may do: "ok", "dead", "crashes"
  Targets,      \* what the program may be built for: "esp32p4", "other"
  CounterRange, \* values of the boot loop counter: 256 in the code
  CounterLimit, \* the value that means a boot loop: 10 in the code
  MaxAttempts,  \* downloads that otaTask tries: 4 in the code
  MaxRequests,  \* bound: what users and commands ask for
  MaxFaults     \* bound: crashes and lost connections

Images == {"main", "updater"}
Other(partition) == IF partition = "main" THEN "updater" ELSE "main"

ASSUME BootSettingsAssumption ==
  Settings \subseteq {"ethernet", "reconfigure", "wifi", "bad", "bootloop_reset",
                      "webserver", "disable_network", "restart_on_disconnect"}
ASSUME BootGivenAssumption == Given \subseteq Settings
ASSUME BootHardwareAssumption == Hardware \subseteq {"ok", "dead", "crashes"}
ASSUME BootTargetsAssumption == Targets \subseteq {"esp32p4", "other"}
ASSUME BootCounterAssumption ==
  /\ CounterRange \in Nat /\ CounterLimit \in Nat
  /\ CounterRange % 2 = 0
  /\ 0 < CounterLimit /\ 2 * CounterLimit < CounterRange
ASSUME BootBoundsAssumption == MaxAttempts \in Nat /\ MaxRequests \in Nat /\ MaxFaults \in Nat

VARIABLES
  image,           \* what each partition holds: "old", "new" or "damaged"
  boot,            \* the partition that the boot loader starts
  urls,            \* partitions whose update URL is stored (ota_main_url, ota_updater_url)
  prefs,           \* settings that are on; "ethernet": network_hardware names an Ethernet
                   \* chip; "reconfigure": ntw_reconfigure; "wifi": a network and its
                   \* password are stored; "bad": sizes with which the hub crashes
  rtc,             \* flags in RTC memory: wifiFallback, disableNetwork,
                   \* forceEnableWebServer, ethCriticalFailure
  bootloopCounter, \* int8_t in RTC memory
  hardware,        \* the board: what its Ethernet chip does (ethernet), its processor (target)
  resetReason,     \* esp_reset_reason(): "power", "software" or "panic" (crash, watchdog)
  running,         \* the program that runs
  at,              \* "off", the steps of setup(): "device", "initialize", "tasks"; the
                   \* steps of otaTask: "ota", "wait", "download", "write"; or "run"
  doOta,           \* an update was asked for
  device,          \* the network device: "none", "wifi", "ap" (access point) or "ethernet"
  connected,       \* NetworkDevice::isConnected()
  webServer,       \* the web server runs
  age,             \* time since the start: 0; 1 from 60 seconds; 2 after the window at 120
                   \* seconds in which the counter is reset; 3 from 10 minutes
  attempts,        \* downloads tried by otaTask
  httpd,           \* the handler that runs: "idle", "restart", "switch" or "upload"
  requests,        \* history: requests made
  faults,          \* history: crashes and lost connections
  update           \* history: of the update under way: "none", "clean" or "disturbed"

flash == <<image, boot, urls, prefs>>
chip == <<running, at, resetReason>>
network == <<device, connected>>
program == <<doOta, webServer, age, attempts, httpd>>
history == <<requests, faults, update>>
vars == <<flash, rtc, bootloopCounter, hardware, chip, network, program, history>>

networkDisabled == "disableNetwork" \in rtc /\ running = "main"
inOta == at \in {"ota", "wait", "download", "write"}

(* setupTasks() starts networkTask unless the network is disabled.         *)
networkTaskRuns == at = "run" /\ "disableNetwork" \notin rtc

-----------------------------------------------------------------------------
(* restartEsp() and every other way to lose the contents of memory         *)

Reset(reason) ==
  /\ at' = "off"
  /\ resetReason' = reason
  /\ device' = "none" /\ connected' = FALSE
  /\ doOta' = FALSE /\ webServer' = FALSE
  /\ age' = 0 /\ attempts' = 0 /\ httpd' = "idle"
  /\ UNCHANGED running

Disturbed == update' = IF update = "clean" THEN "disturbed" ELSE update

(* esp_ota_set_boot_partition(): an image that is not intact is refused.   *)
SetBootPartition(partition) ==
  boot' = IF image[partition] = "damaged" THEN boot ELSE partition

Init ==
  /\ image = [partition \in Images |-> "old"]
  /\ boot = "main"
  /\ urls = {}
  /\ prefs \in {on \in SUBSET Settings : Given \subseteq on}
  /\ rtc = {}
  /\ bootloopCounter = 0
  /\ hardware \in [ethernet: Hardware, target: Targets]
  /\ resetReason = "power"
  /\ running = "main"
  /\ at = "off"
  /\ doOta = FALSE
  /\ device = "none" /\ connected = FALSE
  /\ webServer = FALSE
  /\ age = 0 /\ attempts = 0
  /\ httpd = "idle"
  /\ requests = 0 /\ faults = 0
  /\ update = "none"

-----------------------------------------------------------------------------
(* setup()                                                                 *)

(* RTC memory is arbitrary once power was lost; espRunning tells.          *)
KeptFlags == IF resetReason = "power" THEN {} ELSE rtc

(* Mutant: a wider counter.                                                *)
Int8Mutant(n) == n

Int8(n) == ((n + CounterRange \div 2) % CounterRange) - CounterRange \div 2

(* The sizes become their defaults and network_hardware 15, which names an *)
(* Ethernet chip of ESP32-P4 boards, and WiFi elsewhere.                   *)
SettingsReset ==
  (prefs \ {"bad", "ethernet"})
    \cup (IF hardware.target = "esp32p4" THEN {"ethernet"} ELSE {})

(* Mutant: the counter stays in place of wrapping around.                 *)
BootloopDetectionMutant ==
  LET counter == IF resetReason = "power" THEN 0
                 ELSE IF resetReason = "panic" /\ bootloopCounter <= CounterLimit
                      THEN bootloopCounter + 1
                 ELSE bootloopCounter
      detected == resetReason = "panic" /\ counter = CounterLimit /\ "bootloop_reset" \in prefs
  IN /\ bootloopCounter' = IF detected THEN 0 ELSE counter
     /\ prefs' = IF detected THEN SettingsReset ELSE prefs

(* bootloopDetection(): the sizes and the network hardware are reset.      *)
BootloopDetection ==
  LET counter == IF resetReason = "power" THEN 0
                 ELSE IF resetReason = "panic" THEN Int8(bootloopCounter + 1)
                 ELSE bootloopCounter
      detected == resetReason = "panic" /\ counter = CounterLimit /\ "bootloop_reset" \in prefs
  IN /\ bootloopCounter' = IF detected THEN 0 ELSE counter
     /\ prefs' = IF detected THEN SettingsReset ELSE prefs

(* Mutant: the URL of the program itself decides.                          *)
UpdateRequestedMutant(partition) == partition \in urls

UpdateRequested(partition) == Other(partition) \in urls

(* The boot loader starts a program; it looks for an update of the other   *)
(* one.  The updater has no boot loop detection, and leaves the counter.   *)
Start ==
  /\ at = "off"
  /\ running' = boot
  /\ rtc' = KeptFlags
  /\ doOta' = UpdateRequested(boot)
  /\ IF boot = "main" THEN BootloopDetection ELSE UNCHANGED <<bootloopCounter, prefs>>
  /\ at' = "device"
  /\ UNCHANGED <<image, boot, urls, hardware, resetReason, network, webServer, age, attempts,
                 httpd, history>>

(* The constructor of NukiNetwork, setupDevice(): WiFi replaces an         *)
(* Ethernet chip that failed, but only if that was configured a moment     *)
(* ago and has never worked; otherwise the chip is tried again.            *)
SetupDevice ==
  /\ at = "device"
  /\ IF "wifiFallback" \in rtc /\ "reconfigure" \notin prefs
       THEN /\ rtc' = rtc \ {"wifiFallback"}
            /\ Reset("software")
            /\ Disturbed
       ELSE /\ device' = IF "ethernet" \in prefs /\ "wifiFallback" \notin rtc
                           THEN "ethernet" ELSE "wifi"
            /\ at' = "initialize"
            /\ UNCHANGED <<rtc, running, resetReason, connected, program, update>>
  /\ UNCHANGED <<flash, bootloopCounter, hardware, requests, faults>>

(* NukiNetwork::initialize() leaves the device alone if the network is     *)
(* disabled; the updater's does not ask.                                   *)
SkipInitialize ==
  /\ at = "initialize"
  /\ networkDisabled
  /\ at' = "tasks"
  /\ UNCHANGED <<flash, rtc, bootloopCounter, hardware, running, resetReason, network, program,
                 history>>

(* WifiDevice::initialize(): without a network the access point is opened. *)
InitializeWifi ==
  /\ at = "initialize"
  /\ ~networkDisabled
  /\ device = "wifi"
  /\ device' = IF "wifi" \in prefs THEN "wifi" ELSE "ap"
  /\ at' = "tasks"
  /\ UNCHANGED <<flash, rtc, bootloopCounter, hardware, running, resetReason, connected, program,
                 history>>

(* Mutant: the mark is set only when ETH.begin() has come back.            *)
BeginMarkMutant == rtc

(* While ETH.begin() runs a mark in RTC memory says so.                    *)
BeginMark == rtc \cup {"ethCriticalFailure"}

(* EthernetDevice::initialize(): a crash in the last attempt, or a chip    *)
(* that is not found, leads to a restart with WiFi.                        *)
InitializeEthernet ==
  /\ at = "initialize"
  /\ ~networkDisabled
  /\ device = "ethernet"
  /\ \/ /\ "ethCriticalFailure" \in rtc
        /\ rtc' = (rtc \ {"ethCriticalFailure"}) \cup {"wifiFallback"}
        /\ Reset("software")
        /\ Disturbed
     \/ /\ "ethCriticalFailure" \notin rtc
        /\ hardware.ethernet = "crashes"
        /\ rtc' = BeginMark
        /\ Reset("panic")
        /\ Disturbed
     \/ /\ "ethCriticalFailure" \notin rtc
        /\ hardware.ethernet = "dead"
        /\ rtc' = rtc \cup {"wifiFallback"}
        /\ Reset("software")
        /\ Disturbed
     \/ /\ "ethCriticalFailure" \notin rtc
        /\ hardware.ethernet = "ok"
        /\ rtc' = rtc \ {"wifiFallback"}
        /\ at' = "tasks"
        /\ UNCHANGED <<running, resetReason, network, program, update>>
  /\ UNCHANGED <<flash, bootloopCounter, hardware, requests, faults>>

(* The end of setup(), and setupTasks(): at the access point the hub has   *)
(* its web server and no update; otherwise an update comes before all.     *)
atPortal == device = "ap" /\ running = "main"

UpdaterServes(ota) == ~ota

HubServes(ota, force) == ~ota /\ ~networkDisabled /\ (force \/ "webserver" \in prefs)

StartTasks ==
  /\ at = "tasks"
  /\ rtc' = IF atPortal THEN rtc \cup {"forceEnableWebServer"} ELSE rtc
  /\ doOta' = (doOta /\ ~atPortal)
  /\ webServer' = IF running = "main"
                    THEN HubServes(doOta', "forceEnableWebServer" \in rtc')
                    ELSE UpdaterServes(doOta')
  /\ at' = IF doOta' THEN "ota" ELSE "run"
  /\ IF doOta /\ atPortal THEN Disturbed ELSE UNCHANGED update
  /\ UNCHANGED <<flash, bootloopCounter, hardware, running, resetReason, network, age, attempts,
                 httpd, requests, faults>>

-----------------------------------------------------------------------------
(* otaTask: download the other program and start it                        *)

(* Mutant: the other partition is made the next one before the download.   *)
TakeUrlMutant ==
  /\ at = "ota"
  /\ urls' = urls \ {Other(running)}
  /\ SetBootPartition(Other(running))
  /\ at' = "wait"
  /\ UNCHANGED <<image, prefs, rtc, bootloopCounter, hardware, running, resetReason,
                 network, program, history>>

TakeUrl ==
  /\ at = "ota"
  /\ urls' = urls \ {Other(running)}
  /\ at' = "wait"
  /\ UNCHANGED <<image, boot, prefs, rtc, bootloopCounter, hardware, running, resetReason,
                 network, program, history>>

WaitForNetwork ==
  /\ at = "wait"
  /\ connected
  /\ at' = "download"
  /\ UNCHANGED <<flash, rtc, bootloopCounter, hardware, running, resetReason, network, program,
                 history>>

(* Nothing feeds the watchdog of otaTask while it waits.                   *)
WaitTooLong ==
  /\ at = "wait"
  /\ ~connected
  /\ Reset("panic")
  /\ Disturbed
  /\ UNCHANGED <<flash, rtc, bootloopCounter, hardware, requests, faults>>

(* esp_https_ota(): fails before or while it writes, or makes the other    *)
(* program the next one to start.                                          *)
DownloadBegins ==
  /\ at = "download"
  /\ attempts < MaxAttempts
  /\ connected
  /\ image' = [image EXCEPT ![Other(running)] = "damaged"]
  /\ at' = "write"
  /\ UNCHANGED <<boot, urls, prefs, rtc, bootloopCounter, hardware, running, resetReason,
                 network, program, history>>

DownloadFails ==
  /\ \/ at = "download" /\ attempts < MaxAttempts
     \/ at = "write"
  /\ attempts' = attempts + 1
  /\ at' = "download"
  /\ UNCHANGED <<flash, rtc, bootloopCounter, hardware, running, resetReason, network, doOta,
                 webServer, age, httpd, history>>

DownloadEnds ==
  /\ at = "write"
  /\ connected
  /\ image' = [image EXCEPT ![Other(running)] = "new"]
  /\ boot' = Other(running)
  /\ Reset("software")
  /\ UNCHANGED <<urls, prefs, rtc, bootloopCounter, hardware, history>>

(* After the last failure the other program is started all the same.          *)
GiveUp ==
  /\ at = "download"
  /\ attempts = MaxAttempts
  /\ SetBootPartition(Other(running))
  /\ Reset("software")
  /\ Disturbed
  /\ UNCHANGED <<image, urls, prefs, rtc, bootloopCounter, hardware, requests, faults>>

-----------------------------------------------------------------------------
(* The tasks that run otherwise                                            *)

(* networkTask looks at the time between its steps; if it is busy during   *)
(* the five seconds after two minutes the counter stays.                   *)
Tick ==
  /\ at = "run" \/ inOta
  /\ age < 3
  /\ age' = age + 1
  /\ \/ UNCHANGED bootloopCounter
     \/ /\ age = 1 /\ networkTaskRuns
        /\ bootloopCounter > 0
        /\ bootloopCounter' = 0
  /\ UNCHANGED <<flash, rtc, hardware, chip, network, doOta, webServer, attempts, httpd, history>>

(* Mutant: a restart of the updater starts the updater.                    *)
RestartTimerMutant ==
  /\ running = "updater" /\ networkTaskRuns
  /\ age = 3
  /\ UNCHANGED boot
  /\ Reset("software")
  /\ UNCHANGED <<image, urls, prefs, rtc, bootloopCounter, hardware, history>>

(* After ten minutes the updater goes back to the hub.                     *)
RestartTimer ==
  /\ running = "updater" /\ networkTaskRuns
  /\ age = 3
  /\ SetBootPartition("main")
  /\ Reset("software")
  /\ UNCHANGED <<image, urls, prefs, rtc, bootloopCounter, hardware, history>>

(* NukiNetwork::update() of the hub, unless an upload has switched it off. *)
NetworkLost ==
  /\ running = "main" /\ networkTaskRuns
  /\ httpd # "upload"
  /\ device # "ap" /\ ~connected /\ age >= 1
  /\ \/ /\ "restart_on_disconnect" \in prefs
        /\ UNCHANGED rtc
     \/ /\ "restart_on_disconnect" \notin prefs
        /\ "disable_network" \in prefs
        /\ rtc' = rtc \cup {"disableNetwork"}
  /\ Reset("software")
  /\ Disturbed
  /\ UNCHANGED <<flash, bootloopCounter, hardware, requests, faults>>

(* WifiDevice::connect(), called by the events of the driver.              *)
WifiConnectFails ==
  /\ at = "run" \/ inOta
  /\ device = "wifi" /\ ~networkDisabled
  /\ ~connected /\ age >= 1
  /\ "restart_on_disconnect" \in prefs
  /\ Reset("software")
  /\ Disturbed
  /\ UNCHANGED <<flash, rtc, bootloopCounter, hardware, requests, faults>>

(* An Ethernet chip that gets an address has proved itself.                *)
Connect ==
  /\ at = "run" \/ inOta
  /\ ~networkDisabled
  /\ device \in {"wifi", "ethernet"} /\ ~connected
  /\ connected' = TRUE
  /\ prefs' = IF device = "ethernet" THEN prefs \ {"reconfigure"} ELSE prefs
  /\ UNCHANGED <<image, boot, urls, rtc, bootloopCounter, hardware, chip, device, program,
                 history>>

(* EthernetDevice::onDisconnected() may restart at once.                   *)
Disconnect ==
  /\ connected
  /\ faults < MaxFaults
  /\ faults' = faults + 1
  /\ IF device = "ethernet" /\ "restart_on_disconnect" \in prefs /\ age >= 1
       THEN Reset("software")
       ELSE connected' = FALSE /\ UNCHANGED <<chip, device, program>>
  /\ Disturbed
  /\ UNCHANGED <<flash, rtc, bootloopCounter, hardware, requests>>

(* With MQTT connected a web server that is switched off is no longer      *)
(* forced (it keeps running until the chip restarts).                      *)
MqttConnects ==
  /\ running = "main" /\ networkTaskRuns
  /\ connected
  /\ "forceEnableWebServer" \in rtc /\ "webserver" \notin prefs
  /\ rtc' = rtc \ {"forceEnableWebServer"}
  /\ UNCHANGED <<flash, bootloopCounter, hardware, chip, network, program, history>>

Crash(reason) ==
  /\ at # "off"
  /\ faults < MaxFaults
  /\ faults' = faults + 1
  /\ Reset(reason)
  /\ Disturbed
  /\ UNCHANGED <<flash, rtc, bootloopCounter, hardware, requests>>

(* The hub crashes within two minutes with sizes that do not fit.          *)
BadSettingsCrash ==
  /\ "bad" \in prefs
  /\ running = "main" /\ at = "run" /\ age < 2
  /\ Reset("panic")
  /\ Disturbed
  /\ UNCHANGED <<flash, rtc, bootloopCounter, hardware, requests, faults>>

-----------------------------------------------------------------------------
(* The web server's handlers and the commands of users                     *)

Reachable == webServer /\ at = "run" /\ (connected \/ device = "ap")

Request(next) ==
  /\ Reachable
  /\ httpd = "idle"
  /\ requests < MaxRequests
  /\ requests' = requests + 1
  /\ httpd' = next

(* processUpdate() stores both URLs and restarts a second later.           *)
ProcessUpdate ==
  /\ running = "main" /\ device # "ap"
  /\ Request("restart")
  /\ urls' = Images
  /\ update' = "clean"
  /\ UNCHANGED <<image, boot, prefs, rtc, bootloopCounter, hardware, chip, network, doOta,
                 webServer, age, attempts, faults>>

(* The update topic does so in networkTask.                                *)
UpdateCommand ==
  /\ running = "main" /\ networkTaskRuns /\ device # "ap" /\ connected
  /\ httpd = "idle"
  /\ requests < MaxRequests
  /\ requests' = requests + 1
  /\ urls' = Images
  /\ update' = "clean"
  /\ Reset("software")
  /\ UNCHANGED <<image, boot, prefs, rtc, bootloopCounter, hardware, faults>>

(* The reset topic gives the Ethernet chip another chance.                 *)
ResetCommand ==
  /\ running = "main" /\ networkTaskRuns /\ device # "ap" /\ connected
  /\ requests < MaxRequests
  /\ requests' = requests + 1
  /\ rtc' = rtc \ {"wifiFallback"}
  /\ Reset("software")
  /\ Disturbed
  /\ UNCHANGED <<flash, bootloopCounter, hardware, faults>>

RebootToOther ==
  /\ device # "ap"
  /\ Request("switch")
  /\ UNCHANGED <<flash, rtc, bootloopCounter, hardware, chip, network, doOta, webServer, age,
                 attempts, faults, update>>

SwitchPartition ==
  /\ httpd = "switch"
  /\ SetBootPartition(Other(running))
  /\ httpd' = "restart"
  /\ UNCHANGED <<image, urls, prefs, rtc, bootloopCounter, hardware, chip, network, doOta,
                 webServer, age, attempts, history>>

(* handleOtaUpload(): the file is written as it comes in.                  *)
Upload ==
  /\ device # "ap"
  /\ Request("upload")
  /\ image' = [image EXCEPT ![Other(running)] = "damaged"]
  /\ Disturbed
  /\ UNCHANGED <<boot, urls, prefs, rtc, bootloopCounter, hardware, chip, network, doOta,
                 webServer, age, attempts, faults>>

UploadEnds ==
  /\ httpd = "upload"
  /\ \/ /\ image' = [image EXCEPT ![Other(running)] = "new"]
        /\ boot' = Other(running)
     \/ UNCHANGED <<image, boot>>
  /\ httpd' = "restart"
  /\ UNCHANGED <<urls, prefs, rtc, bootloopCounter, hardware, chip, network, doOta, webServer,
                 age, attempts, history>>

(* processArgs(): another network device, used after a restart; and the    *)
(* option that resets settings in a boot loop.                             *)
ChangeSettings ==
  /\ running = "main" /\ device # "ap"
  /\ Request("idle")
  /\ \/ /\ "ethernet" \in Settings \ prefs
        /\ prefs' = prefs \cup {"ethernet", "reconfigure"}
     \/ /\ "ethernet" \in prefs
        /\ prefs' = prefs \ {"ethernet"}
     \/ /\ "bootloop_reset" \in Settings \ prefs
        /\ prefs' = prefs \cup {"bootloop_reset"}
  /\ UNCHANGED <<image, boot, urls, rtc, bootloopCounter, hardware, chip, network, doOta,
                 webServer, age, attempts, faults, update>>

RequestReboot ==
  /\ Request("restart")
  /\ UNCHANGED <<flash, rtc, bootloopCounter, hardware, chip, network, doOta, webServer, age,
                 attempts, faults, update>>

(* At the access point: the network is stored once it could be joined.     *)
ProcessWifi ==
  /\ device = "ap"
  /\ Request("restart")
  /\ prefs' = prefs \cup {"wifi"}
  /\ UNCHANGED <<image, boot, urls, rtc, bootloopCounter, hardware, chip, network, doOta,
                 webServer, age, attempts, faults, update>>

(* WifiDevice::reconfigure(): back to the access point.                    *)
ReconfigureWifi ==
  /\ running = "main" /\ device = "wifi"
  /\ Request("restart")
  /\ prefs' = prefs \ {"wifi"}
  /\ UNCHANGED <<image, boot, urls, rtc, bootloopCounter, hardware, chip, network, doOta,
                 webServer, age, attempts, faults, update>>

HandlerRestarts ==
  /\ httpd = "restart"
  /\ Reset("software")
  /\ IF urls = {} THEN Disturbed ELSE UNCHANGED update
  /\ UNCHANGED <<flash, rtc, bootloopCounter, hardware, requests, faults>>

-----------------------------------------------------------------------------
Setup == \/ Start \/ SetupDevice \/ SkipInitialize \/ InitializeWifi \/ InitializeEthernet
         \/ StartTasks
Ota == TakeUrl \/ WaitForNetwork \/ DownloadBegins \/ DownloadFails \/ DownloadEnds \/ GiveUp
Tasks == RestartTimer \/ NetworkLost \/ WifiConnectFails \/ MqttConnects
Httpd == SwitchPartition \/ UploadEnds \/ HandlerRestarts
Users == \/ ProcessUpdate \/ UpdateCommand \/ ResetCommand \/ RebootToOther \/ Upload
         \/ ChangeSettings \/ RequestReboot \/ ProcessWifi \/ ReconfigureWifi
Faults == \/ Disconnect \/ Crash("power") \/ Crash("panic") \/ BadSettingsCrash

Next == Setup \/ Ota \/ WaitTooLong \/ Tick \/ Tasks \/ Connect \/ Httpd \/ Users \/ Faults

Spec == Init /\ [][Next]_vars

(* The program runs, time passes and a handler comes to its end.  Nothing  *)
(* is assumed of the network: a wait without it ends with the watchdog.    *)
FairSpec == /\ Spec
            /\ WF_vars(Setup)
            /\ WF_vars(Ota)
            /\ WF_vars(WaitTooLong)
            /\ WF_vars(Tick)
            /\ WF_vars(Tasks)
            /\ WF_vars(Httpd)

-----------------------------------------------------------------------------
(* Properties                                                              *)

(* Every variable has its type; the counter keeps its eight bits.          *)
BootTypeOK ==
  /\ image \in [Images -> {"old", "new", "damaged"}]
  /\ boot \in Images /\ running \in Images
  /\ urls \subseteq Images
  /\ prefs \subseteq Settings \cup {"ethernet", "reconfigure", "wifi"}
  /\ rtc \subseteq {"wifiFallback", "disableNetwork", "forceEnableWebServer",
                    "ethCriticalFailure"}
  /\ bootloopCounter \in -(CounterRange \div 2) .. CounterRange \div 2 - 1
  /\ at \in {"off", "device", "initialize", "tasks", "ota", "wait", "download", "write", "run"}
  /\ resetReason \in {"power", "software", "panic"}
  /\ device \in {"none", "wifi", "ap", "ethernet"}
  /\ doOta \in BOOLEAN /\ connected \in BOOLEAN /\ webServer \in BOOLEAN
  /\ age \in 0 .. 3 /\ attempts \in 0 .. MaxAttempts
  /\ httpd \in {"idle", "restart", "switch", "upload"}
  /\ requests \in 0 .. MaxRequests /\ faults \in 0 .. MaxFaults
  /\ update \in {"none", "clean", "disturbed"}

(* At every moment, wherever a download, an upload or a start is cut off,  *)
(* the boot loader finds an intact program.                                *)
BootableImage == image[boot] # "damaged"

(* README:712 "automatically upgrade both applications": an update that    *)
(* nothing disturbs (downloads may fail and be tried again) ends with both *)
(* programs replaced and the hub running.                                  *)
UpdateCompletes ==
  update = "clean" ~>
    \/ update = "disturbed"
    \/ running = "main" /\ at = "run" /\ \A partition \in Images : image[partition] = "new"

(* Whatever happened, the updater is not the program that stays: it goes   *)
(* back to the hub.  Excepted are a hub that is damaged, an Ethernet chip  *)
(* that restarts the program for ever, a network that stays away while     *)
(* "Restart on disconnect" starts the updater again before its ten minutes *)
(* are over, and an updater that was started when the hub's networkTask    *)
(* had just disabled the network (it has no task that would go back).      *)
BackToMain ==
  []<>(\/ running = "main"
       \/ image["main"] = "damaged"
       \/ hardware.ethernet # "ok"
       \/ "restart_on_disconnect" \in prefs /\ ~connected /\ age >= 1
       \/ "disableNetwork" \in rtc)

(* README:967 "If Ethernet hardware isn't detected or initialised properly *)
(* after changing the network device, Wi-Fi will be used as a fallback":   *)
(* also when it crashes the program, and for every later start.            *)
FallbackToWifi ==
  <>[](/\ {"ethernet", "reconfigure"} \subseteq prefs
       /\ hardware.ethernet # "ok"
       /\ "disableNetwork" \notin rtc)
    => []<>(device \in {"wifi", "ap"})

(* README:410 "reset ... to default if Nuki Hub detects a bootloop": with  *)
(* the option on, the hub does not crash for ever within two minutes of    *)
(* its starts, whatever the counter was when the option was switched on.   *)
(* Excepted is an ESP32-P4 whose Ethernet chip crashes the program: there  *)
(* the reset chooses Ethernet.                                             *)
BootloopEnds ==
  <>[](/\ "bootloop_reset" \in prefs /\ age < 2
       /\ hardware.target = "esp32p4" => hardware.ethernet # "crashes")
    => ~[]<>(at = "off" /\ resetReason = "panic")
=============================================================================
