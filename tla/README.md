# Nuki Hub: TLA+ models and proofs

Nuki Hub is firmware for an ESP32 that connects a Nuki smart lock and a Nuki
Opener, reached over Bluetooth Low Energy (BLE), to MQTT. This directory holds
TLA+ models of the firmware's own logic (`src/src`), the TLC configurations
that check them, and theorems about them checked by TLAPS.

Vendored libraries (`src/lib`), and the BLE protocol library `nuki_ble`, which
is a submodule, have no modules of their own: what the code sees of them is an
action of the environment. The MQTT client (espMqttClient) appears that way in
`MqttConnection`.

## 1. The system

Several threads work on objects that have no locks.

| thread | runs |
|---|---|
| `networkTask` (main.cpp) | `NukiNetwork::update` and with it the MQTT client: its `loop()`, so `onMqttDataReceived` and the handlers behind it, is called from `NetworkDevice::update`; `NukiNetworkLock::update`, `NukiNetworkOpener::update`, restarts of the services asked for on the web page |
| `nukiTask` (main.cpp) | the BLE scanner, `NukiWrapper::update`, `NukiOpenerWrapper::update`, the BLE watchdogs |
| web server (`httpd`) | `WebCfgServer` handlers |
| BLE | `notify` of the wrappers |
| timer interrupt | `Gpio::onTimer` and the callbacks behind it |
| `otaTask` | the firmware update; then neither of the other tasks runs |

The MQTT handlers run in networkTask, so they interleave with nukiTask, the BLE
callback and the timer interrupt, but never with networkTask's own code.

### Components

| component | state | operations | hard part | correct when |
|---|---|---|---|---|
| Lock wrapper (`NukiWrapper`) | the command slot `_nextLockAction`, the hybrid command `_offCommand` and its timestamp, query timers, `_statusUpdated`, `_newSignal`, lock state, configuration | `update()`; callbacks for lock actions, configuration, keypad, time control, authorization, GPIO; `notify()` | all callbacks write what `update()` is using | only permitted actions reach the lock, none twice, none forgotten; the published state catches up |
| Retry handler (`NukiRetryHandler`) | pins, retry topic | `retryComm` | every way out of the loop | nothing is left behind |
| Official MQTT (`NukiOfficial`) | `offConnected`, the command timestamp, the lock's values | one handler per topic | responses race with the BLE retry | a command is retried exactly when it failed |
| Lock network layer (`NukiNetworkLock`) | query bits, override, keypad fields | topic handlers, publishing, watch of the official connection | bits taken and cleared | the lock state is published in the end |
| Tasks (`main.cpp`) | the objects, `bleDone`, restart counters, `rebootLock` | `nukiTask`, `networkTask`, `restartServices` | objects are deleted while the other task runs | the tasks' code uses no deleted object; BLE failure ends in a restart |
| Network (`NukiNetwork`) | connection state, counters, timeouts, subscriptions | `update`, `reconnect`, `onMqttDataReceived` | watchdogs and late answers | it reconnects, and restarts the chip only when it should |
| GPIO (`Gpio`) | debounce registers, pin configuration | timer interrupt, notification, `setPins` | bouncing contacts, reload under the interrupt | a press acts once |
| Opener wrapper, opener network layer | as the lock's, without hybrid mode | as the lock's | as the lock's | as the lock's |
| Boot and firmware update (`main.cpp`) | partitions, URLs, boot loop counter | `setup`, `otaTask`, `bootloopDetection` | crash in the middle | the hub comes back with a working image |
| Network devices | fallback flags in retained memory | `initialize`, `update` | fallback from Ethernet to WiFi | the hub stays reachable |
| Lists and data commands (`NukiWrapper`, `NukiOpenerWrapper`, keypad topics of the network layers) | copies of the settings and of the lists of keypad codes, time control entries and authorizations, in the hub and in the BLE library | reading in two phases, add, delete and update commands | both tasks ask for the same list; an update is written as a whole entry | an update changes what it names; the copies catch up |
| Home Assistant discovery | one buffer; retained documents on the broker | setup per wrapper, removal | three threads, messages lost with the client | the broker keeps what settings and devices call for |
| Web server | settings, the note that a restart is needed | forms and their confirmation | handlers run in parallel to the tasks | settings come into force |
| Import/export, second factor, helpers, serial console, certificates | settings | copying, tables, files | formatting, external services | out of scope |

`PROJECT.json` lists the components with their sources and status, and under
`hazards` every place where this code is hard to test.

## 2. Modules

| module | models |
|---|---|
| `NukiWrapper` | one lock: `NukiWrapper::update()`, `retryComm`, the MQTT, official MQTT, GPIO and BLE callbacks |
| `CommandLedger` | what the command path promises (abstract specification) |
| `NukiWrapperProofs` | invariants of `NukiWrapper`; `NukiWrapper` implements `CommandLedger` |
| `HubTasks` | `nukiTask`, `networkTask`, `restartServices()`, BLE watchdogs, reboot request |
| `HubTasksProofs` | invariants of `HubTasks` |
| `MqttConnection` | `NukiNetwork::update` and `reconnect`, the client's callbacks, the watchdogs that restart the chip, the broker's session, the part of `restartServices()` that builds a new client |
| `MqttConnectionProofs` | invariants of `MqttConnection` |
| `GpioInputs` | timer interrupt, debouncing, notification, publication and reload of the input pins |
| `GpioInputsProofs` | invariants of `GpioInputs` |
| `LockData` | reading of settings and lists by `checkQueries`, the commands for settings, keypad codes, time control and authorizations, keypad commands put together from topics |
| `LockDataProofs` | invariants of `LockData`, and the action property of its updates |
| `FirmwareBoot` | `setup()`, both programs, `otaTask`, boot loop detection, choice of the network device and its fallback, the web page's update, upload and reboot |
| `FirmwareBootProofs` | invariants of `FirmwareBoot` |
| `HomeAssistantDiscovery` | `setupHASS`, `disableHASS` and what calls them: first connection, the wrappers' setup, web page, unpairing, factory reset |
| `HomeAssistantDiscoveryProofs` | invariants of `HomeAssistantDiscovery` |

The definitions named "Mutant" are plausible bugs; each property of a passing
run is shown to fail on one of them (`mutants` in `PROJECT.json`).  `map` in
`PROJECT.json` names the lines each definition stands for; steps of the
environment, helpers of one expression and actions whose lines another
definition also covers are not listed there.

The modules meet where one component calls another: `HubTasks` treats
`update()` of `NukiWrapper` as one busy stretch of nukiTask, and its
`restartServices()` appears in `MqttConnection` (the new client) and
`HomeAssistantDiscovery` (the new wrappers), each with the state it concerns;
`FirmwareBoot` surrounds them all (their "restart" is its reset). Only
`NukiWrapper` is shown to implement an abstract specification.

### NukiWrapper

`pc` is nukiTask's position in `update()`; the order of the steps is that of
the code: take and clear the queries, hybrid retry, lock action, door sensor
override, lock state, periodic queries, GPIO action. Every access to a field
that another thread writes is a step of its own; a handler of the MQTT client
that writes two such fields is two steps (`mqttPc`).

* Lock action: `CheckNextLockAction`, then `EnterRetryComm`; each attempt is
  `SendLockAction` (the lambda reads the slot anew) and `LockActionResult`; then
  `FinishLockAction` clears the slot.
* Hybrid mode: `AcceptForOfficial` hands an action to the official API,
  `AcceptWithRetry`/`SetOffCommand` arm the BLE retry, `ReadOffTs` ..
  `ClearOffTs` are the two reads of the timestamp and the take-over.
* Lock state: `ReadOffStatus`, `CheckLockStateUpdate`,
  `RequestKeyTurnerState`, `StoreLockState`; `notify` sets `_statusUpdated`
  unless `_newSignal` has reached its limit.

Abstractions. Timestamps are "zero", "armed" or "due". The 2 s of the hybrid
command do not elapse between the two assignments that arm it. Tearing of 64
bit timestamps is left out. `lastKeyTurnerState` starts arbitrary, as the
constructor's `memset` has its arguments swapped (NukiWrapper.cpp:34-37). The
hub is paired. A topic is what was last handed to the MQTT client, which queues
while it is not connected. The branch of `notify` for a wrong PIN is left out.
`HybridRetry` is the set of values the retry setting takes, as it is read for
each command and the web page may change it. History variables (`requests`,
`rounds`, `requested`, `owed`, `count`) are read only by properties and bounds;
`owed` is the command last handed to the official API with the retry, and
whether it failed.

### HubTasks

`pc` holds the position of each task. `restartServices()` is four steps
(delete the devices' objects, delete the scanner, create, done) because the
other task runs in between. A step that uses a deleted object is undefined
behaviour: the chip panics or the task goes on. The MQTT handlers, which run
inside networkTask's step "top" (`InHandlers`), and the pin callbacks go through
`nukiInst`, which keeps pointing at a deleted wrapper: `MqttMessage`, `PinEvent`
and `OfficialConnection` then may panic too (`esp = "handlerPanic"`). What else
they do is in `NukiWrapper`. A beacon is "stale" when `_restartBeaconTimeout` has passed and the watchdog is not postponed. The 180 s
of the official connection are "recent" and "expired".

### MqttConnection

`pc` is networkTask's position: "top" of `update()`, "lost" (no network), "ip"
(log the address), "mqtt" (the decision to reconnect), "wait" (the loop of
`reconnect()` that waits for the reply, for `update()` or for
`restartServices()`), "check" (the broker watchdog), "rest" (publishing and the
timeout) and "services". The client moves only in the steps in which
networkTask calls its `loop()`: it connects, takes the CONNACK, reads messages,
acknowledges them, or finds the link gone.

* The broker is "down", "up" or "slow" (it accepts the connection and does not
  answer for now). It keeps the session of the id "hostname" over
  disconnections and sends again what was not acknowledged; the id generated
  after `restartServices(true)` has a clean session.
* A command is its topic. `handled` counts the messages whose handler has run
  and whose acknowledgement has not been sent: a connection lost, or a chip
  restarted, in between means that the message comes again.
* Clocks are "recent" or "old", reached or not. A broker that is up answers
  within 60 s and sends its backlog within the 6 s in which `NukiNetworkLock`
  ignores commands; a slower one is not covered by `CommandsAtMostOnce`.
* The world stands still while the chip restarts. The power is only cut from a
  hub that has disabled its network. The web page needs the network.
* Left out: the access point, the commands on `maintenance/update` and
  `webserver/enable`, refused credentials (they end like a TCP connection that
  fails), and switching MQTT off.
* `published`, `executed`, `stale`, `oldTimestamp`, `lateAnswer`, `rescue` and
  `saves` are history. `executed` stops counting at `MaxCommands + 1`, the
  counter of attempts at `ConnectLimit + 2`; both are past every comparison.

### GpioInputs

`hist` and `lastState` are the part of the 8 bit register `isTriggered` looks
at. `OnTimer` starts a pass, `IsTriggered(p)` is one sample, `Notify` the second
read of the pin and the callbacks; `FindDue`, `ClearTs`, `PublishState` are
networkTask's loop body. The first notification of a pin inserts into a map
that networkTask may be iterating over, and `loadPinConfiguration` rebuilds a
vector under the interrupt: both are undefined behaviour, the chip panics or
the loop goes on (or ends). The order of pins within a pass is left open.

### LockData

`kind`, chosen in `Init`, is the kind of command a behaviour exercises: keypad
codes (JSON), keypad codes (topics), time control, authorizations, settings.
Their handlers differ little; a definition stands for all of them, and for the
opener's, which are the same code (NukiOpenerWrapper.cpp:812-1011 and
2006-3560). The map names the lines of one.

* `net` is the handler networkTask is in: `Receive`, then tries of `Delete`,
  `Add` or `Retrieve` (an update asks for the list, waits and tries again), then
  `Write`, `Finish`. `nuki` is nukiTask in `checkQueries`: `RequestList`, and when
  the five seconds of `wait` are over `PublishList` and `FillIds`; `ReadConfig`
  and `ReadAdvancedConfig` for the settings.
* `library` is the BLE library's list, emptied by each request and filled by
  `Arrive`. `ids` is the wrapper's vector of known ids.
* An entry is a code, a name, two flags and its times. "Code" stands for the code of
  a keypad entry, the remote access of an authorization and the action of a time
  control entry, which has no name. A name is given, not given, or longer than
  the 20 characters a command carries (`LONG`, cut to `CUT`). The times of a command
  are given, not given, taken from the stored entry (`OLD`) or never written (`JUNK`).
* `Parameter`, `ReceiveAction`, `SendTopics`, `ResetParameters`: the topics, with
  the reset values that the broker sends back to the hub.
* `autoLockTimeOut` stands for all settings: it is the one that is narrowed.
* Left out: PIN and permission checks (settings that do not change), entries
  beyond the configured maximum, malformed JSON, the check of keypad codes and
  its lockout, the authorization log.

### FirmwareBoot

`image` is what the two partitions hold, `boot` the one to start, `running` the
program that runs; `prefs` and `urls` are in flash, `rtc` in memory that survives
a reset but not a loss of power. `at` follows the chip through `setup()` into
the tasks or `otaTask`. `age` is the time since the start, cut at the moments
the code looks at: 60 s, the window of the boot loop counter at 120 s, and
10 minutes. `Crash` can end any step; the image being written is then damaged.

* "bad" settings (buffer and stack sizes) affect the hub only and crash it
  within two minutes; the updater does not use them.
* RTC memory after a loss of power is not equal to the marks. (It is compared
  with strings; noise that equals one is ignored.)
* The Ethernet chip works, is dead or crashes the program, for good. The target is
  an ESP32-P4 or another chip: `network_hardware` 15, which the boot loop detection
  writes, is an Ethernet board on the one and means WiFi on the other.
* Left out: the partition table of old installations, chips without an updater
  (H2), the co-processor's firmware, the size check of uploads.

### HomeAssistantDiscovery

A section is a stretch of the publishing code; the sets that name its entities
are the documents it publishes. `at` is the section each setup is in (the hub's
in networkTask, a device's in nukiTask), `written` whose documents the shared
buffer holds, `plan` what the web server's handler has still to do, with its
pauses. `outbox` is the MQTT client's queue and `broker` what is retained.
`excused` records the single topics whose last removal was lost with the client,
overtaken by a setup before the setting was changed (`Gone`), or left out as the
id was unknown; `fresh` a setup that nothing disturbed.

* Left out: topics of another hub id, the entities per keypad code, time control
  entry and authorization, switching a device off on the web page. The documents
  are abstracted to whose they are.

## 3. Runs

All run in at most a few minutes with two workers. Every `Max...` constant is a
bound on an event of the environment.

| run | checks | bounds |
|---|---|---|
| `nw_commands` | `SentWasRequested`, `OneRoundPerRequest`, `RadioIdleIsVisible`, `LedgerSpec`, `PendingActionServed`, `GpioActionDispatched`: messages, official messages and pins race with a command whose exchanges fail | three actions, one permitted over MQTT, one on a pin and one nowhere; hybrid mode with and without the BLE retry; two requests, from MQTT, a pin or both, so that a second one overtakes or overwrites the first; one connection or state message of the official API, besides its answers to commands; two troubles (a failed exchange, a lost connection, an event of another user), so that both attempts of a command can fail |
| `nw_state` | `TypeOK`, `PublishedStateCatchesUp` | signal limit 1 in place of 5, so that it is reached; one query, of the lock state or of the battery; one movement, one official message, one trouble |
| `nw_v_resent` | `FailedCommandResent`, refuted | two commands, one official message besides the answers, no other user |
| `ht_tasks` | `HubTypeOK`, `WatchdogSparesTasks`, `OneRebootPerOutage`, `ErrorsEscalate`, `ServicesComeBack`, with restarts from both sides at once, and messages and pin events at any moment | the lock only (the opener takes the same steps; the theorems cover both); restart limit 1 in place of 3; one web restart, one outage of the official connection, one death of the BLE stack or loss of the network |
| `ht_v_reboot` | `RebootRequestServed`, refuted | one outage |
| `nn_commands` | `MqttTypeOK`, `ReceiversMatch`, `CommandsAtMostOnce`: commands while connections break, the chip restarts and the services are restarted | one device, one command per topic, one event on the web page; attempts limited to 0 in place of 15, so that the next failure restarts the client; with and without a broker configured |
| `nn_online` | `RescueWebServer`, `HubComesOnline`, `LiveConnectionKept`, `LossRestarts` | no devices or commands; three configurations that differ in their watchdogs; network and broker change without limit |
| `gp_inputs` | `GpioTypeOK`, `OneActionPerPress`, `PressActs`, `InputsCatchUp` | two level changes (a press and its release), one glitch, one restart, one reload |
| `ld_data` | `DataTypeOK`, `ParametersServeOnce`, `UpdateIsComplete`, `CopiesCatchUp`: commands race with the reading of lists, exchanges fail, answers and messages are lost | one id, one retry, one command (two from topics), one fault, one change with the app (none with topics); names short, longer than 20 characters and cut; values 30 and 300, below and above 8 bits |
| `fb_boot` | `BootTypeOK`, `BootableImage`, `UpdateCompletes`, `BackToMain`, `FallbackToWifi`, `BootloopEnds`: updates, uploads, crashes, dead hardware, bad settings, on both targets | counter of 6 values and limit 2 in place of 256 and 10, so that it passes the limit and wraps; two download attempts in place of four; one request, one fault |
| `ha_discovery` | `HassTypeOK`, `NoGhostEntities`, `EntitiesFollowSettings`, `DevicesAppear`: changes on the web page during setups, lost connections, restarts | one lock; three entities (the hub's, one always there, one that a setting removes); one change, one fault |
| `ha_v_cleared` | `RetainedMessagesCleared`, refuted | one lock, one entity, one change, no fault |

The bounds are small because the races need few events: each is a second event
at one point of a handler that the first has entered. All safety and action
properties of the passing runs are proved for all values of the constants (4);
the runs check them on the instances above, and the liveness properties there only.
For those one device suffices in `ha_discovery`, whose races are between threads
and not between devices, and one id in `ld_data`, whose commands name one entry.

### Where code and documentation differ

Three runs end in a counterexample; `findings` in `PROJECT.json` quotes the
documents.

* `ht_v_reboot`: the request to reboot the lock is overwritten by networkTask's next
  round, or cleared, before nukiTask has read it (main.cpp:1018, 1205).
* `nw_v_resent`: nukiTask, taking over the failed first command, has read its
  timestamp and command; a second command is accepted and arms the retry; then
  nukiTask clears the timestamp (NukiWrapper.cpp:301-304). When the official API
  fails to execute the second one, nothing sends it over BLE (HYBRID.md:68). With an
  event of another user (`MaxTroubles = 1`), which withdraws the retry of a failed
  command (NukiOfficial.cpp:199), one command suffices.
* `ha_v_cleared`: unpairing removes the stored id first (NukiWrapper.cpp:569), so that
  `disableHASS()` finds nobody to remove, and the entities stay (README.md:790).

Other differences, which the models follow and no run singles out:

* After the first restart of the services no beacon has been seen, which
  switches the beacon watchdog off (NukiWrapper.cpp:281, README.md:306).
* With a network but without a broker the MQTT timeout never restarts the hub: a
  failed `reconnect()` leaves `update()` before the check (NukiNetwork.cpp:499,
  README.md:278).
* A device enabled on the web page runs after the restart of the services, but
  its topics are not subscribed until the next connection (main.cpp:741,
  WebCfgServer.cpp:5063).
* The hub's own Home Assistant entities are published at the first connection
  after a start only (NukiNetwork.cpp:884): after discovery has been enabled or
  changed, or a device unpaired, they are missing until the chip restarts
  (README.md:269).
* `recalibrate_nuki`, `ring`, `motor_speed` and `enable_slow_speed_during_nightmode`
  are missing from `removeHASSConfig()`.
* An update of an entry whose times are taken from the stored one is refused when
  it is tried again (the marker of such times does not pass the check of the next
  try), with `invalidAllowedFrom` and the like; the list is then not read again
  (README.md:302).
* Authorization commands are tried one time fewer than the setting says, with 0
  retries not at all, and without an answer (NukiWrapper.cpp:3567).
* `autoLockTimeOut` goes through 8 bits (NukiWrapper.cpp:1998; README.md:630
  documents 30 to 1800): 300 becomes 44. "unchanged" is answered from a copy that
  may be stale. A latitude or longitude that is not positive is rejected.
* An update that gives times but not `timeLimited` writes an array never
  initialised; one with `enabled` 0, or from topics, erases the time limits.
  The topic `enabled` may be replaced by the reset value of the previous
  command. An "add" tried again after a lost answer makes a second entry.
* nukiTask clears and refills the vector of ids that networkTask searches. The
  time stamp of a list, reset after it was checked, loses a request made in
  between until the next interval.
* "Restart on disconnect" without a network restarts the updater before its ten
  minutes are over, so that it never returns to the hub while the network is
  away. An updater started when networkTask had just disabled the network
  (NukiNetwork.cpp:474, WebCfgServer.cpp:1124) has no task that goes back.
* `otaTask` waits for the network without feeding its watchdog (main.cpp:1316):
  after 300 s it panics, its URL already erased.
* The boot loop counter is compared with == 10: it passes ten while the option is
  off, wraps around, and is not reset while the network is disabled. The reset
  of settings leaves `network_hardware` at 15 (main.cpp:1282). On an ESP32-P4 this is
  an Ethernet board (NetworkUtil.cpp:41, NetworkDeviceInstantiator.cpp:94-103): where
  its chip crashes the program the reset keeps or even starts the loop, which
  `BootloopEnds` excepts; with a dead chip and no other network the hub restarts
  for ever.
* `disableAutoRestarts()` during an upload does not stop the updater's timer, and
  `restartServices()` never stops a web server that runs.

* A query of any kind is lost when its bit is set between the reading and the
  clearing of the bits (NukiNetworkLock.cpp:1648). A battery, configuration or
  keypad query is also taken and dropped while a status update is under way
  (NukiWrapper.cpp:480, README.md:505). The lock state is then published when the
  timer runs out (`PublishedStateCatchesUp`), the others at their own intervals.
* An action that is answered with "ack" while a command is in progress is never sent:
  the first message is sent, the second stored, and the end of the first empties
  the slot under it (NukiWrapper.cpp:333, README.md:441). `PendingActionServed` is
  about actions stored while no command is in progress. A pin event between the
  switch of `checkGpioAction` and the clearing after it is lost in the same way
  (NukiWrapper.cpp:2436).
* During a restart of the services by the BLE watchdog the MQTT handlers and pin
  callbacks use the wrapper that nukiTask has deleted (main.cpp:777-856,
  NukiWrapper.cpp:1230, 2353): `WatchdogSparesTasks` is about the tasks' own code.
* The name of an authorization, optional in an update (README.md:903), is cut from
  the 32 characters of the lock to 20 when it is not given (NukiWrapper.cpp:3919):
  `UpdateIsComplete` says so.
* A confirmation between the two reads of the timestamp does not stop the BLE
  retry (NukiWrapper.cpp:301, README.md:285).
* An input that goes LOW while the hub restarts is not published (Gpio.cpp:119,
  README.md:944).
* `lock/retry` shows "--" and not 0 after success (NukiWrapper.cpp:334,
  README.md:460); a pin arms the BLE retry although the option is off
  (NukiWrapper.cpp:2374, HYBRID.md:68).
* A command read together with the CONNACK, or after a CONNACK that came when
  `reconnect()` no longer waited, is judged by the time of the previous
  connection, and may be a resent one (NukiNetworkLock.cpp:211):
  `CommandsAtMostOnce` excepts it by `oldTimestamp`.
* After such a late CONNACK the client is connected, the state stays 0 and
  nothing is subscribed (NukiNetwork.cpp:795): `lateAnswer` in `HubComesOnline`.
* Neither a late answer nor `reconnect(true)` resets the counter of attempts, so
  that the next pass may drop a connection that works: excepted in
  `LiveConnectionKept`. Excepted is also a restart of the services that finds
  a device enabled on the web page whose network object does not exist: it panics.
* After `restartServices(true)` the client has a generated id and a clean
  session (README.md:241), so that commands are no longer kept for it.

### Fairness

`FairSpec` of each module assumes what the platform gives: FreeRTOS schedules
both tasks for ever, a handler the MQTT client has entered is completed, every
BLE exchange ends because the library times out, the timer interrupt fires,
time passes, and a restarted chip boots. `HubTasks` also assumes that the
network comes back after each of its bounded losses, and `GpioInputs`, which has
no connection state, that networkTask reaches its loop over the pins again and
again. `nw_commands` needs only nukiTask (`CommandSpec`).
`MqttConnection` assumes that networkTask runs, clocks advance and a lost
connection is noticed, and nothing of the network, the broker and the users:
its liveness properties say what holds once those stay as they are. `LockData` assumes that
both tasks, a handler that has begun, the arrival of entries, and the passing of
the five seconds and of the intervals go on. `FirmwareBoot` assumes that
`setup()`, `otaTask`, the tasks, the web server's handlers and the clock run, and
nothing of the network. `HomeAssistantDiscovery` assumes networkTask, nukiTask
and the handlers. Nothing is
assumed of users, pins, other users of the lock or the lock itself. All are weak fairness
on whole tasks, so no property rests on one branch of a task being preferred.

## 4. Proofs

The theorems hold for every value of the constants that satisfies the named
assumptions of the modules (sets of actions and pins are disjoint from their
"nothing" values, settings are Boolean or natural).

**NukiWrapper.** `IInv` is the conjunction of `TypeOK`, `AttemptsInv` (the retry
counter at each position), `FlowInv` (what has been served at each position),
`TokenInv`, `RetryInv` and `QuietInv` (pins and topic at rest). `OneRoundPerRequest` is not
inductive: a full slot, an armed timestamp, a GPIO event and a handler between
its two writes each stand for a command not yet started. `TokenInv` counts them
and bounds `rounds` plus what may still start by `requests`. The counting
includes the race of the two timestamp reads, so a confirmed command may be
retried but is never sent twice over BLE. Theorems: `TypeCorrect`,
`OnlyRequestedIsSent`, `NoCommandTwice`, `RadioCleansUp`, `PendingActionKept` (the
safety side of `PendingActionServed`: outside a command no step empties a full
slot; `RetryInv` says that the hybrid retry and a pin only ever take an action
that exists), and `ImplementsLedger`, which maps every step to a step of
`CommandLedger` or to a stutter.

**HubTasks.** `HubInv` is `HubTypeOK`, `SafeInv` (which objects exist at each
pair of positions when the web page does not interfere), `StrikesInv` (history
and counter agree) and `RebootInv` (an outage is unnoticed, noted, flagged or
passed on, each at most once). Theorems: `HubTypeCorrect`,
`WatchdogSparesTheTasks`, `EscalationBounded`, `RebootOnce`.

**MqttConnection.** `MqttInv` is `MqttTypeOK`, `ReceiversMatch` and
`ReceiversCleared`. `ReceiversMatch` is not inductive: a device adds itself to the
receivers that are there, so one must know that from `reconnect(true)` until the
devices are created again nobody is registered (`ReceiversCleared`).
`RescueWebServer` follows from `RescueForced`: until the hub is connected again the
flag that forces the web server is set and the network is not given up, over any
number of restarts.

`CommandsAtMostOnce` follows from `CommandInv`: of a topic, the commands carried out
and those in the broker's queue that can still be carried out (`Fresh`: neither
given to the hub already, nor left over from before the connection) are together
at most those published. A message moves from the one number to the other when it
is handled; a new connection makes everything in the queue stale, which is why
one must know that the broker has sent it all again when the six seconds are over
(`StaleDelivered`) and that `reconnect()` has noticed its reply (`ReplyNoticed`).
`LiveConnectionKept`, an action property, follows from `LiveInv`: while the hub
is connected the counter of failures is zero, unless a late answer or
`reconnect(true)` brought the connection about.
Theorems: `MqttTypeCorrect`, `ReceiversRegistered`, `WebServerRescues`,
`CommandsExecutedOnce`, `WorkingConnectionKept`.

**GpioInputs.** `GInv` is `GpioTypeOK`, `SampleInv` (what the register holds after
n samples of one level), `PressInv` (a register settled on HIGH that sees LOW
has a press in hand) and `OwedInv` (where an action that is due waits).
Theorems: `GpioTypeCorrect`, `PressesActOnce`, `LongPressesAct`.

**LockData.** `LockDataInv` has three groups of parts. `DataTypeOK`, `TopicTypes`,
`HandlerTypes` and `HandlerInv` say what each step of a handler relies on; that only
complete entries are sent is not a matter of types alone. `TopicInv` and `MailInv` are
about the topics: the client's messages keep their order, so a message, and a
parameter received from it, belongs to a command later than every action before
it; hence `ParametersServeOnce`. `LimitedInv`, `FreshInv`, `CompletedInv` and
`StampInv` follow an update: unless somebody else touched the entry meanwhile, the
library's list, which either task may have emptied, holds nothing that differs
from the lock, each field completed from it agrees with the lock also after a
write whose answer was lost, and an entry whose times were taken from the lock
is not completed a second time. `ShortInv` and `NameInv` follow the name: only an
authorization has a long one in the lock, and the name of an update is the
command's or the lock's until it is cut. `UpdateIsComplete`, an action property, follows.
Theorems: `DataTypesHold`, `ParametersServeOneCommand`, `UpdatesAreComplete`.
They assume of the marker for a missing entry only that it is not an entry
(`NoEntryAssumption`).

**FirmwareBoot.** `BootInv` is `BootTypeOK`, `AttemptsInv`, `HandlersInv` (the web
server's handlers never run beside `setup()` or `otaTask`, which writes the same
partition), `PartitionInv` (the partition to start is the one that runs until
nothing but the restart is left to do) and `BootableImage`: an image that is
being written is never the one to start, wherever the chip is cut off. Theorems:
`BootTypeCorrect`, `AlwaysBootable`.

**HomeAssistantDiscovery.** `HassInv` speaks of the document that a topic will hold
when all messages have arrived (`Doc`), so that delivery and the loss of the
client are simple steps. `PlanInv` is the shape of a handler's remaining plan.
`GhostInv` is `NoGhostEntities` strengthened to the middle of a handler: besides
belonging to the topic of now, an entity is not one that the plan has removed
already and is about to give up (`Gone`): a change of a setting, which comes
after the removal of all devices' entities, then finds none. A setup that
publishes meanwhile is excused. `SectionInv` and `FreshInv` give `EntitiesFollowSettings`: an
undisturbed setup has made right all entities of the sections before its place,
sections without one are passed over, and every entity comes from a section.
Theorems: `HassTypesHold`, `NoGhosts`, `EntitiesAreWanted`.

TLC checked the strengthened invariants as invariants of the runs' instances
before they were proved.

Only model-checked: the liveness properties (`PendingActionServed`,
`GpioActionDispatched`, `PublishedStateCatchesUp`,
`ErrorsEscalate`, `ServicesComeBack`, `HubComesOnline`, `LossRestarts`,
`InputsCatchUp`, `CopiesCatchUp`, `UpdateCompletes`, `BackToMain`, `FallbackToWifi`,
`BootloopEnds`, `DevicesAppear`), which need fairness and `ENABLED` and are out of
TLAPS's reach. The safety side of `ErrorsEscalate`, `StrikesBounded`, is proved
without a run of its own (`EscalationBounded`). That the operator `Min` of the
community modules returns a least element is proved here (`LeastElement`) from the
well-foundedness of the naturals.

## 5. Not modelled

* The opener's `update()`: its action slot, lock state, ring detection and
  periodic queries. It is the lock's without hybrid mode, and differs in the
  ring. Its life cycle, lists, data commands and discovery are modelled.
* The check of keypad codes with its lockout, the authorization log, the
  permissions of the data commands.
* The commands on `maintenance` topics other than reset, periodic publications,
  the access point of the first configuration.
* The second factor asks an external service; importing and exporting copies
  settings.
* Web pages, login, conversion tables, serial console and certificates format,
  parse or store data and take part in no protocol. They are the larger part of
  the source; of `HomeAssistantDiscovery` and the settings command, where one
  definition stands for many similar lines, the models keep when they run and
  what they leave behind.

Open: an `OpenerWrapper` that implements `CommandLedger` too; a composition of
`GpioInputs` and `NukiWrapper` (a press moves the lock at most once); abstract
specifications of the data commands and of the firmware update, which `LockData`
and `FirmwareBoot` would implement.
