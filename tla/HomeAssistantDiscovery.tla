----------------------- MODULE HomeAssistantDiscovery -----------------------
(***************************************************************************)
(* Home Assistant discovery: the retained documents ("entities") that the  *)
(* hub keeps on the broker for itself, for the lock and for the opener.    *)
(*                                                                         *)
(* Three threads write them through one object and one buffer, without a   *)
(* lock: networkTask publishes the hub's own at its first connection,      *)
(* nukiTask those of the devices once per wrapper object, and the web      *)
(* server removes them when discovery is switched off or changed and when  *)
(* a device is unpaired.  Messages wait in the MQTT client, which          *)
(* networkTask runs, and are lost with it.                                 *)
(*                                                                         *)
(* An entity is named by the last part of its topic; of two that differ    *)
(* only in their type one has the type added.  A section is a stretch of   *)
(* the publishing code, handled in one go except that its documents are    *)
(* first written to the buffer and then handed to the client.              *)
(***************************************************************************)
EXTENDS Naturals, Sequences, FiniteSetsExt

CONSTANTS
  Nukis,       \* the devices that exist: "lock", "opener"
  Names,       \* the entities looked at
  Topics,      \* values of the discovery topic; "" is none
  HubFlags,    \* settings that users change: of the hub,
  LockFlags,   \* of the lock
  OpenerFlags, \* and of the opener
  MaxSaves,    \* bound: changes of settings, unpairings and resets
  MaxFaults    \* bound: lost connections, restarts that no user asked for

Devs == Nukis \cup {"hub"}

Flags == ({"hub"} \X HubFlags) \cup ({"lock"} \X LockFlags) \cup ({"opener"} \X OpenerFlags)

ASSUME HassNukisAssumption == Nukis \subseteq {"lock", "opener"}
ASSUME HassTopicsAssumption == "" \in Topics
ASSUME HassBoundsAssumption == MaxSaves \in Nat /\ MaxFaults \in Nat

VARIABLES
  enabled,      \* preference_mqtt_hass_enabled
  topic,        \* preference_mqtt_hass_discovery
  on,           \* the other settings that are on, and what the devices have
  ids,          \* devices with a stored id (preference_nuki_id_lock, _opener)
  paired,       \* devices that are paired
  uidKnown,     \* _nukiHubUidString is set
  firstConnect, \* NukiNetwork::_firstConnect
  online,       \* the MQTT client is connected
  outbox,       \* the MQTT client: the last message for each topic not yet sent
  broker,       \* the broker: the document retained for each topic
  hassEnabled,  \* _hassEnabled of the wrappers
  configValid,  \* _nukiConfigValid and _nukiAdvancedConfigValid, per device
  completed,    \* _hassSetupCompleted, per device
  at,           \* the section a setup is in, 0 when none is under way
  written,      \* whose documents the buffer holds, of those that the setup has
                \* written: "own" or "other"; "none" before it has written any
  plan,         \* what the web server's handler still has to do
  required,     \* WebCfgServer::_restartServicesRequired: "no", "plain" or "reconnect"
  restartServ,  \* NukiNetwork::_restartServices, the same values
  saves,        \* history: changes made by users
  faults,       \* history: lost connections and such restarts
  excused,      \* history: entities whose last removal was lost, overtaken or left out
  fresh         \* history: "yes" after a setup that nothing disturbed

settings == <<enabled, topic, on, ids, paired>>
client == <<online, outbox, broker>>
wrappers == <<hassEnabled, configValid, completed>>
job == <<at, written>>
web == <<plan, required, restartServ, saves>>
vars == <<settings, uidKnown, firstConnect, client, wrappers, job, web, faults, excused, fresh>>

Keys == [topic : Topics, dev : Devs, name : Names]
On(dev, setting) == <<dev, setting>> \in on

-----------------------------------------------------------------------------
(* The sections, in the order of the code.                                 *)

HubStatus == {"reset", "wifi_signal_strength", "mqtt_connected", "network_device",
              "webserver", "uptime"}
HubLog == {"mqtt_log", "nuki_hub_version", "nuki_hub_build",
           "nuki_hub_restart_reason", "nuki_hub_restart_reason_esp"}
HubUpdate == {"nuki_hub_latest", "nuki_hub_update", "nuki_hub_ip"}

DeviceBasics == {"smartlock", "firmware_version", "hardware_version", "battery_low",
                 "battery_charging"}
DeviceQueries == {"battery_voltage", "trigger", "hybrid_connected", "query_lockstate",
                  "query_config", "query_commandresult", "bluetooth_signal_strength"}

LockActions == {"unlatch", "lockngo", "lockngounlatch", "query_battery"}
LockSwitches == {"led_enabled", "button_enabled", "auto_lock", "auto_unlock", "double_lock",
                 "battery_level"}
LockBasics == {"led_brightness", "auto_unlatch", "pairing_enabled", "timezone_offset", "dst_mode"}
LockSelects == {"fob_action_1", "fob_action_2", "fob_action_3", "advertising_mode", "timezone"}
LockPositions == {"unlocked_position_offset_degrees", "locked_position_offset_degrees",
                  "single_locked_position_offset_degrees",
                  "unlocked_locked_transition_offset_degrees", "lockngo_timeout"}
LockHardware == {"single_button_press_action", "double_button_press_action",
                 "detached_cylinder", "battery_type", "automatic_battery_type_detection",
                 "unlatch_duration"}
LockNight == {"auto_lock_timeout", "nightmode_enabled", "nightmode_start_time",
              "nightmode_end_time"}
LockNightLocking == {"nightmode_auto_lock", "nightmode_auto_unlock",
                     "nightmode_immediate_lock_start", "immediate_auto_lock_enabled",
                     "auto_update_enabled"}
LockMotor == {"motor_speed", "enable_slow_speed_during_nightmode", "reboot_nuki",
              "recalibrate_nuki"}

OpenerActions == {"unlatch", "continuous_mode", "continuous_mode_switch", "ring_detect", "ring"}
OpenerSwitches == {"led_enabled", "button_enabled", "sound_level", "pairing_enabled"}
OpenerBasics == {"timezone_offset", "dst_mode", "fob_action_1", "fob_action_2", "fob_action_3",
                 "advertising_mode"}
OpenerMode == {"timezone", "operating_mode", "bus_mode_switch", "short_circuit_duration"}
OpenerStrike == {"electric_strike_delay", "random_electric_strike_delay",
                 "electric_strike_duration", "disable_rto_after_ring", "rto_timeout"}
OpenerSounds == {"doorbell_suppression", "doorbell_suppression_duration", "sound_ring",
                 "sound_open", "sound_rto", "sound_cm", "sound_confirmation"}
OpenerHardware == {"single_button_press_action", "double_button_press_action", "battery_type",
                   "automatic_battery_type_detection", "reboot_nuki", "recalibrate_nuki"}

DoorSensor == {"door_sensor"}
AccessLog == {"rolling_log"}
Keypad == {"keypad_battery_low", "query_keypad"}

LockEntities == <<LockActions, LockSwitches, LockBasics, LockSelects, LockPositions,
                  LockHardware, LockNight, LockNightLocking, LockMotor>>
OpenerEntities == <<OpenerActions, OpenerSwitches, OpenerBasics, OpenerMode, OpenerStrike,
                    OpenerSounds, OpenerHardware>>

(* The order of publication.                                               *)
Sections(dev) ==
  CASE dev = "hub" -> <<HubStatus, HubLog, HubUpdate>>
    [] dev = "lock" -> <<DeviceBasics, DeviceQueries>> \o LockEntities
                       \o <<DoorSensor, AccessLog, Keypad>>
    [] dev = "opener" -> <<DeviceBasics, DeviceQueries>> \o OpenerEntities
                         \o <<DoorSensor, AccessLog, Keypad>>

(* The section after the i-th, 0 after the last; sections without an entity *)
(* that is looked at are passed over.                                       *)
Following(dev, i) ==
  {j \in 1 .. Len(Sections(dev)) : j > i /\ Sections(dev)[j] \cap Names # {}}
NextSection(dev, i) == IF Following(dev, i) = {} THEN 0 ELSE Min(Following(dev, i))

(* Entities with an entry in the user's access list, those of actions and  *)
(* those of the device's configuration.                                    *)
Actions == {"unlatch", "lockngo", "lockngounlatch", "continuous_mode_switch"}
Configuration ==
  UNION ({LockEntities[i] : i \in 1 .. Len(LockEntities)}
         \cup {OpenerEntities[i] : i \in 1 .. Len(OpenerEntities)})
    \ (Actions \cup {"query_battery", "battery_level", "continuous_mode", "ring_detect", "ring"})

(* Some exist only on a lock of the fifth generation, some only on others. *)
Gemini == {"motor_speed", "enable_slow_speed_during_nightmode"}
NotGemini == {"battery_type", "automatic_battery_type_detection"}

(* The conditions under which an entity of a section is published.         *)
Wanted(dev, name) ==
  /\ name \in Actions \cup Configuration => On(dev, name)
  /\ name \in Configuration => ~On("hub", "conf_info_off")
  /\ name \in Gemini => On("lock", "gemini")
  /\ name \in NotGemini /\ dev = "lock" => ~On("lock", "gemini")
  /\ name = "mqtt_log" => On("hub", "mqtt_log")
  /\ name \in {"nuki_hub_latest", "nuki_hub_update"} => On("hub", "check_updates")
  /\ name = "hybrid_connected" => On("hub", "hybrid") /\ dev = "lock"
  /\ name = "door_sensor" => On("lock", "door_sensor") /\ dev = "lock"
  /\ name = "rolling_log" => On("hub", "authdata")
  /\ name \in Keypad => On(dev, "keypad")

(* Published without asking whether there is a discovery topic.            *)
Unguarded == {"reset", "smartlock", "ring", "motor_speed", "operating_mode", "sound_ring",
              "sound_open", "sound_rto", "sound_cm", "doorbell_suppression", "battery_type",
              "single_button_press_action", "double_button_press_action"} \cup LockSelects

(* removeHASSConfig has a list of its own, without these.                  *)
LeftBehind == {"recalibrate_nuki", "ring", "motor_speed", "enable_slow_speed_during_nightmode"}
Removable == Names \ LeftBehind

-----------------------------------------------------------------------------
(* Messages.  The empty document removes a topic from the broker.          *)

Message(names, dev, document) ==
  [key \in [topic : {topic}, dev : {dev}, name : names] |-> document]

Over(new, old) ==
  [key \in DOMAIN new \cup DOMAIN old |-> IF key \in DOMAIN new THEN new[key] ELSE old[key]]

(* Mutant: an empty document is retained like any other.                   *)
RetainMutant(documents) == documents

Retain(documents) ==
  [key \in {k \in DOMAIN documents : documents[k] # "none"} |-> documents[key]]

(* Unsent messages are lost with the client.  The removals among them that *)
(* matter are those under a topic that is no longer in use.                *)
UnsentRemovals ==
  {key \in DOMAIN outbox \cap DOMAIN broker : outbox[key] = "none" /\ key.topic # topic}
DropClient == /\ online' = FALSE
              /\ outbox' = <<>>
              /\ excused' = excused \cup UnsentRemovals
              /\ UNCHANGED broker

Idle(task) == \A dev \in task \cap Devs : at[dev] = 0
networkTask == {"hub"}
nukiTask == {"lock", "opener"}

(* A setup of a device is disturbed by what changes its entities or its    *)
(* settings.                                                               *)
Disturb(devs) == fresh' = [dev \in Devs |-> IF dev \in devs THEN "no" ELSE fresh[dev]]

Begin(dev) ==
  /\ at' = [at EXCEPT ![dev] = NextSection(dev, 0)]
  /\ fresh' = [fresh EXCEPT ![dev] = "under way"]

-----------------------------------------------------------------------------
Init ==
  /\ enabled \in BOOLEAN
  /\ topic \in {t \in Topics : enabled <=> t # ""}
  /\ on \in SUBSET Flags
  /\ ids \in SUBSET Nukis
  /\ paired = ids
  /\ uidKnown = FALSE
  /\ firstConnect = TRUE
  /\ online = FALSE
  /\ outbox = <<>>
  /\ broker = <<>>
  /\ hassEnabled = enabled
  /\ configValid = {}
  /\ completed = {}
  /\ at = [dev \in Devs |-> 0]
  /\ written = [dev \in Devs |-> "none"]
  /\ plan = <<>>
  /\ required = "no"
  /\ restartServ = "no"
  /\ saves = 0
  /\ faults = 0
  /\ excused = {}
  /\ fresh = [dev \in Devs |-> "no"]

-----------------------------------------------------------------------------
(* networkTask: the MQTT client and the hub's own entities                 *)

(* NukiNetwork::reconnect(): the hub's entities are set up at the first    *)
(* connection since the chip started, and only then.                       *)
Connect ==
  /\ ~online
  /\ Idle(networkTask)
  /\ online' = TRUE
  /\ firstConnect' = FALSE
  /\ IF firstConnect /\ enabled
       THEN /\ Begin("hub")
            /\ uidKnown' = TRUE
       ELSE UNCHANGED <<at, fresh, uidKnown>>
  /\ UNCHANGED <<settings, outbox, broker, wrappers, written, web, faults, excused>>

Disconnect ==
  /\ online
  /\ faults < MaxFaults
  /\ faults' = faults + 1
  /\ online' = FALSE
  /\ UNCHANGED <<settings, uidKnown, firstConnect, outbox, broker, wrappers, job, web, excused,
                 fresh>>

(* The client sends what it has; messages survive a lost connection.       *)
Deliver ==
  /\ online
  /\ Idle(networkTask)
  /\ outbox # <<>>
  /\ broker' = Retain(Over(outbox, broker))
  /\ outbox' = <<>>
  /\ UNCHANGED <<settings, uidKnown, firstConnect, online, wrappers, job, web, faults, excused,
                 fresh>>

(* Mutant: the new wrapper inherits _hassSetupCompleted.                   *)
NewWrappersMutant == /\ hassEnabled' = enabled'
                     /\ configValid' = {}
                     /\ UNCHANGED completed
                     /\ at' = [dev \in Devs |-> 0]
                     /\ written' = [dev \in Devs |-> "none"]
                     /\ Disturb(Devs)

(* restartServices(): new wrappers; with a reconnection also a new client, *)
(* and a discovery topic switches discovery on.                            *)
NewWrappers == /\ hassEnabled' = enabled'
               /\ configValid' = {}
               /\ completed' = {}
               /\ at' = [dev \in Devs |-> 0]
               /\ written' = [dev \in Devs |-> "none"]
               /\ Disturb(Devs)

EnableByTopic == enabled' = (enabled \/ topic # "")

RestartServices ==
  /\ restartServ # "no"
  /\ Idle(networkTask)
  /\ plan = <<>>
  /\ restartServ' = "no"
  /\ IF restartServ = "reconnect"
       THEN EnableByTopic /\ DropClient
       ELSE UNCHANGED <<enabled, client, excused>>
  /\ NewWrappers
  /\ UNCHANGED <<topic, on, ids, paired, uidKnown, firstConnect, plan, required, saves,
                 faults>>

-----------------------------------------------------------------------------
(* nukiTask: pairing, configuration and the entities of the devices        *)

Pair(dev) ==
  /\ dev \notin paired
  /\ Idle(nukiTask)
  /\ paired' = paired \cup {dev}
  /\ UNCHANGED <<enabled, topic, on, ids, uidKnown, firstConnect, client, wrappers, job, web,
                 faults, excused, fresh>>

(* updateConfig(): a missing id is stored, unless it has been forced.      *)
ReadConfig(dev) ==
  /\ dev \in paired \ configValid
  /\ Idle(nukiTask)
  /\ ids' = IF On(dev, "force_id") THEN ids ELSE ids \cup {dev}
  /\ configValid' = IF dev \in ids' THEN configValid \cup {dev} ELSE configValid
  /\ dev \in configValid'
  /\ UNCHANGED <<enabled, topic, on, paired, uidKnown, firstConnect, client, hassEnabled,
                 completed, job, web, faults, excused, fresh>>

(* The end of the queries in update(): once per wrapper object.  Without a *)
(* stored id setupHASS() returns early; it counts as completed.            *)
SetupDevice(dev) ==
  /\ hassEnabled
  /\ dev \in configValid \ completed
  /\ Idle(nukiTask)
  /\ uidKnown' = TRUE
  /\ IF dev \in ids
       THEN /\ Begin(dev)
            /\ UNCHANGED completed
       ELSE /\ completed' = completed \cup {dev}
            /\ UNCHANGED <<at, fresh>>
  /\ UNCHANGED <<settings, firstConnect, client, hassEnabled, configValid, written, web, faults,
                 excused>>

(* serializeJson(json, _buffer, _bufferSize): what another task has put    *)
(* there and not yet published is gone.                                    *)
WriteBuffer(dev) ==
  written' = [d \in Devs |-> IF d = dev THEN IF at[d] > 0 THEN "own" ELSE "none"
                             ELSE IF written[d] = "own" THEN "other" ELSE written[d]]

WriteSection(dev) ==
  /\ at[dev] > 0
  /\ written[dev] = "none"
  /\ WriteBuffer(dev)
  /\ UNCHANGED <<settings, uidKnown, firstConnect, client, wrappers, at, web, faults, excused,
                 fresh>>

(* nukiTask publishes states through the same buffer.                      *)
PublishState(dev) ==
  /\ dev \in paired
  /\ Idle(nukiTask)
  /\ written["hub"] = "own"
  /\ WriteBuffer(dev)
  /\ UNCHANGED <<settings, uidKnown, firstConnect, client, wrappers, at, web, faults, excused,
                 fresh>>

(* publishHassTopic() and removeHassTopic() of one section: what is wanted *)
(* is published, the rest is removed.                                      *)
Shown(section, dev) ==
  {name \in section \cap Names : Wanted(dev, name) /\ (topic = "" => name \in Unguarded)}
(* Mutant: the else branches are missing.                                  *)
HiddenMutant(section, dev) == {}

Hidden(section, dev) ==
  {name \in section \cap Names : ~Wanted(dev, name) /\ topic # "" /\ name # "query_keypad"}

Changing == plan # <<>> \/ required # "no" \/ restartServ # "no"

(* The handler under way has removed the entities of a device, and is yet  *)
(* to change the setting that it removed them for.                         *)
Remove(dev) == [step |-> "remove", dev |-> dev]
Commits == {"enabled", "topic", "clear"}
Gone(steps, dev) ==
  \E j \in 1 .. Len(steps) :
    /\ steps[j].step \in Commits
    /\ \A i \in 1 .. j - 1 : steps[i] # Remove(dev)

PublishSection(dev) ==
  LET section == Sections(dev)[at[dev]]
      shown == Shown(section, dev)
      last == NextSection(dev, at[dev]) = 0
  IN /\ at[dev] > 0
     /\ written[dev] # "none"
     /\ outbox' = Over(Over(Message(shown, dev, written[dev]),
                            Message(Hidden(section, dev), dev, "none")), outbox)
     /\ excused' = IF Gone(plan, dev) THEN excused \cup DOMAIN Message(shown, dev, "own")
                   ELSE excused
     /\ written' = [written EXCEPT ![dev] = "none"]
     /\ at' = [at EXCEPT ![dev] = NextSection(dev, at[dev])]
     /\ completed' = IF last /\ dev \in Nukis THEN completed \cup {dev} ELSE completed
     /\ fresh' = [fresh EXCEPT ![dev] = IF written[dev] = "other" THEN "no"
                                        ELSE IF last /\ fresh[dev] = "under way" THEN "yes"
                                        ELSE fresh[dev]]
     /\ UNCHANGED <<settings, uidKnown, firstConnect, online, broker, hassEnabled, configValid,
                    web, faults>>

-----------------------------------------------------------------------------
(* The web server.  A handler that removes entities takes many seconds; it *)
(* is a plan of steps, one per pause.                                      *)

Unpair(dev) == [step |-> "unpair", dev |-> dev]
PutEnabled(value) == [step |-> "enabled", enabled |-> value]
PutTopic(value) == [step |-> "topic", topic |-> value]
Finish(end) == [step |-> end]

Pause == [step |-> "pause"]

(* disableHASS(), with a pause of 3 s after each removal.                  *)
DisableHASS == <<Remove("hub"), Pause, Remove("lock"), Pause, Remove("opener"), Pause>>

ChangeEnabled(value) == IF value = enabled THEN <<>> ELSE DisableHASS \o <<PutEnabled(value)>>

(* Mutant: the topic is changed first, the removal uses the new one.       *)
ChangeTopicMutant(value) ==
  IF value = topic THEN <<>> ELSE <<PutTopic(value)>> \o DisableHASS

ChangeTopic(value) == IF value = topic THEN <<>> ELSE DisableHASS \o <<PutTopic(value)>>

Handler(steps) ==
  /\ plan = <<>>
  /\ saves < MaxSaves
  /\ saves' = saves + 1
  /\ plan' = steps
  /\ UNCHANGED <<settings, uidKnown, firstConnect, client, wrappers, job, required, restartServ,
                 faults, excused, fresh>>

(* processArgs(), ENHADISC and then HASSDISCOVERY.  The page clears the    *)
(* topic when discovery is switched off.                                   *)
SaveDiscovery(e, t) ==
  /\ e \/ t = ""
  /\ <<e, t>> # <<enabled, topic>>
  /\ Handler(ChangeEnabled(e) \o ChangeTopic(t) \o <<Finish("required")>>)

ProcessUnpair(dev) == Handler(<<Unpair(dev)>> \o DisableHASS \o <<Finish("restart")>>)

ProcessFactoryReset ==
  Handler(<<Unpair("lock"), Unpair("opener")>> \o DisableHASS \o <<Finish("clear")>>)

(* Access lists, options and properties of the devices change without a    *)
(* restart of the services; the other options ask for a plain one, which   *)
(* replaces the note that a new connection was wanted.                     *)
ChangeSetting(flag) ==
  /\ plan = <<>>
  /\ saves < MaxSaves
  /\ saves' = saves + 1
  /\ on' = IF flag \in on THEN on \ {flag} ELSE on \cup {flag}
  /\ Disturb(Devs)
  /\ required' \in {required, "plain"}
  /\ UNCHANGED <<enabled, topic, ids, paired, uidKnown, firstConnect, client, wrappers, job, plan,
                 restartServ, faults, excused>>

(* The user confirms the restart of the services.                          *)
ConfirmRestart ==
  /\ plan = <<>>
  /\ required # "no"
  /\ restartServ' = required
  /\ required' = "no"
  /\ UNCHANGED <<settings, uidKnown, firstConnect, client, wrappers, job, plan, saves, faults,
                 excused, fresh>>

-----------------------------------------------------------------------------
(* The steps of the plan.                                                  *)

Take(step) == /\ plan # <<>>
              /\ Head(plan).step = step
              /\ plan' = Tail(plan)

(* A connected client sends what it has within the 3 s.                    *)
EndPause == /\ Take("pause")
            /\ online => outbox = <<>>
            /\ UNCHANGED <<settings, uidKnown, firstConnect, client, wrappers, job, required,
                           restartServ, saves, faults, excused, fresh>>

KeysOf(dev) == {key \in DOMAIN broker \cup DOMAIN outbox : key.dev = dev /\ key.topic = topic}
HasUid(dev) == IF dev = "hub" THEN uidKnown ELSE dev \in ids

RemoveHASSConfig ==
  /\ plan # <<>>
  /\ Head(plan).step = "remove"
  /\ LET dev == Head(plan).dev
     IN IF HasUid(dev)
          THEN /\ plan' = Tail(plan)
               /\ IF topic = ""
                    THEN UNCHANGED <<outbox, excused>>
                    ELSE /\ outbox' = Over(Message(Removable, dev, "none"), outbox)
                         /\ excused' = excused \ DOMAIN Message(Removable, dev, "none")
               /\ Disturb({dev})
          ELSE /\ plan' = Tail(Tail(plan))
               /\ excused' = excused \cup KeysOf(dev)
               /\ UNCHANGED <<outbox, fresh>>
  /\ UNCHANGED <<settings, uidKnown, firstConnect, online, broker, wrappers, job, required,
                 restartServ, saves, faults>>

(* The wrapper's unpair(): the id goes first.                              *)
UnpairDevice ==
  /\ Take("unpair")
  /\ LET dev == Head(plan).dev
     IN /\ paired' = paired \ {dev}
        /\ ids' = IF On(dev, "force_id") THEN ids ELSE ids \ {dev}
  /\ Disturb(Devs)
  /\ UNCHANGED <<enabled, topic, on, uidKnown, firstConnect, client, wrappers, job, required,
                 restartServ, saves, faults, excused>>

PutPreference ==
  /\ \/ /\ Take("enabled")
        /\ enabled' = Head(plan).enabled
        /\ UNCHANGED topic
     \/ /\ Take("topic")
        /\ topic' = Head(plan).topic
        /\ UNCHANGED enabled
  /\ Disturb(Devs)
  /\ UNCHANGED <<on, ids, paired, uidKnown, firstConnect, client, wrappers, job, required,
                 restartServ, saves, faults, excused>>

FinishHandler ==
  /\ \/ /\ Take("required")
        /\ required' = "reconnect"
        /\ UNCHANGED restartServ
     \/ /\ Take("restart")
        /\ restartServ' = "reconnect"
        /\ UNCHANGED required
  /\ UNCHANGED <<settings, uidKnown, firstConnect, client, wrappers, job, saves, faults, excused,
                 fresh>>

(* The chip starts: setMQTTConnectionSettings(), new wrappers.             *)
Boot ==
  /\ EnableByTopic
  /\ DropClient
  /\ NewWrappers
  /\ uidKnown' = FALSE
  /\ firstConnect' = TRUE
  /\ plan' = <<>>
  /\ required' = "no"
  /\ restartServ' = "no"
  /\ UNCHANGED <<paired, saves>>

(* The preferences are cleared, then the chip is restarted.                *)
ClearPreferences ==
  /\ plan # <<>>
  /\ Head(plan).step = "clear"
  /\ enabled' = FALSE
  /\ topic' = ""
  /\ on' = {}
  /\ ids' = {}
  /\ plan' = <<[step |-> "reboot"]>>
  /\ Disturb(Devs)
  /\ UNCHANGED <<paired, uidKnown, firstConnect, client, wrappers, job, required, restartServ,
                 saves, faults, excused>>

RestartAfterReset ==
  /\ plan # <<>>
  /\ Head(plan).step = "reboot"
  /\ Boot
  /\ UNCHANGED <<topic, on, ids, faults>>

(* A power failure or a watchdog of the network, and the BLE watchdog.     *)
Reboot ==
  /\ faults < MaxFaults
  /\ faults' = faults + 1
  /\ Boot
  /\ UNCHANGED <<topic, on, ids>>

WatchdogRestart ==
  /\ faults < MaxFaults
  /\ faults' = faults + 1
  /\ restartServ = "no"
  /\ plan = <<>>
  /\ Idle(nukiTask)
  /\ restartServ' = "plain"
  /\ UNCHANGED <<settings, uidKnown, firstConnect, client, wrappers, job, plan, required, saves,
                 excused, fresh>>

-----------------------------------------------------------------------------
NetworkTask == Deliver \/ RestartServices \/ WriteSection("hub") \/ PublishSection("hub")
NukiTask(dev) == ReadConfig(dev) \/ SetupDevice(dev) \/ WriteSection(dev) \/ PublishSection(dev)
Httpd == \/ EndPause \/ RemoveHASSConfig \/ UnpairDevice \/ PutPreference \/ FinishHandler
         \/ ClearPreferences \/ RestartAfterReset
Users == \/ \E e \in BOOLEAN, t \in Topics : SaveDiscovery(e, t)
         \/ \E dev \in Nukis : ProcessUnpair(dev) \/ Pair(dev)
         \/ ProcessFactoryReset
         \/ \E flag \in Flags : ChangeSetting(flag)
         \/ ConfirmRestart
Platform == Connect \/ Disconnect \/ Reboot \/ WatchdogRestart

Next == \/ NetworkTask
        \/ \E dev \in Nukis : NukiTask(dev) \/ PublishState(dev)
        \/ Httpd
        \/ Users
        \/ Platform

Spec == Init /\ [][Next]_vars

(* The tasks run; a paired device answers in the end.                      *)
FairSpec == /\ Spec
            /\ WF_vars(NetworkTask)
            /\ \A dev \in Nukis : WF_vars(NukiTask(dev))
            /\ WF_vars(Httpd)

-----------------------------------------------------------------------------
(* Properties                                                              *)

(* Every variable has its type; a message is a document or a removal.      *)
HassTypeOK ==
  /\ enabled \in BOOLEAN
  /\ topic \in Topics
  /\ ids \subseteq Nukis /\ paired \subseteq Nukis
  /\ uidKnown \in BOOLEAN /\ firstConnect \in BOOLEAN
  /\ online \in BOOLEAN
  /\ DOMAIN outbox \subseteq Keys
  /\ \A key \in DOMAIN outbox : outbox[key] \in {"own", "other", "none"}
  /\ DOMAIN broker \subseteq Keys
  /\ \A key \in DOMAIN broker : broker[key] \in {"own", "other"}
  /\ hassEnabled \in BOOLEAN
  /\ configValid \subseteq Nukis /\ completed \subseteq Nukis
  /\ at \in [Devs -> Nat] /\ written \in [Devs -> {"none", "own", "other"}]
  /\ required \in {"no", "plain", "reconnect"} /\ restartServ \in {"no", "plain", "reconnect"}
  /\ saves \in 0 .. MaxSaves /\ faults \in 0 .. MaxFaults
  /\ fresh \in [Devs -> {"no", "under way", "yes"}]

(* Nothing is under way, all messages are with the broker and the settings *)
(* are in force.                                                           *)
Settled == ~Changing /\ Idle(Devs) /\ outbox = <<>>

(* Changing the discovery topic, and disabling discovery, which clears the *)
(* topic, leaves nothing under the old topic, whatever setups, lost        *)
(* connections and restarts came between the removal and the change.  The  *)
(* exceptions: entities that removeHASSConfig's list misses, and those     *)
(* whose last removal was lost with the client (H14), overtaken by a setup *)
(* before the topic was changed (H13), or left out since the identity of   *)
(* the device was not known (H15).                                         *)
NoGhostEntities ==
  Settled => \A key \in DOMAIN broker \ excused :
               key.name \notin LeftBehind /\ key.topic # "" => key.topic = topic

(* README:790 "Retained messages are automatically cleared when unpairing  *)
(* and when changing/disabling autodiscovery topic", without exceptions    *)
(* but for the entities that are not in removeHASSConfig's list.           *)
RetainedMessagesCleared ==
  Settled => \A key \in DOMAIN broker :
               key.name \notin LeftBehind /\ key.topic # "" =>
                 key.topic = topic /\ key.dev \in paired \cup {"hub"}

(* After a setup that nothing disturbed, the device has exactly the        *)
(* entities that the settings call for, whatever an earlier setup with     *)
(* other settings had published, and each holds a document of its own.     *)
EntitiesFollowSettings ==
  \A dev \in Devs :
    fresh[dev] = "yes" /\ outbox = <<>> /\ topic # "" =>
      LET retained == {key \in DOMAIN broker : key.topic = topic /\ key.dev = dev}
          wanted == UNION {Shown(Sections(dev)[i], dev) : i \in 1 .. Len(Sections(dev))}
      IN /\ {key.name : key \in retained} \ {"query_keypad"} = wanted \ {"query_keypad"}
         /\ \A key \in retained : key.name \in wanted => broker[key] = "own"

(* README:779 "Once enabled, the Nuki Lock and/or Opener and related       *)
(* entities should automatically appear": once discovery is on and in      *)
(* force, a paired device that stays connected gets its entity, whatever   *)
(* was disabled, unpaired, disconnected or restarted before.               *)
DeviceIsReady(dev) ==
  /\ enabled /\ topic # "" /\ online /\ ~Changing
  /\ dev \in paired /\ (dev \in ids \/ ~On(dev, "force_id"))
Appears(dev) == [topic |-> topic, dev |-> dev, name |-> "smartlock"] \in DOMAIN broker
DevicesAppear == \A dev \in Nukis : <>[]DeviceIsReady(dev) => <>[]Appears(dev)
=============================================================================
