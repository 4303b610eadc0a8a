----------------------------- MODULE GpioInputs -----------------------------
(***************************************************************************)
(* The input pins: the timer interrupt of Gpio samples them every 100 ms   *)
(* and notifies the rest of the program, networkTask publishes their       *)
(* state 200 ms after a notification, restartServices() loads the pin      *)
(* configuration again, and the chip restarts.                             *)
(*                                                                         *)
(* The register _triggerState[pin] is abstracted to what isTriggered looks *)
(* at: the last three samples (hist) and the level last settled            *)
(* (lastState, bit 7).  A change of level that reverts before the register *)
(* has settled is a glitch.                                                *)
(***************************************************************************)
EXTENDS Integers, FiniteSets

CONSTANTS
  ActionPins,  \* roles InputLock .. InputDeactivateCM: pull-up, act on LOW
  DoorPins,    \* the two door sensor roles
  GeneralPins, \* GeneralInputPullDown, GeneralInputPullUp
  NoPin,       \* no pin
  MaxChanges,  \* bound: changes of the level of a pin
  MaxGlitches, \* bound: changes of a level that has not settled
  MaxBoots,    \* bound: restarts of the chip on request
  MaxReloads   \* bound: restarts of the services

Pins == ActionPins \cup DoorPins \cup GeneralPins

ASSUME PinsAssumption == /\ NoPin \notin Pins
                         /\ ActionPins \cap (DoorPins \cup GeneralPins) = {}
                         /\ DoorPins \cap GeneralPins = {}
ASSUME GpioBoundsAssumption == /\ MaxChanges \in Nat
                               /\ MaxGlitches \in Nat
                               /\ MaxBoots \in Nat
                               /\ MaxReloads \in Nat

VARIABLES
  esp,        \* the chip: "running", "restarting", or "panic"
  rebuild,    \* rebuildGpioRequested, kept over a restart
  level,      \* the level of each pin: 0 LOW, 1 HIGH
  hist,       \* _triggerState[pin] & 0x07
  lastState,  \* _triggerState[pin] >> 7
  config,     \* the pins in _pinConfiguration
  loading,    \* loadPinConfiguration is running
  todo,       \* onTimer: the pins the loop has not reached
  firing,     \* onTimer: the pin isTriggered has returned true for
  gpioTs,     \* _gpioTs[pin]: "none", "zero", "recent", "due" (200 ms)
  netPin,     \* NukiNetwork::update: the pin of the loop body
  netPc,      \* its position there
  published,  \* gpio/pin_x/state as last handed to the MQTT client
  doorLevel,  \* the level the last door event of a pin stood for
  events,     \* history: actions notified for a pin
  presses,    \* history: how often a pin was connected to ground
  ticks,      \* history: samples of a pin since its level changed, up to 4
  owed,       \* history: pressed after 300 ms of rest, no action yet
  count       \* history: how often each bounded event has happened

sampleVars  == <<hist, lastState>>
isrVars     == <<todo, firing>>
configVars  == <<config, loading>>
netVars     == <<netPin, netPc>>
ghostVars   == <<ticks, owed>>
gpioVars    == <<esp, rebuild, level, sampleVars, configVars, isrVars, gpioTs, netVars,
                 published, doorLevel, events, presses, ghostVars, count>>

LOW == 0
HIGH == 1
NoLevel == 2
All(l) == IF l = HIGH THEN 7 ELSE 0

BoundedEvents == {"change", "glitch", "boot", "reload"}
Happens(e, max) == /\ count[e] < max
                   /\ count' = [count EXCEPT ![e] = @ + 1]

TickTypes ==
  /\ level \in [Pins -> {LOW, HIGH}]
  /\ hist \in [Pins -> 0..7]
  /\ lastState \in [Pins -> {LOW, HIGH}]
  /\ todo \in SUBSET Pins
  /\ firing \in Pins \cup {NoPin}
  /\ ticks \in [Pins -> 0..4]
  /\ owed \in [Pins -> BOOLEAN]
  /\ events \in [Pins -> Nat]
  /\ presses \in [Pins -> Nat]

OtherTypes ==
  /\ esp \in {"running", "restarting", "panic"}
  /\ rebuild \in BOOLEAN
  /\ config \in SUBSET Pins
  /\ loading \in BOOLEAN
  /\ gpioTs \in [Pins -> {"none", "zero", "recent", "due"}]
  /\ netPin \in Pins \cup {NoPin}
  /\ netPc \in {"idle", "clear", "publish"}
  /\ published \in [Pins -> {LOW, HIGH}]
  /\ doorLevel \in [Pins -> {LOW, HIGH, NoLevel}]
  /\ count \in [BoundedEvents -> Nat]

\* Types; a pin is never examined again within one interrupt, and the loop of
\* networkTask holds a pin exactly while it works on it.
GpioTypeOK == /\ TickTypes
              /\ OtherTypes
              /\ firing \notin todo
              /\ netPin = NoPin <=> netPc = "idle"

\* The first start after the pins were configured: initialize() publishes their
\* levels.
Init ==
  /\ esp = "running"
  /\ rebuild = FALSE
  /\ level \in [Pins -> {LOW, HIGH}]
  /\ hist = [p \in Pins |-> 0]
  /\ lastState = [p \in Pins |-> LOW]
  /\ config = Pins
  /\ loading = FALSE
  /\ todo = {}
  /\ firing = NoPin
  /\ gpioTs = [p \in Pins |-> "none"]
  /\ netPin = NoPin
  /\ netPc = "idle"
  /\ published = level
  /\ doorLevel = [p \in Pins |-> NoLevel]
  /\ events = [p \in Pins |-> 0]
  /\ presses = [p \in Pins |-> 0]
  /\ ticks = [p \in Pins |-> 0]
  /\ owed = [p \in Pins |-> FALSE]
  /\ count = [e \in BoundedEvents |-> 0]

----------------------------------------------------------------------------
(* The timer interrupt *)

InInterrupt == todo # {} \/ firing # NoPin

\* The alarm: a new pass over _pinConfiguration.
OnTimer ==
  /\ esp = "running" /\ ~InInterrupt
  /\ config # {}
  /\ todo' = config
  /\ ticks' = [p \in Pins |-> IF p \notin config THEN 0
                              ELSE IF ticks[p] < 4 THEN ticks[p] + 1 ELSE 4]
  /\ owed' = [p \in Pins |-> owed[p] /\ p \in config]
  /\ UNCHANGED <<esp, rebuild, level, sampleVars, configVars, firing, gpioTs, netVars,
                 published, doorLevel, events, presses, count>>

\* Mutant: the samples are not masked.
ShiftedUnmasked(p) == 2 * hist[p] + level[p]

Shifted(p) == (2 * hist[p] + level[p]) % 8
Changes(p) == Shifted(p) = All(level[p]) /\ level[p] # lastState[p]

\* Mutant: every role reports LOW only.
ReportsLowOnly(p) == level[p] = LOW
\* Mutant: action pins report the release.
ReportsRelease(p) == p \in ActionPins => level[p] = HIGH

\* General inputs and door sensors report both levels.
Reports(p) == p \in ActionPins => level[p] = LOW

\* Mutant: the level that has settled is not remembered.
IsTriggeredForgets(p) ==
  /\ esp = "running" /\ firing = NoPin /\ p \in todo
  /\ todo' = todo \ {p}
  /\ hist' = [hist EXCEPT ![p] = Shifted(p)]
  /\ IF Changes(p)
       THEN /\ firing' = IF Reports(p) THEN p ELSE NoPin
            /\ lastState' = [lastState EXCEPT ![p] = HIGH]
       ELSE UNCHANGED <<lastState, firing>>
  /\ UNCHANGED <<esp, rebuild, level, configVars, gpioTs, netVars,
                 published, doorLevel, events, presses, ghostVars, count>>

\* One sample; three equal ones that differ from the level last settled are a
\* change, which an action pin reports only when it is LOW.
IsTriggered(p) ==
  /\ esp = "running" /\ firing = NoPin /\ p \in todo
  /\ todo' = todo \ {p}
  /\ hist' = [hist EXCEPT ![p] = Shifted(p)]
  /\ IF Changes(p)
       THEN /\ lastState' = [lastState EXCEPT ![p] = level[p]]
            /\ firing' = IF Reports(p) THEN p ELSE NoPin
       ELSE UNCHANGED <<lastState, firing>>
  /\ UNCHANGED <<esp, rebuild, level, configVars, gpioTs, netVars,
                 published, doorLevel, events, presses, ghostVars, count>>

\* getGpioAction, which reads a door sensor's pin once more, and the callbacks.
\* The first notification of a pin inserts into a map networkTask may be
\* iterating over, which is undefined behaviour.
Notify ==
  /\ esp = "running" /\ firing # NoPin
  /\ firing' = NoPin
  /\ events' = [events EXCEPT ![firing] = IF firing \in ActionPins THEN @ + 1 ELSE @]
  /\ owed' = [owed EXCEPT ![firing] = FALSE]
  /\ doorLevel' = [doorLevel EXCEPT ![firing] = IF firing \in DoorPins THEN level[firing] ELSE @]
  /\ gpioTs' = [gpioTs EXCEPT ![firing] = "recent"]
  /\ esp' \in IF gpioTs[firing] = "none" /\ netPc # "idle" THEN {"running", "panic"}
              ELSE {"running"}
  /\ UNCHANGED <<rebuild, level, sampleVars, configVars, todo, netVars, published,
                 presses, ticks, count>>

\* The loop meets a vector that loadPinConfiguration is rebuilding: the chip
\* panics or the loop ends.
LoopOverLoading ==
  /\ esp = "running" /\ loading /\ todo # {} /\ firing = NoPin
  /\ esp' \in {"running", "panic"}
  /\ todo' = {}
  /\ ticks' = [p \in Pins |-> IF p \in todo THEN 0 ELSE ticks[p]]
  /\ owed' = [p \in Pins |-> owed[p] /\ p \notin todo]
  /\ UNCHANGED <<rebuild, level, sampleVars, configVars, firing, gpioTs, netVars,
                 published, doorLevel, events, presses, count>>

----------------------------------------------------------------------------
(* restartServices() -> setPins() *)

LoadPinConfiguration ==
  /\ esp = "running" /\ ~loading
  /\ Happens("reload", MaxReloads)
  /\ loading' = TRUE
  /\ config' = {}
  /\ UNCHANGED <<esp, rebuild, level, sampleVars, isrVars, gpioTs, netVars,
                 published, doorLevel, events, presses, ghostVars>>

PushBack(p) ==
  /\ esp = "running" /\ loading /\ p \in Pins \ config
  /\ config' = config \cup {p}
  /\ loading' = (config' # Pins)
  /\ UNCHANGED <<esp, rebuild, level, sampleVars, isrVars, gpioTs, netVars,
                 published, doorLevel, events, presses, ghostVars, count>>

----------------------------------------------------------------------------
(* networkTask: the loop over _gpioTs at the end of NukiNetwork::update() *)

FindDue(p) ==
  /\ esp = "running" /\ netPc = "idle"
  /\ gpioTs[p] = "due"
  /\ netPin' = p
  /\ netPc' = "clear"
  /\ UNCHANGED <<esp, rebuild, level, sampleVars, configVars, isrVars, gpioTs,
                 published, doorLevel, events, presses, ghostVars, count>>

ClearTs ==
  /\ esp = "running" /\ netPc = "clear"
  /\ gpioTs' = [gpioTs EXCEPT ![netPin] = "zero"]
  /\ netPc' = "publish"
  /\ UNCHANGED <<esp, rebuild, level, sampleVars, configVars, isrVars, netPin,
                 published, doorLevel, events, presses, ghostVars, count>>

PublishState ==
  /\ esp = "running" /\ netPc = "publish"
  /\ published' = [published EXCEPT ![netPin] = level[netPin]]
  /\ netPin' = NoPin
  /\ netPc' = "idle"
  /\ UNCHANGED <<esp, rebuild, level, sampleVars, configVars, isrVars, gpioTs,
                 doorLevel, events, presses, ghostVars, count>>

----------------------------------------------------------------------------
(* Outside *)

Settled(p) == hist[p] = All(level[p])

\* Connecting a pin to ground or releasing it, also while the chip is down.
ChangeLevel(p) ==
  /\ count["change"] < MaxChanges
  /\ Settled(p) \/ count["glitch"] < MaxGlitches
  /\ count' = [count EXCEPT !["change"] = @ + 1,
                            !["glitch"] = IF Settled(p) THEN @ ELSE @ + 1]
  /\ level' = [level EXCEPT ![p] = 1 - @]
  /\ presses' = [presses EXCEPT ![p] = IF level[p] = HIGH THEN @ + 1 ELSE @]
  /\ owed' = [owed EXCEPT ![p] = p \in ActionPins /\ level[p] = HIGH /\ ticks[p] = 4]
  /\ ticks' = [ticks EXCEPT ![p] = 0]
  /\ UNCHANGED <<esp, rebuild, sampleVars, configVars, isrVars, gpioTs, netVars,
                 published, doorLevel, events>>

DebounceTimeOver(p) ==
  /\ esp = "running" /\ gpioTs[p] = "recent"
  /\ gpioTs' = [gpioTs EXCEPT ![p] = "due"]
  /\ UNCHANGED <<esp, rebuild, level, sampleVars, configVars, isrVars, netVars,
                 published, doorLevel, events, presses, ghostVars, count>>

\* restartEsp: only a new pin configuration asks for its topics to be rebuilt.
RestartEsp(gpioSaved) ==
  /\ esp = "running"
  /\ Happens("boot", MaxBoots)
  /\ esp' = "restarting"
  /\ rebuild' = gpioSaved
  /\ UNCHANGED <<level, sampleVars, configVars, isrVars, gpioTs, netVars,
                 published, doorLevel, events, presses, ghostVars>>

\* setup(): Gpio::init and NukiNetwork::initialize.
Boot ==
  /\ esp # "running"
  /\ esp' = "running"
  /\ rebuild' = FALSE
  /\ hist' = [p \in Pins |-> 0]
  /\ lastState' = [p \in Pins |-> LOW]
  /\ config' = Pins
  /\ loading' = FALSE
  /\ todo' = {}
  /\ firing' = NoPin
  /\ gpioTs' = [p \in Pins |-> "none"]
  /\ netPin' = NoPin
  /\ netPc' = "idle"
  /\ published' = IF rebuild THEN level ELSE published
  /\ ticks' = [p \in Pins |-> 0]
  /\ owed' = [p \in Pins |-> FALSE]
  /\ UNCHANGED <<level, doorLevel, events, presses, count>>

----------------------------------------------------------------------------
(* Specification *)

Interrupt == \/ OnTimer
             \/ \E p \in Pins : IsTriggered(p)
             \/ Notify
             \/ LoopOverLoading

NetworkTask == (\E p \in Pins : FindDue(p)) \/ ClearTs \/ PublishState

Next ==
  \/ Interrupt
  \/ NetworkTask
  \/ LoadPinConfiguration
  \/ \E p \in Pins : PushBack(p) \/ DebounceTimeOver(p) \/ ChangeLevel(p)
  \/ \E g \in BOOLEAN : RestartEsp(g)
  \/ Boot

Spec == Init /\ [][Next]_gpioVars

\* The timer and the task run for ever, time passes, a load that has begun
\* ends, the chip boots, and the MQTT connection, without which update()
\* returns before the loop, does not stay away for ever.
Fairness == /\ WF_gpioVars(Interrupt)
            /\ WF_gpioVars(NetworkTask)
            /\ \A p \in Pins : WF_gpioVars(DebounceTimeOver(p))
            /\ WF_gpioVars(\E p \in Pins : PushBack(p))
            /\ WF_gpioVars(Boot)

FairSpec == Spec /\ Fairness

----------------------------------------------------------------------------
(* Properties *)

\* A pin causes at most one action each time it is connected to ground: a
\* bouncing contact, a reload of the configuration or a restart of the chip
\* with the button held does not repeat it.
OneActionPerPress == \A p \in ActionPins : events[p] <= presses[p]

\* A pin that was left alone for 300 ms and then connected to ground for
\* another 300 ms has caused its action (three whole periods of the timer mean
\* a fourth sample).
PressActs ==
  \A p \in ActionPins :
    ~(owed[p] /\ level[p] = LOW /\ ticks[p] = 4 /\ ~InInterrupt)

\* The state topic of an input other than an action pin comes to show its level.
InputStatePublished ==
  \A p \in GeneralPins \cup DoorPins, l \in {LOW, HIGH} :
    <>[](level[p] = l) => <>[](published[p] = l)

Undisturbed == [](esp = "running" /\ count["glitch"] = 0)

\* The last event of a door sensor, if it has sent one, stands for its level,
\* although the level is read twice.
DoorEventsRight ==
  \A p \in DoorPins, l \in {LOW, HIGH} :
    <>[](level[p] = l) => <>[](doorLevel[p] \in {NoLevel, l})

\* Both do so, although the interrupt and networkTask share the timestamp
\* without a lock, as long as the chip does not restart and no level has
\* glitches.
InputsCatchUp == Undisturbed => InputStatePublished /\ DoorEventsRight
=============================================================================
