------------------------------ MODULE LockData ------------------------------
(***************************************************************************)
(* What the hub knows of the data kept by a lock or an opener, its keypad  *)
(* codes, time control entries, authorizations and settings, and the       *)
(* commands that change them.                                              *)
(*                                                                         *)
(* Commands are carried out by networkTask inside the MQTT callback.  The  *)
(* lists and the settings are read by nukiTask in checkQueries, a list in  *)
(* two phases: updateKeypad(false) asks for the entries, which the BLE     *)
(* library collects, and updateKeypad(true) takes what has been collected  *)
(* five seconds later.  Both tasks ask, so either may empty the library's  *)
(* list under the other.  The lock can also be changed with Nuki's app.    *)
(*                                                                         *)
(* A behaviour exercises the commands of one kind.  "topics" are the       *)
(* keypad commands put together from several topics; the other four are    *)
(* JSON commands.                                                          *)
(***************************************************************************)
EXTENDS Integers, Sequences

CONSTANTS
  Kinds,       \* of "keypad", "topics", "timecontrol", "auth", "config"
  Ids,         \* identifiers of entries
  NoEntry,     \* no entry with this identifier
  Retries,     \* _nrOfRetries
  Settings,    \* values the client gives autoLockTimeOut
  MaxCommands, \* bound: JSON commands of the client
  MaxTopicCommands, \* bound: commands put together from topics
  MaxFaults,   \* bound: failed exchanges, slow lists, lost messages
  MaxChanges   \* bound: changes with Nuki's app

ASSUME DataAssumption ==
  /\ Kinds \subseteq {"keypad", "topics", "timecontrol", "auth", "config"}
  /\ Kinds # {} /\ Ids # {} /\ Ids \subseteq Nat \ {0}
  /\ Retries \in Nat /\ Settings \subseteq 30..1800 /\ Settings # {}
  /\ {MaxCommands, MaxTopicCommands, MaxFaults, MaxChanges} \subseteq Nat

\* Values of a field.  OLD marks a time taken from the stored entry, JUNK is
\* what an array that was never written holds.
NOT_GIVEN == 0
Given == {2}
Values == {1} \cup Given
ZEROS == 0
JUNK == 3
OLD == 4
UNSET == 2   \* of enabled and timeLimited, which are 0 or 1

\* Names: LONG has more than the 20 characters of a command, CUT is what is
\* left of it.  The lock keeps 32 of the name of an authorization.
LONG == 5
CUT == 6
Names == Values \cup {NOT_GIVEN, LONG, CUT}
Cut(name) == IF name = LONG THEN CUT ELSE name

\* "code" is the code of the keypad, the remote access of an authorization, or
\* the action of a time control entry, which has no name.
Entry == [code : Values, name : Names, enabled : {0, 1}, limited : {0, 1},
          times : Values \cup {ZEROS, JUNK}]
ASSUME NoEntryAssumption == NoEntry \notin Entry

List == [Ids -> Entry \cup {NoEntry}]
EmptyList == [i \in Ids |-> NoEntry]
Known(list) == {i \in Ids : list[i] # NoEntry}

NoCommand == [action |-> "none", id |-> 0, code |-> NOT_GIVEN, name |-> NOT_GIVEN,
              enabled |-> UNSET, limited |-> UNSET, times |-> NOT_GIVEN]

\* Parameters of a keypad command; idOf etc. are history: the number of the
\* client's command that gave the value, 0 for the hub's own.
NoParameters == [id |-> 0, code |-> NOT_GIVEN, name |-> NOT_GIVEN, enabled |-> 1,
                 idOf |-> 0, codeOf |-> 0, nameOf |-> 0]

VARIABLES
  kind,      \* which commands this behaviour exercises
  device,    \* the entries in the lock
  setting,   \* autoLockTimeOut in the lock
  library,   \* the BLE library's list of entries
  arriving,  \* entries of the last request it has not received yet
  wait,      \* _waitKeypadUpdateTs etc.: "no", "running", "due"
  due,       \* _nextConfigUpdateTs, _nextKeypadUpdateTs that have passed
  valid,     \* _nukiConfigValid
  hasKeypad, \* _hasKeypad
  copy,      \* _nukiAdvancedConfig.autoLockTimeOut
  ids,       \* _keypadCodeIds, _timeControlIds, _authIds
  published, \* the list as last published
  nuki,      \* position of nukiTask in checkQueries
  net,       \* position of networkTask in the handler of a command
  cmd,       \* the command as sent
  have,      \* the handler's variables: the command, completed from the entry
  stamp,     \* allowedFromAr etc. of this turn of the loop
  exists,    \* idExists
  tries,     \* retryCount
  param,     \* _keypadCommandId, _keypadCommandCode, _keypadCommandName etc.
  mail,      \* messages of the keypad topics on their way to the hub
  draft,     \* messages of the client's command not sent yet
  done,      \* history: number of the last topic command that was handled
  touched,   \* history: the app changed the lock since the command arrived
  count      \* history: how often each bounded event has happened

lockVars  == <<device, setting, touched>>
bleVars   == <<library, arriving, wait>>
listVars  == <<ids, published>>
copyVars  == <<valid, hasKeypad, copy>>
netVars   == <<net, cmd, have, stamp, exists, tries>>
topicVars == <<param, mail, draft, done>>
dataVars  == <<kind, lockVars, bleVars, due, copyVars, listVars,
              nuki, netVars, topicVars, count>>

Happens(e, max) == /\ count[e] < max
                   /\ count' = [count EXCEPT ![e] = @ + 1]
Fault == Happens("fault", MaxFaults)
NoFault == UNCHANGED count

----------------------------------------------------------------------------
(* The lock, the BLE exchanges and the clock *)

\* A change with Nuki's app.
AppChanges ==
  /\ kind # "topics" /\ Happens("change", MaxChanges)
  /\ touched' = TRUE
  /\ \/ /\ kind = "config"
        /\ setting' \in Settings \ {setting}
        /\ UNCHANGED device
     \/ /\ kind # "config"
        /\ \E i \in Known(device) :
             device' \in {[device EXCEPT ![i] = NoEntry],
                         [device EXCEPT ![i].code = IF @ = 1 THEN 2 ELSE 1]}
        /\ UNCHANGED setting
  /\ UNCHANGED <<kind, bleVars, due, copyVars, listVars, nuki, netVars, topicVars>>

\* _nukiLock.retrieveKeypadEntries etc.: the library drops what it has and asks.
AskSucceeds == library' = EmptyList /\ arriving' = device /\ NoFault
AskFails    == library' = EmptyList /\ arriving' = EmptyList /\ Fault

\* An entry of the answer is received.
Arrive == \E i \in Known(arriving) :
  /\ library' = [library EXCEPT ![i] = arriving[i]]
  /\ arriving' = [arriving EXCEPT ![i] = NoEntry]
  /\ UNCHANGED <<kind, lockVars, wait, due, copyVars, listVars, nuki, netVars, topicVars, count>>

\* Five seconds after a request: all of the answer is there, or the link is slow.
Received == \/ arriving = EmptyList /\ NoFault
            \/ arriving # EmptyList /\ Fault

WaitEnds ==
  /\ wait = "running"
  /\ wait' = "due"
  /\ Received
  /\ UNCHANGED <<kind, lockVars, library, arriving, due, copyVars, listVars, nuki, netVars, topicVars>>

\* The intervals are far longer than a pass with the five seconds after it.
\* The keypad's handlers use nothing of the configuration after the first time.
IntervalElapses ==
  /\ wait = "no"
  /\ due' = due \cup {IF kind \in {"keypad", "topics"} THEN "keypad" ELSE "config"}
  /\ due' # due
  /\ UNCHANGED <<kind, lockVars, bleVars, copyVars, listVars, nuki, netVars, topicVars, count>>

----------------------------------------------------------------------------
(* nukiTask: checkQueries *)

\* Mutant: the time stamp for taking the list is not set.
RequestListMutant ==
  \/ AskSucceeds /\ UNCHANGED wait
  \/ AskFails /\ UNCHANGED wait

\* updateKeypad(false), updateTimeControl(false), updateAuth(false)
RequestList ==
  \/ AskSucceeds /\ wait' = "running"
  \/ AskFails /\ UNCHANGED wait

\* updateConfig, when it fails: the ten seconds before it tries again are not
\* distinguished from an interval.
RetryConfig == due' = due \cup {"config"} /\ nuki' = "idle"

\* The time stamp is set to the next interval, then the configuration is read
\* and the time control entries and authorizations are asked for.
ReadConfig ==
  /\ nuki = "idle" /\ "config" \in due
  /\ \/ /\ valid' = TRUE /\ hasKeypad' = TRUE
        /\ due' = due \ {"config"} /\ nuki' = "advanced"
        /\ IF kind \in {"timecontrol", "auth"} THEN RequestList ELSE NoFault /\ UNCHANGED bleVars
     \/ valid' = FALSE /\ RetryConfig /\ Fault /\ UNCHANGED <<hasKeypad, bleVars>>
  /\ UNCHANGED <<kind, lockVars, copy, listVars, netVars, topicVars>>

ReadAdvancedConfig ==
  /\ nuki = "advanced"
  /\ \/ copy' = setting /\ nuki' = "idle" /\ NoFault /\ UNCHANGED due
     \/ RetryConfig /\ Fault /\ UNCHANGED copy
  /\ UNCHANGED <<kind, lockVars, bleVars, valid, hasKeypad, listVars, netVars, topicVars>>

KeypadDue ==
  /\ nuki = "idle" /\ "keypad" \in due /\ hasKeypad
  /\ due' = due \ {"keypad"}
  /\ RequestList
  /\ UNCHANGED <<kind, lockVars, copyVars, listVars, nuki, netVars, topicVars>>

\* checkQueries looks at the time stamp, then resets it, then takes the list:
\* networkTask may ask for the list again in between.
ListDue ==
  /\ nuki = "idle" /\ wait = "due"
  /\ nuki' = "reset"
  /\ UNCHANGED <<kind, lockVars, bleVars, due, copyVars, listVars, netVars, topicVars, count>>

ResetWait ==
  /\ nuki = "reset"
  /\ wait' = "no"
  /\ nuki' = "publish"
  /\ UNCHANGED <<kind, lockVars, library, arriving, due, copyVars, listVars, netVars, topicVars, count>>

\* updateKeypad(true) etc.: publish, then clear the identifiers and fill them in.
PublishList ==
  /\ nuki = "publish"
  /\ published' = library /\ ids' = {}
  /\ nuki' = "fill"
  /\ UNCHANGED <<kind, lockVars, bleVars, due, copyVars, netVars, topicVars, count>>

FillIds ==
  /\ nuki = "fill"
  /\ ids' = Known(published)
  /\ nuki' = "idle"
  /\ UNCHANGED <<kind, lockVars, bleVars, due, copyVars, published, netVars, topicVars, count>>

NukiTask == \/ ReadConfig \/ ReadAdvancedConfig
            \/ KeypadDue \/ ListDue \/ ResetWait \/ PublishList \/ FillIds

----------------------------------------------------------------------------
(* networkTask: the JSON commands *)

\* Mutant: retryCount is compared with <=.
AttemptsMutant == IF kind = "auth" THEN Retries + 1 ELSE Retries + 2

Attempts == IF kind = "auth" THEN Retries ELSE Retries + 1

\* Commands name fields in any combination; enough of them to tell apart the
\* fields given from those completed.
Limits  == {<<0, NOT_GIVEN>>, <<1, NOT_GIVEN>>, <<UNSET, NOT_GIVEN>>} \cup ({1, UNSET} \X Given)
Others  == {<<NOT_GIVEN, NOT_GIVEN, UNSET>>, <<NOT_GIVEN, NOT_GIVEN, 0>>}
             \cup (Given \X {NOT_GIVEN} \X {UNSET}) \cup ({NOT_GIVEN} \X Given \X {UNSET})
Deletes == {[NoCommand EXCEPT !.action = "delete", !.id = i] : i \in Ids}
Adds    == {[action |-> "add", id |-> 0, code |-> c, name |-> n, enabled |-> UNSET,
             limited |-> l[1], times |-> l[2]] :
              c \in Given, n \in IF kind = "timecontrol" THEN {NOT_GIVEN} ELSE Given, l \in Limits}
Updates == {[action |-> "update", id |-> i, code |-> o[1], name |-> o[2], enabled |-> o[3],
             limited |-> l[1], times |-> l[2]] : i \in Ids, o \in Others, l \in Limits}
Sets    == {[NoCommand EXCEPT !.action = "set", !.id = v] : v \in Settings}
Commands == IF kind = "config" THEN Sets
            ELSE {c \in Deletes \cup Adds \cup Updates :
                    kind = "timecontrol" => c.limited = UNSET /\ c.name = NOT_GIVEN}

\* Whether the handler gets as far as the action.
Ready == IF kind = "keypad" THEN hasKeypad ELSE valid

HandlerEnds == net' = "idle" /\ cmd' = NoCommand /\ have' = NoCommand /\ stamp' = ZEROS
               /\ exists' = FALSE /\ tries' = 0

Receive(c) ==
  /\ kind # "topics" /\ net = "idle" /\ Happens("command", MaxCommands)
  /\ Ready
  /\ cmd' = c /\ have' = c
  /\ exists' = (c.id \in ids)
  /\ net' = IF kind = "config" THEN "set" ELSE "try"
  /\ touched' = FALSE
  /\ UNCHANGED <<kind, device, setting, bleVars, due, copyVars, listVars, nuki, stamp, tries, topicVars>>

\* An exchange that leaves the lock with one of newLists, or is refused by the
\* lock if there is none; the answer may be lost after the lock has acted.
Exchange(newLists, success, failure) ==
  \/ device' \in newLists /\ net' = success /\ UNCHANGED tries /\ NoFault
  \/ newLists = {} /\ UNCHANGED device /\ net' = failure /\ tries' = tries + 1 /\ NoFault
  \/ device' \in newLists \cup {device} /\ net' = failure /\ tries' = tries + 1 /\ Fault

Sends(newLists) == Exchange(newLists, "finish", "try")

Stored(entry, where) == {[device EXCEPT ![i] = entry] : i \in where}
Free == Ids \ Known(device)
Named == {have.id} \cap Known(device)

\* The time stamps are parsed, and checked, in every turn of the loop.
TimesParsed == kind = "timecontrol" \/ have.limited = 1
ParsedTimes == IF have.times \notin Given THEN ZEROS
               ELSE IF TimesParsed THEN have.times ELSE JUNK

Refused == \/ have.action \in {"delete", "update"} /\ ~exists
           \/ have.action = "add" /\ kind = "auth"
           \/ have.action # "delete" /\ have.times = OLD /\ TimesParsed

Refuse ==
  /\ net = "try" /\ tries < Attempts /\ Refused
  /\ HandlerEnds
  /\ UNCHANGED <<kind, lockVars, bleVars, due, copyVars, listVars, nuki, topicVars, count>>

Delete ==
  /\ net = "try" /\ tries < Attempts /\ ~Refused /\ have.action = "delete"
  /\ Sends(Stored(NoEntry, Named))
  /\ UNCHANGED <<kind, setting, touched, bleVars, due, copyVars, listVars, nuki, cmd, have, stamp, exists, topicVars>>

Add ==
  /\ net = "try" /\ tries < Attempts /\ ~Refused /\ have.action = "add"
  /\ Sends(Stored([code |-> have.code, name |-> Cut(have.name), enabled |-> 1,
                   limited |-> IF TimesParsed THEN 1 ELSE 0, times |-> ParsedTimes], Free))
  /\ UNCHANGED <<kind, setting, touched, bleVars, due, copyVars, listVars, nuki, cmd, have, stamp, exists, topicVars>>

\* The first half of an update: ask for the list, so as to complete the command.
Retrieve ==
  /\ net = "try" /\ tries < Attempts /\ ~Refused /\ have.action = "update"
  /\ \/ /\ AskSucceeds
        /\ net' = "waiting" /\ stamp' = ParsedTimes
        /\ UNCHANGED <<cmd, have, exists, tries>>
     \/ AskFails /\ HandlerEnds
  /\ UNCHANGED <<kind, lockVars, wait, due, copyVars, listVars, nuki, topicVars>>

\* Mutant: an optional timeLimited is taken as off.
CompleteMutant ==
  LET e == library[have.id] IN
  /\ net = "waiting" /\ Received
  /\ IF e = NoEntry THEN HandlerEnds
     ELSE /\ have' = [have EXCEPT !.code    = IF @ = NOT_GIVEN THEN e.code ELSE @,
                                  !.name    = IF cmd.name = NOT_GIVEN THEN e.name ELSE @,
                                  !.enabled = IF @ = UNSET THEN e.enabled ELSE @,
                                  !.limited = IF @ = UNSET THEN 0 ELSE @,
                                  !.times   = IF @ = NOT_GIVEN THEN OLD ELSE @]
          /\ stamp' = IF have.times = NOT_GIVEN THEN e.times ELSE stamp
          /\ net' = "write"
          /\ UNCHANGED <<cmd, exists, tries>>
  /\ UNCHANGED <<kind, lockVars, bleVars, due, copyVars, listVars, nuki, topicVars>>

\* vTaskDelay(5000), then fields not given are taken from the stored entry, the
\* name, which is kept apart in oldName, in every turn of the loop.
Complete ==
  LET e == library[have.id] IN
  /\ net = "waiting" /\ Received
  /\ IF e = NoEntry THEN HandlerEnds
     ELSE /\ have' = [have EXCEPT !.code    = IF @ = NOT_GIVEN THEN e.code ELSE @,
                                  !.name    = IF cmd.name = NOT_GIVEN THEN e.name ELSE @,
                                  !.enabled = IF @ = UNSET THEN e.enabled ELSE @,
                                  !.limited = IF @ = UNSET THEN e.limited ELSE @,
                                  !.times   = IF @ = NOT_GIVEN THEN OLD ELSE @]
          /\ stamp' = IF have.times = NOT_GIVEN THEN e.times ELSE stamp
          /\ net' = "write"
          /\ UNCHANGED <<cmd, exists, tries>>
  /\ UNCHANGED <<kind, lockVars, bleVars, due, copyVars, listVars, nuki, topicVars>>

\* The updated entry; only that of a time control always has its time.
UpdatedEntry ==
  [code |-> have.code, name |-> Cut(have.name), enabled |-> have.enabled,
   limited |-> IF kind = "timecontrol" THEN 1 ELSE have.limited,
   times |-> IF kind = "timecontrol" \/ (have.enabled = 1 /\ have.limited = 1) THEN stamp ELSE ZEROS]

Write ==
  /\ net = "write"
  /\ Sends(Stored(UpdatedEntry, Named))
  /\ UNCHANGED <<kind, setting, touched, bleVars, due, copyVars, listVars, nuki, cmd, have, stamp, exists, topicVars>>

LoopEnds == net = "finish" \/ (net = "try" /\ tries >= Attempts)

\* After the loop the keypad's and the authorizations' handlers ask for the
\* list; the time control's has the configuration, and so its list, read again.
Finish ==
  /\ LoopEnds
  /\ HandlerEnds
  /\ IF kind = "timecontrol"
     THEN due' = due \cup {"config"} /\ NoFault /\ UNCHANGED bleVars
     ELSE RequestList /\ UNCHANGED due
  /\ UNCHANGED <<kind, lockVars, copyVars, listVars, nuki, topicVars>>

----------------------------------------------------------------------------
(* networkTask: the settings of the lock *)

\* uint8_t keyvalue = atoi(jsonchar)
Narrow(v) == v % 256

SetNeeded == Narrow(have.id) >= 30 /\ copy # Narrow(have.id)

\* One turn of the loop for the setting: an exchange, unless the value is not
\* allowed or the copy has it already.
SetSetting ==
  /\ net = "set"
  /\ \/ SetNeeded /\ setting' = Narrow(have.id) /\ net' = "setEnds" /\ NoFault /\ UNCHANGED tries
     \/ /\ SetNeeded /\ setting' \in {setting, Narrow(have.id)} /\ Fault
        /\ tries' = tries + 1
        /\ net' = IF tries' < Retries + 1 THEN "set" ELSE "setEnds"
     \/ ~SetNeeded /\ net' = "setEnds" /\ NoFault /\ UNCHANGED <<setting, tries>>
  /\ UNCHANGED <<kind, device, touched, bleVars, due, copyVars, listVars, nuki, cmd, have, stamp, exists, topicVars>>

SetEnds ==
  /\ net = "setEnds"
  /\ HandlerEnds
  /\ due' = due \cup {"config"}
  /\ UNCHANGED <<kind, lockVars, bleVars, copyVars, listVars, nuki, topicVars, count>>

----------------------------------------------------------------------------
(* networkTask: keypad commands put together from topics *)

Message(topic, value, number) == [topic |-> topic, value |-> value, number |-> number]

\* The parameters the documentation asks for come first.
DraftOf(c, n) ==
  LET id      == Message("id", c.id, n)
      name    == Message("name", c.name, n)
      code    == Message("code", c.code, n)
      enabled == Message("enabled", c.enabled, n)
      action  == Message(c.action, 0, n)
  IN CASE c.action = "delete" -> <<id, action>>
       [] c.action = "add"    -> <<name, code, enabled, action>>
       [] c.action = "update" -> <<id, name, code, enabled, action>>

\* Commands with what the documentation asks for.
TopicCommand(action, i, v, enabled) ==
  [NoCommand EXCEPT !.action = action, !.id = i, !.code = v, !.name = v, !.enabled = enabled]
TopicCommands == Deletes \cup {TopicCommand("add", 0, v, 1) : v \in Given}
                         \cup {TopicCommand("update", i, v, 0) : i \in Ids, v \in Given}

ClientStarts ==
  /\ kind = "topics" /\ draft = <<>> /\ Happens("command", MaxTopicCommands)
  /\ \E c \in TopicCommands : draft' = DraftOf(c, count'["command"])
  /\ UNCHANGED <<kind, lockVars, bleVars, due, copyVars, listVars, nuki, netVars, param, mail, done>>

\* A message published with QoS 0 may be lost.
ClientSends ==
  /\ draft # <<>>
  /\ draft' = Tail(draft)
  /\ \/ mail' = Append(mail, Head(draft)) /\ NoFault
     \/ Fault /\ UNCHANGED mail
  /\ UNCHANGED <<kind, lockVars, bleVars, due, copyVars, listVars, nuki, netVars, param, done>>

Parameter(m) ==
  CASE m.topic = "id"      -> [param EXCEPT !.id = m.value, !.idOf = m.number]
    [] m.topic = "name"    -> [param EXCEPT !.name = m.value, !.nameOf = m.number]
    [] m.topic = "code"    -> [param EXCEPT !.code = m.value, !.codeOf = m.number]
    [] m.topic = "enabled" -> [param EXCEPT !.enabled = m.value]

ParameterTopics == {"id", "name", "code", "enabled"}

ReceiveParameter ==
  /\ net = "idle" /\ mail # <<>> /\ Head(mail).topic \in ParameterTopics
  /\ param' = Parameter(Head(mail))
  /\ mail' = Tail(mail)
  /\ UNCHANGED <<kind, lockVars, bleVars, due, copyVars, listVars, nuki, netVars, draft, done, count>>

\* An action: its handler starts.
ReceiveAction ==
  /\ net = "idle" /\ mail # <<>> /\ Head(mail).topic \notin ParameterTopics
  /\ have' = [NoCommand EXCEPT !.action = Head(mail).topic, !.id = param.id, !.name = param.name,
                               !.code = param.code, !.enabled = param.enabled]
  /\ exists' = (param.id \in ids)
  /\ net' = IF hasKeypad THEN "topic" ELSE "topicEnds"
  /\ UNCHANGED <<kind, lockVars, bleVars, due, copyVars, listVars, nuki, cmd, stamp, tries, topicVars, count>>

MissingParameter == \/ have.action # "delete" /\ NOT_GIVEN \in {have.name, have.code}
                    \/ have.action # "add" /\ ~exists

RefuseTopics ==
  /\ net = "topic" /\ MissingParameter
  /\ net' = "topicEnds"
  /\ UNCHANGED <<kind, lockVars, bleVars, due, copyVars, listVars, nuki, cmd, have, stamp, exists, tries,
                 topicVars, count>>

\* An entry written this way has no time limits, whatever it had before.
TopicEntry == [code |-> have.code, name |-> Cut(have.name), limited |-> 0, times |-> ZEROS,
               enabled |-> IF have.action = "add" THEN 1 ELSE have.enabled]

SendTopics ==
  /\ net = "topic" /\ ~MissingParameter
  /\ \E new \in {CASE have.action = "add"    -> Stored(TopicEntry, Free)
                  [] have.action = "delete" -> Stored(NoEntry, Named)
                  [] have.action = "update" -> Stored(TopicEntry, Named)} :
       Exchange(new, "listOk", "listFailed")
  /\ UNCHANGED <<kind, setting, touched, bleVars, due, copyVars, listVars, nuki, cmd, have, stamp, exists,
                 topicVars>>

\* updateKeypad(false) at the end of every turn of the loop.
ListTopics ==
  /\ net \in {"listOk", "listFailed"}
  /\ RequestList
  /\ net' = IF net = "listFailed" /\ tries < Retries + 1 THEN "topic" ELSE "topicEnds"
  /\ UNCHANGED <<kind, lockVars, due, copyVars, listVars, nuki, cmd, have, stamp, exists, tries, topicVars>>

\* Mutant: the parameters are left for the next command.
ResetParametersMutant ==
  /\ net = "topicEnds"
  /\ HandlerEnds
  /\ done' = Head(mail).number
  /\ mail' = Tail(mail)
  /\ UNCHANGED <<kind, lockVars, bleVars, due, copyVars, listVars, nuki, param, draft, count>>

\* The parameters are reset, and published: the broker sends them back.  So
\* it does the "--" of the action, which is ignored.
ResetParameters ==
  /\ net = "topicEnds"
  /\ HandlerEnds
  /\ param' = NoParameters
  /\ done' = Head(mail).number
  /\ mail' = Tail(mail) \o <<Message("id", 0, 0), Message("name", NOT_GIVEN, 0),
                            Message("code", NOT_GIVEN, 0), Message("enabled", 1, 0)>>
  /\ UNCHANGED <<kind, lockVars, bleVars, due, copyVars, listVars, nuki, draft, count>>

----------------------------------------------------------------------------
NetworkTask ==
  \/ \E c \in Commands : Receive(c)
  \/ Refuse \/ Delete \/ Add \/ Retrieve \/ Complete \/ Write \/ Finish
  \/ SetSetting \/ SetEnds
  \/ ReceiveParameter \/ ReceiveAction
  \/ RefuseTopics \/ SendTopics \/ ListTopics \/ ResetParameters

Environment == AppChanges \/ ClientStarts \/ ClientSends

Init ==
  /\ kind \in Kinds
  /\ \E l \in {0, 1}, t \in Ids, n \in {NOT_GIVEN, 1, LONG} :
       /\ kind \in {"timecontrol", "topics"} => l = 1
       /\ (n = NOT_GIVEN) = (kind = "timecontrol") /\ (n = LONG => kind = "auth")
       /\ device = [EmptyList EXCEPT ![t] = [code |-> 1, name |-> n, enabled |-> 1, limited |-> l,
                                             times |-> 1]]
       /\ \A i \in Ids : t <= i
  /\ setting \in Settings
  /\ kind # "config" => \A v \in Settings : setting <= v
  /\ library = EmptyList /\ arriving = EmptyList /\ wait = "no"
  /\ due = IF kind \in {"keypad", "topics"} THEN {"config", "keypad"} ELSE {"config"}
  /\ valid = FALSE /\ hasKeypad = FALSE /\ copy = 0
  /\ ids = {} /\ published = EmptyList
  /\ nuki = "idle" /\ net = "idle"
  /\ cmd = NoCommand /\ have = NoCommand /\ stamp = ZEROS /\ exists = FALSE /\ tries = 0
  /\ param = NoParameters /\ mail = <<>> /\ draft = <<>> /\ done = 0
  /\ touched = FALSE
  /\ count = [e \in {"command", "fault", "change"} |-> 0]

Next == \/ Environment \/ NukiTask \/ NetworkTask
        \/ Arrive \/ WaitEnds \/ IntervalElapses

Spec == Init /\ [][Next]_dataVars

\* The tasks run on, answers arrive, time passes.
FairSpec ==
  /\ Spec
  /\ WF_dataVars(NukiTask)
  /\ WF_dataVars(NetworkTask)
  /\ WF_dataVars(Arrive)
  /\ WF_dataVars(WaitEnds)
  /\ WF_dataVars(IntervalElapses)

----------------------------------------------------------------------------
\* Every variable has its type; a command is tried at most Retries + 1 times.
DataTypeOK ==
  /\ kind \in Kinds
  /\ device \in List /\ library \in List /\ arriving \in List /\ published \in List
  /\ setting \in 30..1800 /\ copy \in Nat
  /\ wait \in {"no", "running", "due"} /\ due \subseteq {"config", "keypad"}
  /\ valid \in BOOLEAN /\ hasKeypad \in BOOLEAN /\ exists \in BOOLEAN /\ touched \in BOOLEAN
  /\ ids \subseteq Ids
  /\ nuki \in {"idle", "advanced", "reset", "publish", "fill"}
  /\ net \in {"idle", "try", "waiting", "write", "finish", "set", "setEnds", "topic", "listOk",
               "listFailed", "topicEnds"}
  /\ tries \in 0..Retries + 1
  /\ stamp \in Values \cup {ZEROS, JUNK}

\* An update changes the entry it names, the fields it gives, and nothing
\* else, although it is written as a whole entry put together from a list
\* which the other task may empty and ask for again at any moment, but for the
\* name of an authorization: one that is not given is cut to 20 characters.
\* Not promised for an entry changed with the app since the command arrived,
\* for the time limits of an entry without them or disabled, nor for times
\* given without timeLimited, which the documentation asks for.
Kept(given, none, before, after) == after = IF given = none THEN before ELSE given
KeptName(given, before, after) ==
  Kept(given, NOT_GIVEN, IF kind = "auth" THEN Cut(before) ELSE before, after)

UpdateIsComplete == [][
  (cmd.action = "update" /\ device' # device /\ count'["change"] = count["change"] /\ ~touched)
  => LET before == device[cmd.id]
         after  == device'[cmd.id]
     IN /\ before # NoEntry /\ device' = [device EXCEPT ![cmd.id] = after]
        /\ Kept(cmd.code, NOT_GIVEN, before.code, after.code)
        /\ KeptName(cmd.name, before.name, after.name)
        /\ Kept(cmd.enabled, UNSET, before.enabled, after.enabled)
        /\ Kept(cmd.limited, UNSET, before.limited, after.limited)
        /\ \/ after.limited = 0 \/ after.enabled = 0
           \/ cmd.times # NOT_GIVEN /\ cmd.limited = UNSET /\ kind # "timecontrol"
           \/ Kept(cmd.times, NOT_GIVEN, before.times, after.times)
  ]_dataVars

\* The parameters of a keypad command carried out never serve a later one,
\* in whatever order the client's parameters and the reset values that come
\* back from the broker arrive, and whichever is lost.
ParametersServeOnce ==
  net \in {"listOk", "listFailed"} =>
    /\ have.action # "add" => param.idOf > done
    /\ have.action # "delete" => param.codeOf > done /\ param.nameOf > done

\* What the hub knows and has published catches up with the lock once nobody
\* changes it any more (commands and changes are bounded), whichever requests
\* failed or got in each other's way.
CopiesCatchUp == <>[](
    /\ kind = "config" => copy = setting
    /\ kind # "config" => published = device
    /\ kind # "config" /\ nuki = "idle" => ids = Known(device))
=============================================================================
