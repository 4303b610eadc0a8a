--------------------------- MODULE LockDataProofs ---------------------------
(***************************************************************************)
(* Proofs about the data of a lock, for every set of entries and settings, *)
(* every number of retries and any number of commands, changes, lost       *)
(* messages and failed exchanges: the types, the parameters of the keypad  *)
(* topics, and the completeness of an update.                              *)
(***************************************************************************)
EXTENDS LockData, SequenceTheorems, TLAPS

----------------------------------------------------------------------------
(* The strengthening: types *)

IsAction(m) == m.topic \in {"add", "delete", "update"}

\* Messages: those of a client's command have its number, and the broker sends
\* back no action and no value of its own.
Messages ==
  {m \in [topic : ParameterTopics \cup {"add", "delete", "update"},
          value : Nat, number : Nat] :
     /\ m.topic = "id" => m.value \in Ids \cup {0}
     /\ m.topic \in {"name", "code"} => m.value \in Values \cup {NOT_GIVEN}
     /\ m.topic = "enabled" => m.value \in {0, 1}
     /\ m.number = 0 => ~IsAction(m) /\ (m.topic \in {"id", "name", "code"} => m.value = 0)}

\* A command, as sent or completed.
Fields == [action : {"none", "delete", "add", "update", "set"}, id : Nat,
           code : Values \cup {NOT_GIVEN}, name : Names, enabled : {0, 1, UNSET},
           limited : {0, 1, UNSET}, times : Values \cup {NOT_GIVEN, OLD}]

Parameters == [id : Ids \cup {0}, code : Values \cup {NOT_GIVEN}, name : Values \cup {NOT_GIVEN},
               enabled : {0, 1}, idOf : Nat, codeOf : Nat, nameOf : Nat]

TopicTypes ==
  /\ mail \in Seq(Messages) /\ draft \in Seq(Messages)
  /\ param \in Parameters /\ done \in Nat

HandlerTypes ==
  /\ cmd \in Fields /\ have \in Fields
  /\ count \in [{"command", "fault", "change"} -> Nat]

----------------------------------------------------------------------------
(* The strengthening: the handlers *)

\* What each step of a handler relies on.
HandlerInv ==
  /\ exists => have.id \in Ids
  /\ net = "idle" => tries = 0 /\ have = NoCommand /\ cmd = NoCommand
  /\ net \in {"try", "waiting", "write"} =>
       /\ have.action \in {"delete", "add", "update"} /\ kind \notin {"config", "topics"}
       /\ have.action = "add" => have.code \in Values
  /\ net \in {"waiting", "write"} => have.action = "update" /\ have.id \in Ids /\ tries < Attempts
  /\ net = "write" => have.code \in Values /\ have.enabled \in {0, 1} /\ have.limited \in {0, 1}
  /\ net = "set" => tries < Retries + 1
  /\ net \in {"topic", "listOk", "listFailed", "topicEnds"} =>
       kind = "topics" /\ cmd = NoCommand /\ have.action \in {"delete", "add", "update"}
  /\ net = "topic" => tries < Retries + 1

\* While an action is handled it is the first message, and the parameters are
\* those it started with.
TopicInv ==
  /\ net \in {"topic", "listOk", "listFailed", "topicEnds"} =>
       /\ mail # <<>> /\ IsAction(Head(mail))
       /\ have.id = param.id /\ have.code = param.code
       /\ have.name = param.name /\ have.enabled = param.enabled
  /\ net \in {"listOk", "listFailed"} => ~MissingParameter

\* The client's messages come in order: a message is of a command later than
\* every action before it, and than every action that was handled.  So are the
\* parameters that have been received since.
MailInv ==
  /\ \A i \in 1..Len(mail) :
       /\ mail[i].number <= count["command"]
       /\ mail[i].number # 0 => mail[i].number > done
       /\ IsAction(mail[i]) /\ draft # <<>> => mail[i].number < count["command"]
  /\ \A i, j \in 1..Len(mail) :
       i < j /\ IsAction(mail[i]) /\ mail[j].number # 0 => mail[i].number < mail[j].number
  /\ \A i \in 1..Len(draft) :
       /\ draft[i].number = count["command"] /\ draft[i].number # 0
       /\ IsAction(draft[i]) => i = Len(draft)
  /\ kind # "topics" => mail = <<>> /\ draft = <<>>
  /\ done <= count["command"]
  /\ draft # <<>> => done < count["command"]
  /\ param.id # 0 => param.idOf > done
  /\ param.code # NOT_GIVEN => param.codeOf > done
  /\ param.name # NOT_GIVEN => param.nameOf > done

----------------------------------------------------------------------------
(* The strengthening: an update *)

\* A time control entry always has its time.
LimitedInv == kind = "timecontrol" => \A i \in Known(device) : device[i].limited = 1

\* Only authorizations have long names.
ShortInv == kind # "auth" => \A i \in Known(device) : device[i].name # LONG

\* While an update waits for the list, all that comes of it is as in the lock.
FreshInv ==
  net = "waiting" /\ ~touched =>
    \A i \in Ids : library[i] \in {NoEntry, device[i]} /\ arriving[i] \in {NoEntry, device[i]}

\* A field that was completed is as in the lock, also after a write whose answer
\* was lost.
Completed(given, none, mine, stored) == mine = given \/ (given = none /\ mine = stored)

CompletedInv ==
  cmd.action = "update" /\ net \in {"try", "waiting", "write"} =>
    /\ have.action = "update" /\ have.id = cmd.id /\ cmd.times \in Given \cup {NOT_GIVEN}
    /\ kind = "timecontrol" => cmd.limited = UNSET
    /\ have.times \in {cmd.times, OLD} /\ (cmd.times # NOT_GIVEN => have.times = cmd.times)
    /\ cmd.limited # UNSET => have.limited = cmd.limited
    /\ ~touched /\ (have # cmd \/ net = "write") =>
         /\ have.id \in Known(device)
         /\ Completed(cmd.code, NOT_GIVEN, have.code, device[cmd.id].code)
         /\ Completed(cmd.enabled, UNSET, have.enabled, device[cmd.id].enabled)
         /\ Completed(cmd.limited, UNSET, have.limited, device[cmd.id].limited)

\* The time that is written: that of the lock, or the one given.  An entry with a
\* time limit is not written again once its time was completed.
StampInv ==
  /\ net \in {"try", "waiting", "write"} /\ have.times = OLD => have.limited # UNSET
  /\ net = "waiting" /\ have.times = OLD => kind # "timecontrol" /\ have.limited = 0
  /\ cmd.action = "update" /\ net \in {"waiting", "write"} /\ cmd.times # NOT_GIVEN =>
       stamp = cmd.times \/ (kind # "timecontrol" /\ cmd.limited # 1)
  /\ /\ cmd.action = "update" /\ net = "write" /\ cmd.times = NOT_GIVEN /\ ~touched
     /\ kind = "timecontrol" \/ have.limited = 1
     => stamp = device[cmd.id].times

\* The name that is written: the one given, or that of the lock, read anew in
\* every turn of the loop.
NameInv ==
  cmd.action = "update" /\ net \in {"try", "waiting", "write"} =>
    /\ cmd.name \in Given \cup {NOT_GIVEN}
    /\ cmd.name # NOT_GIVEN => have.name = cmd.name
    /\ cmd.name = NOT_GIVEN /\ net = "write" /\ ~touched => have.name = device[cmd.id].name

LockDataInv ==
  /\ DataTypeOK /\ TopicTypes /\ HandlerTypes
  /\ HandlerInv /\ TopicInv /\ MailInv
  /\ LimitedInv /\ ShortInv /\ FreshInv /\ CompletedInv /\ StampInv /\ NameInv

----------------------------------------------------------------------------
(* Lemmas about the frame of steps, commands and lists *)

Counts == {"command", "fault", "change"}

\* An event is counted by itself.
LEMMA HappensCounts ==
  ASSUME count \in [Counts -> Nat], NEW e \in Counts, NEW max, Happens(e, max)
  PROVE  /\ count' \in [Counts -> Nat] /\ count'[e] = count[e] + 1
         /\ \A f \in Counts \ {e} : count'[f] = count[f]
  BY DEF Happens

\* A fault leaves the other counts alone.
LEMMA FaultCounts ==
  ASSUME count \in [Counts -> Nat], Fault \/ NoFault
  PROVE  /\ count' \in [Counts -> Nat]
         /\ count'["command"] = count["command"] /\ count'["change"] = count["change"]
<1>1. CASE Fault
  BY <1>1, HappensCounts DEF Fault, Counts
<1>2. CASE NoFault
  BY <1>2 DEF NoFault
<1> QED BY <1>1, <1>2

\* What goes on beside networkTask leaves the handler's variables alone.
Background == Environment \/ NukiTask \/ Arrive \/ WaitEnds \/ IntervalElapses

LEMMA BackgroundFrame == Background => UNCHANGED <<kind, netVars>>
  BY DEF Background, Environment, AppChanges, ClientStarts, ClientSends, NukiTask, ReadConfig,
         ReadAdvancedConfig, KeypadDue, ListDue, ResetWait, PublishList, FillIds, Arrive,
         WaitEnds, IntervalElapses

\* nukiTask, answers and time leave alone what a command is about.
LEMMA NukiFrame ==
  NukiTask \/ Arrive \/ WaitEnds \/ IntervalElapses =>
    UNCHANGED <<kind, lockVars, netVars, topicVars>>
  BY DEF NukiTask, ReadConfig, ReadAdvancedConfig, KeypadDue, ListDue, ResetWait, PublishList,
         FillIds, Arrive, WaitEnds, IntervalElapses

\* The steps of nukiTask and of time fail or not, and are not counted otherwise.
LEMMA NukiCounts == NukiTask \/ Arrive \/ WaitEnds \/ IntervalElapses => Fault \/ NoFault
  BY DEF NukiTask, ReadConfig, ReadAdvancedConfig, KeypadDue, ListDue, ResetWait, PublishList,
         FillIds, Arrive, WaitEnds, IntervalElapses, RequestList, AskSucceeds, AskFails,
         RetryConfig, Received, NoFault

LEMMA NetworkCounts ==
  \/ Refuse \/ Delete \/ Add \/ Retrieve \/ Complete \/ Write \/ Finish
  \/ SetSetting \/ SetEnds
  \/ ReceiveParameter \/ ReceiveAction
  \/ RefuseTopics \/ SendTopics \/ ListTopics \/ ResetParameters
  => Fault \/ NoFault
  BY DEF Refuse, Delete, Add, Retrieve, Complete, Write, Finish, SetSetting, SetEnds,
         ReceiveParameter, ReceiveAction, RefuseTopics, SendTopics, ListTopics, ResetParameters,
         Sends, Exchange, RequestList, AskSucceeds, AskFails, Received, NoFault

LEMMA EmptyInLists == EmptyList \in List
  BY DEF EmptyList, List

\* Storing an entry leaves a list.
LEMMA StoredLists ==
  ASSUME device \in List, NEW entry \in Entry \cup {NoEntry}, NEW where \in SUBSET Ids
  PROVE  Stored(entry, where) \subseteq List
  BY DEF Stored, List

\* The commands of a kind, and the fields each names.
LEMMA CommandFacts ==
  ASSUME NEW c \in Commands
  PROVE  /\ c \in Fields /\ c.times # OLD
         /\ kind = "config" => c.action = "set" /\ c.id \in Settings
         /\ kind # "config" =>
              /\ c.action \in {"delete", "add", "update"}
              /\ c.action # "add" => c.id \in Ids
              /\ c.action = "add" => c.code \in Values
              /\ c.times # NOT_GIVEN => c.times \in Given
              /\ c.name \in Given \cup {NOT_GIVEN}
         /\ kind = "timecontrol" => c.limited = UNSET
<1>1. \A l \in Limits : l[1] \in {0, 1, UNSET} /\ l[2] \in Given \cup {NOT_GIVEN}
  BY DEF Limits, NOT_GIVEN, UNSET
<1>2. \A o \in Others : /\ o[1] \in Given \cup {NOT_GIVEN} /\ o[2] \in Given \cup {NOT_GIVEN}
                        /\ o[3] \in {0, UNSET}
  BY DEF Others, NOT_GIVEN, UNSET
<1>3. ASSUME NEW d \in Deletes
      PROVE  /\ d \in Fields /\ d.action = "delete" /\ d.id \in Ids
             /\ d.times = NOT_GIVEN /\ d.name = NOT_GIVEN
  <2>1. PICK i \in Ids : d = [NoCommand EXCEPT !.action = "delete", !.id = i]
    BY DEF Deletes
  <2>2. d = [action |-> "delete", id |-> i, code |-> NOT_GIVEN, name |-> NOT_GIVEN,
             enabled |-> UNSET, limited |-> UNSET, times |-> NOT_GIVEN]
    BY <2>1 DEF NoCommand
  <2> QED BY <2>2, DataAssumption DEF Fields, Names, Values, NOT_GIVEN, UNSET
<1>4. ASSUME NEW d \in Adds
      PROVE  /\ d \in Fields /\ d.action = "add" /\ d.code \in Values
             /\ d.times \in Given \cup {NOT_GIVEN} /\ d.name \in Given \cup {NOT_GIVEN}
  <2>1. PICK a \in Given, n \in Given \cup {NOT_GIVEN}, l \in Limits :
          d = [action |-> "add", id |-> 0, code |-> a, name |-> n, enabled |-> UNSET,
               limited |-> l[1], times |-> l[2]]
    <3>1. CASE kind = "timecontrol"
      BY <3>1 DEF Adds
    <3>2. CASE kind # "timecontrol"
      BY <3>2 DEF Adds
    <3> QED BY <3>1, <3>2
  <2> QED BY <1>1, <2>1 DEF Fields, Names, Values, NOT_GIVEN, UNSET
<1>5. ASSUME NEW d \in Updates
      PROVE  /\ d \in Fields /\ d.action = "update" /\ d.id \in Ids
             /\ d.times \in Given \cup {NOT_GIVEN} /\ d.name \in Given \cup {NOT_GIVEN}
  <2>1. PICK i \in Ids, o \in Others, l \in Limits :
          d = [action |-> "update", id |-> i, code |-> o[1], name |-> o[2], enabled |-> o[3],
               limited |-> l[1], times |-> l[2]]
    BY DEF Updates
  <2> QED BY <1>1, <1>2, <2>1, DataAssumption DEF Fields, Names, Values, NOT_GIVEN, UNSET
<1>6. ASSUME NEW d \in Sets
      PROVE  d \in Fields /\ d.action = "set" /\ d.id \in Settings /\ d.times = NOT_GIVEN
  <2>1. PICK v \in Settings : d = [NoCommand EXCEPT !.action = "set", !.id = v]
    BY DEF Sets
  <2>2. d = [action |-> "set", id |-> v, code |-> NOT_GIVEN, name |-> NOT_GIVEN,
             enabled |-> UNSET, limited |-> UNSET, times |-> NOT_GIVEN]
    BY <2>1 DEF NoCommand
  <2> QED BY <2>2, DataAssumption DEF Fields, Names, Values, NOT_GIVEN, UNSET
<1>7. CASE kind = "config"
  BY <1>6, <1>7 DEF Commands, OLD, NOT_GIVEN
<1>8. CASE kind # "config"
  <2>1. /\ c \in Deletes \cup Adds \cup Updates
        /\ kind = "timecontrol" => c.limited = UNSET
    BY <1>8 DEF Commands
  <2> QED BY <1>3, <1>4, <1>5, <1>8, <2>1 DEF OLD, NOT_GIVEN, Given
<1> QED BY <1>7, <1>8

LEMMA IdsAreNumbers == \A i \in Ids : i \in Nat /\ i # 0
  BY DataAssumption

\* What a command is completed to.
LEMMA CompletedHave ==
  ASSUME Complete, library[have.id] # NoEntry, have \in Fields
  PROVE  have' = [action |-> have.action, id |-> have.id,
                  code |-> IF have.code = NOT_GIVEN THEN library[have.id].code ELSE have.code,
                  name |-> IF cmd.name = NOT_GIVEN THEN library[have.id].name ELSE have.name,
                  enabled |-> IF have.enabled = UNSET THEN library[have.id].enabled
                              ELSE have.enabled,
                  limited |-> IF have.limited = UNSET THEN library[have.id].limited
                              ELSE have.limited,
                  times |-> IF have.times = NOT_GIVEN THEN OLD ELSE have.times]
  BY DEF Complete, Fields

LEMMA NoCommandType == NoCommand \in Fields
  BY DEF NoCommand, Fields, Names, NOT_GIVEN, UNSET

----------------------------------------------------------------------------
(* Types *)

\* Only the client's commands are counted as such.
LEMMA StepCounts ==
  ASSUME count \in [Counts -> Nat], [Next]_dataVars
  PROVE  /\ count' \in [Counts -> Nat]
         /\ \/ count'["command"] = count["command"]
            \/ /\ count'["command"] = count["command"] + 1
               /\ ClientStarts \/ \E c \in Commands : Receive(c)
<1>1. CASE AppChanges
  BY <1>1, HappensCounts DEF AppChanges, Counts
<1>2. CASE ClientStarts
  BY <1>2, HappensCounts DEF ClientStarts, Counts
<1>3. CASE ClientSends
  BY <1>3, FaultCounts DEF ClientSends
<1>4. CASE \E c \in Commands : Receive(c)
  BY <1>4, HappensCounts DEF Receive, Counts
<1>5. CASE UNCHANGED dataVars
  BY <1>5 DEF dataVars
<1> QED BY <1>1, <1>2, <1>3, <1>4, <1>5, NukiCounts, NetworkCounts, FaultCounts
        DEF Next, Environment, NetworkTask

\* A handler keeps its command, or comes to its end.
Keeps == UNCHANGED <<cmd, have, exists>> \/ HandlerEnds

LEMMA HandlerFrame ==
  ASSUME [Next]_dataVars
  PROVE  Keeps \/ Complete \/ ReceiveAction \/ \E c \in Commands : Receive(c)
<1> USE DEF Keeps, netVars
<1>1. CASE Background
  BY <1>1, BackgroundFrame
<1>2. CASE Refuse
  BY <1>2 DEF Refuse
<1>3. CASE Delete
  BY <1>3 DEF Delete
<1>4. CASE Add
  BY <1>4 DEF Add
<1>5. CASE Retrieve
  BY <1>5 DEF Retrieve
<1>6. CASE Write
  BY <1>6 DEF Write
<1>7. CASE Finish
  BY <1>7 DEF Finish
<1>8. CASE SetSetting
  BY <1>8 DEF SetSetting
<1>9. CASE SetEnds
  BY <1>9 DEF SetEnds
<1>10. CASE ReceiveParameter
  BY <1>10 DEF ReceiveParameter
<1>11. CASE RefuseTopics
  BY <1>11 DEF RefuseTopics
<1>12. CASE SendTopics
  BY <1>12 DEF SendTopics
<1>13. CASE ListTopics
  BY <1>13 DEF ListTopics
<1>14. CASE ResetParameters
  BY <1>14 DEF ResetParameters
<1>20. CASE UNCHANGED dataVars
  BY <1>20 DEF dataVars
<1> QED BY <1>1, <1>2, <1>3, <1>4, <1>5, <1>6, <1>7, <1>8, <1>9, <1>10, <1>11, <1>12, <1>13,
           <1>14, <1>20 DEF Next, NetworkTask, Background

\* A completed command is a command: the entry that completes it is of the list.
LEMMA NextHandlerTypes ==
  HandlerTypes /\ TopicTypes /\ HandlerInv /\ library \in List /\ [Next]_dataVars => HandlerTypes'
<1>0. SUFFICES ASSUME HandlerTypes, TopicTypes, HandlerInv, library \in List, [Next]_dataVars
               PROVE  HandlerTypes'
  OBVIOUS
<1>1. count' \in [{"command", "fault", "change"} -> Nat]
  BY <1>0, StepCounts DEF HandlerTypes, Counts
<1>2. CASE Keeps
  BY <1>0, <1>1, <1>2, NoCommandType DEF Keeps, HandlerTypes, HandlerEnds
<1>3. CASE Complete
  <2>1. CASE library[have.id] = NoEntry
    BY <1>1, <1>3, <2>1, NoCommandType DEF Complete, HandlerTypes, HandlerEnds
  <2>2. CASE library[have.id] # NoEntry
    <3>1. library[have.id] \in Entry
      BY <1>0, <1>3, <2>2 DEF Complete, HandlerInv, List
    <3>2. have' \in Fields
      BY <1>0, <2>2, <3>1, <1>3, CompletedHave DEF HandlerTypes, Fields, Entry, OLD, NOT_GIVEN,
         UNSET
    <3> QED BY <1>0, <1>1, <1>3, <2>2, <3>2 DEF Complete, HandlerTypes
  <2> QED BY <2>1, <2>2
<1>4. CASE ReceiveAction
  <2>1. Head(mail).topic \in {"add", "delete", "update"}
    BY <1>0, <1>4 DEF ReceiveAction, TopicTypes, Messages, ParameterTopics
  <2>2. have' = [action |-> Head(mail).topic, id |-> param.id, code |-> param.code,
                 name |-> param.name, enabled |-> param.enabled, limited |-> UNSET,
                 times |-> NOT_GIVEN]
    BY <1>4 DEF ReceiveAction, NoCommand
  <2>3. have' \in Fields
    <3>0. param.id \in Ids \cup {0}
      BY <1>0 DEF TopicTypes, Parameters
    <3>1. param.id \in Nat
      BY <3>0, IdsAreNumbers
    <3>2. param.code \in Values \cup {NOT_GIVEN}
      BY <1>0 DEF TopicTypes, Parameters
    <3>3. param.enabled \in {0, 1, UNSET}
      BY <1>0 DEF TopicTypes, Parameters
    <3>4. param.name \in Names
      BY <1>0 DEF TopicTypes, Parameters, Names
    <3> QED BY <2>1, <2>2, <3>1, <3>2, <3>3, <3>4 DEF Fields
  <2> QED BY <1>0, <1>1, <1>4, <2>3 DEF ReceiveAction, HandlerTypes
<1>5. ASSUME NEW c \in Commands, Receive(c) PROVE HandlerTypes'
  BY <1>1, <1>5, CommandFacts DEF Receive, HandlerTypes
<1> QED BY <1>0, <1>2, <1>3, <1>4, <1>5, HandlerFrame

\* The messages of the topics change with the client and the parameters' handlers.
LEMMA TopicFrame ==
  ASSUME [Next]_dataVars
  PROVE  /\ kind' = kind
         /\ UNCHANGED topicVars \/ ClientStarts \/ ClientSends \/ ReceiveParameter \/ ResetParameters
<1>1. CASE AppChanges
  BY <1>1 DEF AppChanges
<1>2. CASE ClientStarts
  BY <1>2 DEF ClientStarts
<1>3. CASE ClientSends
  BY <1>3 DEF ClientSends
<1>4. CASE ReceiveParameter
  BY <1>4 DEF ReceiveParameter
<1>5. CASE ResetParameters
  BY <1>5 DEF ResetParameters
<1>6. CASE NukiTask \/ Arrive \/ WaitEnds \/ IntervalElapses
  BY <1>6, NukiFrame
<1>7. CASE Refuse
  BY <1>7 DEF Refuse
<1>8. CASE Delete
  BY <1>8 DEF Delete
<1>9. CASE Add
  BY <1>9 DEF Add
<1>10. CASE Retrieve
  BY <1>10 DEF Retrieve
<1>11. CASE Complete
  BY <1>11 DEF Complete
<1>12. CASE Write
  BY <1>12 DEF Write
<1>13. CASE Finish
  BY <1>13 DEF Finish
<1>14. CASE SetSetting
  BY <1>14 DEF SetSetting
<1>15. CASE SetEnds
  BY <1>15 DEF SetEnds
<1>16. CASE ReceiveAction
  BY <1>16 DEF ReceiveAction
<1>17. CASE RefuseTopics
  BY <1>17 DEF RefuseTopics
<1>18. CASE SendTopics
  BY <1>18 DEF SendTopics
<1>19. CASE ListTopics
  BY <1>19 DEF ListTopics
<1>20. CASE \E c \in Commands : Receive(c)
  BY <1>20 DEF Receive
<1>21. CASE UNCHANGED dataVars
  BY <1>21 DEF dataVars
<1> QED BY <1>1, <1>2, <1>3, <1>4, <1>5, <1>6, <1>7, <1>8, <1>9, <1>10, <1>11, <1>12, <1>13,
           <1>14, <1>15, <1>16, <1>17, <1>18, <1>19, <1>20, <1>21 DEF Next, NetworkTask,
           Environment

\* What a client sends for a command.
LEMMA DraftMessages ==
  ASSUME NEW c \in TopicCommands, NEW n \in Nat \ {0}
  PROVE  /\ DraftOf(c, n) \in Seq(Messages)
         /\ \A i \in 1..Len(DraftOf(c, n)) :
              /\ DraftOf(c, n)[i].number = n
              /\ IsAction(DraftOf(c, n)[i]) => i = Len(DraftOf(c, n))
<1> DEFINE Mine == {m \in Messages : m.number = n /\ ~IsAction(m)}
<1>0. /\ c.id \in Ids \cup {0} /\ c.action \in {"delete", "add", "update"}
      /\ c.action # "delete" => c.code \in Given /\ c.name \in Given /\ c.enabled \in {0, 1}
  <2>1. ASSUME c \in Deletes PROVE c.id \in Ids /\ c.action = "delete"
    BY <2>1 DEF Deletes, NoCommand
  <2>2. ASSUME NEW action, NEW i, NEW v, NEW enabled, c = TopicCommand(action, i, v, enabled)
        PROVE  c.action = action /\ c.id = i /\ c.code = v /\ c.name = v /\ c.enabled = enabled
    BY <2>2 DEF TopicCommand, NoCommand
  <2>3. CASE \E v \in Given : c = TopicCommand("add", 0, v, 1)
    BY <2>2, <2>3
  <2>4. CASE \E i \in Ids, v \in Given : c = TopicCommand("update", i, v, 0)
    BY <2>2, <2>4
  <2> QED BY <2>1, <2>3, <2>4 DEF TopicCommands
<1>1. Message("id", c.id, n) \in Mine
  BY <1>0, IdsAreNumbers DEF Message, Messages, IsAction, ParameterTopics
<1>2. c.action # "delete" => /\ Message("code", c.code, n) \in Mine
                             /\ Message("name", c.name, n) \in Mine
  BY <1>0 DEF Message, Messages, IsAction, ParameterTopics, Values, Given
<1>3. c.action # "delete" => Message("enabled", c.enabled, n) \in Mine
  BY <1>0 DEF Message, Messages, IsAction, ParameterTopics
<1>4. /\ Message(c.action, 0, n) \in Messages
      /\ Message(c.action, 0, n).number = n
  BY <1>0 DEF Message, Messages, IsAction, ParameterTopics
<1> HIDE DEF Mine
<1>5. \A m \in Mine : m \in Messages /\ m.number = n /\ ~IsAction(m)
  BY DEF Mine
<1>6. CASE c.action = "delete"
  BY <1>1, <1>4, <1>5, <1>6 DEF DraftOf
<1>7. CASE c.action = "add"
  BY <1>2, <1>3, <1>4, <1>5, <1>7 DEF DraftOf
<1>8. CASE c.action = "update"
  BY <1>1, <1>2, <1>3, <1>4, <1>5, <1>8 DEF DraftOf
<1> QED BY <1>0, <1>6, <1>7, <1>8

\* Messages and parameters keep their types.
LEMMA NextTopicTypes ==
  TopicTypes /\ TopicInv /\ HandlerTypes /\ [Next]_dataVars => TopicTypes'
<1>0. SUFFICES ASSUME TopicTypes, TopicInv, HandlerTypes, [Next]_dataVars PROVE TopicTypes'
  OBVIOUS
<1>1. CASE UNCHANGED topicVars
  BY <1>0, <1>1 DEF TopicTypes, topicVars
<1>2. CASE ClientStarts
  <2>1. count'["command"] \in Nat \ {0}
    BY <1>0, <1>2, HappensCounts DEF ClientStarts, HandlerTypes, Counts
  <2>2. draft' \in Seq(Messages)
    BY <1>2, <2>1, DraftMessages DEF ClientStarts
  <2> QED BY <1>0, <1>2, <2>2 DEF ClientStarts, TopicTypes
<1>3. CASE ClientSends
  BY <1>0, <1>3 DEF ClientSends, TopicTypes
<1>4. CASE ReceiveParameter
  <2>1. Head(mail) \in Messages /\ Tail(mail) \in Seq(Messages)
    BY <1>0, <1>4 DEF ReceiveParameter, TopicTypes
  <2>2. param' \in Parameters
    BY <1>0, <1>4, <2>1 DEF ReceiveParameter, Parameter, TopicTypes, Parameters, Messages,
       ParameterTopics
  <2> QED BY <1>0, <1>4, <2>1, <2>2 DEF ReceiveParameter, TopicTypes
<1>5. CASE ResetParameters
  <2>1. Head(mail) \in Messages /\ Tail(mail) \in Seq(Messages)
    BY <1>0, <1>5 DEF ResetParameters, TopicTypes, TopicInv
  <2>2. /\ Message("id", 0, 0) \in Messages /\ Message("name", NOT_GIVEN, 0) \in Messages
        /\ Message("code", NOT_GIVEN, 0) \in Messages /\ Message("enabled", 1, 0) \in Messages
    BY DEF Message, Messages, IsAction, ParameterTopics, NOT_GIVEN
  <2>3. mail' \in Seq(Messages)
    BY <1>5, <2>1, <2>2 DEF ResetParameters
  <2>4. NoParameters \in Parameters /\ Head(mail).number \in Nat
    BY <2>1 DEF NoParameters, Parameters, Messages, NOT_GIVEN
  <2> QED BY <1>0, <1>5, <2>3, <2>4 DEF ResetParameters, TopicTypes
<1> QED BY <1>0, <1>1, <1>2, <1>3, <1>4, <1>5, TopicFrame

----------------------------------------------------------------------------
(* The order of messages *)

LEMMA NextMailInv ==
  ASSUME MailInv, TopicInv, TopicTypes, HandlerTypes, [Next]_dataVars
  PROVE  MailInv'
<1> USE DEF MailInv
<1>0. /\ mail \in Seq(Messages) /\ draft \in Seq(Messages) /\ done \in Nat
      /\ count["command"] \in Nat /\ kind' = kind
      /\ \A m \in Messages : m.number \in Nat
  BY TopicFrame DEF TopicTypes, HandlerTypes, Messages
<1>1. CASE UNCHANGED topicVars /\ ~ClientStarts
  <2>1. CASE count'["command"] = count["command"]
    BY <1>0, <1>1, <2>1 DEF topicVars
  <2>2. CASE count'["command"] = count["command"] + 1 /\ kind # "topics"
    BY <1>0, <1>1, <2>2 DEF topicVars
  <2> QED BY <1>1, <2>1, <2>2, StepCounts DEF Receive, HandlerTypes, Counts
<1>2. CASE ClientStarts
  <2>1. count'["command"] = count["command"] + 1 /\ kind = "topics"
    BY <1>2, HappensCounts DEF ClientStarts, HandlerTypes, Counts
  <2>2. \A i \in 1..Len(draft') : /\ draft'[i].number = count'["command"]
                                  /\ IsAction(draft'[i]) => i = Len(draft')
    <3>1. PICK c \in TopicCommands : draft' = DraftOf(c, count'["command"])
      BY <1>2 DEF ClientStarts
    <3>2. count'["command"] \in Nat \ {0}
      BY <1>0, <2>1
    <3> QED BY <3>1, <3>2, DraftMessages
  <2>3. UNCHANGED <<mail, param, done>>
    BY <1>2 DEF ClientStarts
  <2> QED BY <1>0, <2>1, <2>2, <2>3
<1>3. CASE ClientSends
  <2>1. count'["command"] = count["command"] /\ UNCHANGED <<param, done>>
    BY <1>3, FaultCounts DEF ClientSends, HandlerTypes, Counts
  <2>2. /\ draft # <<>> /\ draft' \in Seq(Messages) /\ Len(draft') = Len(draft) - 1
        /\ \A i \in 1..Len(draft') : draft'[i] = draft[i + 1]
        /\ Head(draft) = draft[1] /\ Head(draft) \in Messages
    BY <1>0, <1>3 DEF ClientSends
  <2>3. CASE mail' = Append(mail, Head(draft))
    <3>1. /\ Len(mail') = Len(mail) + 1 /\ mail'[Len(mail) + 1] = draft[1]
          /\ \A i \in 1..Len(mail) : mail'[i] = mail[i]
      BY <1>0, <2>2, <2>3
    <3>2. IsAction(draft[1]) => draft' = <<>>
      BY <1>0, <2>2
    <3>3. \A i \in 1..Len(mail') :
            /\ mail'[i].number <= count["command"]
            /\ mail'[i].number # 0 => mail'[i].number > done
            /\ IsAction(mail'[i]) /\ draft' # <<>> => mail'[i].number < count["command"]
      BY <1>0, <2>2, <3>1, <3>2
    <3>4. \A i, j \in 1..Len(mail') :
            i < j /\ IsAction(mail'[i]) /\ mail'[j].number # 0 => mail'[i].number < mail'[j].number
      <4> TAKE i, j \in 1..Len(mail')
      <4>1. CASE j \in 1..Len(mail)
        <5>1. i < j => i \in 1..Len(mail) /\ mail'[i] = mail[i] /\ mail'[j] = mail[j]
          <6> HIDE DEF MailInv
          <6> QED BY <1>0, <3>1, <4>1
        <5>2. i \in 1..Len(mail) /\ i < j /\ IsAction(mail[i]) /\ mail[j].number # 0
                => mail[i].number < mail[j].number
          BY <4>1
        <5> HIDE DEF MailInv
        <5> QED BY <5>1, <5>2
      <4>2. CASE j = Len(mail) + 1 /\ i \in 1..Len(mail)
        <5>1. IsAction(mail[i]) => mail[i].number < count["command"]
          BY <2>2, <4>2
        <5>2. draft[1].number = count["command"]
          BY <1>0, <2>2
        <5> QED BY <3>1, <4>2, <5>1, <5>2
      <4>3. CASE i = Len(mail) + 1
        BY <1>0, <3>1, <4>3
      <4>4. /\ i \in 1..Len(mail) \/ i = Len(mail) + 1
            /\ j \in 1..Len(mail) \/ j = Len(mail) + 1
        BY <1>0, <3>1
      <4> QED BY <4>1, <4>2, <4>3, <4>4
    <3>5. \A i \in 1..Len(draft') : /\ draft'[i].number = count["command"] /\ draft'[i].number # 0
                                    /\ IsAction(draft'[i]) => i = Len(draft')
      <4> TAKE i \in 1..Len(draft')
      <4>1. i + 1 \in 1..Len(draft) /\ (i + 1 = Len(draft) => i = Len(draft'))
        BY <1>0, <2>2
      <4> QED BY <2>2, <4>1
    <3> QED BY <1>0, <2>1, <2>2, <3>3, <3>4, <3>5
  <2>4. CASE UNCHANGED mail
    <3>1. \A i \in 1..Len(draft') : /\ draft'[i].number = count["command"] /\ draft'[i].number # 0
                                    /\ IsAction(draft'[i]) => i = Len(draft')
      <4> TAKE i \in 1..Len(draft')
      <4>1. i + 1 \in 1..Len(draft) /\ (i + 1 = Len(draft) => i = Len(draft'))
        BY <1>0, <2>2
      <4> QED BY <2>2, <4>1
    <3> QED BY <1>0, <2>1, <2>2, <2>4, <3>1
  <2> QED BY <1>3, <2>3, <2>4 DEF ClientSends
<1>4. CASE ReceiveParameter
  <2>1. count'["command"] = count["command"] /\ UNCHANGED <<draft, done>>
    BY <1>4 DEF ReceiveParameter
  <2>2. /\ mail # <<>> /\ mail' \in Seq(Messages) /\ Len(mail') = Len(mail) - 1
        /\ \A i \in 1..Len(mail') : mail'[i] = mail[i + 1]
        /\ Head(mail) = mail[1] /\ Head(mail) \in Messages
    BY <1>0, <1>4 DEF ReceiveParameter
  <2>3. Head(mail).number # 0 => Head(mail).number > done
    BY <1>0, <2>2
  <2>4. /\ Head(mail).topic = "id" =>
             /\ param'.id = Head(mail).value /\ param'.idOf = Head(mail).number
             /\ param'.code = param.code /\ param'.codeOf = param.codeOf
             /\ param'.name = param.name /\ param'.nameOf = param.nameOf
        /\ Head(mail).topic = "name" =>
             /\ param'.name = Head(mail).value /\ param'.nameOf = Head(mail).number
             /\ param'.id = param.id /\ param'.idOf = param.idOf
             /\ param'.code = param.code /\ param'.codeOf = param.codeOf
        /\ Head(mail).topic = "code" =>
             /\ param'.code = Head(mail).value /\ param'.codeOf = Head(mail).number
             /\ param'.id = param.id /\ param'.idOf = param.idOf
             /\ param'.name = param.name /\ param'.nameOf = param.nameOf
        /\ Head(mail).topic = "enabled" =>
             /\ param'.code = param.code /\ param'.codeOf = param.codeOf
             /\ param'.id = param.id /\ param'.idOf = param.idOf
             /\ param'.name = param.name /\ param'.nameOf = param.nameOf
        /\ Head(mail).topic \in ParameterTopics
    BY <1>4 DEF ReceiveParameter, Parameter, TopicTypes, Parameters, ParameterTopics
  <2>5. Head(mail).number = 0 /\ Head(mail).topic \in {"id", "name", "code"} => Head(mail).value = 0
    BY <2>2 DEF Messages
  <2>6. /\ param'.id # 0 => param'.idOf > done
        /\ param'.code # NOT_GIVEN => param'.codeOf > done
        /\ param'.name # NOT_GIVEN => param'.nameOf > done
    BY <2>3, <2>4, <2>5 DEF NOT_GIVEN, ParameterTopics
  <2>7. \A i \in 1..Len(mail') :
          /\ mail'[i].number <= count["command"]
          /\ mail'[i].number # 0 => mail'[i].number > done
          /\ IsAction(mail'[i]) /\ draft # <<>> => mail'[i].number < count["command"]
    <3> TAKE i \in 1..Len(mail')
    <3>1. i + 1 \in 1..Len(mail)
      BY <1>0, <2>2
    <3> QED BY <2>2, <3>1
  <2>8. \A i, j \in 1..Len(mail') :
          i < j /\ IsAction(mail'[i]) /\ mail'[j].number # 0 => mail'[i].number < mail'[j].number
    <3> TAKE i, j \in 1..Len(mail')
    <3>1. i + 1 \in 1..Len(mail) /\ j + 1 \in 1..Len(mail) /\ (i < j => i + 1 < j + 1)
      BY <1>0, <2>2
    <3> QED BY <2>2, <3>1
  <2>9. mail # <<>> => kind = "topics"
    OBVIOUS
  <2> QED BY <1>0, <2>1, <2>2, <2>6, <2>7, <2>8, <2>9
<1>5. CASE ResetParameters
  <2>0. /\ count'["command"] = count["command"] /\ UNCHANGED draft
        /\ param' = NoParameters /\ done' = Head(mail).number
    BY <1>5 DEF ResetParameters
  <2> DEFINE echo == <<Message("id", 0, 0), Message("name", NOT_GIVEN, 0),
                       Message("code", NOT_GIVEN, 0), Message("enabled", 1, 0)>>
  <2>1. /\ mail # <<>> /\ IsAction(Head(mail)) /\ Head(mail) = mail[1] /\ mail[1] \in Messages
        /\ Tail(mail) \in Seq(Messages) /\ Len(Tail(mail)) = Len(mail) - 1
        /\ \A i \in 1..Len(Tail(mail)) : Tail(mail)[i] = mail[i + 1]
    BY <1>0, <1>5 DEF ResetParameters, TopicInv
  <2>2. mail[1].number > done
    BY <1>0, <2>1 DEF Messages
  <2>3. /\ Message("id", 0, 0) \in Messages /\ Message("name", NOT_GIVEN, 0) \in Messages
        /\ Message("code", NOT_GIVEN, 0) \in Messages /\ Message("enabled", 1, 0) \in Messages
    BY DEF Message, Messages, IsAction, ParameterTopics, NOT_GIVEN
  <2>4. /\ echo \in Seq(Messages) /\ Len(echo) = 4
        /\ \A i \in 1..4 : echo[i].number = 0 /\ ~IsAction(echo[i])
    BY <2>3 DEF Message, IsAction
  <2>5. mail' = Tail(mail) \o echo
    BY <1>5 DEF ResetParameters
  <2> HIDE DEF echo
  <2>6. /\ Len(mail') = Len(mail) + 3 /\ mail' \in Seq(Messages)
        /\ \A i \in 1..Len(mail) - 1 : mail'[i] = mail[i + 1]
        /\ \A i \in Len(mail)..Len(mail) + 3 : mail'[i] = echo[i - (Len(mail) - 1)]
    <3>1. /\ Len(mail') = Len(Tail(mail)) + 4 /\ mail' \in Seq(Messages)
          /\ \A i \in 1..Len(mail') :
               mail'[i] = IF i <= Len(Tail(mail)) THEN Tail(mail)[i] ELSE echo[i - Len(Tail(mail))]
      <4> DEFINE rest == Tail(mail)
      <4>1. rest \in Seq(Messages) /\ echo \in Seq(Messages) /\ Len(echo) = 4
        BY <2>1, <2>4
      <4> HIDE DEF rest
      <4>2. /\ rest \o echo \in Seq(Messages) /\ Len(rest \o echo) = Len(rest) + Len(echo)
            /\ \A i \in 1..Len(rest) + Len(echo) :
                 (rest \o echo)[i] = IF i <= Len(rest) THEN rest[i] ELSE echo[i - Len(rest)]
        BY <4>1, ConcatProperties
      <4> QED BY <2>5, <4>1, <4>2 DEF rest
    <3> QED BY <1>0, <2>1, <3>1
  <2>7. \A i \in 1..Len(mail') : \/ i \in 1..Len(mail) - 1 /\ mail'[i] = mail[i + 1]
                                 \/ mail'[i].number = 0 /\ ~IsAction(mail'[i])
    <3> TAKE i \in 1..Len(mail')
    <3>1. CASE i \in 1..Len(mail) - 1
      BY <2>6, <3>1
    <3>2. CASE i \in Len(mail)..Len(mail) + 3
      <4>1. i - (Len(mail) - 1) \in 1..4
        BY <1>0, <3>2
      <4> QED BY <2>4, <2>6, <3>2, <4>1
    <3> QED BY <1>0, <2>6, <3>1, <3>2
  <2>8. \A i \in 1..Len(mail) - 1 : mail[i + 1].number # 0 => mail[i + 1].number > mail[1].number
    BY <1>0, <2>1
  <2>9. \A i \in 1..Len(mail') :
          /\ mail'[i].number <= count["command"]
          /\ mail'[i].number # 0 => mail'[i].number > done'
          /\ IsAction(mail'[i]) /\ draft # <<>> => mail'[i].number < count["command"]
    BY <1>0, <2>0, <2>1, <2>7, <2>8
  <2>10. \A i, j \in 1..Len(mail') :
           i < j /\ IsAction(mail'[i]) /\ mail'[j].number # 0 => mail'[i].number < mail'[j].number
    <3> TAKE i, j \in 1..Len(mail')
    <3>1. CASE i \in 1..Len(mail) - 1 /\ j \in 1..Len(mail) - 1
      <4>1. i + 1 \in 1..Len(mail) /\ j + 1 \in 1..Len(mail) /\ (i < j => i + 1 < j + 1)
        BY <1>0, <3>1
      <4> QED BY <2>6, <3>1, <4>1
    <3> QED BY <2>7, <3>1
  <2>11. /\ done' <= count["command"]
         /\ draft # <<>> => done' < count["command"]
    BY <1>0, <2>0, <2>1
  <2>12. /\ param'.id = 0 /\ param'.code = NOT_GIVEN /\ param'.name = NOT_GIVEN
         /\ kind = "topics"
    BY <2>0, <2>1 DEF NoParameters
  <2> QED BY <1>0, <2>0, <2>9, <2>10, <2>11, <2>12
<1> QED BY <1>1, <1>2, <1>3, <1>4, <1>5, TopicFrame

----------------------------------------------------------------------------
(* The handlers *)

LEMMA LimitsAreNumbers == Retries \in Nat /\ Attempts \in {Retries, Retries + 1}
  BY DataAssumption DEF Attempts

LEMMA HandlerInvFrame == HandlerInv /\ UNCHANGED <<kind, netVars>> => HandlerInv'
  BY DEF HandlerInv, netVars, Attempts

LEMMA NextHandlerInv ==
  DataTypeOK /\ TopicTypes /\ HandlerTypes /\ MailInv /\ HandlerInv /\ [Next]_dataVars => HandlerInv'
<1>0. SUFFICES ASSUME DataTypeOK, TopicTypes, HandlerTypes, MailInv, HandlerInv, [Next]_dataVars
               PROVE  HandlerInv'
  OBVIOUS
<1> USE DEF HandlerInv
<1>1. CASE Background
  BY <1>0, <1>1, BackgroundFrame, HandlerInvFrame
<1>2. ASSUME NEW c \in Commands, Receive(c) PROVE HandlerInv'
  <2>1. /\ cmd' = c /\ have' = c /\ exists' = (c.id \in ids) /\ kind' = kind /\ tries' = tries
        /\ net' = IF kind = "config" THEN "set" ELSE "try"
        /\ net = "idle" /\ kind # "topics" /\ ids \subseteq Ids
    BY <1>0, <1>2 DEF Receive, DataTypeOK
  <2>2. tries = 0 /\ 0 < Retries + 1
    BY <1>0, <2>1, LimitsAreNumbers
  <2>3. exists' => have'.id \in Ids
    BY <2>1
  <2>4. kind # "config" =>
          /\ c.action \in {"delete", "add", "update"}
          /\ c.action = "add" => c.code \in Values
    BY <1>2, CommandFacts
  <2>5. CASE kind = "config"
    BY <2>1, <2>2, <2>3, <2>5
  <2>6. CASE kind # "config"
    BY <2>1, <2>2, <2>3, <2>4, <2>6
  <2> QED BY <2>5, <2>6
<1>3. CASE Refuse
  BY <1>3, <1>0 DEF Refuse, HandlerEnds, DataTypeOK, Attempts
<1>4. CASE Delete
  BY <1>4, <1>0 DEF Delete, Sends, Exchange, DataTypeOK, Attempts
<1>5. CASE Add
  BY <1>5, <1>0 DEF Add, Sends, Exchange, DataTypeOK, Attempts
<1>6. CASE Retrieve
  <2>1. CASE HandlerEnds
    BY <1>0, <1>6, <2>1 DEF HandlerEnds, Retrieve, NoCommand
  <2>2. CASE net' = "waiting"
    <3>1. /\ UNCHANGED <<kind, cmd, have, exists, tries>> /\ tries < Attempts /\ net = "try"
          /\ have.action = "update" /\ ~Refused
      BY <1>6, <2>2 DEF Retrieve, HandlerEnds
    <3>2. have.id \in Ids
      BY <1>0, <3>1 DEF Refused
    <3> QED BY <1>0, <2>2, <3>1, <3>2 DEF Attempts
  <2> QED BY <1>6, <2>1, <2>2 DEF Retrieve
<1>7. CASE Complete
  <2>1. CASE library[have.id] = NoEntry
    BY <1>0, <1>7, <2>1 DEF HandlerEnds, Complete, NoCommand
  <2>2. CASE library[have.id] # NoEntry
    <3>1. /\ UNCHANGED <<kind, cmd, exists, tries>> /\ net = "waiting" /\ net' = "write"
      BY <1>7, <2>2 DEF Complete
    <3>2. library[have.id] \in Entry
      BY <1>0, <2>2, <3>1 DEF DataTypeOK, List
    <3>3. /\ have'.action = "update" /\ have'.id = have.id
          /\ have'.code \in Values /\ have'.enabled \in {0, 1} /\ have'.limited \in {0, 1}
      BY <1>0, <1>7, <2>2, <3>1, <3>2, CompletedHave DEF HandlerTypes, Fields, Entry, UNSET
    <3> QED BY <1>0, <3>1, <3>3 DEF Attempts
  <2> QED BY <2>1, <2>2
<1>8. CASE Write
  BY <1>8, <1>0 DEF Write, Sends, Exchange, DataTypeOK, Attempts
<1>9. CASE Finish
  BY <1>9, <1>0 DEF Finish, HandlerEnds, DataTypeOK, Attempts
<1>10. CASE SetSetting
  BY <1>10, <1>0 DEF SetSetting, DataTypeOK, Attempts
<1>11. CASE SetEnds
  BY <1>11, <1>0 DEF SetEnds, HandlerEnds, DataTypeOK, Attempts
<1>12. CASE ReceiveParameter
  BY <1>0, <1>12, HandlerInvFrame DEF ReceiveParameter
<1>13. CASE ReceiveAction
  <2>1. /\ mail # <<>> /\ net = "idle" /\ exists' = (param.id \in ids) /\ have'.id = param.id
        /\ have'.action = Head(mail).topic /\ UNCHANGED <<kind, cmd, tries>>
        /\ Head(mail).topic \notin ParameterTopics
        /\ net' \in {"topic", "topicEnds"}
    BY <1>13 DEF ReceiveAction, NoCommand
  <2>2. Head(mail).topic \in {"add", "delete", "update"} /\ kind = "topics"
    BY <1>0, <2>1 DEF TopicTypes, Messages, MailInv
  <2>3. exists' => have'.id \in Ids
    <3>1. \A i \in ids : i \in Ids
      BY <1>0 DEF DataTypeOK
    <3> QED BY <2>1, <3>1
  <2> QED BY <1>0, <2>1, <2>2, <2>3, LimitsAreNumbers
<1>14. CASE RefuseTopics
  BY <1>14, <1>0 DEF RefuseTopics, DataTypeOK, Attempts
<1>15. CASE SendTopics
  BY <1>15, <1>0 DEF SendTopics, Exchange, DataTypeOK, Attempts
<1>16. CASE ListTopics
  BY <1>16, <1>0 DEF ListTopics, DataTypeOK, Attempts
<1>17. CASE ResetParameters
  BY <1>17, <1>0 DEF ResetParameters, HandlerEnds, DataTypeOK, Attempts
<1>18. CASE UNCHANGED dataVars
  BY <1>0, <1>18, HandlerInvFrame DEF dataVars
<1> QED BY <1>0, <1>1, <1>2, <1>3, <1>4, <1>5, <1>6, <1>7, <1>8, <1>9, <1>10, <1>11, <1>12, <1>13,
           <1>14, <1>15, <1>16, <1>17, <1>18 DEF Next, NetworkTask, Background

\* The parameters of the command that is handled stay, and its action is the first
\* message.
LEMMA NextTopicInv ==
  TopicTypes /\ MailInv /\ HandlerInv /\ TopicInv /\ [Next]_dataVars => TopicInv'
<1>0. SUFFICES ASSUME TopicTypes, MailInv, HandlerInv, TopicInv, [Next]_dataVars PROVE TopicInv'
  OBVIOUS
<1> USE DEF TopicInv
<1>1. CASE Background
  <2>1. UNCHANGED <<net, have, exists, param>>
    BY <1>1, NukiFrame DEF Background, Environment, AppChanges, ClientStarts, ClientSends, netVars,
       topicVars
  <2>2. mail # <<>> => mail' # <<>> /\ Head(mail') = Head(mail)
    <3>1. CASE ClientSends
      <4>1. draft # <<>> /\ Head(draft) \in Messages
        BY <1>0, <3>1 DEF ClientSends, TopicTypes
      <4> QED BY <1>0, <3>1, <4>1 DEF ClientSends, TopicTypes
    <3> QED BY <1>1, <3>1, NukiFrame DEF Background, Environment, AppChanges, ClientStarts,
               topicVars
  <2> QED BY <1>0, <2>1, <2>2 DEF MissingParameter
<1>2. ASSUME NEW c \in Commands, Receive(c) PROVE TopicInv'
  BY <1>2 DEF Receive
<1>3. CASE Refuse
  BY <1>3, <1>0 DEF Refuse, HandlerEnds, MissingParameter, topicVars
<1>4. CASE Delete
  BY <1>4, <1>0 DEF Delete, Sends, Exchange, MissingParameter, topicVars
<1>5. CASE Add
  BY <1>5, <1>0 DEF Add, Sends, Exchange, MissingParameter, topicVars
<1>6. CASE Retrieve
  BY <1>6, <1>0 DEF Retrieve, AskSucceeds, AskFails, HandlerEnds, MissingParameter, topicVars
<1>7. CASE Complete
  BY <1>7, <1>0 DEF Complete, HandlerEnds, MissingParameter, topicVars
<1>8. CASE Write
  BY <1>8, <1>0 DEF Write, Sends, Exchange, MissingParameter, topicVars
<1>9. CASE Finish
  BY <1>9 DEF Finish, HandlerEnds
<1>10. CASE SetSetting
  BY <1>10, <1>0 DEF SetSetting, MissingParameter, topicVars
<1>11. CASE SetEnds
  BY <1>11, <1>0 DEF SetEnds, HandlerEnds, MissingParameter, topicVars
<1>12. CASE ReceiveParameter
  BY <1>12 DEF ReceiveParameter, netVars
<1>13. CASE ReceiveAction
  <2>1. /\ mail # <<>> /\ Head(mail).topic \notin ParameterTopics
        /\ have'.id = param.id /\ have'.code = param.code
        /\ have'.name = param.name /\ have'.enabled = param.enabled
        /\ net' \in {"topic", "topicEnds"} /\ UNCHANGED <<mail, param>>
    BY <1>13 DEF ReceiveAction, NoCommand, topicVars
  <2>2. IsAction(Head(mail))
    BY <1>0, <2>1 DEF TopicTypes, Messages, IsAction
  <2> QED BY <2>1, <2>2
<1>14. CASE RefuseTopics
  BY <1>14, <1>0 DEF RefuseTopics, MissingParameter, topicVars
<1>15. CASE SendTopics
  BY <1>15, <1>0 DEF SendTopics, Exchange, MissingParameter, topicVars
<1>16. CASE ListTopics
  BY <1>16, <1>0 DEF ListTopics, MissingParameter, topicVars
<1>17. CASE ResetParameters
  BY <1>17, <1>0 DEF ResetParameters, HandlerEnds, MissingParameter, topicVars
<1>18. CASE UNCHANGED dataVars
  BY <1>0, <1>18 DEF dataVars, netVars, topicVars, MissingParameter
<1> QED BY <1>0, <1>1, <1>2, <1>3, <1>4, <1>5, <1>6, <1>7, <1>8, <1>9, <1>10, <1>11, <1>12, <1>13,
           <1>14, <1>15, <1>16, <1>17, <1>18 DEF Next, NetworkTask, Background

----------------------------------------------------------------------------
(* The lock, and what comes of it *)

\* The entries change with the app and with four of the commands.
LEMMA DeviceFrame ==
  ASSUME [Next]_dataVars
  PROVE  UNCHANGED device \/ AppChanges \/ Delete \/ Add \/ Write \/ SendTopics
<1>1. CASE ClientStarts
  BY <1>1 DEF ClientStarts, lockVars
<1>2. CASE ClientSends
  BY <1>2 DEF ClientSends, lockVars
<1>3. CASE NukiTask \/ Arrive \/ WaitEnds \/ IntervalElapses
  BY <1>3, NukiFrame DEF lockVars
<1>4. CASE Refuse
  BY <1>4 DEF Refuse, lockVars
<1>5. CASE Retrieve
  BY <1>5 DEF Retrieve, lockVars
<1>6. CASE Complete
  BY <1>6 DEF Complete, lockVars
<1>7. CASE Finish
  BY <1>7 DEF Finish, lockVars
<1>8. CASE SetSetting
  BY <1>8 DEF SetSetting, lockVars
<1>9. CASE SetEnds
  BY <1>9 DEF SetEnds, lockVars
<1>10. CASE ReceiveParameter
  BY <1>10 DEF ReceiveParameter, lockVars
<1>11. CASE ReceiveAction
  BY <1>11 DEF ReceiveAction, lockVars
<1>12. CASE RefuseTopics
  BY <1>12 DEF RefuseTopics, lockVars
<1>13. CASE ListTopics
  BY <1>13 DEF ListTopics, lockVars
<1>14. CASE ResetParameters
  BY <1>14 DEF ResetParameters, lockVars
<1>15. CASE \E c \in Commands : Receive(c)
  BY <1>15 DEF Receive
<1>16. CASE UNCHANGED dataVars
  BY <1>16 DEF dataVars, lockVars
<1> QED BY <1>1, <1>2, <1>3, <1>4, <1>5, <1>6, <1>7, <1>8, <1>9, <1>10, <1>11, <1>12, <1>13,
           <1>14, <1>15, <1>16 DEF Next, NetworkTask, Environment

LEMMA NextLimitedInv ==
  DataTypeOK /\ HandlerInv /\ LimitedInv /\ [Next]_dataVars => LimitedInv'
<1>0. SUFFICES ASSUME DataTypeOK, HandlerInv, LimitedInv, [Next]_dataVars,
                      kind = "timecontrol", NEW i \in Known(device')
               PROVE  device'[i].limited = 1
  BY TopicFrame DEF LimitedInv, Known
<1>1. device \in List /\ i \in Ids /\ device'[i] # NoEntry
  BY <1>0 DEF DataTypeOK, Known
<1> USE DEF Known
<1>2. CASE UNCHANGED device
  BY <1>0, <1>2 DEF LimitedInv
<1>3. CASE AppChanges
  <2>1. PICK j \in Known(device) :
          device' \in {[device EXCEPT ![j] = NoEntry],
                       [device EXCEPT ![j].code = IF @ = 1 THEN 2 ELSE 1]}
    BY <1>0, <1>3 DEF AppChanges
  <2>2. \A k \in Ids : device[k] # NoEntry => device[k] \in Entry /\ device[k].limited = 1
    BY <1>0, <1>1 DEF LimitedInv, List
  <2>3. CASE device' = [device EXCEPT ![j] = NoEntry]
    BY <1>1, <2>2, <2>3 DEF List
  <2>4. CASE device' = [device EXCEPT ![j].code = IF @ = 1 THEN 2 ELSE 1]
    <3>1. CASE i = j
      BY <1>1, <2>1, <2>2, <2>4, <3>1 DEF List, Entry
    <3>2. CASE i # j
      BY <1>1, <2>2, <2>4, <3>2 DEF List
    <3> QED BY <3>1, <3>2
  <2> QED BY <2>1, <2>3, <2>4
<1>4. ASSUME NEW entry, NEW where \in SUBSET Ids, entry = NoEntry \/ entry.limited = 1,
             device' \in Stored(entry, where) \cup {device}
      PROVE  device'[i].limited = 1
  BY <1>0, <1>1, <1>4 DEF LimitedInv, Stored, List
<1>5. CASE Delete
  BY <1>4, <1>5 DEF Delete, Sends, Exchange, Named
<1>6. CASE Add
  BY <1>0, <1>4, <1>6 DEF Add, Sends, Exchange, Free, TimesParsed
<1>7. CASE Write
  BY <1>0, <1>1, <1>4, <1>7 DEF Write, Sends, Exchange, Named, UpdatedEntry
<1>8. CASE SendTopics
  BY <1>0, <1>8 DEF SendTopics, HandlerInv
<1> QED BY <1>0, <1>2, <1>3, <1>5, <1>6, <1>7, <1>8, DeviceFrame

LEMMA CutIsShort == \A n \in Names : Cut(n) \in Names \ {LONG}
  BY DEF Cut, Names, Values, Given, NOT_GIVEN, LONG, CUT

\* What a command stores is cut, and the app is not seen to give a long name.
LEMMA NextShortInv ==
  DataTypeOK /\ HandlerTypes /\ HandlerInv /\ ShortInv /\ [Next]_dataVars => ShortInv'
<1>0. SUFFICES ASSUME DataTypeOK, HandlerTypes, HandlerInv, ShortInv, [Next]_dataVars,
                      kind # "auth", NEW i \in Known(device')
               PROVE  device'[i].name # LONG
  BY TopicFrame DEF ShortInv, Known
<1>1. device \in List /\ i \in Ids /\ device'[i] # NoEntry /\ Cut(have.name) # LONG
  BY <1>0, CutIsShort DEF DataTypeOK, HandlerTypes, Fields, Known
<1> USE DEF Known
<1>2. CASE UNCHANGED device
  BY <1>0, <1>2 DEF ShortInv
<1>3. CASE AppChanges
  <2>1. PICK j \in Known(device) :
          device' \in {device, [device EXCEPT ![j] = NoEntry],
                       [device EXCEPT ![j].code = IF @ = 1 THEN 2 ELSE 1]}
    BY <1>2, <1>3 DEF AppChanges
  <2>2. \A k \in Ids : device[k] # NoEntry => device[k] \in Entry /\ device[k].name # LONG
    BY <1>0, <1>1 DEF ShortInv, List
  <2>3. CASE device' = [device EXCEPT ![j] = NoEntry]
    BY <1>1, <2>2, <2>3 DEF List
  <2>4. CASE device' = [device EXCEPT ![j].code = IF @ = 1 THEN 2 ELSE 1]
    <3>1. CASE i = j
      BY <1>1, <2>1, <2>2, <2>4, <3>1 DEF List, Entry
    <3>2. CASE i # j
      BY <1>1, <2>2, <2>4, <3>2 DEF List
    <3> QED BY <3>1, <3>2
  <2>5. CASE UNCHANGED device
    BY <1>2, <2>5
  <2> QED BY <2>1, <2>3, <2>4, <2>5
<1>4. ASSUME NEW entry, NEW where \in SUBSET Ids, entry = NoEntry \/ entry.name # LONG,
             device' \in Stored(entry, where) \cup {device}
      PROVE  device'[i].name # LONG
  BY <1>0, <1>1, <1>4 DEF ShortInv, Stored, List
<1>5. CASE Delete
  BY <1>4, <1>5 DEF Delete, Sends, Exchange, Named
<1>6. CASE Add
  BY <1>1, <1>4, <1>6 DEF Add, Sends, Exchange, Free
<1>7. CASE Write
  BY <1>1, <1>4, <1>7 DEF Write, Sends, Exchange, Named, UpdatedEntry
<1>8. CASE SendTopics
  <2>1. TopicEntry.name # LONG
    BY <1>1 DEF TopicEntry
  <2>2. \/ device' \in Stored(TopicEntry, Free) \cup {device}
        \/ device' \in Stored(NoEntry, Named) \cup {device}
        \/ device' \in Stored(TopicEntry, Named) \cup {device}
    BY <1>0, <1>8 DEF SendTopics, Exchange, HandlerInv
  <2> QED BY <1>4, <2>1, <2>2 DEF Free, Named
<1> QED BY <1>0, <1>2, <1>3, <1>5, <1>6, <1>7, <1>8, DeviceFrame

\* What comes of a list is copied from the lock, and stays a copy until the app
\* changes the lock: the other commands wait.
LEMMA NextFreshInv ==
  DataTypeOK /\ FreshInv /\ [Next]_dataVars => FreshInv'
<1>0. SUFFICES ASSUME DataTypeOK, FreshInv, [Next]_dataVars PROVE FreshInv'
  OBVIOUS
<1>1. device \in List /\ library \in List /\ arriving \in List
  BY <1>0 DEF DataTypeOK
<1> USE DEF FreshInv
<1>2. ASSUME UNCHANGED <<net, touched, device>>, RequestList \/ UNCHANGED <<library, arriving>>
      PROVE  FreshInv'
  BY <1>0, <1>1, <1>2 DEF RequestList, AskSucceeds, AskFails, EmptyList, List
<1>3. CASE NukiTask
  BY <1>2, <1>3 DEF NukiTask, ReadConfig, ReadAdvancedConfig, KeypadDue, ListDue, ResetWait,
     PublishList, FillIds, lockVars, bleVars, netVars
<1>4. CASE AppChanges
  BY <1>4 DEF AppChanges
<1>5. CASE ClientStarts \/ ClientSends \/ WaitEnds \/ IntervalElapses \/ UNCHANGED dataVars
  BY <1>2, <1>5 DEF ClientStarts, ClientSends, WaitEnds, IntervalElapses, dataVars, lockVars,
     bleVars,
     netVars
<1>6. CASE Arrive
  <2>1. PICK i \in Known(arriving) : /\ library' = [library EXCEPT ![i] = arriving[i]]
                                     /\ arriving' = [arriving EXCEPT ![i] = NoEntry]
    BY <1>6 DEF Arrive
  <2>2. UNCHANGED <<net, touched, device>>
    BY <1>6 DEF Arrive, lockVars, netVars
  <2> QED BY <1>0, <1>1, <2>1, <2>2 DEF Known, List
<1>7. CASE Retrieve
  <2>1. CASE net' = "waiting"
    <3>1. AskSucceeds /\ UNCHANGED device
      BY <1>7, <2>1 DEF Retrieve, HandlerEnds, lockVars
    <3> QED BY <1>1, <3>1 DEF AskSucceeds, EmptyList, List
  <2> QED BY <2>1
<1>8. ASSUME net' # "waiting" PROVE FreshInv'
  BY <1>8
<1>9. CASE \E c \in Commands : Receive(c)
  BY <1>8, <1>9 DEF Receive
<1>10. CASE Refuse \/ Complete \/ Finish \/ SetEnds \/ ResetParameters
  BY <1>8, <1>10 DEF Refuse, Complete, Finish, SetEnds, ResetParameters, HandlerEnds
<1>11. CASE Delete \/ Add \/ Write \/ SendTopics
  BY <1>8, <1>11 DEF Delete, Add, Write, SendTopics, Sends, Exchange
<1>12. CASE SetSetting \/ ReceiveAction \/ RefuseTopics \/ ListTopics
  BY <1>8, <1>12 DEF SetSetting, ReceiveAction, RefuseTopics, ListTopics
<1>13. CASE ReceiveParameter
  BY <1>2, <1>13 DEF ReceiveParameter, lockVars, bleVars, netVars
<1> QED BY <1>0, <1>3, <1>4, <1>5, <1>6, <1>7, <1>9, <1>10, <1>11, <1>12, <1>13
        DEF Next, NetworkTask, Environment

\* Beside the handler only the app has to do with what an update relies on.
LEMMA BesideUpdate ==
  ASSUME Background \/ UNCHANGED dataVars \/ ReceiveParameter
  PROVE  /\ UNCHANGED <<kind, net, cmd, have, stamp, exists>>
         /\ touched' \/ UNCHANGED <<device, touched>>
  BY NukiFrame DEF Background, Environment, AppChanges, ClientStarts, ClientSends, ReceiveParameter,
     dataVars, lockVars, netVars

\* The handlers of the topics and of the settings have no update in cmd.
LEMMA OtherHandlers ==
  ASSUME HandlerInv,
         \/ Refuse \/ Finish \/ SetEnds \/ ResetParameters \/ SetSetting \/ ReceiveAction
         \/ RefuseTopics \/ SendTopics \/ ListTopics
  PROVE  net' \notin {"try", "waiting", "write"}
  BY DEF HandlerInv, Refuse, Finish, SetEnds, ResetParameters, SetSetting, ReceiveAction,
         RefuseTopics, SendTopics, ListTopics, HandlerEnds, Exchange

\* An update in progress is neither added nor deleted.
LEMMA UpdateOnly ==
  ASSUME CompletedInv, Delete \/ Add
  PROVE  cmd'.action # "update"
  BY DEF CompletedInv, Delete, Add

LEMMA NextCompletedInv ==
  /\ DataTypeOK /\ HandlerTypes /\ HandlerInv /\ LimitedInv /\ FreshInv /\ CompletedInv
  /\ [Next]_dataVars
  => CompletedInv'
<1>0. SUFFICES ASSUME DataTypeOK, HandlerTypes, HandlerInv, LimitedInv, FreshInv, CompletedInv,
                      [Next]_dataVars
               PROVE  CompletedInv'
  OBVIOUS
<1>1. device \in List /\ library \in List /\ have \in Fields /\ cmd \in Fields
  BY <1>0 DEF DataTypeOK, HandlerTypes
<1>2. CASE Background \/ UNCHANGED dataVars \/ ReceiveParameter
  BY <1>0, <1>2, BesideUpdate DEF CompletedInv, Known
<1>3. CASE \/ Refuse \/ Finish \/ SetEnds \/ ResetParameters \/ SetSetting \/ ReceiveAction
           \/ RefuseTopics \/ SendTopics \/ ListTopics
  BY <1>0, <1>3, OtherHandlers DEF CompletedInv
<1>4. CASE Delete \/ Add
  BY <1>0, <1>4, UpdateOnly DEF CompletedInv
<1>5. ASSUME NEW c \in Commands, Receive(c) PROVE CompletedInv'
  <2>1. /\ cmd' = c /\ have' = c /\ kind' = kind
        /\ net' = IF kind = "config" THEN "set" ELSE "try"
    BY <1>5 DEF Receive
  <2> QED BY <2>1, <1>5, CommandFacts DEF CompletedInv
<1>6. CASE Retrieve
  <2>1. net = "try" /\ UNCHANGED <<kind, device, touched>>
    BY <1>6 DEF Retrieve, lockVars
  <2>2. CASE HandlerEnds
    BY <2>2 DEF HandlerEnds, CompletedInv
  <2>3. CASE net' = "waiting" /\ UNCHANGED <<cmd, have, exists>>
    BY <1>0, <2>1, <2>3 DEF CompletedInv, Known
  <2> QED BY <1>6, <2>2, <2>3 DEF Retrieve
<1>7. CASE Complete
  <2>1. CASE library[have.id] = NoEntry
    BY <1>7, <2>1 DEF Complete, HandlerEnds, CompletedInv
  <2>2. CASE library[have.id] # NoEntry
    <3> SUFFICES ASSUME cmd.action = "update" PROVE CompletedInv'
      BY <1>7, <2>2 DEF Complete, CompletedInv
    <3>1. /\ net = "waiting" /\ UNCHANGED <<kind, cmd, exists, device, touched>>
      BY <1>7, <2>2 DEF Complete, lockVars
    <3>2. ~touched => library[have.id] = device[cmd.id] /\ have.id \in Known(device)
      BY <1>0, <2>2, <3>1 DEF FreshInv, CompletedInv, HandlerInv, Known
    <3>3. /\ have.action = "update" /\ have.id = cmd.id /\ cmd.times \in Given \cup {NOT_GIVEN}
          /\ kind = "timecontrol" => cmd.limited = UNSET
          /\ have.times \in {cmd.times, OLD} /\ (cmd.times # NOT_GIVEN => have.times = cmd.times)
          /\ cmd.limited # UNSET => have.limited = cmd.limited
      BY <1>0, <3>1 DEF CompletedInv
    <3>4. have'.action = "update" /\ have'.id = cmd.id
      BY <1>1, <1>7, <2>2, <3>3, CompletedHave
    <3>5. /\ have'.times \in {cmd.times, OLD} /\ (cmd.times # NOT_GIVEN => have'.times = cmd.times)
          /\ cmd.limited # UNSET => have'.limited = cmd.limited
      BY <1>1, <1>7, <2>2, <3>3, CompletedHave
    <3>6. CASE touched
      BY <3>1, <3>3, <3>4, <3>5, <3>6 DEF CompletedInv
    <3>7. CASE ~touched
      <4>1. have # cmd => /\ Completed(cmd.code, NOT_GIVEN, have.code, device[cmd.id].code)
                          /\ Completed(cmd.enabled, UNSET, have.enabled, device[cmd.id].enabled)
                          /\ Completed(cmd.limited, UNSET, have.limited, device[cmd.id].limited)
        BY <1>0, <3>1, <3>7 DEF CompletedInv
      <4>2. /\ Completed(cmd.code, NOT_GIVEN, have.code, device[cmd.id].code)
            /\ Completed(cmd.enabled, UNSET, have.enabled, device[cmd.id].enabled)
            /\ Completed(cmd.limited, UNSET, have.limited, device[cmd.id].limited)
        BY <4>1 DEF Completed
      <4>3. /\ Completed(cmd.code, NOT_GIVEN, have'.code, device[cmd.id].code)
            /\ Completed(cmd.enabled, UNSET, have'.enabled, device[cmd.id].enabled)
            /\ Completed(cmd.limited, UNSET, have'.limited, device[cmd.id].limited)
        BY <1>1, <1>7, <2>2, <3>2, <3>7, <4>2, CompletedHave DEF Completed
      <4> QED BY <3>1, <3>2, <3>3, <3>4, <3>5, <3>7, <4>3 DEF CompletedInv, Completed, Known
    <3> QED BY <3>6, <3>7
  <2> QED BY <2>1, <2>2
<1>8. CASE Write
  <2> SUFFICES ASSUME cmd.action = "update", net' = "try" PROVE CompletedInv'
    BY <1>8 DEF Write, Sends, Exchange, CompletedInv
  <2>1. net = "write" /\ UNCHANGED <<kind, cmd, have, exists, touched>>
    BY <1>8 DEF Write
  <2>2. device' \in Stored(UpdatedEntry, Named) \cup {device}
    BY <1>8 DEF Write, Sends, Exchange
  <2>3. CASE touched \/ device' = device
    BY <1>0, <2>1, <2>3 DEF CompletedInv, Known
  <2>4. CASE ~touched /\ device' \in Stored(UpdatedEntry, Named)
    <3>1. /\ have.id = cmd.id /\ have.id \in Known(device)
          /\ Completed(cmd.code, NOT_GIVEN, have.code, device[cmd.id].code)
          /\ Completed(cmd.enabled, UNSET, have.enabled, device[cmd.id].enabled)
          /\ Completed(cmd.limited, UNSET, have.limited, device[cmd.id].limited)
      BY <1>0, <2>1, <2>4 DEF CompletedInv
    <3>2. device' = [device EXCEPT ![cmd.id] = UpdatedEntry] /\ cmd.id \in Ids
      BY <2>4, <3>1 DEF Stored, Named, Known
    <3>3. device'[cmd.id] = UpdatedEntry
      BY <1>1, <3>2 DEF List
    <3>4. kind = "timecontrol" => cmd.limited = UNSET /\ have.limited = 1
      BY <1>0, <2>1, <3>1 DEF CompletedInv, LimitedInv, HandlerInv, Completed, UNSET
    <3>5. /\ UpdatedEntry.code = have.code /\ UpdatedEntry.enabled = have.enabled
          /\ UpdatedEntry.limited = have.limited
      BY <3>4 DEF UpdatedEntry
    <3>6. UpdatedEntry # NoEntry
      BY <1>0, <1>1, <2>1, NoEntryAssumption, CutIsShort
      DEF UpdatedEntry, HandlerInv, Entry, Fields, DataTypeOK
    <3>7. have.id \in Known(device')
      BY <3>1, <3>2, <3>3, <3>6 DEF Known
    <3>8. /\ Completed(cmd.code, NOT_GIVEN, have.code, device'[cmd.id].code)
          /\ Completed(cmd.enabled, UNSET, have.enabled, device'[cmd.id].enabled)
          /\ Completed(cmd.limited, UNSET, have.limited, device'[cmd.id].limited)
      BY <3>1, <3>3, <3>5 DEF Completed
    <3>9. /\ have.action = "update" /\ cmd.times \in Given \cup {NOT_GIVEN}
          /\ kind = "timecontrol" => cmd.limited = UNSET
          /\ have.times \in {cmd.times, OLD} /\ (cmd.times # NOT_GIVEN => have.times = cmd.times)
          /\ cmd.limited # UNSET => have.limited = cmd.limited
      BY <1>0, <2>1 DEF CompletedInv
    <3> QED BY <2>1, <3>1, <3>7, <3>8, <3>9 DEF CompletedInv, Completed, Known
  <2> QED BY <2>2, <2>3, <2>4
<1> QED BY <1>0, <1>2, <1>3, <1>4, <1>5, <1>6, <1>7, <1>8 DEF Next, NetworkTask, Background

LEMMA NextStampInv ==
  /\ DataTypeOK /\ HandlerTypes /\ HandlerInv /\ FreshInv /\ CompletedInv /\ StampInv
  /\ [Next]_dataVars
  => StampInv'
<1>0. SUFFICES ASSUME DataTypeOK, HandlerTypes, HandlerInv, FreshInv, CompletedInv, StampInv,
                      [Next]_dataVars
               PROVE  StampInv'
  OBVIOUS
<1>1. device \in List /\ library \in List /\ have \in Fields /\ cmd \in Fields
  BY <1>0 DEF DataTypeOK, HandlerTypes
<1>2. CASE Background \/ UNCHANGED dataVars \/ ReceiveParameter
  BY <1>0, <1>2, BesideUpdate DEF StampInv
<1>3. CASE \/ Refuse \/ Finish \/ SetEnds \/ ResetParameters \/ SetSetting \/ ReceiveAction
           \/ RefuseTopics \/ SendTopics \/ ListTopics
  BY <1>0, <1>3, OtherHandlers DEF StampInv
<1>4. CASE Delete \/ Add
  BY <1>0, <1>4 DEF StampInv, Delete, Add, Sends, Exchange
<1>5. ASSUME NEW c \in Commands, Receive(c) PROVE StampInv'
  <2>1. have' = c /\ net' = IF kind = "config" THEN "set" ELSE "try"
    BY <1>5 DEF Receive
  <2> QED BY <2>1, <1>5, CommandFacts DEF StampInv
<1>6. CASE Retrieve
  <2>1. CASE HandlerEnds
    BY <2>1 DEF HandlerEnds, StampInv
  <2>2. CASE net' = "waiting"
    <3>1. /\ net = "try" /\ ~Refused /\ have.action = "update" /\ stamp' = ParsedTimes
          /\ UNCHANGED <<kind, cmd, have>>
      BY <1>6, <2>2 DEF Retrieve, HandlerEnds
    <3>2. have.times = OLD => kind # "timecontrol" /\ have.limited = 0
      BY <1>0, <1>1, <3>1 DEF Refused, TimesParsed, StampInv, Fields, UNSET
    <3>3. /\ have.times # OLD \/ have.limited # UNSET
      BY <1>0, <3>1 DEF StampInv
    <3>4. ASSUME cmd.action = "update", cmd.times # NOT_GIVEN
          PROVE  stamp' = cmd.times \/ (kind # "timecontrol" /\ cmd.limited # 1)
      <4>1. /\ have.times = cmd.times /\ cmd.times \in Given
            /\ cmd.limited = 1 => have.limited = 1
        BY <1>0, <3>1, <3>4 DEF CompletedInv, UNSET
      <4> QED BY <3>1, <4>1 DEF ParsedTimes, TimesParsed
    <3> QED BY <2>2, <3>1, <3>2, <3>3, <3>4 DEF StampInv
  <2> QED BY <1>6, <2>1, <2>2 DEF Retrieve
<1>7. CASE Complete
  <2>1. CASE library[have.id] = NoEntry
    BY <1>7, <2>1 DEF Complete, HandlerEnds, StampInv
  <2>2. CASE library[have.id] # NoEntry
    <3>1. /\ net = "waiting" /\ net' = "write" /\ UNCHANGED <<kind, cmd, device, touched>>
          /\ stamp' = IF have.times = NOT_GIVEN THEN library[have.id].times ELSE stamp
      BY <1>7, <2>2 DEF Complete, lockVars
    <3>2. library[have.id] \in Entry
      BY <1>0, <1>1, <2>2, <3>1 DEF HandlerInv, List
    <3>3. have'.limited # UNSET
      BY <1>1, <1>7, <2>2, <3>2, CompletedHave DEF Entry, UNSET
    <3>4. ASSUME cmd.action = "update", cmd.times # NOT_GIVEN
          PROVE  stamp' = cmd.times \/ (kind # "timecontrol" /\ cmd.limited # 1)
      BY <1>0, <3>1, <3>4 DEF CompletedInv, StampInv
    <3>5. ASSUME cmd.action = "update", cmd.times = NOT_GIVEN, ~touched,
                 kind = "timecontrol" \/ have'.limited = 1
          PROVE  stamp' = device[cmd.id].times
      <4>1. have.id = cmd.id /\ have.times \in {NOT_GIVEN, OLD}
        BY <1>0, <3>1, <3>5 DEF CompletedInv
      <4>2. library[have.id] = device[cmd.id]
        BY <1>0, <2>2, <3>1, <3>5, <4>1 DEF FreshInv, HandlerInv
      <4>3. have.times # OLD
        BY <1>0, <1>1, <1>7, <2>2, <3>1, <3>5, CompletedHave DEF StampInv, UNSET
      <4> QED BY <3>1, <4>1, <4>2, <4>3
    <3> QED BY <3>1, <3>3, <3>4, <3>5 DEF StampInv
  <2> QED BY <2>1, <2>2
<1>8. CASE Write
  BY <1>0, <1>8 DEF Write, Sends, Exchange, StampInv
<1> QED BY <1>0, <1>2, <1>3, <1>4, <1>5, <1>6, <1>7, <1>8 DEF Next, NetworkTask, Background

LEMMA NextNameInv ==
  /\ DataTypeOK /\ HandlerTypes /\ HandlerInv /\ FreshInv /\ CompletedInv /\ NameInv
  /\ [Next]_dataVars
  => NameInv'
<1>0. SUFFICES ASSUME DataTypeOK, HandlerTypes, HandlerInv, FreshInv, CompletedInv, NameInv,
                      [Next]_dataVars
               PROVE  NameInv'
  OBVIOUS
<1>1. device \in List /\ library \in List /\ have \in Fields /\ cmd \in Fields
  BY <1>0 DEF DataTypeOK, HandlerTypes
<1>2. CASE Background \/ UNCHANGED dataVars \/ ReceiveParameter
  BY <1>0, <1>2, BesideUpdate DEF NameInv
<1>3. CASE \/ Refuse \/ Finish \/ SetEnds \/ ResetParameters \/ SetSetting \/ ReceiveAction
           \/ RefuseTopics \/ SendTopics \/ ListTopics
  BY <1>0, <1>3, OtherHandlers DEF NameInv
<1>4. CASE Delete \/ Add
  BY <1>0, <1>4, UpdateOnly DEF NameInv
<1>5. ASSUME NEW c \in Commands, Receive(c) PROVE NameInv'
  <2>1. cmd' = c /\ have' = c /\ net' = IF kind = "config" THEN "set" ELSE "try"
    BY <1>5 DEF Receive
  <2> QED BY <2>1, <1>5, CommandFacts DEF NameInv
<1>6. CASE Retrieve
  <2>1. CASE HandlerEnds
    BY <2>1 DEF HandlerEnds, NameInv
  <2>2. CASE net' = "waiting"
    BY <1>0, <1>6, <2>2 DEF Retrieve, HandlerEnds, NameInv
  <2> QED BY <1>6, <2>1, <2>2 DEF Retrieve
<1>7. CASE Complete
  <2>1. CASE library[have.id] = NoEntry
    BY <1>7, <2>1 DEF Complete, HandlerEnds, NameInv
  <2>2. CASE library[have.id] # NoEntry
    <3> SUFFICES ASSUME cmd.action = "update" PROVE NameInv'
      BY <1>7, <2>2 DEF Complete, NameInv
    <3>1. net = "waiting" /\ net' = "write" /\ UNCHANGED <<cmd, device, touched>>
      BY <1>7, <2>2 DEF Complete, lockVars
    <3>2. ~touched => library[have.id] = device[cmd.id]
      BY <1>0, <2>2, <3>1 DEF FreshInv, CompletedInv, HandlerInv
    <3>3. have'.name = IF cmd.name = NOT_GIVEN THEN library[have.id].name ELSE have.name
      BY <1>1, <1>7, <2>2, CompletedHave
    <3>4. cmd.name \in Given \cup {NOT_GIVEN} /\ (cmd.name # NOT_GIVEN => have.name = cmd.name)
      BY <1>0, <3>1 DEF NameInv
    <3> QED BY <3>1, <3>2, <3>3, <3>4 DEF NameInv
  <2> QED BY <2>1, <2>2
<1>8. CASE Write
  BY <1>0, <1>8 DEF Write, Sends, Exchange, NameInv
<1> QED BY <1>0, <1>2, <1>3, <1>4, <1>5, <1>6, <1>7, <1>8 DEF Next, NetworkTask, Background

----------------------------------------------------------------------------
(* The type invariant: flags, lists, and the rest *)

FlagTypes ==
  valid \in BOOLEAN /\ hasKeypad \in BOOLEAN /\ exists \in BOOLEAN /\ touched \in BOOLEAN

ListTypes ==
  /\ device \in List /\ library \in List /\ arriving \in List /\ published \in List
  /\ ids \subseteq Ids

StateTypes ==
  /\ kind \in Kinds
  /\ setting \in 30..1800 /\ copy \in Nat
  /\ wait \in {"no", "running", "due"} /\ due \subseteq {"config", "keypad"}
  /\ nuki \in {"idle", "advanced", "reset", "publish", "fill"}
  /\ net \in {"idle", "try", "waiting", "write", "finish", "set", "setEnds", "topic", "listOk",
               "listFailed", "topicEnds"}
  /\ tries \in 0..Retries + 1
  /\ stamp \in Values \cup {ZEROS, JUNK}

LEMMA DataTypeParts == DataTypeOK <=> FlagTypes /\ ListTypes /\ StateTypes
  BY DEF DataTypeOK, FlagTypes, ListTypes, StateTypes

LEMMA NextFlagTypes == FlagTypes /\ [Next]_dataVars => FlagTypes'
<1>0. SUFFICES ASSUME FlagTypes, [Next]_dataVars PROVE FlagTypes'
  OBVIOUS
<1> USE DEF FlagTypes, lockVars, copyVars, netVars
<1>1. CASE AppChanges
  BY <1>1, <1>0 DEF AppChanges, Happens
<1>2. CASE ClientStarts
  BY <1>2, <1>0 DEF ClientStarts, Happens
<1>3. CASE ClientSends
  BY <1>3, <1>0 DEF ClientSends
<1>4. CASE ReadConfig
  BY <1>4, <1>0 DEF ReadConfig, RetryConfig, RequestList, AskSucceeds, AskFails
<1>5. CASE ReadAdvancedConfig
  BY <1>5, <1>0 DEF ReadAdvancedConfig, RetryConfig
<1>6. CASE KeypadDue
  BY <1>6, <1>0 DEF KeypadDue, RequestList, AskSucceeds, AskFails
<1>7. CASE ListDue
  BY <1>7, <1>0 DEF ListDue
<1>8. CASE ResetWait
  BY <1>8, <1>0 DEF ResetWait
<1>9. CASE PublishList
  BY <1>9, <1>0 DEF PublishList
<1>10. CASE FillIds
  BY <1>10, <1>0 DEF FillIds
<1>11. CASE Arrive
  BY <1>11, <1>0 DEF Arrive
<1>12. CASE WaitEnds
  BY <1>12, <1>0 DEF WaitEnds, Received
<1>13. CASE IntervalElapses
  BY <1>13, <1>0 DEF IntervalElapses
<1>14. ASSUME NEW c \in Commands, Receive(c) PROVE FlagTypes'
  <2>1. UNCHANGED <<valid, hasKeypad>>
    BY <1>14 DEF Receive
  <2>2. exists' \in BOOLEAN
    <3>1. exists' = (c.id \in ids)
      BY <1>14 DEF Receive
    <3>2. CASE c.id \in ids
      BY <3>1, <3>2
    <3>3. CASE c.id \notin ids
      BY <3>1, <3>3
    <3> QED BY <3>2, <3>3
  <2>3. touched' \in BOOLEAN
    BY <1>14 DEF Receive
  <2> QED BY <1>0, <2>1, <2>2, <2>3
<1>15. CASE Refuse
  BY <1>15, <1>0 DEF Refuse, HandlerEnds
<1>16. CASE Delete
  BY <1>16, <1>0 DEF Delete, Sends, Exchange
<1>17. CASE Add
  BY <1>17, <1>0 DEF Add, Sends, Exchange
<1>18. CASE Retrieve
  BY <1>18, <1>0 DEF Retrieve, AskSucceeds, AskFails, HandlerEnds
<1>19. CASE Complete
  BY <1>19, <1>0 DEF Complete, HandlerEnds
<1>20. CASE Write
  BY <1>20, <1>0 DEF Write, Sends, Exchange
<1>21. CASE Finish
  BY <1>21, <1>0 DEF Finish, HandlerEnds
<1>22. CASE SetSetting
  BY <1>22, <1>0 DEF SetSetting
<1>23. CASE SetEnds
  BY <1>23, <1>0 DEF SetEnds, HandlerEnds
<1>24. CASE ReceiveParameter
  BY <1>24, <1>0 DEF ReceiveParameter
<1>25. CASE ReceiveAction
  BY <1>25, <1>0 DEF ReceiveAction
<1>26. CASE RefuseTopics
  BY <1>26, <1>0 DEF RefuseTopics
<1>27. CASE SendTopics
  BY <1>27, <1>0 DEF SendTopics, Exchange
<1>28. CASE ListTopics
  BY <1>28, <1>0 DEF ListTopics
<1>29. CASE ResetParameters
  BY <1>29, <1>0 DEF ResetParameters, HandlerEnds
<1>30. CASE UNCHANGED dataVars
  BY <1>30, <1>0 DEF dataVars
<1> QED BY <1>0, <1>1, <1>2, <1>3, <1>4, <1>5, <1>6, <1>7, <1>8, <1>9, <1>10, <1>11, <1>12, <1>13,
           <1>14, <1>15, <1>16, <1>17, <1>18, <1>19, <1>20, <1>21, <1>22, <1>23, <1>24, <1>25,
           <1>26, <1>27, <1>28, <1>29, <1>30
        DEF Next, NetworkTask, NukiTask, Environment

\* An entry that is sent to the lock is an entry: it is complete.
LEMMA NextDevice ==
  ASSUME DataTypeOK, TopicTypes, HandlerTypes, HandlerInv, TopicInv, [Next]_dataVars
  PROVE  device' \in List
<1>1. device \in List /\ have \in Fields /\ param \in Parameters
  BY DEF DataTypeOK, HandlerTypes, TopicTypes
<1>2. ASSUME NEW entry \in Entry \cup {NoEntry}, NEW where \in SUBSET Ids,
             device' \in Stored(entry, where) \cup {device}
      PROVE  device' \in List
  BY <1>1, <1>2, StoredLists
<1>3. CASE AppChanges
  <2>1. CASE UNCHANGED device
    BY <1>1, <2>1
  <2>2. CASE ~UNCHANGED device
    <3>1. PICK i \in Known(device) :
            device' \in {[device EXCEPT ![i] = NoEntry],
                         [device EXCEPT ![i].code = IF @ = 1 THEN 2 ELSE 1]}
      BY <1>3, <2>2 DEF AppChanges
    <3>2. i \in Ids /\ device[i] \in Entry
      BY <1>1 DEF Known, List
    <3>3. [device[i] EXCEPT !.code = IF @ = 1 THEN 2 ELSE 1] \in Entry
      BY <3>2 DEF Entry, Values, Given
    <3> QED BY <1>1, <3>1, <3>2, <3>3 DEF List
  <2> QED BY <2>1, <2>2
<1>4. ParsedTimes \in Values \cup {ZEROS, JUNK} /\ Cut(have.name) \in Names
  BY <1>1, CutIsShort DEF ParsedTimes, Values, Fields
<1>5. CASE Delete
  BY <1>2, <1>5 DEF Delete, Sends, Exchange, Named, Known
<1>6. CASE Add
  <2>1. have.code \in Values
    BY <1>6 DEF Add, HandlerInv
  <2>2. [code |-> have.code, name |-> Cut(have.name), enabled |-> 1,
         limited |-> IF TimesParsed THEN 1 ELSE 0, times |-> ParsedTimes] \in Entry
    BY <1>4, <2>1 DEF Entry
  <2> QED BY <1>2, <1>6, <2>2 DEF Add, Sends, Exchange, Free
<1>7. CASE Write
  <2>1. UpdatedEntry \in Entry
    BY <1>4, <1>7 DEF Write, UpdatedEntry, HandlerInv, Entry, DataTypeOK
  <2> QED BY <1>2, <1>7, <2>1 DEF Write, Sends, Exchange, Named, Known
<1>8. CASE SendTopics
  <2>1. net = "topic" /\ have.action \in {"delete", "add", "update"} /\ ~MissingParameter
    BY <1>8 DEF SendTopics, HandlerInv
  <2>2. have.enabled \in {0, 1}
    BY <1>1, <2>1 DEF TopicInv, Parameters
  <2>3. have.action # "delete" => TopicEntry \in Entry
    BY <1>1, <1>4, <2>1, <2>2 DEF MissingParameter, TopicEntry, Fields, Entry
  <2>4. \/ have.action = "add" /\ device' \in Stored(TopicEntry, Free) \cup {device}
        \/ have.action = "delete" /\ device' \in Stored(NoEntry, Named) \cup {device}
        \/ have.action = "update" /\ device' \in Stored(TopicEntry, Named) \cup {device}
    BY <1>8, <2>1 DEF SendTopics, Exchange
  <2> QED BY <1>2, <2>3, <2>4 DEF Free, Named, Known
<1>9. CASE UNCHANGED device
  BY <1>1, <1>9
<1> QED BY <1>3, <1>5, <1>6, <1>7, <1>8, <1>9, DeviceFrame

\* The library's list is emptied, or filled from what the lock has sent.
LEMMA RequestListTypes ==
  ASSUME device \in List, library \in List, arriving \in List, RequestList
  PROVE  library' \in List /\ arriving' \in List
  BY EmptyInLists DEF RequestList, AskSucceeds, AskFails

LEMMA NextListTypes ==
  /\ DataTypeOK /\ TopicTypes /\ HandlerTypes /\ HandlerInv /\ TopicInv /\ [Next]_dataVars
  => ListTypes'
<1>0. SUFFICES ASSUME DataTypeOK, TopicTypes, HandlerTypes, HandlerInv, TopicInv, [Next]_dataVars
               PROVE  ListTypes'
  OBVIOUS
<1>1. device' \in List
  BY <1>0, NextDevice
<1>2. ListTypes
  BY <1>0, DataTypeParts
<1> USE DEF ListTypes
<1>3. CASE UNCHANGED <<bleVars, listVars>>
  BY <1>1, <1>2, <1>3 DEF bleVars, listVars
<1>4. CASE RequestList /\ UNCHANGED listVars
  BY <1>1, <1>2, <1>4, RequestListTypes DEF listVars
<1>5. CASE Arrive
  <2>1. PICK i \in Known(arriving) : /\ library' = [library EXCEPT ![i] = arriving[i]]
                                     /\ arriving' = [arriving EXCEPT ![i] = NoEntry]
    BY <1>5 DEF Arrive
  <2>2. i \in Ids /\ library' \in List /\ arriving' \in List
    BY <1>2, <2>1 DEF Known, List
  <2> QED BY <1>1, <1>2, <1>5, <2>2 DEF Arrive, listVars
<1>6. CASE NukiTask
  <2>1. CASE PublishList
    BY <1>1, <1>2, <2>1 DEF PublishList, bleVars
  <2>2. CASE FillIds
    BY <1>1, <1>2, <2>2 DEF FillIds, bleVars, Known
  <2>3. CASE WaitEnds \/ ResetWait \/ ListDue \/ ReadAdvancedConfig
    BY <1>1, <1>2, <2>3 DEF WaitEnds, ResetWait, ListDue, ReadAdvancedConfig, bleVars, listVars
  <2>4. CASE ReadConfig \/ KeypadDue
    BY <1>3, <1>4, <2>4 DEF ReadConfig, KeypadDue
  <2> QED BY <1>6, <2>1, <2>2, <2>3, <2>4 DEF NukiTask
<1>7. CASE WaitEnds \/ IntervalElapses \/ Environment \/ UNCHANGED dataVars
  BY <1>1, <1>2, <1>7 DEF WaitEnds, IntervalElapses, Environment, AppChanges, ClientStarts,
     ClientSends, dataVars, bleVars, listVars
<1>8. CASE Retrieve
  <2>1. library' \in List /\ arriving' \in List
    BY <1>2, <1>8, EmptyInLists DEF Retrieve, AskSucceeds, AskFails
  <2> QED BY <1>1, <1>2, <1>8, <2>1 DEF Retrieve, listVars
<1>9. CASE Finish \/ ListTopics
  BY <1>3, <1>4, <1>9 DEF Finish, ListTopics
<1>10. CASE \E c \in Commands : Receive(c)
  BY <1>3, <1>10 DEF Receive
<1>11. CASE \/ Refuse \/ Delete \/ Add \/ Complete \/ Write
  BY <1>3, <1>11 DEF Refuse, Delete, Add, Complete, Write
<1>12. CASE \/ SetSetting \/ SetEnds \/ ReceiveParameter \/ ReceiveAction
            \/ RefuseTopics \/ SendTopics \/ ResetParameters
  BY <1>3, <1>12 DEF SetSetting, SetEnds, ReceiveParameter, ReceiveAction, RefuseTopics, SendTopics,
     ResetParameters
<1> QED BY <1>0, <1>5, <1>6, <1>7, <1>8, <1>9, <1>10, <1>11, <1>12 DEF Next, NetworkTask

LEMMA NextStateTypes ==
  DataTypeOK /\ HandlerTypes /\ HandlerInv /\ [Next]_dataVars => StateTypes'
<1>0. SUFFICES ASSUME DataTypeOK, HandlerTypes, HandlerInv, [Next]_dataVars PROVE StateTypes'
  OBVIOUS
<1>s. StateTypes /\ Retries \in Nat /\ Attempts \in {Retries, Retries + 1}
      /\ \A v \in Settings : v \in 30..1800
  BY <1>0, DataTypeParts, LimitsAreNumbers, DataAssumption
<1> USE DEF StateTypes, lockVars, bleVars, copyVars, netVars
<1>p. ParsedTimes \in Values \cup {ZEROS, JUNK}
  BY DEF ParsedTimes, Values
<1>1. CASE AppChanges
  BY <1>1, <1>0, <1>s DEF AppChanges, Happens
<1>2. CASE ClientStarts
  BY <1>2, <1>0, <1>s DEF ClientStarts, Happens
<1>3. CASE ClientSends
  BY <1>3, <1>0, <1>s DEF ClientSends
<1>4. CASE ReadConfig
  <2>1. wait' \in {wait, "running"} /\ due' \in {due \ {"config"}, due \cup {"config"}}
        /\ nuki' \in {"advanced", "idle"}
    BY <1>4 DEF ReadConfig, RetryConfig, RequestList
  <2>2. UNCHANGED <<kind, setting, copy, net, tries, stamp>>
    BY <1>4 DEF ReadConfig
  <2> QED BY <1>s, <2>1, <2>2
<1>5. CASE ReadAdvancedConfig
  <2>1. copy' \in {copy, setting} /\ due' \in {due, due \cup {"config"}} /\ nuki' = "idle"
    BY <1>5 DEF ReadAdvancedConfig, RetryConfig
  <2>2. UNCHANGED <<kind, setting, wait, net, tries, stamp>>
    BY <1>5 DEF ReadAdvancedConfig
  <2> QED BY <1>s, <2>1, <2>2
<1>6. CASE KeypadDue
  BY <1>6, <1>0, <1>s DEF KeypadDue, RequestList, AskSucceeds, AskFails
<1>7. CASE ListDue
  BY <1>7, <1>0, <1>s DEF ListDue
<1>8. CASE ResetWait
  BY <1>8, <1>0, <1>s DEF ResetWait
<1>9. CASE PublishList
  BY <1>9, <1>0, <1>s DEF PublishList
<1>10. CASE FillIds
  BY <1>10, <1>0, <1>s DEF FillIds
<1>11. CASE Arrive
  BY <1>11, <1>0, <1>s DEF Arrive
<1>12. CASE WaitEnds
  BY <1>12, <1>0, <1>s DEF WaitEnds, Received
<1>13. CASE IntervalElapses
  BY <1>13, <1>0, <1>s DEF IntervalElapses
<1>14. ASSUME NEW c \in Commands, Receive(c) PROVE StateTypes'
  BY <1>14, <1>0, <1>s DEF Receive, Happens
<1>15. CASE Refuse
  BY <1>15, <1>0, <1>s DEF Refuse, HandlerEnds
<1>16. CASE Delete
  BY <1>16, <1>0, <1>s DEF Delete, Sends, Exchange
<1>17. CASE Add
  BY <1>17, <1>0, <1>s DEF Add, Sends, Exchange
<1>18. CASE Retrieve
  <2>1. net' \in {"waiting", "idle"} /\ tries' \in {tries, 0} /\ stamp' \in {ParsedTimes, ZEROS}
    BY <1>18 DEF Retrieve, HandlerEnds
  <2>2. UNCHANGED <<kind, setting, copy, wait, due, nuki>>
    BY <1>18 DEF Retrieve
  <2> QED BY <1>s, <1>p, <2>1, <2>2
<1>19. CASE Complete
  <2>1. net' \in {"write", "idle"} /\ tries' \in {tries, 0}
        /\ UNCHANGED <<kind, setting, copy, wait, due, nuki>>
    BY <1>19 DEF Complete, HandlerEnds
  <2>2. stamp' \in Values \cup {ZEROS, JUNK}
    <3>1. CASE library[have.id] = NoEntry
      BY <1>19, <3>1 DEF Complete, HandlerEnds
    <3>2. CASE library[have.id] # NoEntry
      <4>1. library[have.id] \in Entry
        BY <1>0, <1>19, <3>2 DEF Complete, HandlerInv, DataTypeOK, List
      <4> QED BY <1>s, <1>19, <3>2, <4>1 DEF Complete, Entry
    <3> QED BY <3>1, <3>2
  <2> QED BY <1>s, <2>1, <2>2
<1>20. CASE Write
  <2>1. net' \in {"finish", "try"} /\ tries' \in {tries, tries + 1} /\ net = "write"
        /\ UNCHANGED <<kind, setting, copy, wait, due, nuki, stamp>>
    BY <1>20 DEF Write, Sends, Exchange
  <2>2. tries < Attempts
    BY <1>0, <2>1 DEF HandlerInv
  <2> QED BY <1>s, <2>1, <2>2
<1>21. CASE Finish
  <2>1. net' = "idle" /\ tries' = 0 /\ stamp' = ZEROS /\ wait' \in {wait, "running"}
        /\ due' \in {due, due \cup {"config"}}
    BY <1>21 DEF Finish, HandlerEnds, RequestList
  <2>2. UNCHANGED <<kind, setting, copy, nuki>>
    BY <1>21 DEF Finish
  <2> QED BY <1>s, <2>1, <2>2
<1>22. CASE SetSetting
  <2>1. net' \in {"set", "setEnds"} /\ tries' \in {tries, tries + 1} /\ net = "set"
        /\ setting' \in {setting, Narrow(have.id)} /\ (setting' # setting => SetNeeded)
        /\ UNCHANGED <<kind, copy, wait, due, nuki, stamp>>
    BY <1>22 DEF SetSetting
  <2>2. tries < Retries + 1
    BY <1>0, <2>1 DEF HandlerInv
  <2>3. setting' \in 30..1800
    <3>1. have.id \in Nat
      BY <1>0 DEF HandlerTypes, Fields
    <3>2. Narrow(have.id) \in 0..255
      BY <3>1 DEF Narrow
    <3> QED BY <1>s, <2>1, <3>2 DEF SetNeeded
  <2> QED BY <1>s, <2>1, <2>2, <2>3
<1>23. CASE SetEnds
  BY <1>23, <1>0, <1>s DEF SetEnds, HandlerEnds
<1>24. CASE ReceiveParameter
  BY <1>24, <1>0, <1>s DEF ReceiveParameter
<1>25. CASE ReceiveAction
  BY <1>25, <1>0, <1>s DEF ReceiveAction
<1>26. CASE RefuseTopics
  BY <1>26, <1>0, <1>s DEF RefuseTopics
<1>27. CASE SendTopics
  <2>1. net' \in {"listOk", "listFailed"} /\ tries' \in {tries, tries + 1} /\ net = "topic"
        /\ UNCHANGED <<kind, setting, copy, wait, due, nuki, stamp>>
    BY <1>27 DEF SendTopics, Exchange
  <2>2. tries < Retries + 1
    BY <1>0, <2>1 DEF HandlerInv
  <2> QED BY <1>s, <2>1, <2>2
<1>28. CASE ListTopics
  <2>1. net' \in {"topic", "topicEnds"} /\ wait' \in {wait, "running"}
    BY <1>28 DEF ListTopics, RequestList
  <2>2. UNCHANGED <<kind, setting, copy, due, nuki, tries, stamp>>
    BY <1>28 DEF ListTopics
  <2> QED BY <1>s, <2>1, <2>2
<1>29. CASE ResetParameters
  BY <1>29, <1>0, <1>s DEF ResetParameters, HandlerEnds
<1>30. CASE UNCHANGED dataVars
  BY <1>30, <1>0, <1>s DEF dataVars
<1> QED BY <1>0, <1>1, <1>2, <1>3, <1>4, <1>5, <1>6, <1>7, <1>8, <1>9, <1>10, <1>11, <1>12, <1>13,
           <1>14, <1>15, <1>16, <1>17, <1>18, <1>19, <1>20, <1>21, <1>22, <1>23, <1>24, <1>25,
           <1>26, <1>27, <1>28, <1>29, <1>30
        DEF Next, NetworkTask, NukiTask, Environment

LEMMA NextDataType ==
  ASSUME DataTypeOK, TopicTypes, HandlerTypes, HandlerInv, TopicInv, [Next]_dataVars
  PROVE  DataTypeOK'
<1>1. DataTypeOK' <=> FlagTypes' /\ ListTypes' /\ StateTypes'
  BY DEF DataTypeOK, FlagTypes, ListTypes, StateTypes
<1> QED BY <1>1, DataTypeParts, NextFlagTypes, NextListTypes, NextStateTypes

----------------------------------------------------------------------------
(* The theorems *)

LEMMA DataInit == Init => LockDataInv
<1> SUFFICES ASSUME Init PROVE LockDataInv
  OBVIOUS
<1>1. PICK l \in {0, 1}, t \in Ids, n \in {NOT_GIVEN, 1, LONG} :
        /\ kind \in {"timecontrol", "topics"} => l = 1
        /\ n = LONG => kind = "auth"
        /\ device = [EmptyList EXCEPT ![t] = [code |-> 1, name |-> n, enabled |-> 1, limited |-> l,
                                              times |-> 1]]
  BY DEF Init
<1>2. [code |-> 1, name |-> n, enabled |-> 1, limited |-> l, times |-> 1] \in Entry
  BY DEF Entry, Names, Values
<1>3. device \in List
  BY <1>1, <1>2, EmptyInLists DEF List
<1>4. LimitedInv /\ ShortInv
  BY <1>1 DEF LimitedInv, ShortInv, Known, EmptyList
<1>5. FlagTypes
  BY DEF Init, FlagTypes
<1>6. ListTypes
  BY <1>3, EmptyInLists DEF Init, ListTypes
<1>7. StateTypes
  BY DataAssumption DEF Init, StateTypes, ZEROS
<1>8. TopicTypes
  BY DEF Init, TopicTypes, NoParameters, Parameters, NOT_GIVEN
<1>9. HandlerTypes
  BY NoCommandType DEF Init, HandlerTypes
<1>10. HandlerInv /\ TopicInv /\ FreshInv /\ CompletedInv /\ StampInv /\ NameInv
  BY DEF Init, HandlerInv, TopicInv, FreshInv, CompletedInv, StampInv, NameInv
<1>11. MailInv
  BY DEF Init, MailInv, NoParameters, NOT_GIVEN
<1> QED BY <1>4, <1>5, <1>6, <1>7, <1>8, <1>9, <1>10, <1>11, DataTypeParts DEF LockDataInv

LEMMA DataInvariance == Spec => []LockDataInv
<1>1. LockDataInv /\ [Next]_dataVars => LockDataInv'
  BY NextDataType, NextTopicTypes, NextHandlerTypes, NextHandlerInv, NextTopicInv, NextMailInv,
     NextLimitedInv, NextShortInv, NextFreshInv, NextCompletedInv, NextStampInv, NextNameInv,
     DataTypeParts
  DEF LockDataInv, ListTypes
<1> QED BY <1>1, DataInit, PTL DEF Spec

\* The state stays well typed: only complete entries are sent, whatever was lost
\* or changed meanwhile, and a command is tried at most as often as it should be.
THEOREM DataTypesHold == Spec => []DataTypeOK
<1>1. LockDataInv => DataTypeOK
  BY DEF LockDataInv
<1> QED BY <1>1, DataInvariance, PTL

\* However many keypad commands are put together from topics, and whichever of
\* their messages are lost, no command is carried out with the parameters of
\* one that was handled before.
THEOREM ParametersServeOneCommand == Spec => []ParametersServeOnce
<1>1. LockDataInv => ParametersServeOnce
  <2> SUFFICES ASSUME LockDataInv, net \in {"listOk", "listFailed"}
               PROVE  /\ have.action # "add" => param.idOf > done
                      /\ have.action # "delete" => param.codeOf > done /\ param.nameOf > done
    BY DEF ParametersServeOnce
  <2>1. /\ ~MissingParameter /\ have.id = param.id
        /\ have.code = param.code /\ have.name = param.name
    BY DEF LockDataInv, TopicInv
  <2>2. exists => param.id # 0
    BY <2>1, IdsAreNumbers DEF LockDataInv, HandlerInv
  <2> QED BY <2>1, <2>2 DEF MissingParameter, LockDataInv, MailInv
<1> QED BY <1>1, DataInvariance, PTL

\* An update changes the fields that it gives and keeps the others, however often
\* it is tried, whichever answers were lost, and however the requests of both
\* tasks have emptied and filled the list that it is completed from, but cuts
\* the long name of an authorization.
THEOREM UpdatesAreComplete == Spec => UpdateIsComplete
<1> DEFINE Step ==
      (cmd.action = "update" /\ device' # device /\ count'["change"] = count["change"] /\ ~touched)
      => LET before == device[cmd.id]
             after  == device'[cmd.id]
         IN /\ before # NoEntry /\ device' = [device EXCEPT ![cmd.id] = after]
            /\ Kept(cmd.code, NOT_GIVEN, before.code, after.code)
            /\ KeptName(cmd.name, before.name, after.name)
            /\ Kept(cmd.enabled, UNSET, before.enabled, after.enabled)
            /\ Kept(cmd.limited, UNSET, before.limited, after.limited)
            /\ \/ after.limited = 0 \/ after.enabled = 0
               \/ cmd.times # NOT_GIVEN /\ cmd.limited = UNSET /\ kind # "timecontrol"
               \/ Kept(cmd.times, NOT_GIVEN, before.times, after.times)
<1>1. ASSUME LockDataInv, [Next]_dataVars, cmd.action = "update", device' # device,
             count'["change"] = count["change"], ~touched
      PROVE  Step
  <2>1. ~AppChanges
    BY <1>1, HappensCounts DEF LockDataInv, HandlerTypes, AppChanges, Counts
  <2>2. Write
    BY <1>1, <2>1, DeviceFrame, UpdateOnly
    DEF LockDataInv, CompletedInv, HandlerInv, Delete, Add, SendTopics, NoCommand
  <2>3. net = "write" /\ device \in List /\ cmd \in Fields
    BY <1>1, <2>2 DEF Write, LockDataInv, DataTypeOK, HandlerTypes
  <2>4. /\ have.id = cmd.id /\ have.id \in Known(device)
        /\ Completed(cmd.code, NOT_GIVEN, have.code, device[cmd.id].code)
        /\ Completed(cmd.enabled, UNSET, have.enabled, device[cmd.id].enabled)
        /\ Completed(cmd.limited, UNSET, have.limited, device[cmd.id].limited)
    BY <1>1, <2>3 DEF LockDataInv, CompletedInv
  <2>5. have.code \in Values /\ have.enabled \in {0, 1} /\ have.limited \in {0, 1}
    BY <1>1, <2>3 DEF LockDataInv, HandlerInv
  <2>6. device' = [device EXCEPT ![cmd.id] = UpdatedEntry] /\ cmd.id \in Ids
    BY <1>1, <2>2, <2>4 DEF Write, Sends, Exchange, Stored, Named, Known
  <2>7. device'[cmd.id] = UpdatedEntry
    BY <2>3, <2>6 DEF List
  <2>8. kind = "timecontrol" => have.limited = 1
    BY <1>1, <2>3, <2>4, <2>5 DEF LockDataInv, CompletedInv, LimitedInv, Completed, UNSET
  <2>9. /\ UpdatedEntry.code = have.code /\ UpdatedEntry.enabled = have.enabled
        /\ UpdatedEntry.limited = have.limited
        /\ have.limited = 1 /\ have.enabled = 1 => UpdatedEntry.times = stamp
        /\ kind = "timecontrol" => UpdatedEntry.times = stamp
    BY <2>8 DEF UpdatedEntry
  <2>10. /\ Kept(cmd.code, NOT_GIVEN, device[cmd.id].code, have.code)
         /\ Kept(cmd.enabled, UNSET, device[cmd.id].enabled, have.enabled)
         /\ Kept(cmd.limited, UNSET, device[cmd.id].limited, have.limited)
    BY <2>4, <2>5 DEF Kept, Completed, Values, Given, NOT_GIVEN, UNSET
  <2>11. /\ cmd.times # NOT_GIVEN => stamp = cmd.times \/ (kind # "timecontrol" /\ cmd.limited # 1)
         /\ cmd.times = NOT_GIVEN /\ have.limited = 1 => stamp = device[cmd.id].times
    BY <1>1, <2>3 DEF LockDataInv, StampInv
  <2>12. cmd.limited \in {1, UNSET} \/ have.limited = 0
    BY <2>3, <2>10 DEF Fields, Kept, UNSET
  <2>13. \/ have.limited = 0 \/ have.enabled = 0
         \/ cmd.times # NOT_GIVEN /\ cmd.limited = UNSET /\ kind # "timecontrol"
         \/ Kept(cmd.times, NOT_GIVEN, device[cmd.id].times, UpdatedEntry.times)
    BY <2>5, <2>9, <2>11, <2>12 DEF Kept, UNSET
  <2>14. KeptName(cmd.name, device[cmd.id].name, UpdatedEntry.name)
    <3>1. UpdatedEntry.name = Cut(have.name)
      BY DEF UpdatedEntry
    <3>2. /\ cmd.name \in Given \cup {NOT_GIVEN}
          /\ have.name = IF cmd.name = NOT_GIVEN THEN device[cmd.id].name ELSE cmd.name
      BY <1>1, <2>3 DEF LockDataInv, NameInv
    <3>3. kind # "auth" => device[cmd.id].name # LONG
      BY <1>1, <2>4 DEF LockDataInv, ShortInv
    <3> QED BY <3>1, <3>2, <3>3 DEF KeptName, Kept, Cut, Given, LONG, NOT_GIVEN
  <2> QED BY <2>4, <2>6, <2>7, <2>9, <2>10, <2>13, <2>14 DEF Known
<1>2. LockDataInv /\ [Next]_dataVars => [Step]_dataVars
  BY <1>1
<1> QED BY <1>2, DataInvariance, PTL DEF Spec, UpdateIsComplete

=============================================================================
