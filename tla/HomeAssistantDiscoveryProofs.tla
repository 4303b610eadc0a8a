-------------------- MODULE HomeAssistantDiscoveryProofs --------------------
(***************************************************************************)
(* Proofs about the entities of Home Assistant, for every choice of        *)
(* devices, entities, topics and settings: the types, that none is left of *)
(* a topic that is given up, and that a setup leaves exactly those that    *)
(* the settings call for.                                                  *)
(***************************************************************************)
EXTENDS HomeAssistantDiscovery, SequenceTheorems, WellFoundedInduction, TLAPS

-----------------------------------------------------------------------------
(* Plans of the web server's handlers                                      *)

Ends == {"required", "restart", "clear", "reboot"}

PlanSteps == {Remove(dev) : dev \in {"hub", "lock", "opener"}}
             \cup {Unpair(dev) : dev \in {"lock", "opener"}}
             \cup {PutEnabled(value) : value \in BOOLEAN}
             \cup {PutTopic(value) : value \in Topics}
             \cup {Finish(end) : end \in Ends}
             \cup {Pause}

RemovalsPause(steps) ==
  \A i \in 1 .. Len(steps) :
    steps[i].step = "remove" => i < Len(steps) /\ steps[i + 1].step = "pause"

(* A part of a handler: every change of the settings comes after the       *)
(* removals.                                                               *)
PlanPart(steps) ==
  /\ steps \in Seq(PlanSteps)
  /\ RemovalsPause(steps)
  /\ \A dev \in Devs : ~Gone(steps, dev)

(* What is left of a handler ends in a restart of some kind.               *)
PlanRest(steps) ==
  /\ steps \in Seq(PlanSteps)
  /\ RemovalsPause(steps)
  /\ steps # <<>> => steps[Len(steps)].step \in Ends

-----------------------------------------------------------------------------
(* The strengthening                                                       *)

(* What the broker will hold for a topic when all messages have arrived.   *)
Doc(key) == IF key \in DOMAIN outbox THEN outbox[key]
            ELSE IF key \in DOMAIN broker THEN broker[key] ELSE "none"

PlanInv == PlanRest(plan)

(* An entity belongs to the topic of now, and is not one that the handler  *)
(* under way has removed.                                                  *)
GhostInv ==
  \A key \in Keys \ excused :
    Doc(key) # "none" /\ key.name \notin LeftBehind /\ key.topic # "" =>
      key.topic = topic /\ ~Gone(plan, key.dev)

(* Every entity comes from a section.                                      *)
SectionInv ==
  /\ \A dev \in Devs : at[dev] = 0 \/ at[dev] \in Following(dev, 0)
  /\ \A key \in Keys :
       key \in DOMAIN broker \/ Doc(key) # "none" =>
         \E i \in 1 .. Len(Sections(key.dev)) : key.name \in Sections(key.dev)[i]

(* What a setup makes of an entity.                                        *)
Key(dev, name) == [topic |-> topic, dev |-> dev, name |-> name]
Right(dev, name) ==
  IF Wanted(dev, name) THEN Doc(Key(dev, name)) = "own"
  ELSE name = "query_keypad" \/ Doc(Key(dev, name)) = "none"

SectionsRight(dev, first, last) ==
  \A i \in 1 .. Len(Sections(dev)) :
    first <= i /\ i <= last =>
      \A name \in Sections(dev)[i] \cap Names : Right(dev, name)

(* An undisturbed setup has done all sections, or those before its place.  *)
SetupRight(dev) ==
  /\ fresh[dev] = "yes" =>
       /\ at[dev] = 0
       /\ topic # "" => SectionsRight(dev, 1, Len(Sections(dev)))
  /\ fresh[dev] = "under way" /\ at[dev] > 0 /\ topic # "" =>
       SectionsRight(dev, 1, at[dev] - 1)

FreshInv == \A dev \in Devs : SetupRight(dev)

HassInv ==
  HassTypeOK /\ PlanInv /\ GhostInv /\ SectionInv /\ FreshInv

-----------------------------------------------------------------------------
(* The sections                                                            *)

(* The order of publication is a sequence.                                 *)
LEMMA SectionsLen ==
  ASSUME NEW dev \in Devs
  PROVE  Len(Sections(dev)) \in Nat
<1> DEFINE T == {DeviceBasics, DeviceQueries, DoorSensor, AccessLog, Keypad,
                 LockActions, LockSwitches, LockBasics, LockSelects, LockPositions,
                 LockHardware, LockNight, LockNightLocking, LockMotor,
                 OpenerActions, OpenerSwitches, OpenerBasics, OpenerMode, OpenerStrike,
                 OpenerSounds, OpenerHardware}
<1>1. dev \in {"hub", "lock", "opener"}
  BY HassNukisAssumption DEF Devs
<1>2. CASE dev = "hub"
  <2>1. Sections(dev) = <<HubStatus, HubLog, HubUpdate>>
    BY <1>2 DEF Sections
  <2> QED BY <2>1
<1>3. <<DeviceBasics, DeviceQueries>> \in Seq(T) /\ <<DoorSensor, AccessLog, Keypad>> \in Seq(T)
  OBVIOUS
<1>4. LockEntities \in Seq(T) /\ OpenerEntities \in Seq(T)
  BY DEF LockEntities, OpenerEntities
<1> HIDE DEF T
<1>5. CASE dev = "lock"
  <2>1. Sections(dev) = <<DeviceBasics, DeviceQueries>> \o LockEntities
                        \o <<DoorSensor, AccessLog, Keypad>>
    BY <1>5 DEF Sections
  <2>2. Sections(dev) \in Seq(T)
    BY <1>3, <1>4, <2>1, ConcatProperties
  <2> QED BY <2>2
<1>6. CASE dev = "opener"
  <2>1. Sections(dev) = <<DeviceBasics, DeviceQueries>> \o OpenerEntities
                        \o <<DoorSensor, AccessLog, Keypad>>
    BY <1>6 DEF Sections
  <2>2. Sections(dev) \in Seq(T)
    BY <1>3, <1>4, <2>1, ConcatProperties
  <2> QED BY <2>2
<1> QED BY <1>1, <1>2, <1>5, <1>6

LEMMA SectionPlace ==
  ASSUME NEW dev \in Devs, NEW i \in 1 .. Len(Sections(dev))
  PROVE  i \in Nat /\ 1 <= i /\ i <= Len(Sections(dev))
<1> DEFINE l == Len(Sections(dev))
<1>1. l \in Nat
  BY SectionsLen
<1> HIDE DEF l
<1>2. i \in 1 .. l
  BY DEF l
<1>3. i \in Nat /\ 1 <= i /\ i <= l
  BY <1>1, <1>2
<1> QED BY <1>3 DEF l

(* A set of naturals has a least element.                                  *)
LEMMA LeastElement ==
  ASSUME NEW S \in SUBSET Nat, S # {}
  PROVE  Min(S) \in S /\ \A j \in S : Min(S) <= j
<1>1. PICK m \in S : \A y \in S : ~(<<y, m>> \in OpToRel(<, Nat))
  BY WFMin, NatLessThanWellFounded, Zenon
<1>2. \A y \in S : ~(y < m)
  BY <1>1, Zenon DEF OpToRel
<1>3. \A y \in S : m <= y
  BY <1>2
<1> QED BY <1>3 DEF Min

(* The next section is the first of those that follow.                     *)
LEMMA NextSectionIs ==
  ASSUME NEW dev \in Devs, NEW i \in Nat
  PROVE  /\ NextSection(dev, i) \in Nat
         /\ NextSection(dev, i) = 0 => Following(dev, i) = {}
         /\ NextSection(dev, i) # 0 => /\ NextSection(dev, i) \in Following(dev, i)
                                       /\ NextSection(dev, i) \in Following(dev, 0)
                                       /\ \A j \in Following(dev, i) : NextSection(dev, i) <= j
<1>1. Following(dev, i) \in SUBSET Nat /\ 0 \notin Following(dev, i)
  BY SectionsLen DEF Following
<1>2. CASE Following(dev, i) = {}
  BY <1>2 DEF NextSection
<1>3. CASE Following(dev, i) # {}
  <2>1. NextSection(dev, i) = Min(Following(dev, i))
    BY <1>3 DEF NextSection
  <2>2. /\ NextSection(dev, i) \in Following(dev, i)
        /\ \A j \in Following(dev, i) : NextSection(dev, i) <= j
    BY <1>1, <1>3, <2>1, LeastElement
  <2>3. NextSection(dev, i) \in Following(dev, 0)
    BY <2>2, SectionsLen DEF Following
  <2> QED BY <1>1, <2>2, <2>3
<1> QED BY <1>2, <1>3

-----------------------------------------------------------------------------
(* Plans                                                                   *)

(* What the steps of a plan carry.                                         *)
LEMMA StepValues ==
  ASSUME NEW s \in PlanSteps
  PROVE  /\ s.step = "enabled" => s.enabled \in BOOLEAN
         /\ s.step = "topic" => s.topic \in Topics
         /\ s.step = "remove" => s = Remove(s.dev)
BY DEF PlanSteps, Remove, Unpair, PutEnabled, PutTopic, Finish, Pause, Ends

(* The rest of a rest is one too.                                          *)
LEMMA TailRest ==
  ASSUME NEW p, PlanRest(p), p # <<>>
  PROVE  /\ PlanRest(Tail(p))
         /\ Head(p) = p[1] /\ Head(p) \in PlanSteps
         /\ Tail(p) = <<>> => Head(p).step \in Ends
<1>0. p \in Seq(PlanSteps)
  BY DEF PlanRest
<1>1. /\ Tail(p) \in Seq(PlanSteps)
      /\ Len(Tail(p)) = Len(p) - 1
      /\ \A i \in 1 .. Len(Tail(p)) : Tail(p)[i] = p[i + 1]
      /\ Head(p) \in PlanSteps
  BY <1>0, HeadTailProperties
<1>2. Len(p) \in Nat /\ Len(p) # 0 /\ Head(p) = p[1]
  BY <1>0
<1>3. RemovalsPause(Tail(p))
  <2> SUFFICES ASSUME NEW i \in 1 .. Len(Tail(p)), Tail(p)[i].step = "remove"
               PROVE  i < Len(Tail(p)) /\ Tail(p)[i + 1].step = "pause"
    BY DEF RemovalsPause
  <2>1. i + 1 \in 1 .. Len(p) /\ Tail(p)[i] = p[i + 1]
    BY <1>1, <1>2
  <2>2. i + 1 < Len(p) /\ p[i + 1 + 1].step = "pause"
    BY <2>1 DEF PlanRest, RemovalsPause
  <2>3. i + 1 \in 1 .. Len(Tail(p))
    BY <1>1, <1>2, <2>1, <2>2
  <2>4. Tail(p)[i + 1] = p[i + 1 + 1]
    BY <1>1, <2>3
  <2> QED BY <1>1, <1>2, <2>1, <2>2, <2>4
<1>4. ASSUME Tail(p) # <<>>
      PROVE  Tail(p)[Len(Tail(p))] = p[Len(p)]
  <2>1. Len(Tail(p)) \in 1 .. Len(Tail(p)) /\ Len(Tail(p)) + 1 = Len(p)
    BY <1>1, <1>2, <1>4
  <2> QED BY <1>1, <2>1
<1>5. ASSUME Tail(p) = <<>>
      PROVE  Head(p) = p[Len(p)]
  <2>0. Len(Tail(p)) = 0
    BY <1>1, <1>5, EmptySeq
  <2>1. Len(p) - 1 = 0
    BY <1>1, <2>0
  <2>2. Len(p) = 1
    BY <1>2, <2>1
  <2> QED BY <1>2, <2>2
<1> QED BY <1>1, <1>2, <1>3, <1>4, <1>5 DEF PlanRest

(* A removal is followed by a pause, and that by more.                     *)
LEMMA RemovalRest ==
  ASSUME NEW p, PlanRest(p), p # <<>>, Head(p).step = "remove"
  PROVE  /\ Tail(p) # <<>>
         /\ Head(Tail(p)).step = "pause"
         /\ PlanRest(Tail(Tail(p)))
         /\ Tail(Tail(p)) # <<>>
<1>0. p \in Seq(PlanSteps)
  BY DEF PlanRest
<1>1. Head(p) = p[1] /\ PlanRest(Tail(p))
  BY TailRest
<1>2. 1 \in 1 .. Len(p) /\ Len(p) \in Nat
  BY <1>0
<1>3. 1 < Len(p) /\ p[1 + 1].step = "pause"
  BY <1>1, <1>2 DEF PlanRest, RemovalsPause
<1>4. Len(Tail(p)) = Len(p) - 1 /\ \A i \in 1 .. Len(Tail(p)) : Tail(p)[i] = p[i + 1]
  BY <1>0, HeadTailProperties
<1>5. Tail(p) # <<>> /\ Tail(p)[1] = p[1 + 1]
  <2>1. 1 \in 1 .. Len(Tail(p)) /\ Len(Tail(p)) # 0
    BY <1>2, <1>3, <1>4
  <2>2. Tail(p)[1] = p[1 + 1]
    BY <1>4, <2>1
  <2>3. Tail(p) = <<>> => Len(Tail(p)) = 0
    BY <1>1, EmptySeq DEF PlanRest
  <2> QED BY <2>1, <2>2, <2>3
<1>6. /\ PlanRest(Tail(Tail(p)))
      /\ Head(Tail(p)) = Tail(p)[1]
      /\ Tail(Tail(p)) = <<>> => Head(Tail(p)).step \in Ends
  BY <1>1, <1>5, TailRest
<1> QED BY <1>3, <1>5, <1>6 DEF Ends

(* A step that is no removal of a device does not make it one that is gone. *)
LEMMA GoneTail ==
  ASSUME NEW p \in Seq(PlanSteps), p # <<>>, NEW dev,
         Head(p) # Remove(dev), Gone(Tail(p), dev)
  PROVE  Gone(p, dev)
<1>1. /\ Len(Tail(p)) = Len(p) - 1
      /\ \A i \in 1 .. Len(Tail(p)) : Tail(p)[i] = p[i + 1]
  BY HeadTailProperties
<1>2. Len(p) \in Nat /\ Head(p) = p[1]
  OBVIOUS
<1>3. PICK j \in 1 .. Len(Tail(p)) : /\ Tail(p)[j].step \in Commits
                                     /\ \A i \in 1 .. j - 1 : Tail(p)[i] # Remove(dev)
  BY DEF Gone
<1>4. j + 1 \in 1 .. Len(p) /\ p[j + 1].step \in Commits
  BY <1>1, <1>2, <1>3
<1>5. ASSUME NEW i \in 1 .. j + 1 - 1
      PROVE  p[i] # Remove(dev)
  <2>1. CASE i = 1
    BY <1>2, <2>1
  <2>2. CASE i # 1
    <3>1. i - 1 \in 1 .. j - 1 /\ i - 1 \in 1 .. Len(Tail(p)) /\ i - 1 + 1 = i
      BY <1>1, <1>2, <1>3, <2>2
    <3>2. Tail(p)[i - 1] = p[i - 1 + 1]
      BY <1>1, <3>1
    <3> QED BY <1>3, <3>1, <3>2
  <2> QED BY <2>1, <2>2
<1> QED BY <1>4, <1>5 DEF Gone

(* When a change of the settings is next all devices are.                  *)
LEMMA AllGone ==
  ASSUME NEW p \in Seq(PlanSteps), p # <<>>, Head(p).step \in Commits, NEW dev
  PROVE  Gone(p, dev)
<1>1. 1 \in 1 .. Len(p) /\ p[1].step \in Commits
  OBVIOUS
<1>2. \A i \in 1 .. 1 - 1 : p[i] # Remove(dev)
  OBVIOUS
<1> QED BY <1>1, <1>2 DEF Gone

(* Parts can be put together.                                              *)
LEMMA PartConcat ==
  ASSUME NEW p, PlanPart(p), NEW q, PlanPart(q)
  PROVE  PlanPart(p \o q)
<1> DEFINE m == Len(p)
           n == Len(q)
           r == p \o q
<1>1. p \in Seq(PlanSteps) /\ q \in Seq(PlanSteps) /\ m \in Nat /\ n \in Nat
  BY DEF PlanPart
<1>2. /\ r \in Seq(PlanSteps)
      /\ Len(r) = m + n
      /\ \A i \in 1 .. m + n : r[i] = IF i <= m THEN p[i] ELSE q[i - m]
  BY <1>1, ConcatProperties
<1>3. \A i \in 1 .. m : p[i].step = "remove" => i < m /\ p[i + 1].step = "pause"
  BY DEF PlanPart, RemovalsPause
<1>4. \A i \in 1 .. n : q[i].step = "remove" => i < n /\ q[i + 1].step = "pause"
  BY DEF PlanPart, RemovalsPause
<1>5. ASSUME NEW dev \in Devs
      PROVE  /\ \A j \in 1 .. m : p[j].step \in Commits => \E i \in 1 .. j - 1 : p[i] = Remove(dev)
             /\ \A j \in 1 .. n : q[j].step \in Commits => \E i \in 1 .. j - 1 : q[i] = Remove(dev)
  BY DEF PlanPart, Gone
<1> HIDE DEF m, n, r
<1>6. ASSUME NEW i \in 1 .. Len(r), r[i].step = "remove"
      PROVE  i < Len(r) /\ r[i + 1].step = "pause"
  <2>1. CASE i <= m
    <3>1. i \in 1 .. m /\ r[i] = p[i]
      BY <1>1, <1>2, <2>1
    <3>2. i < m /\ p[i + 1].step = "pause"
      BY <1>3, <1>6, <3>1
    <3>3. i + 1 \in 1 .. m + n /\ i + 1 <= m
      BY <1>1, <3>1, <3>2
    <3>4. r[i + 1] = p[i + 1]
      BY <1>2, <3>3
    <3> QED BY <1>1, <1>2, <3>2, <3>3, <3>4
  <2>2. CASE ~(i <= m)
    <3>1. i - m \in 1 .. n /\ r[i] = q[i - m]
      BY <1>1, <1>2, <2>2
    <3>2. i - m < n /\ q[i - m + 1].step = "pause"
      BY <1>4, <1>6, <3>1
    <3>3. i + 1 \in 1 .. m + n /\ ~(i + 1 <= m) /\ i + 1 - m = i - m + 1
      BY <1>1, <1>2, <2>2, <3>2
    <3>4. r[i + 1] = IF i + 1 <= m THEN p[i + 1] ELSE q[i + 1 - m]
      BY <1>1, <1>2, <3>3
    <3> QED BY <1>1, <1>2, <3>2, <3>3, <3>4
  <2> QED BY <2>1, <2>2
<1>7. ASSUME NEW dev \in Devs, NEW j \in 1 .. Len(r), r[j].step \in Commits
      PROVE  \E i \in 1 .. j - 1 : r[i] = Remove(dev)
  <2>1. CASE j <= m
    <3>1. j \in 1 .. m /\ r[j] = p[j]
      BY <1>1, <1>2, <2>1
    <3>2. PICK i \in 1 .. j - 1 : p[i] = Remove(dev)
      BY <1>5, <1>7, <3>1
    <3>3. i \in 1 .. m + n /\ i <= m
      BY <1>1, <2>1, <3>1, <3>2
    <3>4. r[i] = p[i]
      BY <1>2, <3>3
    <3> QED BY <3>2, <3>4
  <2>2. CASE ~(j <= m)
    <3>1. j - m \in 1 .. n /\ r[j] = q[j - m]
      BY <1>1, <1>2, <2>2
    <3>2. PICK i \in 1 .. j - m - 1 : q[i] = Remove(dev)
      BY <1>5, <1>7, <3>1
    <3>3. i + m \in 1 .. m + n /\ ~(i + m <= m) /\ i + m - m = i /\ i + m \in 1 .. j - 1
      BY <1>1, <1>2, <3>1, <3>2
    <3>4. r[i + m] = IF i + m <= m THEN p[i + m] ELSE q[i + m - m]
      BY <1>1, <1>2, <3>3
    <3> QED BY <3>2, <3>3, <3>4
  <2> QED BY <2>1, <2>2
<1>8. RemovalsPause(r)
  BY <1>6 DEF RemovalsPause
<1>9. \A dev \in Devs : ~Gone(r, dev)
  BY <1>7 DEF Gone
<1>10. PlanPart(r)
  BY <1>2, <1>8, <1>9 DEF PlanPart
<1> QED BY <1>10 DEF r

(* disableHASS() may be followed by anything.                              *)
LEMMA PartDisable ==
  ASSUME NEW s \in PlanSteps, s.step # "remove"
  PROVE  PlanPart(DisableHASS \o <<s>>)
<1> DEFINE q == <<s>>
           p == DisableHASS \o q
<1>1. /\ DisableHASS \in Seq(PlanSteps)
      /\ Len(DisableHASS) = 6
      /\ DisableHASS[1] = Remove("hub") /\ DisableHASS[2] = Pause
      /\ DisableHASS[3] = Remove("lock") /\ DisableHASS[4] = Pause
      /\ DisableHASS[5] = Remove("opener") /\ DisableHASS[6] = Pause
  <2>1. /\ Remove("hub") \in PlanSteps /\ Remove("lock") \in PlanSteps
        /\ Remove("opener") \in PlanSteps /\ Pause \in PlanSteps
    BY DEF PlanSteps
  <2> QED BY <2>1 DEF DisableHASS
<1>q. q \in Seq(PlanSteps) /\ Len(q) = 1 /\ q[1] = s
  OBVIOUS
<1> HIDE DEF q
<1>3. /\ p \in Seq(PlanSteps)
      /\ Len(p) = Len(DisableHASS) + Len(q)
      /\ \A i \in 1 .. Len(DisableHASS) + Len(q) :
           p[i] = IF i <= Len(DisableHASS) THEN DisableHASS[i] ELSE q[i - Len(DisableHASS)]
  BY <1>1, <1>q, ConcatProperties
<1> HIDE DEF p
<1>2. /\ Len(p) = 7
      /\ p[1] = Remove("hub") /\ p[2] = Pause
      /\ p[3] = Remove("lock") /\ p[4] = Pause
      /\ p[5] = Remove("opener") /\ p[6] = Pause
      /\ p[7] = s
  BY <1>1, <1>q, <1>3
<1>4. \A i \in 1 .. 7 : \/ i = 1 \/ i = 2 \/ i = 3 \/ i = 4 \/ i = 5 \/ i = 6 \/ i = 7
  OBVIOUS
<1>5. Pause.step = "pause" /\ \A dev : Remove(dev).step = "remove"
  BY DEF Pause, Remove
<1>6. RemovalsPause(p)
  BY <1>2, <1>4, <1>5 DEF RemovalsPause
<1>7. ASSUME NEW dev \in Devs
      PROVE  ~Gone(p, dev)
  <2>1. dev \in {"hub", "lock", "opener"}
    BY HassNukisAssumption DEF Devs
  <2>2. \A i \in 1 .. 7 : p[i].step \in Commits => i = 7
    BY <1>2, <1>4, <1>5 DEF Commits
  <2>3. \E i \in 1 .. 7 - 1 : p[i] = Remove(dev)
    <3>1. 1 \in 1 .. 7 - 1 /\ 3 \in 1 .. 7 - 1 /\ 5 \in 1 .. 7 - 1
      OBVIOUS
    <3> QED BY <1>2, <2>1, <3>1
  <2> QED BY <1>2, <2>2, <2>3 DEF Gone
<1> QED BY <1>3, <1>6, <1>7 DEF PlanPart, p, q

(* Steps that neither remove nor change the settings are parts.            *)
LEMMA PartSingle ==
  ASSUME NEW s \in PlanSteps, s.step # "remove", s.step \notin Commits
  PROVE  PlanPart(<<s>>)
BY DEF PlanPart, RemovalsPause, Gone

LEMMA PartNoChange == PlanPart(DisableHASS)
<1> DEFINE p == DisableHASS
<1>1. /\ p \in Seq(PlanSteps)
      /\ Len(p) = 6
      /\ p[1] = Remove("hub") /\ p[2] = Pause
      /\ p[3] = Remove("lock") /\ p[4] = Pause
      /\ p[5] = Remove("opener") /\ p[6] = Pause
  <2>1. /\ Remove("hub") \in PlanSteps /\ Remove("lock") \in PlanSteps
        /\ Remove("opener") \in PlanSteps /\ Pause \in PlanSteps
    BY DEF PlanSteps
  <2> QED BY <2>1 DEF DisableHASS
<1> HIDE DEF p
<1>2. Pause.step = "pause" /\ \A dev : Remove(dev).step = "remove"
  BY DEF Pause, Remove
<1>3. RemovalsPause(p)
  BY <1>1, <1>2 DEF RemovalsPause
<1>4. \A i \in 1 .. 6 : p[i].step \notin Commits
  BY <1>1, <1>2 DEF Commits
<1> QED BY <1>1, <1>3, <1>4 DEF PlanPart, Gone, p

LEMMA PartEmpty == PlanPart(<<>>)
BY DEF PlanPart, RemovalsPause, Gone

(* A handler is a rest of itself; nothing is gone when it begins.          *)
LEMMA PartRest ==
  ASSUME NEW p, PlanPart(p), NEW s \in PlanSteps, s.step \in Ends, PlanPart(p \o <<s>>)
  PROVE  PlanRest(p \o <<s>>) /\ p \o <<s>> # <<>>
<1> DEFINE q == <<s>>
           r == p \o q
<1>1. p \in Seq(PlanSteps) /\ q \in Seq(PlanSteps) /\ Len(q) = 1 /\ q[1] = s /\ Len(p) \in Nat
  BY DEF PlanPart
<1> HIDE DEF q
<1>2. /\ r \in Seq(PlanSteps)
      /\ Len(r) = Len(p) + Len(q)
      /\ \A i \in 1 .. Len(p) + Len(q) : r[i] = IF i <= Len(p) THEN p[i] ELSE q[i - Len(p)]
  BY <1>1, ConcatProperties
<1> HIDE DEF r
<1>3. r[Len(p) + 1] = s
  <2>1. Len(p) + 1 \in 1 .. Len(p) + Len(q) /\ ~(Len(p) + 1 <= Len(p)) /\ Len(p) + 1 - Len(p) = 1
    BY <1>1
  <2> QED BY <1>1, <1>2, <2>1
<1>4. RemovalsPause(r)
  BY DEF PlanPart, r, q
<1>5. r # <<>>
  BY <1>1, <1>2
<1>6. PlanRest(r)
  BY <1>1, <1>2, <1>3, <1>4 DEF PlanRest
<1> QED BY <1>5, <1>6 DEF r, q

-----------------------------------------------------------------------------
(* Messages                                                                *)

LEMMA MessageIs ==
  ASSUME NEW names, NEW dev, NEW document
  PROVE  /\ DOMAIN Message(names, dev, document) =
              [topic : {topic}, dev : {dev}, name : names]
         /\ \A key \in DOMAIN Message(names, dev, document) :
              Message(names, dev, document)[key] = document
BY DEF Message

LEMMA NoDomain == \A f : f = <<>> => DOMAIN f = {}
<1>1. ASSUME NEW f, f = <<>>
      PROVE  \A x : x \notin DOMAIN f
  BY <1>1
<1> QED BY <1>1

(* Messages to a device that exists have keys.                             *)
LEMMA MessageKeys ==
  ASSUME topic \in Topics, NEW names \in SUBSET Names, NEW dev \in Devs, NEW document
  PROVE  DOMAIN Message(names, dev, document) \subseteq Keys
<1> DEFINE m == Message(names, dev, document)
<1>1. DOMAIN m = [topic : {topic}, dev : {dev}, name : names]
  BY MessageIs
<1> HIDE DEF m
<1>2. DOMAIN m \subseteq Keys
  BY <1>1 DEF Keys
<1> QED BY <1>2 DEF m

(* The client sends what is in its outbox: it comes to the same.           *)
LEMMA DeliverDoc ==
  ASSUME broker' = Retain(Over(outbox, broker)), outbox' = <<>>,
         \A key \in DOMAIN broker : broker[key] # "none",
         NEW key
  PROVE  Doc(key)' = Doc(key)
<1> DEFINE both == Over(outbox, broker)
<1>1. /\ DOMAIN both = DOMAIN outbox \cup DOMAIN broker
      /\ \A k \in DOMAIN both : both[k] = IF k \in DOMAIN outbox THEN outbox[k] ELSE broker[k]
  BY DEF Over
<1> HIDE DEF both
<1>2. /\ DOMAIN Retain(both) = {k \in DOMAIN both : both[k] # "none"}
      /\ \A k \in DOMAIN Retain(both) : Retain(both)[k] = both[k]
  BY DEF Retain
<1>3. broker' = Retain(both) /\ key \notin DOMAIN outbox'
  BY DEF both
<1>4. Doc(key)' = IF key \in DOMAIN Retain(both) THEN Retain(both)[key] ELSE "none"
  BY <1>3 DEF Doc
<1>5. CASE key \in DOMAIN outbox
  BY <1>1, <1>2, <1>4, <1>5 DEF Doc
<1>6. CASE key \notin DOMAIN outbox
  BY <1>1, <1>2, <1>4, <1>6 DEF Doc
<1> QED BY <1>5, <1>6

(* When the client is dropped, what returns is of the topic in use, or     *)
(* excused.                                                                *)
LEMMA DropDoc ==
  ASSUME DropClient, NEW key, Doc(key)' # "none"
  PROVE  /\ Doc(key) # "none" \/ key.topic = topic \/ key \in excused'
         /\ key \in DOMAIN broker /\ Doc(key)' = broker[key]
<1>1. outbox' = <<>> /\ broker' = broker /\ excused' = excused \cup UnsentRemovals
  BY DEF DropClient
<1>2. key \notin DOMAIN outbox'
  BY <1>1
<1>3. key \in DOMAIN broker /\ Doc(key)' = broker[key]
  BY <1>1, <1>2 DEF Doc
<1>4. CASE key \in DOMAIN outbox
  BY <1>1, <1>3, <1>4 DEF Doc, UnsentRemovals
<1>5. CASE key \notin DOMAIN outbox
  BY <1>1, <1>2, <1>5 DEF Doc
<1> QED BY <1>3, <1>4, <1>5

(* A section's messages replace those of its entities.                     *)
LEMMA PublishDoc ==
  ASSUME NEW dev \in Devs, PublishSection(dev), NEW key
  PROVE  LET section == Sections(dev)[at[dev]]
             mine == key \in [topic : {topic}, dev : {dev}, name : section \cap Names]
         IN /\ mine /\ key.name \in Shown(section, dev) => Doc(key)' = written[dev]
            /\ mine /\ key.name \in Hidden(section, dev) => Doc(key)' = "none"
            /\ (mine => key.name \notin Shown(section, dev) \cup Hidden(section, dev)) =>
                 Doc(key)' = Doc(key)
<1> DEFINE section == Sections(dev)[at[dev]]
           s == Message(Shown(section, dev), dev, written[dev])
           h == Message(Hidden(section, dev), dev, "none")
           sh == Over(s, h)
<1>1. outbox' = Over(sh, outbox) /\ broker' = broker
  BY DEF PublishSection
<1>2. /\ DOMAIN s = [topic : {topic}, dev : {dev}, name : Shown(section, dev)]
      /\ \A k \in DOMAIN s : s[k] = written[dev]
      /\ DOMAIN h = [topic : {topic}, dev : {dev}, name : Hidden(section, dev)]
      /\ \A k \in DOMAIN h : h[k] = "none"
  BY MessageIs
<1>3. Shown(section, dev) \subseteq section \cap Names
  BY DEF Shown
<1>4. Hidden(section, dev) \subseteq section \cap Names
  BY DEF Hidden
<1>5. Shown(section, dev) \cap Hidden(section, dev) = {}
  BY DEF Shown, Hidden
<1> HIDE DEF s, h, section
<1>6. /\ DOMAIN sh = DOMAIN s \cup DOMAIN h
      /\ \A k \in DOMAIN sh : sh[k] = IF k \in DOMAIN s THEN s[k] ELSE h[k]
  BY DEF Over
<1> HIDE DEF sh
<1>7. /\ DOMAIN outbox' = DOMAIN sh \cup DOMAIN outbox
      /\ \A k \in DOMAIN outbox' : outbox'[k] = IF k \in DOMAIN sh THEN sh[k] ELSE outbox[k]
  BY <1>1 DEF Over
<1>8. CASE key \in DOMAIN s
  <2>1. Doc(key)' = written[dev]
    BY <1>2, <1>6, <1>7, <1>8 DEF Doc
  <2>2. key.name \in Shown(section, dev) /\ key.name \notin Hidden(section, dev)
    BY <1>2, <1>5, <1>8
  <2>3. key \in [topic : {topic}, dev : {dev}, name : section \cap Names]
    BY <1>2, <1>3, <1>8
  <2> QED BY <2>1, <2>2, <2>3 DEF section
<1>9. CASE key \in DOMAIN h
  <2>1. key.name \in Hidden(section, dev) /\ key.name \notin Shown(section, dev)
    BY <1>2, <1>5, <1>9
  <2>2. key \notin DOMAIN s
    BY <1>2, <2>1
  <2>3. Doc(key)' = "none"
    BY <1>2, <1>6, <1>7, <1>9, <2>2 DEF Doc
  <2>4. key \in [topic : {topic}, dev : {dev}, name : section \cap Names]
    BY <1>2, <1>4, <1>9
  <2> QED BY <2>1, <2>3, <2>4 DEF section
<1>10. CASE key \notin DOMAIN s \cup DOMAIN h
  <2>1. Doc(key)' = Doc(key)
    BY <1>1, <1>6, <1>7, <1>10 DEF Doc
  <2>2. key \in [topic : {topic}, dev : {dev}, name : section \cap Names] =>
          key.name \notin Shown(section, dev) \cup Hidden(section, dev)
    BY <1>2, <1>10
  <2> QED BY <2>1, <2>2 DEF section
<1> QED BY <1>8, <1>9, <1>10

(* removeHASSConfig leaves nothing of what is on its list.                 *)
LEMMA RemoveDoc ==
  ASSUME NEW dev, NEW key, broker' = broker,
         outbox' = IF topic = "" THEN outbox ELSE Over(Message(Removable, dev, "none"), outbox)
  PROVE  /\ Doc(key)' = "none" \/ Doc(key)' = Doc(key)
         /\ topic # "" /\ key \in [topic : {topic}, dev : {dev}, name : Removable] =>
              Doc(key)' = "none"
         /\ topic = "" \/ key \notin [topic : {topic}, dev : {dev}, name : Removable] =>
              Doc(key)' = Doc(key)
<1> DEFINE m == Message(Removable, dev, "none")
<1>1. CASE topic = ""
  BY <1>1 DEF Doc
<1>2. CASE topic # ""
  <2>1. /\ DOMAIN m = [topic : {topic}, dev : {dev}, name : Removable]
        /\ \A k \in DOMAIN m : m[k] = "none"
    BY MessageIs
  <2> HIDE DEF m
  <2>2. outbox' = Over(m, outbox)
    BY <1>2 DEF m
  <2>3. /\ DOMAIN outbox' = DOMAIN m \cup DOMAIN outbox
        /\ \A k \in DOMAIN outbox' : outbox'[k] = IF k \in DOMAIN m THEN m[k] ELSE outbox[k]
    BY <2>2 DEF Over
  <2>4. CASE key \in DOMAIN m
    BY <1>2, <2>1, <2>3, <2>4 DEF Doc
  <2>5. CASE key \notin DOMAIN m
    BY <1>2, <2>1, <2>3, <2>5 DEF Doc
  <2> QED BY <2>4, <2>5
<1> QED BY <1>1, <1>2

-----------------------------------------------------------------------------
(* Types                                                                   *)

(* A counter below its bound can be raised.                                *)
LEMMA CountUp ==
  ASSUME NEW a \in Nat, NEW b \in 0 .. a, b < a
  PROVE  b + 1 \in 0 .. a
OBVIOUS

(* Every step keeps the types.                                             *)
LEMMA HassTypeStep ==
  ASSUME HassTypeOK, PlanInv, Next
  PROVE  HassTypeOK'
<1> USE DEF HassTypeOK, settings, client, wrappers, job, web
<1>n. Nukis \subseteq Devs /\ "hub" \in Devs
  BY DEF Devs
<1>d. \A devs : Disturb(devs) => fresh' \in [Devs -> {"no", "under way", "yes"}]
  BY DEF Disturb
<1>b. ASSUME NEW dev \in Devs, Begin(dev)
      PROVE  at' \in [Devs -> Nat] /\ fresh' \in [Devs -> {"no", "under way", "yes"}]
  <2>1. NextSection(dev, 0) \in Nat
    BY NextSectionIs
  <2> QED BY <1>b, <2>1 DEF Begin
<1>w. ASSUME NEW dev \in Devs, WriteBuffer(dev)
      PROVE  written' \in [Devs -> {"none", "own", "other"}]
  BY <1>w DEF WriteBuffer
<1>1. CASE Connect
  <2>1. /\ at' \in [Devs -> Nat] /\ fresh' \in [Devs -> {"no", "under way", "yes"}]
        /\ uidKnown' \in BOOLEAN
    BY <1>1, <1>b, <1>n DEF Connect
  <2> QED BY <1>1, <2>1 DEF Connect
<1>m. /\ saves < MaxSaves /\ saves' = saves + 1 => saves' \in 0 .. MaxSaves
      /\ faults < MaxFaults /\ faults' = faults + 1 => faults' \in 0 .. MaxFaults
  <2>1. saves \in 0 .. MaxSaves /\ faults \in 0 .. MaxFaults
    OBVIOUS
  <2> QED BY <2>1, CountUp, HassBoundsAssumption
<1>2. CASE Disconnect
  BY <1>2, <1>m DEF Disconnect
<1>3. CASE Deliver
  <2> DEFINE both == Over(outbox, broker)
  <2>1. DOMAIN both = DOMAIN outbox \cup DOMAIN broker
        /\ \A k \in DOMAIN both : both[k] = IF k \in DOMAIN outbox THEN outbox[k] ELSE broker[k]
    BY DEF Over
  <2> HIDE DEF both
  <2>2. DOMAIN Retain(both) = {k \in DOMAIN both : both[k] # "none"}
        /\ \A k \in DOMAIN Retain(both) : Retain(both)[k] = both[k]
    BY DEF Retain
  <2>3. broker' = Retain(both) /\ outbox' = <<>>
    BY <1>3 DEF Deliver, both
  <2>4. /\ DOMAIN broker' \subseteq Keys
        /\ \A key \in DOMAIN broker' : broker'[key] \in {"own", "other"}
    BY <2>1, <2>2, <2>3
  <2>5. DOMAIN outbox' = {}
    BY <2>3, NoDomain
  <2> QED BY <1>3, <2>4, <2>5 DEF Deliver
<1>r. ASSUME NewWrappers, enabled' \in BOOLEAN
      PROVE  /\ hassEnabled' \in BOOLEAN
             /\ configValid' \subseteq Nukis /\ completed' \subseteq Nukis
             /\ at' \in [Devs -> Nat] /\ written' \in [Devs -> {"none", "own", "other"}]
             /\ fresh' \in [Devs -> {"no", "under way", "yes"}]
  BY <1>r, <1>d DEF NewWrappers
<1>c. ASSUME DropClient
      PROVE  /\ online' \in BOOLEAN /\ broker' = broker
             /\ DOMAIN outbox' = {}
  BY <1>c, NoDomain DEF DropClient
<1>4. CASE RestartServices
  <2>1. /\ NewWrappers
        /\ UNCHANGED <<topic, ids, paired, uidKnown, firstConnect, required, saves, faults>>
        /\ restartServ' = "no"
    BY <1>4 DEF RestartServices
  <2>2. enabled' \in BOOLEAN
    BY <1>4 DEF RestartServices, EnableByTopic
  <2>3. \/ DropClient
        \/ UNCHANGED <<online, outbox, broker>>
    BY <1>4 DEF RestartServices
  <2>4. CASE DropClient
    BY <1>c, <1>r, <2>1, <2>2, <2>4
  <2>5. CASE UNCHANGED <<online, outbox, broker>>
    BY <1>r, <2>1, <2>2, <2>5
  <2> QED BY <2>3, <2>4, <2>5
<1>5. ASSUME NEW dev \in Nukis, Pair(dev)
      PROVE  HassTypeOK'
  BY <1>5 DEF Pair
<1>6. ASSUME NEW dev \in Nukis, ReadConfig(dev)
      PROVE  HassTypeOK'
  <2>1. ids' \subseteq Nukis /\ configValid' \subseteq Nukis
    BY <1>6 DEF ReadConfig
  <2> QED BY <1>6, <2>1 DEF ReadConfig
<1>7. ASSUME NEW dev \in Nukis, SetupDevice(dev)
      PROVE  HassTypeOK'
  <2>1. /\ at' \in [Devs -> Nat] /\ fresh' \in [Devs -> {"no", "under way", "yes"}]
        /\ completed' \subseteq Nukis
    BY <1>7, <1>b, <1>n DEF SetupDevice
  <2> QED BY <1>7, <2>1 DEF SetupDevice
<1>8. ASSUME NEW dev \in Devs, WriteSection(dev) \/ PublishState(dev)
      PROVE  HassTypeOK'
  <2>1. written' \in [Devs -> {"none", "own", "other"}]
    BY <1>8, <1>w DEF WriteSection, PublishState
  <2> QED BY <1>8, <2>1 DEF WriteSection, PublishState
<1>9. ASSUME NEW dev \in Devs, PublishSection(dev)
      PROVE  HassTypeOK'
  <2> DEFINE section == Sections(dev)[at[dev]]
             s == Message(Shown(section, dev), dev, written[dev])
             h == Message(Hidden(section, dev), dev, "none")
             sh == Over(s, h)
  <2>1. outbox' = Over(sh, outbox)
    BY <1>9 DEF PublishSection
  <2>2. Shown(section, dev) \in SUBSET Names /\ Hidden(section, dev) \in SUBSET Names
    BY DEF Shown, Hidden
  <2>3. DOMAIN s \subseteq Keys /\ DOMAIN h \subseteq Keys
    <3> HIDE DEF section
    <3> QED BY <2>2, MessageKeys
  <2>4. /\ \A k \in DOMAIN s : s[k] = written[dev]
        /\ \A k \in DOMAIN h : h[k] = "none"
    BY DEF Message
  <2> HIDE DEF section, s, h
  <2>5. /\ DOMAIN sh = DOMAIN s \cup DOMAIN h
        /\ \A k \in DOMAIN sh : sh[k] = IF k \in DOMAIN s THEN s[k] ELSE h[k]
    BY DEF Over
  <2> HIDE DEF sh
  <2>6. /\ DOMAIN outbox' = DOMAIN sh \cup DOMAIN outbox
        /\ \A k \in DOMAIN outbox' : outbox'[k] = IF k \in DOMAIN sh THEN sh[k] ELSE outbox[k]
    BY <2>1 DEF Over
  <2>7. /\ DOMAIN outbox' \subseteq Keys
        /\ \A key \in DOMAIN outbox' : outbox'[key] \in {"own", "other", "none"}
    <3>1. DOMAIN outbox' \subseteq Keys
      BY <2>3, <2>5, <2>6
    <3>2. ASSUME NEW key \in DOMAIN outbox'
          PROVE  outbox'[key] \in {"own", "other", "none"}
      <4>1. CASE key \in DOMAIN sh
        <5>1. outbox'[key] = IF key \in DOMAIN s THEN s[key] ELSE h[key]
          BY <2>5, <2>6, <4>1
        <5>2. key \in DOMAIN s \/ key \in DOMAIN h
          BY <2>5, <4>1
        <5>3. written[dev] \in {"none", "own", "other"}
          OBVIOUS
        <5> QED BY <2>4, <5>1, <5>2, <5>3
      <4>2. CASE key \notin DOMAIN sh
        <5>1. outbox'[key] = outbox[key] /\ key \in DOMAIN outbox
          BY <2>6, <4>2
        <5> QED BY <5>1
      <4> QED BY <4>1, <4>2
    <3> QED BY <3>1, <3>2
  <2>8. NextSection(dev, at[dev]) \in Nat
    BY NextSectionIs
  <2>9. at' \in [Devs -> Nat] /\ written' \in [Devs -> {"none", "own", "other"}]
    BY <1>9, <2>8 DEF PublishSection
  <2>10. fresh' \in [Devs -> {"no", "under way", "yes"}] /\ completed' \subseteq Nukis
    BY <1>9 DEF PublishSection
  <2> QED BY <1>9, <2>7, <2>9, <2>10 DEF PublishSection
<1>h. ASSUME NEW steps, Handler(steps)
      PROVE  HassTypeOK'
  BY <1>h, <1>m DEF Handler
<1>10. ASSUME NEW e \in BOOLEAN, NEW t \in Topics, SaveDiscovery(e, t)
       PROVE  HassTypeOK'
  BY <1>10, <1>h DEF SaveDiscovery
<1>11. ASSUME NEW dev \in Nukis, ProcessUnpair(dev)
       PROVE  HassTypeOK'
  BY <1>11, <1>h DEF ProcessUnpair
<1>12. CASE ProcessFactoryReset
  BY <1>12, <1>h DEF ProcessFactoryReset
<1>13. ASSUME NEW flag \in Flags, ChangeSetting(flag)
       PROVE  HassTypeOK'
  BY <1>13, <1>d, <1>m DEF ChangeSetting
<1>14. CASE ConfirmRestart
  BY <1>14 DEF ConfirmRestart
<1>15. CASE EndPause
  BY <1>15 DEF EndPause
<1>16. CASE RemoveHASSConfig
  <2> DEFINE dev == Head(plan).dev
             m == Message(Removable, dev, "none")
  <2>1. CASE HasUid(dev)
    <3>1. /\ outbox' = IF topic = "" THEN outbox ELSE Over(m, outbox)
          /\ Disturb({dev})
      BY <1>16, <2>1 DEF RemoveHASSConfig
    <3>2. dev \in Devs
      BY <2>1 DEF HasUid, Devs
    <3>3. Removable \in SUBSET Names
      BY DEF Removable
    <3>4. DOMAIN m \subseteq Keys /\ \A k \in DOMAIN m : m[k] = "none"
      <4> HIDE DEF dev
      <4> QED BY <3>2, <3>3, MessageKeys, MessageIs
    <3> HIDE DEF m, dev
    <3>5. /\ DOMAIN outbox' \subseteq Keys
          /\ \A key \in DOMAIN outbox' : outbox'[key] \in {"own", "other", "none"}
      <4>1. CASE topic = ""
        BY <3>1, <4>1
      <4>2. CASE topic # ""
        <5>1. outbox' = Over(m, outbox)
          BY <3>1, <4>2
        <5>2. /\ DOMAIN outbox' = DOMAIN m \cup DOMAIN outbox
              /\ \A k \in DOMAIN outbox' : outbox'[k] = IF k \in DOMAIN m THEN m[k] ELSE outbox[k]
          BY <5>1 DEF Over
        <5> QED BY <3>4, <5>2
      <4> QED BY <4>1, <4>2
    <3>6. fresh' \in [Devs -> {"no", "under way", "yes"}]
      BY <1>d, <3>1
    <3> QED BY <1>16, <3>5, <3>6 DEF RemoveHASSConfig
  <2>2. CASE ~HasUid(dev)
    BY <1>16, <2>2 DEF RemoveHASSConfig
  <2> QED BY <2>1, <2>2
<1>17. CASE UnpairDevice
  <2>1. ids' \subseteq Nukis /\ paired' \subseteq Nukis
    BY <1>17 DEF UnpairDevice
  <2> QED BY <1>17, <1>d, <2>1 DEF UnpairDevice
<1>18. CASE PutPreference
  <2>1. plan # <<>>
    BY <1>18 DEF PutPreference, Take
  <2>2. Head(plan) \in PlanSteps
    BY <2>1, TailRest DEF PlanInv
  <2>3. /\ Head(plan).step = "enabled" => Head(plan).enabled \in BOOLEAN
        /\ Head(plan).step = "topic" => Head(plan).topic \in Topics
    BY <2>2, StepValues
  <2>4. enabled' \in BOOLEAN /\ topic' \in Topics
    BY <1>18, <2>3 DEF PutPreference, Take
  <2> QED BY <1>18, <1>d, <2>4 DEF PutPreference
<1>19. CASE FinishHandler
  BY <1>19 DEF FinishHandler
<1>20. CASE ClearPreferences
  BY <1>20, <1>d, HassTopicsAssumption DEF ClearPreferences
<1>21. CASE RestartAfterReset \/ Reboot
  <2>1. Boot /\ UNCHANGED <<topic, ids>>
    BY <1>21 DEF RestartAfterReset, Reboot
  <2>2. faults' \in 0 .. MaxFaults
    BY <1>21, <1>m DEF RestartAfterReset, Reboot
  <2>3. /\ NewWrappers /\ DropClient
        /\ uidKnown' = FALSE /\ firstConnect' = TRUE
        /\ required' = "no" /\ restartServ' = "no"
        /\ UNCHANGED <<paired, saves>>
    BY <2>1 DEF Boot
  <2>4. enabled' \in BOOLEAN
    BY <2>1 DEF Boot, EnableByTopic
  <2> QED BY <1>c, <1>r, <2>1, <2>2, <2>3, <2>4
<1>22. CASE WatchdogRestart
  BY <1>22, <1>m DEF WatchdogRestart
<1> QED BY <1>n, <1>1, <1>2, <1>3, <1>4, <1>5, <1>6, <1>7, <1>8, <1>9, <1>10, <1>11, <1>12, <1>13,
   <1>14, <1>15, <1>16, <1>17, <1>18, <1>19, <1>20, <1>21, <1>22
   DEF Next, NetworkTask, NukiTask, Httpd, Users, Platform

-----------------------------------------------------------------------------
(* The plans of the handlers                                               *)

(* A new plan removes everything before it changes a setting.              *)
LEMMA NewPlans ==
  ASSUME NEW steps, HassTypeOK,
         \/ \E e \in BOOLEAN, t \in Topics :
              steps = ChangeEnabled(e) \o ChangeTopic(t) \o <<Finish("required")>>
         \/ \E dev \in Nukis : steps = <<Unpair(dev)>> \o DisableHASS \o <<Finish("restart")>>
         \/ steps = <<Unpair("lock"), Unpair("opener")>> \o DisableHASS \o <<Finish("clear")>>
  PROVE  PlanRest(steps) /\ steps # <<>> /\ \A dev \in Devs : ~Gone(steps, dev)
<1>1. ASSUME NEW p, NEW end \in Ends, PlanPart(p), PlanPart(p \o <<Finish(end)>>),
             steps = p \o <<Finish(end)>>
      PROVE  PlanRest(steps) /\ steps # <<>> /\ \A dev \in Devs : ~Gone(steps, dev)
  <2>1. Finish(end) \in PlanSteps /\ Finish(end).step \in Ends
    BY DEF PlanSteps, Finish
  <2> QED BY <1>1, <2>1, PartRest DEF PlanPart
<1>2. \A dev \in {"lock", "opener"} : Unpair(dev) \in PlanSteps /\ PlanPart(<<Unpair(dev)>>)
  <2>1. \A dev \in {"lock", "opener"} :
          Unpair(dev) \in PlanSteps /\ Unpair(dev).step = "unpair"
    BY DEF PlanSteps, Unpair
  <2> QED BY <2>1, PartSingle DEF Commits
<1>3. CASE \E e \in BOOLEAN, t \in Topics :
             steps = ChangeEnabled(e) \o ChangeTopic(t) \o <<Finish("required")>>
  <2>1. PICK e \in BOOLEAN, t \in Topics :
          steps = ChangeEnabled(e) \o ChangeTopic(t) \o <<Finish("required")>>
    BY <1>3
  <2>2. PlanPart(ChangeEnabled(e))
    <3>1. PutEnabled(e) \in PlanSteps /\ PutEnabled(e).step # "remove"
      BY DEF PlanSteps, PutEnabled
    <3> QED BY <3>1, PartDisable, PartEmpty DEF ChangeEnabled
  <2>3. PlanPart(ChangeTopic(t))
    <3>1. PutTopic(t) \in PlanSteps /\ PutTopic(t).step # "remove"
      BY DEF PlanSteps, PutTopic
    <3> QED BY <3>1, PartDisable, PartEmpty DEF ChangeTopic
  <2>4. PlanPart(<<Finish("required")>>)
    <3>1. /\ Finish("required") \in PlanSteps
          /\ Finish("required").step # "remove" /\ Finish("required").step \notin Commits
      BY DEF PlanSteps, Finish, Commits, Ends
    <3> QED BY <3>1, PartSingle
  <2> DEFINE p == ChangeEnabled(e) \o ChangeTopic(t)
  <2>5. PlanPart(p)
    BY <2>2, <2>3, PartConcat
  <2>6. steps = p \o <<Finish("required")>>
    BY <2>1
  <2> HIDE DEF p
  <2>7. PlanPart(p \o <<Finish("required")>>)
    BY <2>4, <2>5, PartConcat
  <2>8. "required" \in Ends
    BY DEF Ends
  <2> QED BY <1>1, <2>5, <2>6, <2>7, <2>8
<1>4. ASSUME NEW u, PlanPart(u), NEW end \in {"restart", "clear"},
             steps = (u \o DisableHASS) \o <<Finish(end)>>
      PROVE  PlanRest(steps) /\ steps # <<>> /\ \A dev \in Devs : ~Gone(steps, dev)
  <2>1. Finish(end) \in PlanSteps /\ Finish(end).step # "remove" /\ end \in Ends
    BY DEF PlanSteps, Finish, Ends
  <2>2. PlanPart(DisableHASS \o <<Finish(end)>>)
    BY <2>1, PartDisable
  <2>3. PlanPart(DisableHASS)
    BY PartNoChange
  <2>4. u \in Seq(PlanSteps) /\ DisableHASS \in Seq(PlanSteps) /\ <<Finish(end)>> \in Seq(PlanSteps)
    BY <1>4, <2>1, <2>3 DEF PlanPart
  <2> DEFINE f == <<Finish(end)>>
             p == u \o DisableHASS
  <2>5. steps = p \o f
    BY <1>4
  <2>6. PlanPart(p)
    BY <1>4, <2>3, PartConcat
  <2>7. PlanPart(p \o f)
    <3>1. PlanPart(u \o (DisableHASS \o f))
      BY <1>4, <2>2, PartConcat
    <3> HIDE DEF f
    <3>2. (u \o DisableHASS) \o f = u \o (DisableHASS \o f)
      BY <2>4, ConcatAssociative DEF f
    <3> QED BY <3>1, <3>2
  <2> HIDE DEF p
  <2> QED BY <1>1, <2>1, <2>5, <2>6, <2>7
<1>5. CASE \E dev \in Nukis : steps = <<Unpair(dev)>> \o DisableHASS \o <<Finish("restart")>>
  <2>1. PICK dev \in Nukis : steps = <<Unpair(dev)>> \o DisableHASS \o <<Finish("restart")>>
    BY <1>5
  <2>2. PlanPart(<<Unpair(dev)>>)
    BY <1>2, HassNukisAssumption
  <2> QED BY <1>4, <2>1, <2>2
<1>6. CASE steps = <<Unpair("lock"), Unpair("opener")>> \o DisableHASS \o <<Finish("clear")>>
  <2> DEFINE u == <<Unpair("lock"), Unpair("opener")>>
  <2>1. /\ u \in Seq(PlanSteps) /\ Len(u) = 2
        /\ \A i \in 1 .. 2 : u[i].step = "unpair"
    <3>1. /\ Unpair("lock") \in PlanSteps /\ Unpair("opener") \in PlanSteps
          /\ Unpair("lock").step = "unpair" /\ Unpair("opener").step = "unpair"
      BY <1>2 DEF Unpair
    <3> HIDE DEF Unpair
    <3> QED BY <3>1
  <2>2. steps = (u \o DisableHASS) \o <<Finish("clear")>>
    BY <1>6
  <2> HIDE DEF u
  <2>3. PlanPart(u)
    BY <2>1 DEF PlanPart, RemovalsPause, Gone, Commits
  <2> QED BY <1>4, <2>2, <2>3
<1> QED BY <1>3, <1>5, <1>6

(* A handler begins with such a plan.                                      *)
LEMMA HandlerPlans ==
  ASSUME HassTypeOK,
         \/ \E e \in BOOLEAN, t \in Topics : SaveDiscovery(e, t)
         \/ \E dev \in Nukis : ProcessUnpair(dev)
         \/ ProcessFactoryReset
  PROVE  /\ plan = <<>> /\ PlanRest(plan') /\ plan' # <<>>
         /\ \A dev \in Devs : ~Gone(plan', dev)
<1>1. PICK steps :
        /\ Handler(steps)
        /\ \/ \E e \in BOOLEAN, t \in Topics :
                steps = ChangeEnabled(e) \o ChangeTopic(t) \o <<Finish("required")>>
           \/ \E dev \in Nukis : steps = <<Unpair(dev)>> \o DisableHASS \o <<Finish("restart")>>
           \/ steps = <<Unpair("lock"), Unpair("opener")>> \o DisableHASS \o <<Finish("clear")>>
  BY Zenon DEF SaveDiscovery, ProcessUnpair, ProcessFactoryReset
<1>2. PlanRest(steps) /\ steps # <<>> /\ \A dev \in Devs : ~Gone(steps, dev)
  BY <1>1, NewPlans
<1>3. plan = <<>> /\ plan' = steps
  BY <1>1 DEF Handler
<1> QED BY <1>2, <1>3

(* Who may write the plan.                                                 *)
LEMMA PlanSteppers ==
  ASSUME HassTypeOK, PlanInv, Next
  PROVE  \/ UNCHANGED plan
         \/ /\ plan = <<>> /\ PlanRest(plan') /\ plan' # <<>>
            /\ \A dev \in Devs : ~Gone(plan', dev)
         \/ plan # <<>> /\ plan' = Tail(plan)
         \/ RemoveHASSConfig /\ plan' = Tail(Tail(plan))
         \/ ClearPreferences
         \/ plan' = <<>> /\ Boot
<1> USE DEF web
<1>1. CASE \E dev \in Devs : \/ WriteSection(dev) \/ PublishSection(dev) \/ PublishState(dev)
                             \/ Pair(dev) \/ ReadConfig(dev) \/ SetupDevice(dev)
  BY <1>1 DEF WriteSection, PublishSection, PublishState, Pair, ReadConfig, SetupDevice
<1>2. CASE \/ Connect \/ Disconnect \/ Deliver \/ RestartServices \/ ConfirmRestart
           \/ WatchdogRestart \/ \E flag \in Flags : ChangeSetting(flag)
  BY <1>2 DEF Connect, Disconnect, Deliver, RestartServices, ConfirmRestart, WatchdogRestart,
     ChangeSetting
<1>3. CASE Reboot \/ RestartAfterReset
  BY <1>3 DEF Reboot, RestartAfterReset, Boot
<1>4. CASE EndPause \/ UnpairDevice \/ PutPreference \/ FinishHandler
  BY <1>4 DEF EndPause, UnpairDevice, PutPreference, FinishHandler, Take
<1>5. CASE RemoveHASSConfig
  BY <1>5 DEF RemoveHASSConfig
<1>6. CASE ClearPreferences
  BY <1>6
<1>7. CASE \/ \E e \in BOOLEAN, t \in Topics : SaveDiscovery(e, t)
           \/ \E dev \in Nukis : ProcessUnpair(dev)
           \/ ProcessFactoryReset
  BY <1>7, HandlerPlans
<1>11. Nukis \subseteq Devs /\ "hub" \in Devs
  BY DEF Devs
<1> QED BY <1>1, <1>2, <1>3, <1>4, <1>5, <1>6, <1>7, <1>11
   DEF Next, NetworkTask, NukiTask, Httpd, Users, Platform

LEMMA PlanStep ==
  ASSUME HassTypeOK, PlanInv, Next
  PROVE  PlanInv'
<1>1. CASE UNCHANGED plan
  BY <1>1 DEF PlanInv
<1>2. CASE plan # <<>> /\ plan' = Tail(plan)
  BY <1>2, TailRest DEF PlanInv
<1>3. CASE RemoveHASSConfig /\ plan' = Tail(Tail(plan))
  BY <1>3, RemovalRest DEF PlanInv, RemoveHASSConfig
<1>4. CASE ClearPreferences
  <2> DEFINE s == [step |-> "reboot"]
  <2>1. plan' = <<s>> /\ s \in PlanSteps /\ s.step = "reboot"
    BY <1>4 DEF ClearPreferences, PlanSteps, Finish, Ends
  <2> HIDE DEF s
  <2> QED BY <2>1 DEF PlanInv, PlanRest, RemovalsPause, Ends
<1>5. PlanRest(<<>>)
  BY DEF PlanRest, RemovalsPause
<1> QED BY <1>1, <1>2, <1>3, <1>4, <1>5, PlanSteppers DEF PlanInv

-----------------------------------------------------------------------------
(* No entity is left                                                       *)

(* What keeps the topic, removes nothing from the record and brings back   *)
(* only entities of the topic does no harm.                                *)
LEMMA GhostFrame ==
  ASSUME GhostInv, topic' = topic,
         \A key \in excused : key \in excused',
         \A key \in Keys : Doc(key)' # "none" =>
           \/ Doc(key) # "none"
           \/ key \in excused'
           \/ key.topic = topic /\ ~Gone(plan', key.dev),
         \A dev \in Devs : Gone(plan', dev) => Gone(plan, dev)
  PROVE  GhostInv'
<1> SUFFICES ASSUME NEW key \in Keys, key \notin excused', Doc(key)' # "none",
                    key.name \notin LeftBehind, key.topic # ""
             PROVE  key.topic = topic' /\ ~Gone(plan', key.dev)
  BY DEF GhostInv
<1>1. key \notin excused /\ key.dev \in Devs
  BY DEF Keys
<1>2. Doc(key) # "none" => key.topic = topic /\ ~Gone(plan, key.dev)
  BY <1>1 DEF GhostInv
<1> QED BY <1>1, <1>2

(* A document is retained or under way.                                    *)
LEMMA DocOfKey ==
  ASSUME NEW key \in Keys, Doc(key) # "none", key.topic = topic
  PROVE  key \in KeysOf(key.dev)
BY DEF Doc, KeysOf

(* Every step keeps the entities to the topic of now.                      *)
LEMMA GhostStep ==
  ASSUME HassTypeOK, PlanInv, GhostInv, Next
  PROVE  GhostInv'
<1> USE DEF settings, client, wrappers, job, web
<1>n. Nukis \subseteq Devs /\ "hub" \in Devs
  BY DEF Devs
<1>p. plan \in Seq(PlanSteps)
  BY DEF PlanInv, PlanRest
<1>h. ASSUME plan # <<>>
      PROVE  /\ Head(plan) \in PlanSteps
             /\ Head(plan).step = "remove" => Head(plan) = Remove(Head(plan).dev)
  BY <1>h, TailRest, StepValues DEF PlanInv
<1>t. ASSUME plan # <<>>, plan' = Tail(plan), NEW dev, Head(plan) # Remove(dev), Gone(plan', dev)
      PROVE  Gone(plan, dev)
  BY <1>p, <1>t, GoneTail
<1>e. ASSUME NEW key, UNCHANGED <<outbox, broker>>
      PROVE  Doc(key)' = Doc(key)
  BY <1>e DEF Doc
<1>u. ASSUME UNCHANGED <<topic, plan, outbox, broker, excused>>
      PROVE  GhostInv'
  BY <1>u, <1>e, GhostFrame
<1>1. CASE \/ Connect \/ Disconnect \/ ConfirmRestart \/ WatchdogRestart
           \/ \E dev \in Devs : \/ WriteSection(dev) \/ PublishState(dev) \/ Pair(dev)
                                \/ ReadConfig(dev) \/ SetupDevice(dev)
           \/ \E flag \in Flags : ChangeSetting(flag)
  <2>1. UNCHANGED <<topic, plan, outbox, broker, excused>>
    BY <1>1 DEF Connect, Disconnect, ConfirmRestart, WatchdogRestart, WriteSection, PublishState,
       Pair, ReadConfig, SetupDevice, ChangeSetting
  <2> QED BY <1>u, <2>1
<1>2. CASE Deliver
  <2>1. /\ UNCHANGED <<topic, plan, excused>>
        /\ broker' = Retain(Over(outbox, broker)) /\ outbox' = <<>>
    BY <1>2 DEF Deliver
  <2>2. \A key \in DOMAIN broker : broker[key] # "none"
    BY DEF HassTypeOK
  <2>3. \A key : Doc(key)' = Doc(key)
    BY <2>1, <2>2, DeliverDoc
  <2> QED BY <2>1, <2>3, GhostFrame
<1>d. ASSUME DropClient, topic' = topic, \A dev : ~Gone(plan', dev)
      PROVE  GhostInv'
  <2>1. \A key \in excused : key \in excused'
    BY <1>d DEF DropClient
  <2>2. \A key \in Keys : Doc(key)' # "none" =>
          Doc(key) # "none" \/ key.topic = topic \/ key \in excused'
    BY <1>d, DropDoc
  <2> QED BY <1>d, <2>1, <2>2, GhostFrame
<1>3. CASE RestartServices
  <2>1. topic' = topic /\ plan' = plan /\ plan = <<>>
    BY <1>3 DEF RestartServices
  <2>2. CASE restartServ = "reconnect"
    <3>1. DropClient
      BY <1>3, <2>2 DEF RestartServices
    <3>2. \A dev : ~Gone(plan', dev)
      BY <2>1 DEF Gone
    <3> QED BY <1>d, <2>1, <3>1, <3>2
  <2>3. CASE restartServ # "reconnect"
    <3>1. UNCHANGED <<outbox, broker, excused>>
      BY <1>3, <2>3 DEF RestartServices
    <3> QED BY <1>u, <2>1, <3>1
  <2> QED BY <2>2, <2>3
<1>4. CASE Reboot \/ RestartAfterReset
  <2>1. DropClient /\ topic' = topic /\ plan' = <<>>
    BY <1>4 DEF Reboot, RestartAfterReset, Boot
  <2>2. \A dev : ~Gone(plan', dev)
    BY <2>1 DEF Gone
  <2> QED BY <1>d, <2>1, <2>2
<1>5. ASSUME NEW dev \in Devs, PublishSection(dev)
      PROVE  GhostInv'
  <2> DEFINE section == Sections(dev)[at[dev]]
             shown == Shown(section, dev)
  <2>1. /\ UNCHANGED <<topic, plan>>
        /\ excused' = IF Gone(plan, dev) THEN excused \cup DOMAIN Message(shown, dev, "own")
                      ELSE excused
    BY <1>5 DEF PublishSection
  <2>2. DOMAIN Message(shown, dev, "own") = [topic : {topic}, dev : {dev}, name : shown]
    BY MessageIs
  <2>3. ASSUME NEW key \in Keys, Doc(key)' # "none", Doc(key) = "none"
        PROVE  key \in [topic : {topic}, dev : {dev}, name : shown]
    <3>1. /\ key \in [topic : {topic}, dev : {dev}, name : section \cap Names]
          /\ key.name \in shown \cup Hidden(section, dev)
      BY <1>5, <2>3, PublishDoc
    <3>2. key.name \in shown
      BY <1>5, <2>3, <3>1, PublishDoc
    <3> HIDE DEF shown, section
    <3> QED BY <3>1, <3>2
  <2> HIDE DEF shown, section
  <2>4. CASE Gone(plan, dev)
    BY <2>1, <2>2, <2>3, <2>4, GhostFrame
  <2>5. CASE ~Gone(plan, dev)
    BY <2>1, <2>3, <2>5, GhostFrame
  <2> QED BY <2>4, <2>5
<1>6. CASE EndPause \/ FinishHandler \/ UnpairDevice
  <2>1. /\ plan # <<>> /\ plan' = Tail(plan) /\ Head(plan).step # "remove"
        /\ UNCHANGED <<topic, outbox, broker, excused>>
    BY <1>6 DEF EndPause, FinishHandler, UnpairDevice, Take
  <2>2. \A dev : Head(plan) # Remove(dev)
    BY <2>1 DEF Remove
  <2>3. \A dev : Gone(plan', dev) => Gone(plan, dev)
    BY <1>t, <2>1, <2>2
  <2>4. \A key : Doc(key)' = Doc(key)
    BY <1>e, <2>1
  <2> QED BY <2>1, <2>3, <2>4, GhostFrame
<1>7. CASE \/ \E e \in BOOLEAN, t \in Topics : SaveDiscovery(e, t)
           \/ \E dev \in Nukis : ProcessUnpair(dev)
           \/ ProcessFactoryReset
  <2>1. \A dev \in Devs : ~Gone(plan', dev)
    BY <1>7, HandlerPlans
  <2>2. UNCHANGED <<topic, outbox, broker, excused>>
    BY <1>7 DEF SaveDiscovery, ProcessUnpair, ProcessFactoryReset, Handler
  <2>3. \A key : Doc(key)' = Doc(key)
    BY <1>e, <2>2
  <2> QED BY <2>1, <2>2, <2>3, GhostFrame
<1>8. CASE RemoveHASSConfig
  <2> DEFINE dev == Head(plan).dev
  <2>1. /\ plan # <<>> /\ Head(plan).step = "remove" /\ broker' = broker /\ topic' = topic
    BY <1>8 DEF RemoveHASSConfig
  <2>2. Head(plan) = Remove(dev)
    BY <1>h, <2>1
  <2>3. \A d : d # dev => Head(plan) # Remove(d)
    BY <2>2 DEF Remove
  <2>4. CASE HasUid(dev)
    <3>1. /\ plan' = Tail(plan)
          /\ excused' = IF topic = "" THEN excused
                        ELSE excused \ DOMAIN Message(Removable, dev, "none")
          /\ outbox' = IF topic = "" THEN outbox
                       ELSE Over(Message(Removable, dev, "none"), outbox)
      BY <1>8, <2>4 DEF RemoveHASSConfig
    <3>d. DOMAIN Message(Removable, dev, "none")
            = [topic : {topic}, dev : {dev}, name : Removable]
      BY MessageIs
    <3> HIDE DEF dev
    <3>2. ASSUME NEW key \in Keys \ excused', Doc(key)' # "none",
                 key.name \notin LeftBehind, key.topic # ""
          PROVE  key.topic = topic' /\ ~Gone(plan', key.dev)
      <4>1. /\ Doc(key)' = Doc(key)
            /\ topic = "" \/ key \notin [topic : {topic}, dev : {dev}, name : Removable]
        BY <2>1, <3>1, <3>2, RemoveDoc
      <4>2. key.topic = topic /\ ~Gone(plan, key.dev)
        BY <3>1, <3>d, <3>2, <4>1 DEF GhostInv
      <4>3. key.dev # dev
        BY <3>2, <4>1, <4>2 DEF Keys, Removable
      <4> QED BY <1>t, <2>1, <2>3, <3>1, <4>2, <4>3
    <3> QED BY <3>2 DEF GhostInv
  <2>5. CASE ~HasUid(dev)
    <3>1. /\ plan' = Tail(Tail(plan)) /\ excused' = excused \cup KeysOf(dev)
          /\ outbox' = outbox
      BY <1>8, <2>5 DEF RemoveHASSConfig
    <3>2. /\ Tail(plan) # <<>> /\ Head(Tail(plan)).step = "pause" /\ Tail(plan) \in Seq(PlanSteps)
      BY <2>1, RemovalRest, TailRest DEF PlanInv, PlanRest
    <3> HIDE DEF dev
    <3>3. ASSUME NEW d, d # dev, Gone(plan', d)
          PROVE  Gone(plan, d)
      <4>1. Head(Tail(plan)) # Remove(d)
        BY <3>2 DEF Remove
      <4>2. Gone(Tail(plan), d)
        BY <3>1, <3>2, <3>3, <4>1, GoneTail
      <4> QED BY <1>p, <2>1, <2>3, <3>3, <4>2, GoneTail
    <3>4. ASSUME NEW key \in Keys \ excused', Doc(key)' # "none",
                 key.name \notin LeftBehind, key.topic # ""
          PROVE  key.topic = topic' /\ ~Gone(plan', key.dev)
      <4>1. Doc(key) # "none" /\ key \notin excused
        BY <1>e, <2>1, <3>1, <3>4
      <4>2. key.topic = topic /\ ~Gone(plan, key.dev)
        BY <3>4, <4>1 DEF GhostInv
      <4>3. key.dev # dev
        BY <3>1, <3>4, <4>1, <4>2, DocOfKey
      <4> QED BY <2>1, <3>3, <4>2, <4>3
    <3> QED BY <3>4 DEF GhostInv
  <2> QED BY <2>4, <2>5
<1>9. CASE PutPreference \/ ClearPreferences
  <2>1. /\ plan # <<>> /\ Head(plan).step \in Commits
        /\ UNCHANGED <<outbox, broker>> /\ \A key \in excused : key \in excused'
    BY <1>9 DEF PutPreference, ClearPreferences, Take, Commits
  <2>2. \A dev : Gone(plan, dev)
    BY <1>p, <2>1, AllGone
  <2>3. ASSUME NEW key \in Keys \ excused', Doc(key)' # "none",
               key.name \notin LeftBehind, key.topic # ""
        PROVE  FALSE
    BY <1>e, <2>1, <2>2, <2>3 DEF GhostInv
  <2> QED BY <2>3 DEF GhostInv
<1> QED BY <1>n, <1>1, <1>2, <1>3, <1>4, <1>5, <1>6, <1>7, <1>8, <1>9
   DEF Next, NetworkTask, NukiTask, Httpd, Users, Platform

-----------------------------------------------------------------------------
(* Setups                                                                  *)

(* Most steps leave the setups and the messages alone; those of them that  *)
(* change a setting disturb all setups.                                    *)
LEMMA Bystanders ==
  ASSUME Next
  PROVE  \/ Connect \/ Deliver \/ RestartServices \/ Reboot \/ RestartAfterReset
         \/ RemoveHASSConfig
         \/ \E dev \in Nukis : SetupDevice(dev)
         \/ \E dev \in Devs : PublishSection(dev)
         \/ /\ UNCHANGED <<at, outbox, broker>>
            /\ UNCHANGED <<topic, on, fresh>> \/ Disturb(Devs)
<1> USE DEF settings, client, wrappers, job, web
<1>n. Nukis \subseteq Devs /\ "hub" \in Devs
  BY DEF Devs
<1>1. CASE \E dev \in Devs : WriteSection(dev) \/ PublishState(dev) \/ Pair(dev) \/ ReadConfig(dev)
  BY <1>1 DEF WriteSection, PublishState, Pair, ReadConfig
<1>2. CASE \/ Disconnect \/ ConfirmRestart \/ WatchdogRestart \/ EndPause \/ FinishHandler
           \/ \E flag \in Flags : ChangeSetting(flag)
  BY <1>2 DEF Disconnect, ConfirmRestart, WatchdogRestart, EndPause, FinishHandler, ChangeSetting
<1>3. CASE UnpairDevice \/ PutPreference \/ ClearPreferences
  BY <1>3 DEF UnpairDevice, PutPreference, ClearPreferences
<1>4. CASE \/ \E e \in BOOLEAN, t \in Topics : SaveDiscovery(e, t)
           \/ \E dev \in Nukis : ProcessUnpair(dev)
           \/ ProcessFactoryReset
  BY <1>4 DEF SaveDiscovery, ProcessUnpair, ProcessFactoryReset, Handler
<1> QED BY <1>n, <1>1, <1>2, <1>3, <1>4
   DEF Next, NetworkTask, NukiTask, Httpd, Users, Platform

(* No entity comes from nowhere, and no setup gets out of its sections.    *)
LEMMA SectionFrame ==
  ASSUME SectionInv, \A dev \in Devs : at'[dev] = 0 \/ at'[dev] = at[dev],
         \A key \in Keys : key \in DOMAIN broker' \/ Doc(key)' # "none" =>
           key \in DOMAIN broker \/ Doc(key) # "none"
  PROVE  SectionInv'
BY DEF SectionInv

LEMMA SectionStep ==
  ASSUME HassTypeOK, HassTypeOK', SectionInv, Next
  PROVE  SectionInv'
<1> USE DEF settings, client, wrappers, job, web
<1>n. Nukis \subseteq Devs /\ "hub" \in Devs
  BY DEF Devs
<1>t. at \in [Devs -> Nat] /\ \A key \in DOMAIN broker' : broker'[key] # "none"
  BY DEF HassTypeOK
<1>u. ASSUME UNCHANGED <<outbox, broker>>
      PROVE  \A key \in Keys : key \in DOMAIN broker' \/ Doc(key)' # "none" =>
               key \in DOMAIN broker \/ Doc(key) # "none"
  BY <1>u DEF Doc
<1>b. ASSUME NEW dev \in Devs, NEW i \in Nat, UNCHANGED <<outbox, broker>>,
             at' = [at EXCEPT ![dev] = NextSection(dev, i)]
      PROVE  SectionInv'
  <2>1. NextSection(dev, i) = 0 \/ NextSection(dev, i) \in Following(dev, 0)
    BY NextSectionIs
  <2> QED BY <1>b, <1>t, <1>u, <2>1 DEF SectionInv
<1>1. CASE UNCHANGED <<at, outbox, broker>>
  BY <1>1, <1>u, SectionFrame
<1>2. CASE Connect
  <2>1. UNCHANGED <<outbox, broker>> /\ (Begin("hub") \/ UNCHANGED at)
    BY <1>2 DEF Connect
  <2> QED BY <1>1, <1>b, <1>n, <2>1 DEF Begin
<1>3. ASSUME NEW dev \in Nukis, SetupDevice(dev)
      PROVE  SectionInv'
  <2>1. UNCHANGED <<outbox, broker>> /\ (Begin(dev) \/ UNCHANGED at)
    BY <1>3 DEF SetupDevice
  <2> QED BY <1>1, <1>b, <1>n, <2>1 DEF Begin
<1>4. CASE Deliver
  <2>1. UNCHANGED at /\ broker' = Retain(Over(outbox, broker)) /\ outbox' = <<>>
    BY <1>4 DEF Deliver
  <2>2. \A key \in DOMAIN broker : broker[key] # "none"
    BY DEF HassTypeOK
  <2>3. \A key : Doc(key)' = Doc(key)
    BY <2>1, <2>2, DeliverDoc
  <2>4. DOMAIN outbox' = {}
    BY <2>1, NoDomain
  <2>5. \A key : key \in DOMAIN broker' => Doc(key)' # "none"
    BY <1>t, <2>4 DEF Doc
  <2> QED BY <2>1, <2>3, <2>5, SectionFrame
<1>w. ASSUME NewWrappers, DropClient \/ UNCHANGED <<outbox, broker>>
      PROVE  SectionInv'
  <2>1. \A dev \in Devs : at'[dev] = 0
    BY <1>w DEF NewWrappers
  <2>2. CASE DropClient
    <3>1. \A key : key \in DOMAIN broker' \/ Doc(key)' # "none" => key \in DOMAIN broker
      BY <2>2, DropDoc DEF DropClient
    <3> QED BY <2>1, <3>1, SectionFrame
  <2>3. CASE UNCHANGED <<outbox, broker>>
    BY <1>u, <2>1, <2>3, SectionFrame
  <2> QED BY <1>w, <2>2, <2>3
<1>5. CASE RestartServices \/ Reboot \/ RestartAfterReset
  <2>1. NewWrappers /\ (DropClient \/ UNCHANGED <<outbox, broker>>)
    BY <1>5 DEF RestartServices, Reboot, RestartAfterReset, Boot
  <2> QED BY <1>w, <2>1
<1>6. CASE RemoveHASSConfig
  <2> DEFINE dev == Head(plan).dev
  <2>1. /\ UNCHANGED <<at, broker>>
        /\ \/ outbox' = outbox
           \/ outbox' = IF topic = "" THEN outbox
                        ELSE Over(Message(Removable, dev, "none"), outbox)
    BY <1>6 DEF RemoveHASSConfig
  <2> HIDE DEF dev
  <2>2. CASE outbox' = outbox
    BY <1>1, <2>1, <2>2
  <2>3. CASE outbox' = IF topic = "" THEN outbox
                       ELSE Over(Message(Removable, dev, "none"), outbox)
    <3>1. \A key : Doc(key)' = "none" \/ Doc(key)' = Doc(key)
      BY <2>1, <2>3, RemoveDoc
    <3> QED BY <2>1, <3>1, SectionFrame
  <2> QED BY <2>1, <2>2, <2>3
<1>7. ASSUME NEW dev \in Devs, PublishSection(dev)
      PROVE  SectionInv'
  <2>1. /\ at' = [at EXCEPT ![dev] = NextSection(dev, at[dev])]
        /\ at[dev] > 0 /\ broker' = broker
    BY <1>7 DEF PublishSection
  <2>2. /\ NextSection(dev, at[dev]) = 0 \/ NextSection(dev, at[dev]) \in Following(dev, 0)
        /\ at[dev] \in Following(dev, 0)
    BY <1>t, <2>1, NextSectionIs DEF SectionInv
  <2>3. \A d \in Devs : at'[d] = 0 \/ at'[d] \in Following(d, 0)
    BY <1>t, <2>1, <2>2 DEF SectionInv
  <2>4. ASSUME NEW key \in Keys, Doc(key)' # "none", Doc(key) = "none"
        PROVE  \E i \in 1 .. Len(Sections(key.dev)) : key.name \in Sections(key.dev)[i]
    <3> DEFINE section == Sections(dev)[at[dev]]
    <3>1. key \in [topic : {topic}, dev : {dev}, name : section \cap Names]
      BY <1>7, <2>4, PublishDoc
    <3>2. key.dev = dev /\ key.name \in section
      <4> HIDE DEF section
      <4> QED BY <3>1
    <3>3. at[dev] \in 1 .. Len(Sections(dev))
      BY <2>2 DEF Following
    <3> QED BY <3>2, <3>3
  <2> QED BY <2>1, <2>3, <2>4 DEF SectionInv
<1> QED BY <1>1, <1>2, <1>3, <1>4, <1>5, <1>6, <1>7, Bystanders

(* What is wanted depends on the settings only.                            *)
LEMMA WantedFrame ==
  ASSUME on' = on, NEW dev, NEW name
  PROVE  Wanted(dev, name)' <=> Wanted(dev, name)
BY DEF Wanted, On

LEMMA RightFrame ==
  ASSUME on' = on, topic' = topic, NEW dev, NEW name,
         Doc(Key(dev, name))' = Doc(Key(dev, name))
  PROVE  Right(dev, name)' <=> Right(dev, name)
BY WantedFrame DEF Right

(* A setup whose settings, entities and place stay is as right as before.  *)
LEMMA SetupFrame ==
  ASSUME NEW dev \in Devs, SetupRight(dev), on' = on, topic' = topic, topic \in Topics,
         at'[dev] = at[dev], fresh'[dev] = fresh[dev],
         \A key \in Keys : key.dev = dev => Doc(key)' = Doc(key)
  PROVE  SetupRight(dev)'
<1>1. ASSUME NEW name \in Names
      PROVE  Right(dev, name)' <=> Right(dev, name)
  <2>1. Key(dev, name)' = Key(dev, name) /\ Key(dev, name).dev = dev /\ Key(dev, name) \in Keys
    BY DEF Key, Keys
  <2>2. Doc(Key(dev, name))' = Doc(Key(dev, name))
    <3> DEFINE key == Key(dev, name)
    <3>1. key' = key /\ key.dev = dev /\ key \in Keys
      BY <2>1
    <3> HIDE DEF key
    <3>2. Doc(key)' = Doc(key)
      BY <3>1 DEF Doc
    <3> QED BY <3>2 DEF key
  <2> QED BY <2>2, RightFrame
<1>2. \A first, last : SectionsRight(dev, first, last) => SectionsRight(dev, first, last)'
  BY <1>1 DEF SectionsRight
<1> QED BY <1>2 DEF SetupRight

(* A setup begins before all sections with an entity that is looked at.    *)
LEMMA FreshBegin ==
  ASSUME HassTypeOK, FreshInv, NEW dev \in Devs, Begin(dev), UNCHANGED <<topic, on, outbox, broker>>
  PROVE  FreshInv'
<1>t. /\ at \in [Devs -> Nat] /\ fresh \in [Devs -> {"no", "under way", "yes"}]
      /\ topic \in Topics
  BY DEF HassTypeOK
<1>1. ASSUME NEW d \in Devs, d # dev
      PROVE  SetupRight(d)'
  <2>1. at'[d] = at[d] /\ fresh'[d] = fresh[d] /\ SetupRight(d)
    BY <1>1, <1>t DEF Begin, FreshInv
  <2>2. \A key : Doc(key)' = Doc(key)
    BY DEF Doc
  <2> QED BY <1>t, <2>1, <2>2, SetupFrame
<1>2. SetupRight(dev)'
  <2> DEFINE n == NextSection(dev, 0)
  <2>1. at'[dev] = n /\ fresh'[dev] = "under way"
    BY <1>t DEF Begin
  <2>2. n \in Nat /\ \A j \in Following(dev, 0) : n # 0 /\ n <= j
    BY NextSectionIs
  <2>3. Len(Sections(dev)) \in Nat
    BY SectionsLen
  <2> HIDE DEF n
  <2>4. ASSUME NEW i \in 1 .. Len(Sections(dev)), i <= n - 1
        PROVE  Sections(dev)[i] \cap Names = {}
    <3>1. i \in Nat /\ i > 0 /\ i < n
      BY <2>2, <2>3, <2>4
    <3>2. i \notin Following(dev, 0)
      BY <2>2, <3>1
    <3> QED BY <2>4, <3>1, <3>2 DEF Following
  <2>5. SectionsRight(dev, 1, n - 1)'
    BY <2>4 DEF SectionsRight
  <2> QED BY <2>1, <2>5 DEF SetupRight
<1> QED BY <1>1, <1>2 DEF FreshInv

(* Publishing a section makes its entities right and keeps what is right   *)
(* elsewhere.                                                              *)
LEMMA PublishRight ==
  ASSUME HassTypeOK, NEW dev \in Devs, PublishSection(dev), topic # "", written[dev] = "own",
         NEW name \in Names
  PROVE  name \in Sections(dev)[at[dev]] \/ Right(dev, name) => Right(dev, name)'
<1> DEFINE section == Sections(dev)[at[dev]]
           key == Key(dev, name)
<1>1. topic' = topic /\ on' = on
  BY DEF PublishSection, settings
<1>2. key' = key /\ key.name = name
      /\ (key \in [topic : {topic}, dev : {dev}, name : section \cap Names] <=> name \in section)
  BY <1>1 DEF Key
<1>d. Doc(Key(dev, name))' = Doc(key)'
  BY DEF Key
<1> HIDE DEF key
<1>3. /\ name \in section /\ name \in Shown(section, dev) => Doc(key)' = "own"
      /\ name \in section /\ name \in Hidden(section, dev) => Doc(key)' = "none"
      /\ name \notin section => Doc(key)' = Doc(key)
  BY <1>2, PublishDoc
<1>4. CASE name \notin section
  <2>1. Doc(Key(dev, name))' = Doc(Key(dev, name))
    BY <1>2, <1>3, <1>4 DEF key
  <2> QED BY <1>1, <1>4, <2>1, RightFrame
<1>5. CASE name \in section /\ Wanted(dev, name)
  <2>1. name \in Shown(section, dev)
    BY <1>5 DEF Shown
  <2>2. Doc(Key(dev, name))' = "own"
    BY <1>3, <1>5, <2>1 DEF key
  <2> QED BY <1>1, <1>5, <2>2, WantedFrame DEF Right
<1>6. CASE name \in section /\ ~Wanted(dev, name) /\ name # "query_keypad"
  <2>1. name \in Hidden(section, dev)
    BY <1>6 DEF Hidden
  <2>2. Doc(Key(dev, name))' = "none"
    BY <1>3, <1>6, <2>1 DEF key
  <2> QED BY <1>1, <1>6, <2>2, WantedFrame DEF Right
<1>7. CASE name = "query_keypad" /\ ~Wanted(dev, name)
  BY <1>1, <1>7, WantedFrame DEF Right
<1> QED BY <1>4, <1>5, <1>6, <1>7

LEMMA FreshPublish ==
  ASSUME HassTypeOK, SectionInv, FreshInv, NEW dev \in Devs, PublishSection(dev)
  PROVE  FreshInv'
<1> DEFINE a == at[dev]
           n == NextSection(dev, a)
<1>t. /\ at \in [Devs -> Nat] /\ fresh \in [Devs -> {"no", "under way", "yes"}]
      /\ topic \in Topics /\ written[dev] \in {"none", "own", "other"} /\ a \in Nat
  BY DEF HassTypeOK
<1>0. /\ at' = [at EXCEPT ![dev] = n]
      /\ fresh' = [fresh EXCEPT ![dev] = IF written[dev] = "other" THEN "no"
                                         ELSE IF n = 0 /\ fresh[dev] = "under way" THEN "yes"
                                         ELSE fresh[dev]]
  BY DEF PublishSection, settings
<1>1. topic' = topic /\ on' = on /\ a > 0 /\ a # 0 /\ written[dev] # "none"
  <2>1. topic' = topic /\ on' = on /\ a > 0 /\ written[dev] # "none"
    BY DEF PublishSection, settings
  <2> HIDE DEF a
  <2> QED BY <2>1
<1>2. ASSUME NEW d \in Devs, d # dev
      PROVE  SetupRight(d)'
  <2>1. at'[d] = at[d] /\ fresh'[d] = fresh[d] /\ SetupRight(d)
    BY <1>0, <1>2, <1>t DEF FreshInv
  <2>2. ASSUME NEW key \in Keys, key.dev = d
        PROVE  Doc(key)' = Doc(key)
    <3>1. key \notin [topic : {topic}, dev : {dev}, name : Sections(dev)[at[dev]] \cap Names]
      BY <1>2, <2>2
    <3> QED BY <3>1, PublishDoc
  <2> QED BY <1>1, <1>t, <2>1, <2>2, SetupFrame
<1>3. SetupRight(dev)'
  <2>1. /\ at'[dev] = n
        /\ fresh'[dev] = IF written[dev] = "other" THEN "no"
                         ELSE IF n = 0 /\ fresh[dev] = "under way" THEN "yes" ELSE fresh[dev]
    BY <1>0, <1>t
  <2>2. /\ n \in Nat
        /\ \A j \in Following(dev, a) : n # 0 /\ n <= j
    BY <1>t, NextSectionIs
  <2>3. Len(Sections(dev)) \in Nat
    BY SectionsLen
  <2>4. SetupRight(dev)
    BY DEF FreshInv
  <2>5. ASSUME written[dev] = "own", fresh[dev] = "under way", topic # "",
               NEW i \in 1 .. Len(Sections(dev)), n = 0 \/ i < n,
               NEW name \in Sections(dev)[i] \cap Names
        PROVE  Right(dev, name)'
    <3>1. i <= a
      <4>0. a \in Nat /\ n \in Nat
        BY <1>t, <2>2
      <4> HIDE DEF a, n
      <4>1. i \in Nat /\ i \in 1 .. Len(Sections(dev)) /\ Sections(dev)[i] \cap Names # {}
        <5>1. Sections(dev)[i] \cap Names # {}
          OBVIOUS
        <5> QED BY <5>1, SectionPlace
      <4>2. i \notin Following(dev, a)
        <5>1. n = 0 \/ i < n
          BY <2>5 DEF n
        <5>2. i \in Nat
          BY <4>1
        <5>3. n # 0 /\ n <= i => ~(n = 0 \/ i < n)
          BY <4>0, <5>2
        <5> QED BY <2>2, <5>1, <5>3, Zenon DEF n
      <4>3. ~(i > a)
        BY <4>1, <4>2 DEF Following
      <4> QED BY <4>0, <4>1, <4>3
    <3>2. CASE i = a
      BY <2>5, <3>2, PublishRight
    <3>3. CASE i # a
      <4>1. SectionsRight(dev, 1, a - 1)
        BY <1>1, <2>4, <2>5 DEF SetupRight
      <4>2. Right(dev, name)
        <5>1. a \in Nat
          BY <1>t
        <5> HIDE DEF a
        <5>2. 1 <= i /\ i <= a - 1
          BY <2>3, <3>1, <3>3, <5>1
        <5> QED BY <2>5, <4>1, <5>2 DEF SectionsRight
      <4> QED BY <2>5, <4>2, PublishRight
    <3> QED BY <3>2, <3>3
  <2>6. ASSUME fresh'[dev] = "yes"
        PROVE  n = 0 /\ written[dev] = "own" /\ fresh[dev] = "under way"
    <3>1. fresh[dev] # "yes"
      <4>1. fresh[dev] = "yes" => a = 0
        BY <2>4, Zenon DEF SetupRight
      <4>2. a # 0
        BY <1>1
      <4> QED BY <4>1, <4>2, Zenon
    <3> HIDE DEF n
    <3> QED BY <1>1, <1>t, <2>1, <2>6, <3>1
  <2>7. ASSUME fresh'[dev] = "under way"
        PROVE  written[dev] = "own" /\ fresh[dev] = "under way"
    BY <1>1, <1>t, <2>1, <2>7
  <2>8. ASSUME fresh'[dev] = "yes", topic # ""
        PROVE  SectionsRight(dev, 1, Len(Sections(dev)))'
    BY <2>5, <2>6, <2>8 DEF SectionsRight
  <2>9. ASSUME fresh'[dev] = "under way", at'[dev] > 0, topic # ""
        PROVE  SectionsRight(dev, 1, at[dev] - 1)'
    <3> HIDE DEF n
    <3>1. at'[dev] = n /\ n \in Nat
      BY <2>1, <2>2
    <3>2. ASSUME NEW i \in 1 .. Len(Sections(dev)), i <= at'[dev] - 1
          PROVE  i < n
      <4>1. i \in Nat
        BY SectionPlace
      <4> QED BY <3>1, <3>2, <4>1
    <3>3. \A i \in 1 .. Len(Sections(dev)) :
            i <= at'[dev] - 1 => \A name \in Sections(dev)[i] \cap Names : Right(dev, name)'
      BY <2>5, <2>7, <2>9, <3>2, Zenon
    <3> QED BY <3>3, Zenon DEF SectionsRight
  <2> QED BY <1>1, <2>1, <2>6, <2>8, <2>9 DEF SetupRight
<1> QED BY <1>2, <1>3 DEF FreshInv

(* Every step keeps what undisturbed setups have done.                     *)
LEMMA FreshStep ==
  ASSUME HassTypeOK, PlanInv, SectionInv, FreshInv, Next
  PROVE  FreshInv'
<1> USE DEF settings, client, wrappers, job, web
<1>n. Nukis \subseteq Devs /\ "hub" \in Devs
  BY DEF Devs
<1>t. topic \in Topics
  BY DEF HassTypeOK
<1>d. ASSUME Disturb(Devs)
      PROVE  FreshInv'
  BY <1>d DEF Disturb, FreshInv, SetupRight
<1>u. ASSUME UNCHANGED <<topic, on, at, fresh>>,
             \A key \in Keys : Doc(key)' = Doc(key)
      PROVE  FreshInv'
  <2>1. ASSUME NEW dev \in Devs
        PROVE  SetupRight(dev)'
    BY <1>t, <1>u, SetupFrame DEF FreshInv
  <2> QED BY <2>1 DEF FreshInv
<1>1. CASE UNCHANGED <<at, outbox, broker, topic, on, fresh>>
  <2>1. \A key : Doc(key)' = Doc(key)
    BY <1>1 DEF Doc
  <2> QED BY <1>1, <1>u, <2>1
<1>2. CASE Connect
  <2>1. UNCHANGED <<topic, on, outbox, broker>> /\ (Begin("hub") \/ UNCHANGED <<at, fresh>>)
    BY <1>2 DEF Connect
  <2> QED BY <1>1, <1>n, <2>1, FreshBegin
<1>3. ASSUME NEW dev \in Nukis, SetupDevice(dev)
      PROVE  FreshInv'
  <2>1. UNCHANGED <<topic, on, outbox, broker>> /\ (Begin(dev) \/ UNCHANGED <<at, fresh>>)
    BY <1>3 DEF SetupDevice
  <2> QED BY <1>1, <1>n, <2>1, FreshBegin
<1>4. CASE Deliver
  <2>1. /\ UNCHANGED <<topic, on, at, fresh>>
        /\ broker' = Retain(Over(outbox, broker)) /\ outbox' = <<>>
    BY <1>4 DEF Deliver
  <2>2. \A key \in DOMAIN broker : broker[key] # "none"
    BY DEF HassTypeOK
  <2>3. \A key : Doc(key)' = Doc(key)
    BY <2>1, <2>2, DeliverDoc
  <2> QED BY <1>u, <2>1, <2>3
<1>5. CASE RestartServices \/ Reboot \/ RestartAfterReset
  BY <1>5, <1>d DEF RestartServices, Reboot, RestartAfterReset, Boot, NewWrappers
<1>6. CASE RemoveHASSConfig
  <2> DEFINE dev == Head(plan).dev
  <2>1. UNCHANGED <<topic, on, at, broker>>
    BY <1>6 DEF RemoveHASSConfig
  <2>2. CASE HasUid(dev)
    <3>1. /\ outbox' = IF topic = "" THEN outbox
                       ELSE Over(Message(Removable, dev, "none"), outbox)
          /\ Disturb({dev})
      BY <1>6, <2>2 DEF RemoveHASSConfig
    <3> HIDE DEF dev
    <3>2. ASSUME NEW d \in Devs
          PROVE  SetupRight(d)'
      <4>1. CASE d = dev
        BY <3>1, <4>1 DEF Disturb, SetupRight
      <4>2. CASE d # dev
        <5>1. fresh'[d] = fresh[d] /\ SetupRight(d)
          BY <3>1, <4>2 DEF Disturb, FreshInv
        <5>2. ASSUME NEW key \in Keys, key.dev = d
              PROVE  Doc(key)' = Doc(key)
          <6>1. key \notin [topic : {topic}, dev : {dev}, name : Removable]
            BY <4>2, <5>2
          <6> QED BY <2>1, <3>1, <6>1, RemoveDoc
        <5> QED BY <1>t, <2>1, <5>1, <5>2, SetupFrame
      <4> QED BY <4>1, <4>2
    <3> QED BY <3>2 DEF FreshInv
  <2>3. CASE ~HasUid(dev)
    BY <1>1, <1>6, <2>1, <2>3 DEF RemoveHASSConfig
  <2> QED BY <2>2, <2>3
<1>7. ASSUME NEW dev \in Devs, PublishSection(dev)
      PROVE  FreshInv'
  BY <1>7, FreshPublish
<1> QED BY <1>1, <1>2, <1>3, <1>4, <1>5, <1>6, <1>7, <1>d, Bystanders

-----------------------------------------------------------------------------
(* The invariant and what follows from it                                  *)

LEMMA HassInitially ==
  ASSUME Init
  PROVE  HassInv
<1>n. Nukis \subseteq Devs /\ "hub" \in Devs
  BY DEF Devs
<1>1. DOMAIN outbox = {} /\ DOMAIN broker = {}
  BY NoDomain DEF Init
<1>2. \A key : Doc(key) = "none" /\ key \notin DOMAIN broker
  BY <1>1 DEF Doc
<1>3. HassTypeOK
  <2>1. saves \in 0 .. MaxSaves /\ faults \in 0 .. MaxFaults
    <3>1. saves = 0 /\ faults = 0
      BY DEF Init
    <3> QED BY <3>1, HassBoundsAssumption
  <2>2. enabled \in BOOLEAN /\ hassEnabled \in BOOLEAN /\ topic \in Topics
    BY DEF Init
  <2>3. /\ at \in [Devs -> Nat] /\ written \in [Devs -> {"none", "own", "other"}]
        /\ fresh \in [Devs -> {"no", "under way", "yes"}]
    BY DEF Init
  <2>4. /\ ids \subseteq Nukis /\ paired \subseteq Nukis
        /\ configValid \subseteq Nukis /\ completed \subseteq Nukis
    BY DEF Init
  <2>5. /\ uidKnown \in BOOLEAN /\ firstConnect \in BOOLEAN /\ online \in BOOLEAN
        /\ required = "no" /\ restartServ = "no"
    BY DEF Init
  <2> QED BY <1>1, <2>1, <2>2, <2>3, <2>4, <2>5 DEF HassTypeOK
<1>4. PlanInv
  <2>1. plan = <<>>
    BY DEF Init
  <2> QED BY <2>1 DEF PlanInv, PlanRest, RemovalsPause
<1>6. GhostInv
  BY <1>2 DEF GhostInv
<1>7. SectionInv
  <2>1. \A dev \in Devs : at[dev] = 0
    BY DEF Init
  <2> QED BY <1>2, <2>1 DEF SectionInv
<1>8. FreshInv
  <2>1. \A dev \in Devs : fresh[dev] = "no"
    BY DEF Init
  <2> QED BY <2>1 DEF FreshInv, SetupRight
<1> QED BY <1>3, <1>4, <1>6, <1>7, <1>8 DEF HassInv

LEMMA HassStutter ==
  ASSUME HassInv, UNCHANGED vars
  PROVE  HassInv'
<1> USE DEF vars, settings, client, wrappers, job, web
<1>1. HassTypeOK /\ PlanInv /\ GhostInv /\ SectionInv /\ FreshInv
  BY DEF HassInv
<1>2. \A key : Doc(key)' = Doc(key)
  BY DEF Doc
<1>3. HassTypeOK'
  BY <1>1 DEF HassTypeOK
<1>4. PlanInv'
  BY <1>1 DEF PlanInv
<1>5. GhostInv'
  BY <1>1, <1>2, GhostFrame
<1>6. SectionInv'
  BY <1>1, <1>2, SectionFrame
<1>7. FreshInv'
  <2>1. ASSUME NEW dev \in Devs
        PROVE  SetupRight(dev)'
    <3>1. topic \in Topics /\ SetupRight(dev)
      BY <1>1 DEF HassTypeOK, FreshInv
    <3> QED BY <1>2, <3>1, SetupFrame
  <2> QED BY <2>1 DEF FreshInv
<1> QED BY <1>3, <1>4, <1>5, <1>6, <1>7 DEF HassInv

LEMMA HassInvariant == Spec => []HassInv
<1>1. Init => HassInv
  BY HassInitially
<1>2. HassInv /\ [Next]_vars => HassInv'
  <2>1. ASSUME HassInv, Next
        PROVE  HassInv'
    <3>1. HassTypeOK /\ PlanInv /\ GhostInv /\ SectionInv /\ FreshInv
      BY <2>1 DEF HassInv
    <3>2. HassTypeOK' /\ PlanInv' /\ GhostInv' /\ FreshInv'
      BY <2>1, <3>1, HassTypeStep, PlanStep, GhostStep, FreshStep
    <3>3. SectionInv'
      BY <2>1, <3>1, <3>2, SectionStep
    <3> QED BY <3>2, <3>3 DEF HassInv
  <2> QED BY <2>1, HassStutter
<1> QED BY <1>1, <1>2, PTL DEF Spec

(* Every variable has its type; a message is a document or a removal.      *)
THEOREM HassTypesHold == Spec => []HassTypeOK
<1>1. HassInv => HassTypeOK
  BY DEF HassInv
<1> QED BY <1>1, HassInvariant, PTL

(* When nothing is under way, the broker keeps no entity of a discovery    *)
(* topic that was given up, but for those that removeHASSConfig leaves     *)
(* behind and those whose last removal was lost, overtaken or left out.    *)
THEOREM NoGhosts == Spec => []NoGhostEntities
<1>1. HassInv => NoGhostEntities
  <2> SUFFICES ASSUME HassInv, Settled, NEW key \in DOMAIN broker \ excused,
                      key.name \notin LeftBehind, key.topic # ""
               PROVE  key.topic = topic
    BY DEF NoGhostEntities
  <2>1. DOMAIN outbox = {}
    BY NoDomain DEF Settled
  <2>2. key \in Keys /\ broker[key] # "none"
    BY DEF HassInv, HassTypeOK
  <2>3. Doc(key) # "none"
    BY <2>1, <2>2 DEF Doc
  <2> QED BY <2>2, <2>3 DEF HassInv, GhostInv
<1> QED BY <1>1, HassInvariant, PTL

(* After a setup that nothing disturbed, the broker has exactly the        *)
(* entities that the settings call for, each with its own document.        *)
THEOREM EntitiesAreWanted == Spec => []EntitiesFollowSettings
<1>1. HassInv => EntitiesFollowSettings
  <2> SUFFICES ASSUME HassInv, NEW dev \in Devs, fresh[dev] = "yes", outbox = <<>>, topic # ""
               PROVE  LET retained == {key \in DOMAIN broker : key.topic = topic /\ key.dev = dev}
                          wanted == UNION {Shown(Sections(dev)[i], dev) :
                                             i \in 1 .. Len(Sections(dev))}
                      IN /\ {key.name : key \in retained} \ {"query_keypad"}
                              = wanted \ {"query_keypad"}
                         /\ \A key \in retained : key.name \in wanted => broker[key] = "own"
    BY DEF EntitiesFollowSettings
  <2> DEFINE retained == {key \in DOMAIN broker : key.topic = topic /\ key.dev = dev}
             wanted == UNION {Shown(Sections(dev)[i], dev) : i \in 1 .. Len(Sections(dev))}
  <2>1. DOMAIN outbox = {}
    BY NoDomain
  <2>2. \A key \in DOMAIN broker : key \in Keys /\ broker[key] # "none"
    BY DEF HassInv, HassTypeOK
  <2>3. \A key : Doc(key) = IF key \in DOMAIN broker THEN broker[key] ELSE "none"
    BY <2>1 DEF Doc
  <2>4. \A i \in 1 .. Len(Sections(dev)) :
          \A name \in Sections(dev)[i] \cap Names : Right(dev, name)
    <3>1. SectionsRight(dev, 1, Len(Sections(dev)))
      BY DEF HassInv, FreshInv, SetupRight
    <3> QED BY <3>1, SectionPlace, Zenon DEF SectionsRight
  <2>5. ASSUME NEW name
        PROVE  name \in wanted <=>
                 /\ name \in Names /\ Wanted(dev, name)
                 /\ \E i \in 1 .. Len(Sections(dev)) : name \in Sections(dev)[i]
    <3>1. \A section : name \in Shown(section, dev) <=>
                          name \in section \cap Names /\ Wanted(dev, name)
      BY DEF Shown
    <3>2. name \in wanted <=>
            \E i \in 1 .. Len(Sections(dev)) : name \in Shown(Sections(dev)[i], dev)
      OBVIOUS
    <3> HIDE DEF wanted
    <3> QED BY <3>1, <3>2
  <2>6. ASSUME NEW key \in retained
        PROVE  /\ key = Key(dev, key.name) /\ key.name \in Names
               /\ \E i \in 1 .. Len(Sections(dev)) : key.name \in Sections(dev)[i]
               /\ Right(dev, key.name)
    <3>1. key \in Keys /\ key.topic = topic /\ key.dev = dev /\ key \in DOMAIN broker
      BY <2>2, <2>6
    <3>2. key = Key(dev, key.name) /\ key.name \in Names
      BY <3>1 DEF Keys, Key
    <3>3. PICK i \in 1 .. Len(Sections(dev)) : key.name \in Sections(dev)[i]
      BY <3>1 DEF HassInv, SectionInv
    <3> QED BY <2>4, <3>2, <3>3
  <2>7. ASSUME NEW key \in retained
        PROVE  /\ key.name \in wanted \/ key.name = "query_keypad"
               /\ key.name \in wanted => broker[key] = "own"
    <3>1. Doc(key) = broker[key] /\ broker[key] # "none"
      BY <2>2, <2>3, <2>7
    <3>2. CASE Wanted(dev, key.name)
      BY <2>5, <2>6, <2>7, <3>1, <3>2 DEF Right
    <3>3. CASE ~Wanted(dev, key.name)
      BY <2>5, <2>6, <2>7, <3>1, <3>3 DEF Right
    <3> QED BY <3>2, <3>3
  <2>8. ASSUME NEW name \in wanted
        PROVE  \E key \in retained : key.name = name
    <3>1. Right(dev, name) /\ Wanted(dev, name)
      BY <2>4, <2>5, <2>8
    <3>2. Key(dev, name) \in DOMAIN broker
      BY <2>3, <3>1 DEF Right
    <3>3. Key(dev, name).topic = topic /\ Key(dev, name).dev = dev /\ Key(dev, name).name = name
      BY DEF Key
    <3> QED BY <3>2, <3>3
  <2> HIDE DEF retained, wanted
  <2>9. {key.name : key \in retained} \ {"query_keypad"} = wanted \ {"query_keypad"}
    <3>1. \A name : name \in {key.name : key \in retained} <=> \E key \in retained : key.name = name
      BY Zenon
    <3>2. \A name : name # "query_keypad" =>
            (name \in {key.name : key \in retained} <=> name \in wanted)
      BY <2>7, <2>8, <3>1
    <3> QED BY <3>2, Zenon
  <2> QED BY <2>7, <2>9 DEF retained, wanted
<1> QED BY <1>1, HassInvariant, PTL
=============================================================================
