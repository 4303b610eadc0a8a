-------------------------- MODULE GpioInputsProofs --------------------------
(***************************************************************************)
(* What the pins cause holds for every set of pins and every bound: the    *)
(* state stays well typed, a press acts at most once, and it acts when it  *)
(* lasts.                                                                  *)
(*                                                                         *)
(* PressActs says nothing about the register, so it needs SampleInv, which *)
(* ties the samples in the register to the time the level has been the     *)
(* same, and OwedInv, which says where an action that is still due waits.  *)
(* OneActionPerPress needs PressInv: a register that has settled on HIGH   *)
(* and sees LOW has a press in hand.                                       *)
(***************************************************************************)
EXTENDS GpioInputs, TLAPS

\* What the register holds after n samples of the level l.
After(h, l, n) ==
  /\ n >= 1 => h \in IF l = HIGH THEN {1, 3, 5, 7} ELSE {0, 2, 4, 6}
  /\ n >= 2 => h \in IF l = HIGH THEN {3, 7} ELSE {0, 4}
  /\ n >= 3 => h = All(l)

Samples(p) == IF p \in todo THEN ticks[p] - 1 ELSE ticks[p]

SampleInv == \A p \in Pins : /\ After(hist[p], level[p], Samples(p))
                             /\ Samples(p) >= 3 => lastState[p] = level[p]

Pending(p) == IF firing = p THEN 1 ELSE 0

PressInv ==
  \A p \in ActionPins :
    /\ events[p] + Pending(p) <= presses[p]
    /\ lastState[p] = HIGH /\ (level[p] = LOW \/ hist[p] # 7)
         => events[p] + Pending(p) + 1 <= presses[p]

OwedInv == \A p \in Pins : owed[p] => /\ p \in ActionPins
                                      /\ lastState[p] = HIGH \/ firing = p

GInv == GpioTypeOK /\ SampleInv /\ PressInv /\ OwedInv

USE DEF sampleVars, isrVars, configVars, netVars, ghostVars, LOW, HIGH, NoLevel

\* One more sample of the same level: what Shifted computes.
LEMMA ShiftLemma ==
  ASSUME NEW h \in 0..7, NEW l \in {0, 1}
  PROVE  /\ (2 * h + l) % 8 \in 0..7
         /\ After((2 * h + l) % 8, l, 1)
         /\ After(h, l, 1) => After((2 * h + l) % 8, l, 2)
         /\ After(h, l, 2) => After((2 * h + l) % 8, l, 3)
  BY DEF After, All

\* Fewer samples promise less.
LEMMA AfterMonotone ==
  ASSUME NEW h \in 0..7, NEW l \in {0, 1}, NEW n \in Int, NEW k \in Int, k <= n,
         After(h, l, n)
  PROVE  After(h, l, k)
  BY DEF After

\* More than three samples promise what three do.
LEMMA AfterThree ==
  ASSUME NEW h \in 0..7, NEW l \in {0, 1}, NEW n \in Int, After(h, l, 3)
  PROVE  After(h, l, n)
  BY DEF After, All

\* The initial states satisfy the inductive invariant.
LEMMA InitGInv == Init => GInv
  <1> SUFFICES ASSUME Init PROVE GInv
    OBVIOUS
  <1>1. GpioTypeOK
    <2>1. TickTypes
      BY DEF Init, TickTypes
    <2>2. OtherTypes
      BY DEF Init, OtherTypes, BoundedEvents
    <2>3. firing \notin todo /\ (netPin = NoPin <=> netPc = "idle")
      BY DEF Init
    <2> QED BY <2>1, <2>2, <2>3 DEF GpioTypeOK
  <1>2. SampleInv
    BY DEF Init, SampleInv, Samples, After
  <1>3. PressInv
    BY PinsAssumption DEF Init, PressInv, Pending, Pins
  <1>4. OwedInv
    BY DEF Init, OwedInv
  <1> QED BY <1>1, <1>2, <1>3, <1>4 DEF GInv
\* Changing nothing the invariant parts look at preserves them.
LEMMA FrameGInv ==
  ASSUME SampleInv, PressInv, OwedInv,
         UNCHANGED <<level, hist, lastState, todo, firing, events, presses, ticks, owed>>
  PROVE  SampleInv' /\ PressInv' /\ OwedInv'
  <1>1. SampleInv'
    BY DEF SampleInv, Samples, After, All
  <1>2. PressInv'
    BY DEF PressInv, Pending
  <1>3. OwedInv'
    BY DEF OwedInv
  <1> QED BY <1>1, <1>2, <1>3

\* The alarm starts a pass: the sample it announces is not taken yet.
LEMMA OnTimerStep ==
  ASSUME GInv, OnTimer
  PROVE  GInv'
  <1> USE DEF GInv
  <1>1. GpioTypeOK'
    BY PinsAssumption DEF OnTimer, InInterrupt, GpioTypeOK, TickTypes, OtherTypes
  <1>2. SampleInv'
    <2> SUFFICES ASSUME NEW p \in Pins
                 PROVE  /\ After(hist'[p], level'[p], Samples(p)')
                        /\ Samples(p)' >= 3 => lastState'[p] = level'[p]
      BY DEF SampleInv
    <2>1. /\ hist[p] \in 0..7 /\ level[p] \in {0, 1} /\ ticks[p] \in 0..4
          /\ UNCHANGED <<hist, level, lastState>>
      BY DEF OnTimer, GpioTypeOK, TickTypes
    <2>2. Samples(p) = ticks[p]
      BY DEF OnTimer, InInterrupt, Samples
    <2>3. Samples(p)' \in Int /\ Samples(p)' <= Samples(p)
      BY <2>1, <2>2 DEF OnTimer, Samples
    <2>4. After(hist[p], level[p], Samples(p)) /\ (Samples(p) >= 3 => lastState[p] = level[p])
      BY DEF SampleInv
    <2> QED BY <2>1, <2>2, <2>3, <2>4, AfterMonotone
  <1>3. PressInv'
    BY DEF OnTimer, PressInv, Pending
  <1>4. OwedInv'
    BY DEF OnTimer, OwedInv
  <1> QED BY <1>1, <1>2, <1>3, <1>4

\* A sample.
LEMMA IsTriggeredStep ==
  ASSUME GInv, NEW q \in Pins, IsTriggered(q)
  PROVE  GInv'
  <1> USE DEF GInv
  <1>1. GpioTypeOK'
    <2>1. Shifted(q) \in 0..7
      BY ShiftLemma DEF Shifted, GpioTypeOK, TickTypes, OtherTypes
    <2> QED BY <2>1, PinsAssumption DEF IsTriggered, GpioTypeOK, TickTypes, OtherTypes
  <1>2. SampleInv'
    <2> SUFFICES ASSUME NEW p \in Pins
                 PROVE  /\ After(hist'[p], level'[p], Samples(p)')
                        /\ Samples(p)' >= 3 => lastState'[p] = level'[p]
      BY DEF SampleInv
    <2>1. /\ hist[p] \in 0..7 /\ level[p] \in {0, 1} /\ ticks[p] \in 0..4
          /\ hist \in [Pins -> 0..7] /\ lastState \in [Pins -> {0, 1}]
          /\ UNCHANGED <<level, ticks>> /\ todo' = todo \ {q}
      BY DEF IsTriggered, GpioTypeOK, TickTypes
    <2>2. After(hist[p], level[p], Samples(p)) /\ (Samples(p) >= 3 => lastState[p] = level[p])
      BY DEF SampleInv
    <2>3. CASE p # q
      <3>1. hist'[p] = hist[p] /\ lastState'[p] = lastState[p]
        BY <2>1, <2>3 DEF IsTriggered
      <3>2. Samples(p)' = Samples(p)
        BY <2>1, <2>3 DEF Samples
      <3> QED BY <2>1, <2>2, <3>1, <3>2
    <2>4. CASE p = q
      <3>1. hist'[p] = (2 * hist[p] + level[p]) % 8
        BY <2>1, <2>4 DEF IsTriggered, Shifted
      <3>2. Samples(p) = ticks[p] - 1 /\ Samples(p)' = ticks[p]
        BY <2>1, <2>4 DEF Samples, IsTriggered
      <3>3. /\ After(hist'[p], level[p], 1)
            /\ After(hist[p], level[p], 1) => After(hist'[p], level[p], 2)
            /\ After(hist[p], level[p], 2) => After(hist'[p], level[p], 3)
            /\ hist'[p] \in 0..7
        BY <2>1, <3>1, ShiftLemma
      <3>4. After(hist'[p], level[p], ticks[p])
        <4>1. CASE ticks[p] = 0
          BY <4>1 DEF After
        <4>2. CASE ticks[p] = 1
          BY <4>2, <3>3
        <4>3. CASE ticks[p] = 2
          BY <4>3, <3>3, <3>2, <2>2
        <4>4. CASE ticks[p] = 3
          BY <4>4, <3>3, <3>2, <2>2
        <4>5. CASE ticks[p] = 4
          <5>1. After(hist[p], level[p], 3)
            BY <4>5, <3>2, <2>2
          <5>2. After(hist[p], level[p], 2)
            BY <5>1, <2>1, AfterMonotone
          <5>3. After(hist'[p], level[p], 3)
            BY <5>2, <3>3
          <5> QED BY <5>3, <2>1, <3>3, AfterThree
        <4> QED BY <4>1, <4>2, <4>3, <4>4, <4>5, <2>1
      <3>5. ticks[p] >= 3 => lastState'[p] = level[p]
        <4> SUFFICES ASSUME ticks[p] >= 3 PROVE lastState'[p] = level[p]
          OBVIOUS
        <4>1. hist'[p] = All(level[p])
          BY <3>4, <2>1 DEF After
        <4> QED BY <4>1, <3>1, <2>1, <2>4 DEF IsTriggered, Changes, Shifted
      <3> QED BY <3>2, <3>4, <3>5, <2>1
    <2> QED BY <2>3, <2>4
  <1>3. PressInv'
    <2> SUFFICES ASSUME NEW p \in ActionPins
                 PROVE  /\ events'[p] + Pending(p)' <= presses'[p]
                        /\ lastState'[p] = HIGH /\ (level'[p] = LOW \/ hist'[p] # 7)
                             => events'[p] + Pending(p)' + 1 <= presses'[p]
      BY DEF PressInv
    <2>1. /\ hist \in [Pins -> 0..7] /\ lastState \in [Pins -> {0, 1}]
          /\ level[p] \in {0, 1} /\ events[p] \in Nat /\ presses[p] \in Nat
          /\ UNCHANGED <<level, events, presses>>
          /\ firing = NoPin /\ p \in Pins /\ p # NoPin
      BY PinsAssumption DEF IsTriggered, GpioTypeOK, TickTypes, Pins
    <2>2. /\ events[p] <= presses[p]
          /\ lastState[p] = HIGH /\ (level[p] = LOW \/ hist[p] # 7) => events[p] + 1 <= presses[p]
      BY <2>1 DEF PressInv, Pending
    <2>3. CASE p # q
      <3>1. hist'[p] = hist[p] /\ lastState'[p] = lastState[p] /\ firing' # p
        BY <2>1, <2>3 DEF IsTriggered
      <3> QED BY <2>1, <2>2, <3>1 DEF Pending
    <2>4. CASE p = q /\ Changes(p)
      <3>1. lastState'[p] = level[p] /\ hist'[p] = All(level[p]) /\ level[p] # lastState[p]
        BY <2>1, <2>4 DEF IsTriggered, Changes
      <3>2. CASE level[p] = 1
        <4>1. firing' # p
          BY <2>1, <2>4, <3>2 DEF IsTriggered, Reports
        <4> QED BY <2>1, <2>2, <3>1, <3>2, <4>1 DEF Pending, All
      <3>3. CASE level[p] = 0
        BY <2>1, <2>2, <3>1, <3>3 DEF Pending
      <3> QED BY <2>1, <3>2, <3>3
    <2>5. CASE p = q /\ ~Changes(p)
      <3>1. lastState'[p] = lastState[p] /\ firing' = firing /\ hist'[p] = Shifted(p)
        BY <2>1, <2>5 DEF IsTriggered
      <3>2. hist[p] = 7 /\ level[p] = 1 => Shifted(p) = 7
        BY DEF Shifted
      <3> QED BY <2>1, <2>2, <3>1, <3>2 DEF Pending
    <2> QED BY <2>3, <2>4, <2>5
  <1>4. OwedInv'
    <2> SUFFICES ASSUME NEW p \in Pins, owed'[p]
                 PROVE  p \in ActionPins /\ (lastState'[p] = HIGH \/ firing' = p)
      BY DEF OwedInv
    <2>1. /\ owed[p] /\ firing = NoPin /\ p # NoPin
          /\ lastState \in [Pins -> {0, 1}] /\ level[p] \in {0, 1}
      BY PinsAssumption DEF IsTriggered, GpioTypeOK, TickTypes
    <2>2. p \in ActionPins /\ lastState[p] = HIGH
      BY <2>1 DEF OwedInv
    <2> QED BY <2>1, <2>2 DEF IsTriggered, Reports, Changes
  <1> QED BY <1>1, <1>2, <1>3, <1>4

\* The callbacks: the press in hand becomes an action.
LEMMA NotifyStep ==
  ASSUME GInv, Notify
  PROVE  GInv'
  <1> USE DEF GInv
  <1>1. GpioTypeOK'
    BY PinsAssumption DEF Notify, GpioTypeOK, TickTypes, OtherTypes
  <1>2. SampleInv'
    BY DEF Notify, SampleInv, Samples, After, All
  <1>3. PressInv'
    <2> SUFFICES ASSUME NEW p \in ActionPins
                 PROVE  /\ events'[p] + Pending(p)' <= presses'[p]
                        /\ lastState'[p] = HIGH /\ (level'[p] = LOW \/ hist'[p] # 7)
                             => events'[p] + Pending(p)' + 1 <= presses'[p]
      BY DEF PressInv
    <2>1. /\ events \in [Pins -> Nat] /\ presses[p] \in Nat /\ p \in Pins /\ p # NoPin
          /\ UNCHANGED <<level, hist, lastState, presses>> /\ firing' = NoPin
      BY PinsAssumption DEF Notify, GpioTypeOK, TickTypes, Pins
    <2>2. events'[p] + Pending(p)' = events[p] + Pending(p)
      BY <2>1 DEF Notify, Pending
    <2> QED BY <2>1, <2>2 DEF PressInv
  <1>4. OwedInv'
    BY PinsAssumption DEF Notify, OwedInv, GpioTypeOK, TickTypes, OtherTypes
  <1> QED BY <1>1, <1>2, <1>3, <1>4

\* A pass that ends early counts no sample for the pins it has missed.
LEMMA LoopOverLoadingStep ==
  ASSUME GInv, LoopOverLoading
  PROVE  GInv'
  <1> USE DEF GInv
  <1>1. GpioTypeOK'
    BY PinsAssumption DEF LoopOverLoading, GpioTypeOK, TickTypes, OtherTypes
  <1>2. SampleInv'
    <2> SUFFICES ASSUME NEW p \in Pins
                 PROVE  /\ After(hist'[p], level'[p], Samples(p)')
                        /\ Samples(p)' >= 3 => lastState'[p] = level'[p]
      BY DEF SampleInv
    <2>1. UNCHANGED <<hist, level, lastState>> /\ todo' = {} /\ ticks[p] \in 0..4
      BY DEF LoopOverLoading, GpioTypeOK, TickTypes
    <2>2. CASE p \in todo
      <3>1. Samples(p)' = 0
        BY <2>1, <2>2 DEF LoopOverLoading, Samples
      <3> QED BY <3>1 DEF After
    <2>3. CASE p \notin todo
      <3>1. Samples(p)' = Samples(p)
        BY <2>1, <2>3 DEF LoopOverLoading, Samples
      <3> QED BY <2>1, <3>1 DEF SampleInv
    <2> QED BY <2>2, <2>3
  <1>3. PressInv'
    BY DEF LoopOverLoading, PressInv, Pending
  <1>4. OwedInv'
    BY DEF LoopOverLoading, OwedInv
  <1> QED BY <1>1, <1>2, <1>3, <1>4

\* A change of level starts the count of samples again.
LEMMA ChangeLevelStep ==
  ASSUME GInv, NEW q \in Pins, ChangeLevel(q)
  PROVE  GInv'
  <1> USE DEF GInv
  <1>1. GpioTypeOK'
    BY DEF ChangeLevel, BoundedEvents, GpioTypeOK, TickTypes, OtherTypes
  <1>2. SampleInv'
    <2> SUFFICES ASSUME NEW p \in Pins
                 PROVE  /\ After(hist'[p], level'[p], Samples(p)')
                        /\ Samples(p)' >= 3 => lastState'[p] = level'[p]
      BY DEF SampleInv
    <2>1. /\ UNCHANGED <<hist, lastState, todo>>
          /\ ticks \in [Pins -> 0..4] /\ level \in [Pins -> {0, 1}]
      BY DEF ChangeLevel, GpioTypeOK, TickTypes
    <2>2. CASE p = q
      <3>1. Samples(p)' \in {0, -1}
        BY <2>1, <2>2 DEF ChangeLevel, Samples
      <3> QED BY <3>1 DEF After
    <2>3. CASE p # q
      <3>1. level'[p] = level[p] /\ ticks'[p] = ticks[p]
        BY <2>1, <2>3 DEF ChangeLevel
      <3>2. Samples(p)' = Samples(p)
        BY <2>1, <3>1 DEF Samples
      <3> QED BY <2>1, <3>1, <3>2 DEF SampleInv
    <2> QED BY <2>2, <2>3
  <1>3. PressInv'
    <2> SUFFICES ASSUME NEW p \in ActionPins
                 PROVE  /\ events'[p] + Pending(p)' <= presses'[p]
                        /\ lastState'[p] = HIGH /\ (level'[p] = LOW \/ hist'[p] # 7)
                             => events'[p] + Pending(p)' + 1 <= presses'[p]
      BY DEF PressInv
    <2>1. /\ UNCHANGED <<hist, lastState, events, firing>> /\ p \in Pins
          /\ presses \in [Pins -> Nat] /\ level \in [Pins -> {0, 1}] /\ events[p] \in Nat
      BY DEF ChangeLevel, GpioTypeOK, TickTypes, Pins
    <2>2. /\ events[p] + Pending(p) <= presses[p]
          /\ lastState[p] = HIGH /\ (level[p] = LOW \/ hist[p] # 7)
               => events[p] + Pending(p) + 1 <= presses[p]
      BY DEF PressInv
    <2>3. Pending(p)' = Pending(p) /\ Pending(p) \in {0, 1}
      BY <2>1 DEF Pending
    <2>4. CASE p # q
      BY <2>1, <2>2, <2>3, <2>4 DEF ChangeLevel
    <2>5. CASE p = q /\ level[p] = 1
      <3>1. presses'[p] = presses[p] + 1
        BY <2>1, <2>5 DEF ChangeLevel
      <3> QED BY <2>1, <2>2, <2>3, <3>1
    <2>6. CASE p = q /\ level[p] = 0
      <3>1. presses'[p] = presses[p] /\ level'[p] = 1
        BY <2>1, <2>6 DEF ChangeLevel
      <3> QED BY <2>1, <2>2, <2>3, <2>6, <3>1
    <2> QED BY <2>1, <2>4, <2>5, <2>6
  <1>4. OwedInv'
    <2> SUFFICES ASSUME NEW p \in Pins, owed'[p]
                 PROVE  p \in ActionPins /\ (lastState'[p] = HIGH \/ firing' = p)
      BY DEF OwedInv
    <2>1. owed \in [Pins -> BOOLEAN] /\ UNCHANGED <<lastState, firing>> /\ ticks[p] \in 0..4
      BY DEF ChangeLevel, GpioTypeOK, TickTypes
    <2>2. CASE p # q
      BY <2>1, <2>2 DEF ChangeLevel, OwedInv
    <2>3. CASE p = q
      <3>1. p \in ActionPins /\ level[p] = HIGH /\ ticks[p] = 4
        BY <2>1, <2>3 DEF ChangeLevel
      <3>2. Samples(p) >= 3
        BY <3>1 DEF Samples
      <3> QED BY <2>1, <3>1, <3>2 DEF SampleInv
    <2> QED BY <2>2, <2>3
  <1> QED BY <1>1, <1>2, <1>3, <1>4

\* A restart forgets everything, the history of presses excepted.
LEMMA BootStep ==
  ASSUME GInv, Boot
  PROVE  GInv'
  <1> USE DEF GInv
  <1>1. GpioTypeOK'
    <2>1. TickTypes'
      BY DEF Boot, GpioTypeOK, TickTypes
    <2>2. OtherTypes'
      BY DEF Boot, GpioTypeOK, TickTypes, OtherTypes
    <2>3. (firing \notin todo /\ (netPin = NoPin <=> netPc = "idle"))'
      BY DEF Boot
    <2> QED BY <2>1, <2>2, <2>3 DEF GpioTypeOK
  <1>2. SampleInv'
    BY DEF Boot, SampleInv, Samples, After
  <1>3. PressInv'
    <2> SUFFICES ASSUME NEW p \in ActionPins
                 PROVE  /\ events'[p] + Pending(p)' <= presses'[p]
                        /\ lastState'[p] = LOW
      BY DEF PressInv
    <2>1. p \in Pins /\ p # NoPin /\ events[p] \in Nat /\ presses[p] \in Nat
      BY PinsAssumption DEF GpioTypeOK, TickTypes, Pins
    <2> QED BY <2>1 DEF Boot, PressInv, Pending
  <1>4. OwedInv'
    BY DEF Boot, OwedInv
  <1> QED BY <1>1, <1>2, <1>3, <1>4

\* The load of the configuration begins.
LEMMA LoadStep ==
  ASSUME GInv, LoadPinConfiguration
  PROVE  GInv'
  <1> USE DEF GInv
  <1>1. GpioTypeOK'
    BY DEF LoadPinConfiguration, Happens, BoundedEvents, GpioTypeOK, TickTypes, OtherTypes
  <1>2. UNCHANGED <<level, hist, lastState, todo, firing, events, presses, ticks, owed>>
    BY DEF LoadPinConfiguration, Happens, BoundedEvents
  <1> QED BY <1>1, <1>2, FrameGInv

\* The load of the configuration goes on.
LEMMA PushBackStep ==
  ASSUME GInv, NEW q \in Pins, PushBack(q)
  PROVE  GInv'
  <1> USE DEF GInv
  <1>1. GpioTypeOK'
    BY DEF PushBack, GpioTypeOK, TickTypes, OtherTypes
  <1>2. UNCHANGED <<level, hist, lastState, todo, firing, events, presses, ticks, owed>>
    BY DEF PushBack
  <1> QED BY <1>1, <1>2, FrameGInv

\* networkTask finds a timestamp that is due.
LEMMA FindDueStep ==
  ASSUME GInv, NEW q \in Pins, FindDue(q)
  PROVE  GInv'
  <1> USE DEF GInv
  <1>1. GpioTypeOK'
    BY PinsAssumption DEF FindDue, GpioTypeOK, TickTypes, OtherTypes
  <1>2. UNCHANGED <<level, hist, lastState, todo, firing, events, presses, ticks, owed>>
    BY DEF FindDue
  <1> QED BY <1>1, <1>2, FrameGInv

\* networkTask clears it.
LEMMA ClearTsStep ==
  ASSUME GInv, ClearTs
  PROVE  GInv'
  <1> USE DEF GInv
  <1>1. GpioTypeOK'
    BY DEF ClearTs, GpioTypeOK, TickTypes, OtherTypes
  <1>2. UNCHANGED <<level, hist, lastState, todo, firing, events, presses, ticks, owed>>
    BY DEF ClearTs
  <1> QED BY <1>1, <1>2, FrameGInv

\* networkTask publishes the level.
LEMMA PublishStateStep ==
  ASSUME GInv, PublishState
  PROVE  GInv'
  <1> USE DEF GInv
  <1>1. GpioTypeOK'
    BY DEF PublishState, GpioTypeOK, TickTypes, OtherTypes
  <1>2. UNCHANGED <<level, hist, lastState, todo, firing, events, presses, ticks, owed>>
    BY DEF PublishState
  <1> QED BY <1>1, <1>2, FrameGInv

\* Time passes.
LEMMA DebounceTimeOverStep ==
  ASSUME GInv, NEW q \in Pins, DebounceTimeOver(q)
  PROVE  GInv'
  <1> USE DEF GInv
  <1>1. GpioTypeOK'
    BY DEF DebounceTimeOver, GpioTypeOK, TickTypes, OtherTypes
  <1>2. UNCHANGED <<level, hist, lastState, todo, firing, events, presses, ticks, owed>>
    BY DEF DebounceTimeOver
  <1> QED BY <1>1, <1>2, FrameGInv

\* A restart is requested.
LEMMA RestartEspStep ==
  ASSUME GInv, NEW g \in BOOLEAN, RestartEsp(g)
  PROVE  GInv'
  <1> USE DEF GInv
  <1>1. GpioTypeOK'
    BY DEF RestartEsp, Happens, BoundedEvents, GpioTypeOK, TickTypes, OtherTypes
  <1>2. UNCHANGED <<level, hist, lastState, todo, firing, events, presses, ticks, owed>>
    BY DEF RestartEsp, Happens, BoundedEvents
  <1> QED BY <1>1, <1>2, FrameGInv

\* Every step preserves the inductive invariant.
LEMMA NextGInv == GInv /\ [Next]_gpioVars => GInv'
  <1> SUFFICES ASSUME GInv, [Next]_gpioVars PROVE GInv'
    OBVIOUS
  <1>1. CASE Interrupt
    BY <1>1, OnTimerStep, IsTriggeredStep, NotifyStep, LoopOverLoadingStep DEF Interrupt
  <1>2. CASE NetworkTask
    BY <1>2, FindDueStep, ClearTsStep, PublishStateStep DEF NetworkTask
  <1>3. CASE LoadPinConfiguration
    BY <1>3, LoadStep
  <1>4. CASE \E p \in Pins : PushBack(p) \/ DebounceTimeOver(p) \/ ChangeLevel(p)
    BY <1>4, PushBackStep, DebounceTimeOverStep, ChangeLevelStep
  <1>5. CASE \E g \in BOOLEAN : RestartEsp(g)
    BY <1>5, RestartEspStep
  <1>6. CASE Boot
    BY <1>6, BootStep
  <1>7. CASE UNCHANGED gpioVars
    <2>1. GpioTypeOK'
      BY <1>7 DEF gpioVars, GInv, GpioTypeOK, TickTypes, OtherTypes
    <2>2. UNCHANGED <<level, hist, lastState, todo, firing, events, presses, ticks, owed>>
      BY <1>7 DEF gpioVars
    <2> QED BY <2>1, <2>2, FrameGInv DEF GInv
  <1> QED BY <1>1, <1>2, <1>3, <1>4, <1>5, <1>6, <1>7 DEF Next

\* The inductive invariant holds in every reachable state.
THEOREM GpioInvariance == Spec => []GInv
  BY InitGInv, NextGInv, PTL DEF Spec

\* The registers keep their width and the loops their pins, for every set of
\* pins (Gpio.cpp isTriggered, onTimer).
THEOREM GpioTypeCorrect == Spec => []GpioTypeOK
  <1>1. GInv => GpioTypeOK
    BY DEF GInv
  <1> QED BY <1>1, GpioInvariance, PTL

\* A pin causes at most one action each time it is connected to ground, however
\* its contact bounces and whenever the chip restarts.
THEOREM PressesActOnce == Spec => []OneActionPerPress
  <1>1. GInv => OneActionPerPress
    <2> SUFFICES ASSUME GInv, NEW p \in ActionPins PROVE events[p] <= presses[p]
      BY DEF OneActionPerPress
    <2>1. events[p] \in Nat /\ presses[p] \in Nat
      BY DEF GInv, GpioTypeOK, TickTypes, Pins
    <2> QED BY <2>1 DEF GInv, PressInv, Pending
  <1> QED BY <1>1, GpioInvariance, PTL

\* A pin at rest for 300 ms and then connected to ground for 300 ms has caused
\* its action.
THEOREM LongPressesAct == Spec => []PressActs
  <1>1. GInv => PressActs
    <2> SUFFICES ASSUME GInv, NEW p \in ActionPins,
                        owed[p], level[p] = LOW, ticks[p] = 4, ~InInterrupt
                 PROVE  FALSE
      BY DEF PressActs
    <2>1. p \in Pins /\ p # NoPin
      BY PinsAssumption DEF Pins
    <2>2. Samples(p) = 4
      BY DEF Samples, InInterrupt
    <2>3. lastState[p] = LOW
      BY <2>1, <2>2 DEF GInv, SampleInv
    <2> QED BY <2>1, <2>3 DEF GInv, OwedInv, InInterrupt
  <1> QED BY <1>1, GpioInvariance, PTL
=============================================================================
