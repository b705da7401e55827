------------------------- MODULE StatsUploadProofs -------------------------
(***************************************************************************)
(* Theorems about the event queue and its upload, over every behaviour of  *)
(* the clock, every fault of its file, every size of a batch and of the    *)
(* queue: the state stays well typed, an event leaves the queue only for   *)
(* one of the reasons the code has, and one upload never goes back in time.*)
(* While the clock's file is kept whole, the times sent are the true ones  *)
(* up to drift.                                                            *)
(***************************************************************************)
EXTENDS StatsUpload, TLAPS, SequenceTheorems, WellFoundedInduction

-----------------------------------------------------------------------------
(* Least elements and induction on sets of naturals.                       *)

\* A nonempty set of naturals has a least element, and Least is it.
LEMMA LeastOfSet ==
  ASSUME NEW S \in SUBSET Nat, S # {}
  PROVE  Least(S) \in S /\ \A n \in S : Least(S) <= n
<1> DEFINE less == OpToRel(<, Nat)
<1>1. PICK m \in S : \A n \in S : <<n, m>> \notin less
  <2>1. IsWellFoundedOn(less, Nat)
    BY NatLessThanWellFounded
  <2>2. QED
    BY <2>1, WFMin
<1>2. ASSUME NEW n \in S PROVE m <= n
  <2>1. m \in Nat /\ n \in Nat
    OBVIOUS
  <2>2. n < m => <<n, m>> \in less
    BY <2>1, Zenon DEF less, OpToRel
  <2>3. ~(n < m)
    BY <1>1, <2>2, Zenon
  <2>4. QED
    BY <2>1, <2>3
<1>3. QED
  BY <1>2 DEF Least

\* A set that holds 0 and with every natural the next holds them all.
LEMMA InductionOnSet ==
  ASSUME NEW S, 0 \in S, \A n \in Nat : n \in S => n + 1 \in S
  PROVE  Nat \subseteq S
<1> SUFFICES ASSUME Nat \ S # {} PROVE FALSE
  OBVIOUS
<1> DEFINE m == Least(Nat \ S)
<1>1. m \in Nat \ S /\ \A n \in Nat \ S : m <= n
  BY LeastOfSet
<1> HIDE DEF m
<1>2. m # 0 /\ m \in Nat
  BY <1>1
<1>3. m - 1 \in Nat /\ m - 1 \in S
  BY <1>1, <1>2
<1>4. (m - 1) + 1 = m
  BY <1>2
<1>5. m \in S
  BY <1>3, <1>4
<1>6. QED
  BY <1>1, <1>5

-----------------------------------------------------------------------------
(* The clock.                                                              *)

State == [era : Int, checkpoint : Int, history : [Slots -> Correction]]

\* No clock, kept or shown, is ahead of the true time by more than the drift,
\* and no era is above the number of restarts: what bounds ClockTypeOK.
ClockInv ==
  /\ real \in Plausible..Horizon
  /\ drift \in 0..MaxDrift
  /\ clock \in 1..real + drift
  /\ nvs \in 0..real + drift
  /\ lp \in BOOLEAN
  /\ stepped \in BOOLEAN
  /\ state \in State /\ file \in State
  /\ restarts \in 0..MaxRestarts
  /\ state.era \in 0..restarts + 1
  /\ file = Torn \/ file.era \in 0..restarts + 1
  /\ state.checkpoint \in 0..real + drift
  /\ file.checkpoint \in 0..real + drift
  /\ syncs \in 0..MaxSyncs

\* The constants of the clock are numbers.
LEMMA ClockConstants ==
  /\ Plausible \in Nat /\ Horizon \in Nat /\ EraSlots \in Nat /\ MaxOff \in Nat
  /\ MaxDrift \in Nat /\ MaxSyncs \in Nat /\ MaxRestarts \in Nat
  /\ Plausible > 1 /\ Horizon >= Plausible /\ EraSlots > 0
BY ClockAssumption

\* The state of a device never used, and what stands for a file that does not
\* load, are states.
LEMMA FreshIsState == Fresh \in State /\ Torn \in State /\ Unused \in Correction
<1>1. Unused \in Correction
  BY ClockConstants DEF Unused, Correction
<1>2. QED
  BY <1>1 DEF Fresh, Torn, State

\* A correction put into a table leaves a table.
LEMMA UpsertIsTable ==
  ASSUME NEW h \in [Slots -> Correction], NEW entry \in Correction
  PROVE  Upsert(h, entry) \in [Slots -> Correction]
BY DEF Upsert

\* The slots of an era, when it has any, have a first one.
LEMMA OwnSlot ==
  ASSUME NEW h, NEW era, SlotsOf(h, era) # {}
  PROVE  Least(SlotsOf(h, era)) \in Slots
<1>1. SlotsOf(h, era) \in SUBSET Nat
  BY ClockConstants DEF SlotsOf, Slots
<1>2. Least(SlotsOf(h, era)) \in SlotsOf(h, era)
  BY <1>1, LeastOfSet
<1>3. QED
  BY <1>2 DEF SlotsOf

\* Where a measurement's ramp starts is a time.
LEMMA WindowStartType ==
  ASSUME NEW st \in State
  PROVE  WindowStart(st) \in Nat
<1> DEFINE own == SlotsOf(st.history, st.era)
           last == st.history[Least(own)]
<1>1. CASE own = {}
  BY <1>1 DEF WindowStart
<1>2. CASE own # {}
  <2>1. Least(own) \in Slots
    BY <1>2, OwnSlot
  <2>2. last \in Correction
    BY <2>1 DEF State
  <2>3. last.syncDevice + last.delta \in Int
    BY <2>2 DEF Correction
  <2> HIDE DEF last
  <2>4. IsPlausible(last.syncDevice + last.delta) => last.syncDevice + last.delta \in Nat
    BY <2>3, ClockConstants DEF IsPlausible
  <2>5. WindowStart(st) \in {0, last.syncDevice + last.delta}
        /\ (WindowStart(st) # 0 => IsPlausible(last.syncDevice + last.delta))
    BY DEF WindowStart, last
  <2>6. QED
    BY <2>4, <2>5
<1>3. QED
  BY <1>1, <1>2

\* Saving leaves the file whole, as it was, or torn.
LEMMA SaveStateFile ==
  ASSUME NEW st, SaveState(st)
  PROVE  file' \in {st, file, Torn}
BY DEF SaveState

\* The clock starts as the invariant says.
LEMMA ClockInitInv == ClockInit => ClockInv
<1> SUFFICES ASSUME ClockInit PROVE ClockInv
  OBVIOUS
<1>1. state = [era |-> 1, checkpoint |-> 0, history |-> [s \in Slots |-> Unused]]
  BY DEF ClockInit, Fresh
<1>2. [s \in Slots |-> Unused] \in [Slots -> Correction]
  BY FreshIsState
<1>3. state \in State /\ state.era = 1 /\ state.checkpoint = 0
  BY <1>1, <1>2 DEF State
<1>4. /\ real \in Plausible..Horizon /\ drift \in 0..MaxDrift
      /\ clock \in 1..real + drift /\ nvs \in 0..real + drift
      /\ restarts \in 0..MaxRestarts /\ syncs \in 0..MaxSyncs
      /\ 1 \in 0..restarts + 1 /\ 0 \in 0..real + drift
  BY ClockConstants DEF ClockInit
<1>5. lp \in BOOLEAN /\ stepped \in BOOLEAN /\ file = state
  BY DEF ClockInit
<1>6. QED
  BY <1>3, <1>4, <1>5 DEF ClockInv

\* A tick of true time, and of a clock that may show none or two.
LEMMA TimePassesInv == ClockInv /\ TimePasses => ClockInv'
<1> SUFFICES ASSUME ClockInv, TimePasses PROVE ClockInv'
  OBVIOUS
<1>1. PICK shown \in 0..2 :
        /\ real < Horizon
        /\ drift + (IF shown = 1 THEN 0 ELSE 1) <= MaxDrift
        /\ real' = real + 1
        /\ clock' = clock + shown
        /\ drift' = drift + (IF shown = 1 THEN 0 ELSE 1)
        /\ lp' \in {lp, FALSE}
        /\ UNCHANGED <<nvs, state, file, stepped, syncs, restarts>>
  BY DEF TimePasses
<1>2. real' \in Plausible..Horizon /\ drift' \in 0..MaxDrift
      /\ real' + drift' >= real + drift /\ real' + drift' \in Int
  BY <1>1, ClockConstants DEF ClockInv
<1>3. clock' \in 1..real' + drift'
  BY <1>1, <1>2, ClockConstants DEF ClockInv
<1>4. nvs' \in 0..real' + drift' /\ state'.checkpoint \in 0..real' + drift'
      /\ file'.checkpoint \in 0..real' + drift'
  BY <1>1, <1>2, ClockConstants DEF ClockInv
<1>5. lp' \in BOOLEAN
  BY <1>1 DEF ClockInv
<1>6. QED
  BY <1>1, <1>2, <1>3, <1>4, <1>5 DEF ClockInv

\* A synchronisation writes a correction and sets the clock to the true time.
LEMMA NtpSyncInv == ClockInv /\ NtpSync => ClockInv'
<1> SUFFICES ASSUME ClockInv, NtpSync PROVE ClockInv'
  OBVIOUS
<1> DEFINE entry == [used |-> TRUE, era |-> state.era, delta |-> real - clock,
                     windowStart |-> WindowStart(state), syncDevice |-> clock]
<1>1. state' = [state EXCEPT !.history = Upsert(state.history, entry), !.checkpoint = real]
  BY DEF NtpSync
<1>2. entry \in Correction
  <2>1. WindowStart(state) \in Nat
    BY WindowStartType DEF ClockInv
  <2>2. state.era \in 0..MaxRestarts + 1 /\ real - clock \in Int /\ clock \in Nat
    BY ClockConstants DEF ClockInv
  <2>3. QED
    BY <2>1, <2>2 DEF Correction
<1>3. state.history \in [Slots -> Correction]
  BY DEF ClockInv, State
<1>4. Upsert(state.history, entry) \in [Slots -> Correction]
  BY <1>2, <1>3, UpsertIsTable
<1> HIDE DEF entry
<1>5. real \in Int /\ state \in State
  BY ClockConstants DEF ClockInv
<1>6. state' \in State /\ state'.era = state.era /\ state'.checkpoint = real
  BY <1>1, <1>4, <1>5 DEF State
<1>7. file' \in {state', file, Torn}
  BY SaveStateFile DEF NtpSync
<1>8. Torn \in State /\ Torn.checkpoint = 0
  BY FreshIsState DEF Torn
<1>9. /\ UNCHANGED <<real, drift, stepped, restarts>>
      /\ clock' = real /\ nvs' = real /\ lp' = TRUE /\ syncs' = syncs + 1 /\ syncs < MaxSyncs
  BY DEF NtpSync
<1>10. real \in 0..real + drift /\ real \in 1..real + drift
  BY ClockConstants DEF ClockInv
<1>11. file' \in State /\ file'.checkpoint \in 0..real + drift
       /\ (file' = Torn \/ file'.era \in 0..restarts + 1)
  BY <1>6, <1>7, <1>8, <1>10, ClockConstants DEF ClockInv
<1>12. syncs' \in 0..MaxSyncs
  BY <1>9, ClockConstants DEF ClockInv
<1>13. QED
  BY <1>6, <1>9, <1>10, <1>11, <1>12 DEF ClockInv

\* The time a browser sets is the true time.
LEMMA ApplyClientTimeInv == ClockInv /\ ApplyClientTime => ClockInv'
<1> SUFFICES ASSUME ClockInv, ApplyClientTime PROVE ClockInv'
  OBVIOUS
<1>1. real \in 0..real + drift /\ real \in 1..real + drift
  BY ClockConstants DEF ClockInv
<1>2. QED
  BY <1>1 DEF ClockInv, ApplyClientTime

\* A checkpoint is the clock, saved or not.
LEMMA CheckpointInv == ClockInv /\ Checkpoint => ClockInv'
<1> SUFFICES ASSUME ClockInv, Checkpoint PROVE ClockInv'
  OBVIOUS
<1>1. CASE ~IsPlausible(clock)
  BY <1>1 DEF Checkpoint, clockVars, ClockInv
<1>2. CASE IsPlausible(clock)
  <2>1. /\ state' = [state EXCEPT !.checkpoint = clock]
        /\ SaveState(state')
        /\ UNCHANGED <<real, clock, nvs, lp, drift, stepped, syncs, restarts>>
    BY <1>2 DEF Checkpoint
  <2>2. clock \in 0..real + drift /\ clock \in Int /\ state \in State
    BY ClockConstants DEF ClockInv
  <2>3. state' \in State /\ state'.era = state.era /\ state'.checkpoint = clock
    BY <2>1, <2>2 DEF State
  <2>4. file' \in {state', file, Torn}
    BY <2>1, SaveStateFile
  <2>5. Torn \in State /\ Torn.checkpoint = 0
    BY FreshIsState DEF Torn
  <2>6. file' \in State /\ file'.checkpoint \in 0..real + drift
        /\ (file' = Torn \/ file'.era \in 0..restarts + 1)
    BY <2>2, <2>3, <2>4, <2>5, ClockConstants DEF ClockInv
  <2>7. QED
    BY <2>1, <2>2, <2>3, <2>6 DEF ClockInv
<1>3. QED
  BY <1>1, <1>2

\* A number up to a bound, unless it is 0, is from 1 up to it.
LEMMA PositivePart ==
  ASSUME NEW m \in Int, NEW n \in 0..m, n # 0
  PROVE  n \in 1..m
OBVIOUS

\* A boot, whatever it restores the clock from.
LEMMA BootInv ==
  ASSUME ClockInv, NEW flash, NEW running \in BOOLEAN, NEW base,
         real' \in Plausible..Horizon, real' >= real, restarts < MaxRestarts,
         flash \in 0..real' + drift, base \in 1..real' + drift,
         Boot(flash, running, base)
  PROVE  ClockInv'
<1> DEFINE restored == IF running \/ flash = 0 THEN base ELSE flash
           loaded == IF file = Torn THEN Fresh ELSE file
           opened == [loaded EXCEPT !.era = @ + 1]
<1>1. restored \in 1..real' + drift
  <2>1. flash # 0 => flash \in 1..real' + drift
    <3>1. real' + drift \in Int
      BY ClockConstants DEF ClockInv
    <3>2. QED
      BY <3>1, PositivePart, Zenon
  <2>2. CASE running \/ flash = 0
    <3>1. restored = base
      BY <2>2, Zenon
    <3>2. QED
      BY <3>1
  <2>3. CASE ~(running \/ flash = 0)
    <3>1. restored = flash /\ flash # 0
      BY <2>3, Zenon
    <3>2. QED
      BY <2>1, <3>1
  <2>4. QED
    BY <2>2, <2>3
<1>2. /\ loaded \in State
      /\ loaded.era \in 0..restarts + 1
      /\ loaded.checkpoint \in 0..real' + drift
  <2>1. CASE file = Torn
    <3>1. loaded = Fresh /\ Fresh.era = 0 /\ Fresh.checkpoint = 0
      BY <2>1 DEF Fresh
    <3>2. QED
      BY <3>1, FreshIsState, ClockConstants DEF ClockInv
  <2>2. CASE file # Torn
    BY <2>2, ClockConstants DEF ClockInv
  <2>3. QED
    BY <2>1, <2>2
<1> HIDE DEF loaded
<1>3. /\ opened \in State
      /\ opened.era \in 0..restarts + 2
      /\ opened.checkpoint = loaded.checkpoint
  <2>1. restarts \in Int /\ loaded.era \in Int
    BY <1>2, ClockConstants DEF ClockInv
  <2>2. opened \in State /\ opened.era = loaded.era + 1 /\ opened.checkpoint = loaded.checkpoint
    BY <1>2, <2>1 DEF State
  <2>3. QED
    BY <1>2, <2>1, <2>2
<1>4. /\ nvs' = flash /\ lp' = running /\ restarts' = restarts + 1
      /\ UNCHANGED <<drift, syncs>>
      /\ stepped' \in BOOLEAN
  BY DEF Boot
<1> HIDE DEF restored
<1>5. /\ state' \in State /\ state'.era \in 0..restarts + 2
      /\ state'.checkpoint \in 0..real' + drift
      /\ clock' \in 1..real' + drift
      /\ file' \in {file, opened, Torn}
  <2>1. CASE IsPlausible(restored)
    <3>1. state' = loaded /\ clock' = restored /\ file' = file
      BY <2>1 DEF Boot, restored, loaded
    <3>2. loaded.era \in 0..restarts + 2
      BY <1>2, ClockConstants DEF ClockInv
    <3>3. QED
      BY <1>1, <1>2, <3>1, <3>2
  <2>2. CASE ~IsPlausible(restored)
    <3>1. /\ state' = opened
          /\ clock' = IF IsPlausible(opened.checkpoint) THEN opened.checkpoint ELSE restored
          /\ SaveState(opened)
      BY <2>2 DEF Boot, restored, loaded
    <3> HIDE DEF opened
    <3>2. file' \in {file, opened, Torn}
      BY <3>1, SaveStateFile
    <3>3. clock' \in 1..real' + drift
      BY <1>1, <1>2, <1>3, <3>1, ClockConstants DEF IsPlausible
    <3>4. QED
      BY <1>2, <1>3, <3>1, <3>2, <3>3
  <2>3. QED
    BY <2>1, <2>2
<1> HIDE DEF opened
<1>6. /\ file' \in State
      /\ file'.checkpoint \in 0..real' + drift
      /\ file' = Torn \/ file'.era \in 0..restarts + 2
  <2>1. Torn \in State /\ Torn.checkpoint = 0
    BY FreshIsState DEF Torn
  <2>2. QED
    BY <1>2, <1>3, <1>5, <2>1, ClockConstants DEF ClockInv
<1>7. restarts' \in 0..MaxRestarts /\ restarts' + 1 = restarts + 2
  BY <1>4, ClockConstants DEF ClockInv
<1>8. QED
  BY <1>4, <1>5, <1>6, <1>7 DEF ClockInv

\* A sleep lasts no longer in the clock than in true time.
LEMMA SleepInv == ASSUME NEW keepLp \in BOOLEAN PROVE ClockInv /\ Sleep(keepLp) => ClockInv'
<1> SUFFICES ASSUME ClockInv, Sleep(keepLp) PROVE ClockInv'
  OBVIOUS
<1>1. PICK off \in 1..MaxOff, saved \in {FALSE, IsPlausible(clock)} :
        /\ restarts < MaxRestarts
        /\ real + off <= Horizon
        /\ real' = real + off
        /\ Boot(IF saved THEN clock ELSE nvs, keepLp /\ (saved \/ lp),
                IF keepLp THEN clock + off ELSE 1)
  BY DEF Sleep
<1> DEFINE flash == IF saved THEN clock ELSE nvs
           running == keepLp /\ (saved \/ lp)
           base == IF keepLp THEN clock + off ELSE 1
<1>2. real' \in Plausible..Horizon /\ real' >= real
  BY <1>1, ClockConstants DEF ClockInv
<1>3. flash \in 0..real' + drift
  BY <1>1, ClockConstants DEF ClockInv
<1>4. base \in 1..real' + drift
  BY <1>1, ClockConstants DEF ClockInv
<1>5. running \in BOOLEAN
  OBVIOUS
<1> HIDE DEF flash, running, base
<1>6. Boot(flash, running, base)
  BY <1>1 DEF flash, running, base
<1>7. QED
  BY <1>1, <1>2, <1>3, <1>4, <1>5, <1>6, BootInv

\* A reset boots from what the clock shows or flash holds.
LEMMA ResetInv == ClockInv /\ Reset => ClockInv'
<1> SUFFICES ASSUME ClockInv, Reset PROVE ClockInv'
  OBVIOUS
<1>1. restarts < MaxRestarts /\ real' = real /\ Boot(nvs, lp, clock)
  BY DEF Reset
<1>2. /\ real' \in Plausible..Horizon /\ real' >= real
      /\ nvs \in 0..real' + drift /\ clock \in 1..real' + drift /\ lp \in BOOLEAN
  BY <1>1, ClockConstants DEF ClockInv
<1>3. QED
  BY <1>1, <1>2, BootInv

\* A power loss boots from flash, if that was not erased.
LEMMA PowerLossInv == ASSUME NEW erased \in BOOLEAN PROVE ClockInv /\ PowerLoss(erased) => ClockInv'
<1> SUFFICES ASSUME ClockInv, PowerLoss(erased) PROVE ClockInv'
  OBVIOUS
<1>1. PICK off \in 1..MaxOff :
        /\ restarts < MaxRestarts
        /\ real + off <= Horizon
        /\ real' = real + off
        /\ Boot(IF erased THEN 0 ELSE nvs, FALSE, 1)
  BY DEF PowerLoss
<1> DEFINE flash == IF erased THEN 0 ELSE nvs
<1>2. /\ real' \in Plausible..Horizon /\ real' >= real
      /\ flash \in 0..real' + drift /\ 1 \in 1..real' + drift
  BY <1>1, ClockConstants DEF ClockInv
<1>3. Boot(flash, FALSE, 1)
  BY <1>1
<1> HIDE DEF flash
<1>4. QED
  BY <1>1, <1>2, <1>3, BootInv

\* What the invariant says of the clock is what ClockTypeOK asks, and more.
LEMMA ClockTyped == ClockInv => ClockTypeOK
<1> SUFFICES ASSUME ClockInv PROVE ClockTypeOK
  OBVIOUS
<1>1. /\ real \in Plausible..Horizon
      /\ clock \in 1..Horizon + MaxDrift
      /\ nvs \in 0..Horizon + MaxDrift
      /\ drift \in 0..MaxDrift
  BY ClockConstants DEF ClockInv
<1>2. ASSUME NEW st \in {state, file}
      PROVE  /\ st.era \in -1..MaxRestarts + 1
             /\ st.checkpoint \in 0..Horizon + MaxDrift
             /\ st.history \in [Slots -> Correction]
  <2>1. Torn.era = -1
    BY DEF Torn
  <2>2. QED
    BY <2>1, ClockConstants DEF ClockInv, State
<1>3. state.era >= 0
  BY ClockConstants DEF ClockInv
<1>4. QED
  BY <1>1, <1>2, <1>3 DEF ClockInv, ClockTypeOK

-----------------------------------------------------------------------------
(* The times a batch is uploaded with.                                     *)

SentEvent == [place : Nat, event : Event, start : Int]
UploadRecord == [on : BOOLEAN, offset : Nat, total : Nat, instant : Nat, previous : Int,
                 sent : SUBSET SentEvent, refused : BOOLEAN]

\* The queue and the upload as values.
QueueInv ==
  /\ pending \in Seq(Event)
  /\ queue \in Seq(Event) /\ Len(queue) <= MaxQueued
  /\ ending \in BOOLEAN
  /\ read \in 0..MaxEvents
  /\ upload \in UploadRecord
  /\ upload.on => upload.total = Len(queue)
  /\ ~upload.on => upload.sent = {}
  /\ ending => ~upload.on

\* The constants of the upload are positive numbers.
LEMMA UploadConstants ==
  /\ BatchSize \in Nat /\ MaxQueued \in Nat /\ MaxEvents \in Nat
  /\ BatchSize > 0 /\ MaxQueued > 0 /\ MaxEvents > 0
BY UploadAssumption

\* Rounding to the nearest integer gives one.
LEMMA RoundedType ==
  ASSUME NEW n \in Int, NEW d \in Int, d > 0
  PROVE  Rounded(n, d) \in Int
<1> DEFINE half == d \div 2
<1>1. half \in Int
  OBVIOUS
<1> HIDE DEF half
<1>2. (n + half) \div d \in Int /\ -((half - n) \div d) \in Int
  BY <1>1
<1>3. QED
  BY <1>2 DEF Rounded, half

\* An era that was measured has a correction.
LEMMA CorrectionType ==
  ASSUME ClockInv, NEW era, Measured(era), NEW recorded \in Int
  PROVE  CorrectionFor(era, recorded) \in Int
<1> DEFINE slot == Least(SlotsOf(state.history, era))
           c == state.history[slot]
<1>1. slot \in Slots
  BY OwnSlot DEF Measured
<1> HIDE DEF slot
<1>2. c \in Correction
  BY <1>1 DEF ClockInv, State
<1> HIDE DEF c
<1>3. c.delta \in Int /\ c.windowStart \in Int /\ c.syncDevice \in Int
  BY <1>2 DEF Correction
<1>4. ~(c.syncDevice <= c.windowStart) => Interpolated(c, recorded) \in Int
  <2>1. c.delta * (recorded - c.windowStart) \in Int
    BY <1>3
  <2>2. c.syncDevice - c.windowStart \in Int
        /\ (~(c.syncDevice <= c.windowStart) => c.syncDevice - c.windowStart > 0)
    BY <1>3
  <2>3. QED
    BY <2>1, <2>2, RoundedType, Zenon DEF Interpolated
<1>5. CorrectionFor(era, recorded) \in {0, c.delta}
      \/ (~(c.syncDevice <= c.windowStart)
          /\ CorrectionFor(era, recorded) = Interpolated(c, recorded))
  BY Zenon DEF CorrectionFor, c, slot
<1>6. QED
  BY <1>3, <1>4, <1>5

\* An event of a measured era is never uploaded with a time before the one the
\* event in front of it left.
LEMMA CorrectedForward ==
  ASSUME ClockInv, QueueInv, NEW e \in Event, Measured(e.era), NEW previous \in Int
  PROVE  Corrected(e, previous) \in Int /\ previous <= Corrected(e, previous)
<1> DEFINE shifted == e.start + CorrectionFor(e.era, e.start)
           capped == IF upload.instant # 0 THEN Smaller(shifted, upload.instant) ELSE shifted
<1>1. e.start \in Int
  BY DEF Event
<1>2. shifted \in Int
  BY <1>1, CorrectionType
<1>3. upload.instant \in Int
  BY DEF QueueInv, UploadRecord
<1> HIDE DEF shifted
<1>4. capped \in Int
  BY <1>2, <1>3 DEF Smaller
<1>5. Corrected(e, previous) = Larger(capped, previous)
  BY DEF Corrected, capped, shifted
<1> HIDE DEF capped
<1>6. QED
  BY <1>4, <1>5 DEF Larger

\* A time uploaded is a number.
LEMMA UploadedType ==
  ASSUME ClockInv, QueueInv, NEW e \in Event, NEW previous \in Int
  PROVE  Uploaded(e, previous) \in Int
<1>1. CASE Measured(e.era)
  BY <1>1, CorrectedForward DEF Uploaded
<1>2. CASE ~Measured(e.era)
  BY <1>2 DEF Uploaded, Event
<1>3. QED
  BY <1>1, <1>2

\* The places of a batch after o events, up to b of q in all.
LEMMA BatchBounds ==
  ASSUME NEW o \in Nat, NEW q \in Nat, NEW b \in Nat, NEW last \in Int,
         o + 1 <= last, last <= q, last <= o + b, last = o + b \/ last = q
  PROVE  /\ \A i \in 1..last - o : o + i \in 1..q /\ o + i <= o + b
         /\ \A k \in 1..q : o < k /\ k <= o + b => k - o \in 1..last - o
OBVIOUS

\* The batch is the next events of the queue.
LEMMA BatchIsNext ==
  ASSUME QueueInv, upload.on, upload.offset < upload.total
  PROVE  /\ Batch \in Seq(Event)
         /\ Len(Batch) \in Nat \ {0}
         /\ \A i \in 1..Len(Batch) : /\ upload.offset + i \in 1..Len(queue)
                                     /\ upload.offset + i <= upload.offset + BatchSize
                                     /\ Batch[i] = queue[upload.offset + i]
         /\ \A k \in 1..Len(queue) :
              upload.offset < k /\ k <= upload.offset + BatchSize =>
                k - upload.offset \in 1..Len(Batch)
<1> DEFINE first == upload.offset + 1
           last == Smaller(upload.offset + BatchSize, Len(queue))
<1>1. /\ upload.offset \in Nat /\ Len(queue) \in Nat /\ upload.offset < Len(queue)
  BY LenProperties DEF QueueInv, UploadRecord
<1>2. /\ first \in Int /\ last \in Int /\ first <= last /\ last <= Len(queue)
      /\ last <= upload.offset + BatchSize /\ 1 <= first
      /\ last = upload.offset + BatchSize \/ last = Len(queue)
  BY <1>1, UploadConstants DEF Smaller
<1>3. \A i \in first..last : queue[i] \in Event
  BY <1>1, <1>2, ElementOfSeq DEF QueueInv
<1>4. Batch = SubSeq(queue, first, last)
  BY DEF Batch
<1> HIDE DEF first, last
<1>5. /\ Batch \in Seq(Event)
      /\ Len(Batch) = last - first + 1
      /\ \A i \in 1..last - first + 1 : Batch[i] = queue[first + i - 1]
  BY <1>2, <1>3, <1>4, SubSeqProperties
<1>6. first = upload.offset + 1
  BY DEF first
<1>7. Len(Batch) \in Nat \ {0}
  BY <1>2, <1>5
<1>8. Len(Batch) = last - upload.offset
  BY <1>1, <1>2, <1>5, <1>6
<1>9. /\ \A i \in 1..Len(Batch) : /\ upload.offset + i \in 1..Len(queue)
                                   /\ upload.offset + i <= upload.offset + BatchSize
      /\ \A k \in 1..Len(queue) :
           upload.offset < k /\ k <= upload.offset + BatchSize =>
             k - upload.offset \in 1..Len(Batch)
  <2>1. upload.offset + 1 <= last
    BY <1>2, <1>6
  <2>2. QED
    BY <1>1, <1>2, <1>8, <2>1, UploadConstants, BatchBounds
<1>10. ASSUME NEW i \in 1..Len(Batch)
       PROVE  Batch[i] = queue[upload.offset + i]
  <2>1. i \in 1..last - first + 1 /\ i \in Int
    BY <1>5, <1>7
  <2>2. Batch[i] = queue[first + i - 1] /\ first + i - 1 = upload.offset + i
    BY <1>1, <1>5, <1>6, <2>1
  <2>3. QED
    BY <2>2
<1>11. QED
  BY <1>5, <1>7, <1>9, <1>10

\* The recursion that stamps a batch has a solution, which Stamps is.
LEMMA StampsSolve ==
  ASSUME ClockInv, QueueInv, upload.on, upload.offset < upload.total
  PROVE  Stamps = [i \in 0..Len(Batch) |->
                     IF i = 0 THEN upload.previous ELSE Uploaded(Batch[i], Stamps[i - 1])]
<1> DEFINE Solves(f, m) ==
             f = [i \in 0..m |->
                    IF i = 0 THEN upload.previous ELSE Uploaded(Batch[i], f[i - 1])]
           Solved == {m \in Nat : \E f : Solves(f, m)}
<1>1. 0 \in Solved
  <2>1. Solves([i \in 0..0 |-> upload.previous], 0)
    OBVIOUS
  <2>2. QED
    BY <2>1
<1>2. ASSUME NEW m \in Nat, m \in Solved
      PROVE  m + 1 \in Solved
  <2>1. PICK f : Solves(f, m)
    BY <1>2
  <2> DEFINE g == [i \in 0..m + 1 |->
                     IF i = m + 1 THEN Uploaded(Batch[m + 1], f[m]) ELSE f[i]]
  <2>2. ASSUME NEW i \in 0..m + 1
        PROVE  g[i] = IF i = 0 THEN upload.previous ELSE Uploaded(Batch[i], g[i - 1])
    <3>1. CASE i = m + 1
      <4>1. g[i] = Uploaded(Batch[m + 1], f[m]) /\ i # 0
        BY <3>1
      <4>2. g[i - 1] = f[m]
        BY <3>1
      <4>3. QED
        BY <3>1, <4>1, <4>2
    <3>2. CASE i # m + 1 /\ i = 0
      <4>1. g[i] = f[i] /\ i \in 0..m
        BY <3>2
      <4>2. QED
        BY <2>1, <3>2, <4>1
    <3>3. CASE i # m + 1 /\ i # 0
      <4>1. g[i] = f[i] /\ i \in 0..m
        BY <3>3
      <4>2. g[i - 1] = f[i - 1]
        BY <3>3
      <4>3. f[i] = Uploaded(Batch[i], f[i - 1])
        BY <2>1, <3>3, <4>1
      <4>4. QED
        BY <3>3, <4>1, <4>2, <4>3
    <3>4. QED
      BY <3>1, <3>2, <3>3
  <2>3. g = [i \in 0..m + 1 |-> g[i]]
    OBVIOUS
  <2> HIDE DEF g
  <2>4. Solves(g, m + 1)
    BY <2>2, <2>3
  <2>5. QED
    BY <2>4
<1>3. Nat \subseteq Solved
  <2> HIDE DEF Solved
  <2>1. QED
    BY <1>1, <1>2, InductionOnSet
<1>4. Len(Batch) \in Nat
  BY BatchIsNext
<1>5. \E f : Solves(f, Len(Batch))
  BY <1>3, <1>4
<1>6. QED
  BY <1>5, Zenon DEF Stamps

\* Each stamp of a batch is a number, from the one in front of it.
LEMMA StampsType ==
  ASSUME ClockInv, QueueInv, upload.on, upload.offset < upload.total
  PROVE  /\ Stamps[0] = upload.previous
         /\ \A i \in 1..Len(Batch) : Stamps[i] = Uploaded(Batch[i], Stamps[i - 1])
         /\ \A i \in 0..Len(Batch) : Stamps[i] \in Int
<1>1. Len(Batch) \in Nat \ {0} /\ Batch \in Seq(Event)
  BY BatchIsNext
<1>2. Stamps[0] = upload.previous
      /\ \A i \in 1..Len(Batch) : Stamps[i] = Uploaded(Batch[i], Stamps[i - 1])
  BY <1>1, StampsSolve
<1> DEFINE Numbers == {i \in Nat : i <= Len(Batch) => Stamps[i] \in Int}
<1>3. 0 \in Numbers
  BY <1>2 DEF QueueInv, UploadRecord
<1>4. ASSUME NEW i \in Nat, i \in Numbers
      PROVE  i + 1 \in Numbers
  <2>1. CASE i + 1 <= Len(Batch)
    <3>1. Stamps[i] \in Int
      BY <1>1, <1>4, <2>1
    <3>2. i + 1 \in 1..Len(Batch) /\ (i + 1) - 1 = i
      BY <1>1, <2>1
    <3>3. Batch[i + 1] \in Event
      BY <1>1, <3>2, ElementOfSeq
    <3>4. Uploaded(Batch[i + 1], Stamps[i]) \in Int
      BY <3>1, <3>3, UploadedType
    <3>5. Stamps[i + 1] = Uploaded(Batch[i + 1], Stamps[i])
      BY <1>2, <3>2
    <3>6. QED
      BY <3>4, <3>5
  <2>2. CASE ~(i + 1 <= Len(Batch))
    BY <2>2
  <2>3. QED
    BY <2>1, <2>2
<1>5. Nat \subseteq Numbers
  <2> HIDE DEF Numbers
  <2>1. QED
    BY <1>3, <1>4, InductionOnSet
<1>6. QED
  BY <1>1, <1>2, <1>5

\* While the events are of measured eras the stamps do not go back.
LEMMA StampsForward ==
  ASSUME ClockInv, QueueInv, upload.on, upload.offset < upload.total,
         NEW i \in 0..Len(Batch), NEW j \in 0..Len(Batch), i <= j,
         \A k \in i + 1..j : Measured(Batch[k].era)
  PROVE  Stamps[i] <= Stamps[j]
<1>1. Len(Batch) \in Nat \ {0} /\ Batch \in Seq(Event)
  BY BatchIsNext
<1> DEFINE Above == {d \in Nat : i + d <= j => Stamps[i] <= Stamps[i + d]}
<1>2. 0 \in Above
  BY <1>1, StampsType
<1>3. ASSUME NEW d \in Nat, d \in Above
      PROVE  d + 1 \in Above
  <2>1. CASE i + (d + 1) <= j
    <3> DEFINE k == i + d + 1
    <3>1. /\ k \in i + 1..j /\ k \in 1..Len(Batch) /\ k - 1 = i + d
          /\ k - 1 \in 0..Len(Batch) /\ i + d <= j /\ i + (d + 1) = k
      BY <1>1, <2>1
    <3> HIDE DEF k
    <3>2. Batch[k] \in Event /\ Measured(Batch[k].era)
      BY <1>1, <3>1, ElementOfSeq
    <3>3. Stamps[i] \in Int /\ Stamps[k - 1] \in Int
      BY <1>1, <3>1, StampsType
    <3>4. Stamps[k] = Corrected(Batch[k], Stamps[k - 1])
      BY <3>1, <3>2, StampsType DEF Uploaded
    <3>5. Stamps[k - 1] <= Stamps[k] /\ Stamps[k] \in Int
      BY <3>2, <3>3, <3>4, CorrectedForward
    <3>6. Stamps[i] <= Stamps[k - 1]
      BY <1>3, <3>1
    <3>7. Stamps[i] <= Stamps[k]
      BY <3>3, <3>5, <3>6
    <3>8. QED
      BY <3>1, <3>7
  <2>2. CASE ~(i + (d + 1) <= j)
    BY <2>2
  <2>3. QED
    BY <2>1, <2>2
<1>4. Nat \subseteq Above
  <2> HIDE DEF Above
  <2>1. QED
    BY <1>2, <1>3, InductionOnSet
<1>5. j - i \in Nat /\ i + (j - i) = j
  BY <1>1
<1>6. QED
  BY <1>4, <1>5

-----------------------------------------------------------------------------
(* The invariant.                                                          *)

\* The server has every event an upload has passed, or it can never be dated.
Passed ==
  upload.on =>
    \A i \in 1..Len(queue) : i <= upload.offset =>
      Undatable(queue[i]) \/ \E a \in accepted : a[1] = queue[i].at

\* What was sent are events of the queue the upload has passed.
SentOfQueue ==
  upload.on =>
    \A x \in upload.sent :
      /\ x.place \in 1..Len(queue) /\ x.place <= upload.offset
      /\ x.event = queue[x.place] /\ ~Undatable(x.event)

\* No time sent is after the stamp the next batch starts from.
Forward ==
  upload.on /\ Correctable =>
    /\ \A x \in upload.sent : x.start <= upload.previous
    /\ \A x, y \in upload.sent : x.place < y.place => x.start <= y.start

IInv == ClockInv /\ QueueInv /\ Passed /\ SentOfQueue /\ Forward

\* Without an upload nothing is claimed of one.
LEMMA NoUpload ==
  ASSUME ClockInv', QueueInv', ~upload'.on
  PROVE  IInv'
BY DEF IInv, Passed, SentOfQueue, Forward

\* An upload that is over is one, and has sent nothing.
LEMMA IdleIsUpload ==
  /\ Idle \in UploadRecord /\ ~Idle.on /\ Idle.sent = {}
  /\ [Idle EXCEPT !.refused = TRUE] \in UploadRecord
  /\ ~[Idle EXCEPT !.refused = TRUE].on /\ [Idle EXCEPT !.refused = TRUE].sent = {}
  /\ [Idle EXCEPT !.refused = TRUE].refused
<1>1. Idle \in UploadRecord /\ ~Idle.on /\ Idle.sent = {}
  BY DEF Idle, UploadRecord
<1>2. [Idle EXCEPT !.refused = TRUE] \in UploadRecord
  BY <1>1 DEF UploadRecord
<1>3. /\ [Idle EXCEPT !.refused = TRUE].on = Idle.on
      /\ [Idle EXCEPT !.refused = TRUE].sent = Idle.sent
      /\ [Idle EXCEPT !.refused = TRUE].refused = TRUE
  BY <1>1 DEF UploadRecord
<1>4. QED
  BY <1>1, <1>2, <1>3

\* The invariant holds at the start.
LEMMA InitInv == Init => IInv
<1> SUFFICES ASSUME Init PROVE IInv
  OBVIOUS
<1>1. ClockInv
  BY ClockInitInv DEF Init
<1>2. upload = Idle /\ ending = FALSE /\ read = 0 /\ pending = <<>> /\ queue = <<>>
  BY DEF Init
<1>3. <<>> \in Seq(Event) /\ Len(<<>>) = 0
  BY EmptySeq
<1>4. read \in 0..MaxEvents /\ Len(queue) <= MaxQueued
  BY <1>2, <1>3, UploadConstants
<1>5. QueueInv
  BY <1>2, <1>3, <1>4, IdleIsUpload DEF QueueInv
<1>6. QED
  BY <1>1, <1>2, <1>5, IdleIsUpload DEF IInv, Passed, SentOfQueue, Forward

\* The start of a page read for one tick.
LEMMA StartType ==
  ASSUME NEW now \in Nat
  PROVE  (IF now > 1 THEN now - 1 ELSE now) \in Nat
OBVIOUS

\* A page turn queues an event in RAM.
LEMMA TurnPageInv == IInv /\ TurnPage => IInv'
<1> SUFFICES ASSUME IInv, TurnPage PROVE IInv'
  OBVIOUS
<1>1. ClockInv'
  BY TimePassesInv DEF IInv, TurnPage
<1>2. clock' \in Nat /\ state.era \in Nat /\ real \in Nat
  BY <1>1, ClockConstants DEF IInv, ClockInv
<1> DEFINE start == IF clock' > 1 THEN clock' - 1 ELSE clock'
           e == [start |-> start, era |-> state.era, at |-> real, syncs |-> 0]
<1>3. start \in Nat
  BY <1>2, StartType, Zenon
<1> HIDE DEF start
<1>4. e \in Event
  BY <1>2, <1>3 DEF Event
<1>5. pending' = Append(pending, e)
  BY Zenon DEF TurnPage, start
<1> HIDE DEF e
<1>6. pending' \in Seq(Event)
  BY <1>4, <1>5, AppendProperties DEF IInv, QueueInv
<1>7. read' \in 0..MaxEvents
  BY UploadConstants DEF TurnPage, IInv, QueueInv
<1>8. UNCHANGED <<queue, ending, upload, accepted>> /\ ~upload.on /\ ~ending
  BY DEF TurnPage
<1>9. QueueInv'
  BY <1>6, <1>7, <1>8 DEF IInv, QueueInv
<1>10. QED
  BY <1>1, <1>8, <1>9, NoUpload

\* What the cap keeps: the last of the queue with the session behind it.
LEMMA AppendedKeepsLast ==
  ASSUME QueueInv
  PROVE  /\ Appended \in Seq(Event) /\ Len(Appended) <= MaxQueued
         /\ Len(Appended) = MaxQueued
            \/ \A i \in 1..Len(queue) : i \in DOMAIN Appended /\ Appended[i] = queue[i]
<1> DEFINE all == queue \o pending
           over == Len(all) - MaxQueued + 1
           first == Larger(1, over)
<1>1. queue \in Seq(Event) /\ pending \in Seq(Event)
  BY DEF QueueInv
<1>2. Len(queue) \in Nat /\ Len(pending) \in Nat
  BY <1>1, LenProperties
<1>3. /\ all \in Seq(Event) /\ Len(all) = Len(queue) + Len(pending)
      /\ \A i \in 1..Len(queue) + Len(pending) :
           all[i] = IF i <= Len(queue) THEN queue[i] ELSE pending[i - Len(queue)]
  BY <1>1, ConcatProperties
<1>4. Appended = SubSeq(all, first, Len(all))
  BY DEF Appended
<1> HIDE DEF all
<1>5. Len(all) \in Nat /\ over \in Int
  BY <1>2, <1>3, UploadConstants
<1>6. /\ first \in Int /\ first >= 1 /\ first >= Len(all) - MaxQueued + 1
      /\ first = 1 \/ first = Len(all) - MaxQueued + 1
  BY <1>5 DEF Larger
<1> HIDE DEF first, over
<1>7. \A i \in first..Len(all) : all[i] \in Event
  <2>1. ASSUME NEW i \in first..Len(all) PROVE i \in 1..Len(all)
    BY <1>5, <1>6
  <2>2. QED
    BY <1>3, <2>1, ElementOfSeq
<1>8. /\ Appended \in Seq(Event)
      /\ Len(Appended) = IF first <= Len(all) THEN Len(all) - first + 1 ELSE 0
      /\ \A i \in 1..Len(all) - first + 1 : Appended[i] = all[first + i - 1]
  BY <1>4, <1>5, <1>6, <1>7, SubSeqProperties
<1>9. Len(Appended) <= MaxQueued
  BY <1>5, <1>6, <1>8, UploadConstants
<1>10. CASE first = 1
  <2>1. Len(Appended) = Len(all)
    BY <1>5, <1>8, <1>10
  <2>2. ASSUME NEW i \in 1..Len(queue)
        PROVE  i \in DOMAIN Appended /\ Appended[i] = queue[i]
    <3>1. i \in 1..Len(all) /\ first + i - 1 = i /\ i \in 1..Len(all) - first + 1
      BY <1>2, <1>3, <1>5, <1>10
    <3>2. DOMAIN Appended = 1..Len(all)
      BY <1>8, <2>1, LenProperties
    <3>3. all[i] = queue[i]
      BY <1>2, <1>3
    <3>4. QED
      BY <1>8, <3>1, <3>2, <3>3
  <2>3. QED
    BY <1>8, <1>9, <2>2
<1>11. CASE first = Len(all) - MaxQueued + 1
  BY <1>5, <1>6, <1>8, <1>9, <1>11, UploadConstants
<1>12. QED
  BY <1>6, <1>10, <1>11

\* The end of a session moves its events to the card, under the cap.
LEMMA EndSessionInv == IInv /\ EndSession => IInv'
<1> SUFFICES ASSUME IInv, EndSession PROVE IInv'
  OBVIOUS
<1>1. UNCHANGED clockVars /\ UNCHANGED <<upload, accepted, read>> /\ ~upload.on
      /\ queue' = Appended /\ pending' = <<>> /\ ending' = TRUE
  BY DEF EndSession
<1>2. ClockInv'
  BY <1>1 DEF IInv, ClockInv, clockVars
<1>3. pending' \in Seq(Event)
  BY <1>1, EmptySeq
<1>4. queue' \in Seq(Event) /\ Len(queue') <= MaxQueued
  BY <1>1, AppendedKeepsLast DEF IInv
<1>5. QueueInv'
  BY <1>1, <1>3, <1>4 DEF IInv, QueueInv
<1>6. QED
  BY <1>1, <1>2, <1>5, NoUpload

\* The checkpoint after it touches only the clock.
LEMMA SaveTimeInv == IInv /\ SaveTime => IInv'
<1> SUFFICES ASSUME IInv, SaveTime PROVE IInv'
  OBVIOUS
<1>1. ClockInv'
  BY CheckpointInv DEF IInv, SaveTime
<1>2. UNCHANGED <<pending, queue, upload, accepted, read>> /\ ending /\ ending' = FALSE
  BY DEF SaveTime
<1>3. ~upload.on
  BY <1>2 DEF IInv, QueueInv
<1>4. QueueInv'
  BY <1>2, <1>3 DEF IInv, QueueInv
<1>5. QED
  BY <1>1, <1>2, <1>3, <1>4, NoUpload

\* An upload starts with nothing passed and nothing sent.
LEMMA BeginUploadInv == IInv /\ BeginUpload => IInv'
<1> SUFFICES ASSUME IInv, BeginUpload PROVE IInv'
  OBVIOUS
<1> DEFINE instant == IF IsPlausible(clock) THEN clock ELSE 0
<1>1. UNCHANGED clockVars /\ UNCHANGED <<pending, queue, ending, accepted, read>>
      /\ ~upload.on /\ ~ending
      /\ upload' = [Idle EXCEPT !.on = TRUE, !.total = Smaller(Len(queue), MaxQueued),
                                !.instant = instant]
  BY Zenon DEF BeginUpload
<1>2. clock \in Nat
  BY ClockConstants DEF IInv, ClockInv
<1>3. instant \in Nat
  BY <1>2
<1> HIDE DEF instant
<1>4. Smaller(Len(queue), MaxQueued) = Len(queue) /\ Len(queue) \in Nat
  BY LenProperties, UploadConstants DEF IInv, QueueInv, Smaller
<1>5. Idle \in UploadRecord /\ Idle.sent = {} /\ Idle.offset = 0
  BY IdleIsUpload DEF Idle
<1>6. /\ upload' \in UploadRecord /\ upload'.sent = {} /\ upload'.offset = 0
      /\ upload'.total = Len(queue)
  BY <1>1, <1>3, <1>4, <1>5 DEF UploadRecord
<1>7. ClockInv'
  BY <1>1 DEF IInv, ClockInv, clockVars
<1>8. QueueInv'
  BY <1>1, <1>6 DEF IInv, QueueInv
<1>9. Passed' /\ SentOfQueue' /\ Forward'
  BY <1>1, <1>4, <1>6 DEF Passed, SentOfQueue, Forward
<1>10. QED
  BY <1>7, <1>8, <1>9 DEF IInv

\* What is sent of a batch: its events that can be dated, with their stamps.
LEMMA DatableOfBatch ==
  ASSUME IInv, upload.on, upload.offset < upload.total,
         NEW x \in Datable
  PROVE  /\ x \in SentEvent /\ ~Undatable(x.event)
         /\ x.place \in 1..Len(queue) /\ x.event = queue[x.place]
         /\ upload.offset < x.place /\ x.place <= upload.offset + BatchSize
         /\ x.place - upload.offset \in 1..Len(Batch)
         /\ x.start = Stamps[x.place - upload.offset]
<1>1. PICK i \in 1..Len(Batch) :
        x = [place |-> upload.offset + i, event |-> Batch[i], start |-> Stamps[i]]
  BY DEF Datable, Stamped
<1>2. ~Undatable(x.event)
  BY DEF Datable
<1>3. /\ Batch \in Seq(Event) /\ Len(Batch) \in Nat
      /\ upload.offset + i \in 1..Len(queue)
      /\ upload.offset + i <= upload.offset + BatchSize
      /\ Batch[i] = queue[upload.offset + i]
  BY BatchIsNext DEF IInv
<1>4. Stamps[i] \in Int
  BY <1>3, StampsType DEF IInv
<1>5. Batch[i] \in Event
  BY <1>3, ElementOfSeq
<1>6. upload.offset \in Nat
  BY DEF IInv, QueueInv, UploadRecord
<1>7. x.place = upload.offset + i /\ x.event = Batch[i] /\ x.start = Stamps[i]
  BY <1>1
<1>8. x \in SentEvent
  BY <1>1, <1>4, <1>5, <1>6 DEF SentEvent
<1>9. upload.offset < x.place /\ x.place - upload.offset = i
  BY <1>6, <1>7
<1>10. QED
  BY <1>2, <1>3, <1>7, <1>8, <1>9

\* What a batch leaves of the upload.
LEMMA ContinuedUpload ==
  ASSUME IInv, upload.on, upload.offset < upload.total, upload' = Continued(Datable)
  PROVE  /\ upload' \in UploadRecord /\ upload'.on
         /\ upload'.offset = upload.offset + BatchSize
         /\ upload'.previous = Stamps[Len(Batch)]
         /\ upload'.sent = upload.sent \cup Datable
         /\ upload'.total = upload.total /\ upload'.instant = upload.instant
<1> DEFINE offset == upload.offset + BatchSize
           stamp == Stamps[Len(Batch)]
           all == upload.sent \cup Datable
<1>1. upload' = [upload EXCEPT !.offset = offset, !.previous = stamp, !.sent = all]
  BY Zenon DEF Continued
<1>2. upload \in UploadRecord /\ upload.offset \in Nat
  BY DEF IInv, QueueInv, UploadRecord
<1>3. stamp \in Int
  <2>1. Len(Batch) \in Nat \ {0} /\ \A i \in 0..Len(Batch) : Stamps[i] \in Int
    BY BatchIsNext, StampsType DEF IInv
  <2>2. QED
    BY <2>1
<1>4. offset \in Nat /\ all \in SUBSET SentEvent
  BY <1>2, DatableOfBatch, UploadConstants DEF UploadRecord
<1> HIDE DEF offset, stamp, all
<1>5. /\ upload' \in UploadRecord /\ upload'.on
      /\ upload'.offset = offset /\ upload'.previous = stamp
      /\ upload'.sent = all /\ upload'.total = upload.total
      /\ upload'.instant = upload.instant
  BY <1>1, <1>2, <1>3, <1>4 DEF UploadRecord
<1>6. QED
  BY <1>5 DEF offset, stamp, all

\* A batch that is passed, sent or not.
LEMMA BatchPassed ==
  ASSUME IInv, upload.on, upload.offset < upload.total,
         upload' = Continued(Datable),
         UNCHANGED <<clockVars, pending, queue, ending, read>>,
         accepted \subseteq accepted', Received \subseteq accepted'
  PROVE  IInv'
<1>1. /\ upload \in UploadRecord /\ upload.offset \in Nat /\ upload.previous \in Int
      /\ Len(queue) \in Nat
  BY LenProperties DEF IInv, QueueInv, UploadRecord
<1>2. /\ Len(Batch) \in Nat \ {0} /\ Batch \in Seq(Event)
  BY BatchIsNext DEF IInv
<1>3. Stamps[Len(Batch)] \in Int /\ \A i \in 0..Len(Batch) : Stamps[i] \in Int
  BY <1>2, StampsType DEF IInv
<1>4. /\ upload' \in UploadRecord /\ upload'.on
      /\ upload'.offset = upload.offset + BatchSize
      /\ upload'.previous = Stamps[Len(Batch)]
      /\ upload'.sent = upload.sent \cup Datable
      /\ upload'.total = upload.total
  BY ContinuedUpload
<1>5. queue' = queue /\ state' = state /\ pending' = pending /\ ending' = ending /\ read' = read
  BY DEF clockVars
<1>6. \A e : Undatable(e)' <=> Undatable(e)
  BY <1>5 DEF Undatable, Measured
<1>7. ClockInv'
  BY DEF IInv, ClockInv, clockVars
<1>8. QueueInv'
  BY <1>4, <1>5 DEF IInv, QueueInv
<1>9. Passed'
  <2> SUFFICES ASSUME NEW k \in 1..Len(queue), k <= upload.offset + BatchSize
               PROVE  Undatable(queue[k]) \/ \E a \in accepted' : a[1] = queue[k].at
    BY <1>4, <1>5 DEF Passed, Undatable, Measured
  <2>1. CASE k <= upload.offset
    BY <2>1 DEF IInv, Passed
  <2>2. CASE ~(k <= upload.offset) /\ ~Undatable(queue[k])
    <3> DEFINE i == k - upload.offset
               x == [place |-> upload.offset + i, event |-> Batch[i], start |-> Stamps[i]]
    <3>1. upload.offset < k
      BY <1>1, <2>2
    <3>2. i \in 1..Len(Batch) /\ upload.offset + i = k
      BY <1>1, <3>1, BatchIsNext DEF IInv
    <3> HIDE DEF i
    <3>3. Batch[i] = queue[k]
      BY <3>2, BatchIsNext DEF IInv
    <3>4. x \in Stamped
      BY <3>2 DEF Stamped
    <3>5. x.event = queue[k]
      BY <3>3
    <3> HIDE DEF x
    <3>6. x \in Datable
      BY <2>2, <3>4, <3>5 DEF Datable
    <3>7. <<x.event.at, x.start>> \in accepted'
      BY <3>6 DEF Received
    <3>8. <<x.event.at, x.start>>[1] = queue[k].at
      BY <3>5
    <3>9. QED
      BY <3>7, <3>8
  <2>3. QED
    BY <2>1, <2>2
<1>10. SentOfQueue'
  <2> SUFFICES ASSUME NEW x \in upload.sent \cup Datable
               PROVE  /\ x.place \in 1..Len(queue)
                      /\ x.place <= upload.offset + BatchSize
                      /\ x.event = queue[x.place]
                      /\ ~Undatable(x.event)
    BY <1>4, <1>5 DEF SentOfQueue, Undatable, Measured
  <2>1. CASE x \in upload.sent
    <3>1. /\ x.place \in 1..Len(queue) /\ x.place <= upload.offset
          /\ x.event = queue[x.place] /\ ~Undatable(x.event)
      BY <2>1 DEF IInv, SentOfQueue
    <3>2. x.place <= upload.offset + BatchSize
      BY <1>1, <3>1, UploadConstants
    <3>3. QED
      BY <3>1, <3>2
  <2>2. CASE x \in Datable
    BY <2>2, DatableOfBatch
  <2>3. QED
    BY <2>1, <2>2
<1>11. Forward'
  <2>1. Correctable' <=> Correctable
    BY <1>5 DEF Correctable, Undatable, Measured
  <2> SUFFICES ASSUME Correctable
               PROVE  /\ \A x \in upload.sent \cup Datable : x.start <= Stamps[Len(Batch)]
                      /\ \A x, y \in upload.sent \cup Datable :
                           x.place < y.place => x.start <= y.start
    BY <1>4, <2>1 DEF Forward
  <2>2. \A x \in upload.sent : x.start \in Int /\ x.start <= upload.previous
    BY <1>1 DEF IInv, Forward, UploadRecord, SentEvent
  \* Behind an event that can be dated all are of measured eras.
  <2>3. ASSUME NEW p \in 1..Len(queue), ~Undatable(queue[p]),
               NEW k \in 1..Len(Batch), p <= upload.offset + k
        PROVE  Measured(Batch[k].era)
    <3>1. upload.offset + k \in 1..Len(queue) /\ Batch[k] = queue[upload.offset + k]
      BY BatchIsNext DEF IInv
    <3>2. p \in 1..upload.offset + k
      BY <1>1, <2>3
    <3>3. DOMAIN queue = 1..Len(queue)
      BY LenProperties DEF IInv, QueueInv
    <3>4. QED
      BY <2>3, <3>1, <3>2, <3>3 DEF Correctable
  <2>4. ASSUME NEW x \in upload.sent, NEW j \in 0..Len(Batch)
        PROVE  x.start <= Stamps[j]
    <3>1. /\ x.place \in 1..Len(queue) /\ x.place <= upload.offset
          /\ x.event = queue[x.place] /\ ~Undatable(x.event)
      BY DEF IInv, SentOfQueue
    <3>2. \A k \in 0 + 1..j : Measured(Batch[k].era)
      <4>1. ASSUME NEW k \in 0 + 1..j PROVE Measured(Batch[k].era)
        <5>1. k \in 1..Len(Batch) /\ x.place <= upload.offset + k
          BY <1>1, <1>2, <3>1
        <5>2. QED
          BY <2>3, <3>1, <5>1
      <4>2. QED
        BY <4>1
    <3>3. 0 \in 0..Len(Batch) /\ 0 <= j
      BY <1>2
    <3>4. Stamps[0] <= Stamps[j]
      BY <3>2, <3>3, StampsForward DEF IInv
    <3>5. Stamps[0] = upload.previous
      BY StampsType DEF IInv
    <3>6. QED
      BY <1>1, <1>3, <2>2, <3>4, <3>5
  <2>5. ASSUME NEW x \in Datable, NEW j \in 0..Len(Batch), x.place - upload.offset <= j
        PROVE  x.start <= Stamps[j]
    <3> DEFINE i == x.place - upload.offset
    <3>1. /\ x.place \in 1..Len(queue) /\ x.event = queue[x.place] /\ ~Undatable(x.event)
          /\ i \in 1..Len(Batch) /\ x.start = Stamps[i]
      BY DatableOfBatch
    <3>2. i \in 0..Len(Batch) /\ i <= j /\ x.place = upload.offset + i
      BY <1>1, <1>2, <2>5, <3>1
    <3> HIDE DEF i
    <3>3. \A k \in i + 1..j : Measured(Batch[k].era)
      <4>1. ASSUME NEW k \in i + 1..j PROVE Measured(Batch[k].era)
        <5>1. k \in 1..Len(Batch) /\ x.place <= upload.offset + k
          BY <1>1, <1>2, <3>1, <3>2
        <5>2. QED
          BY <2>3, <3>1, <5>1
      <4>2. QED
        BY <4>1
    <3>4. Stamps[i] <= Stamps[j]
      BY <3>2, <3>3, StampsForward DEF IInv
    <3>5. QED
      BY <3>1, <3>4
  <2>6. ASSUME NEW x \in upload.sent \cup Datable
        PROVE  x.start <= Stamps[Len(Batch)]
    <3>1. Len(Batch) \in 0..Len(Batch)
      BY <1>2
    <3>2. CASE x \in upload.sent
      BY <2>4, <3>1, <3>2
    <3>3. CASE x \in Datable
      <4>1. x.place - upload.offset <= Len(Batch)
        BY <1>2, <3>3, DatableOfBatch
      <4>2. QED
        BY <2>5, <3>1, <3>3, <4>1
    <3>4. QED
      BY <3>2, <3>3
  <2>7. ASSUME NEW x \in upload.sent \cup Datable, NEW y \in upload.sent \cup Datable,
               x.place < y.place
        PROVE  x.start <= y.start
    <3>1. CASE y \in upload.sent /\ x \in upload.sent
      BY <2>7, <3>1 DEF IInv, Forward
    <3>2. CASE y \in upload.sent /\ x \in Datable
      <4>1. y.place \in 1..Len(queue) /\ y.place <= upload.offset
        BY <3>2 DEF IInv, SentOfQueue
      <4>2. upload.offset < x.place /\ x.place \in 1..Len(queue)
        BY <3>2, DatableOfBatch
      <4>3. QED
        BY <1>1, <2>7, <4>1, <4>2
    <3>3. CASE y \in Datable
      <4> DEFINE j == y.place - upload.offset
      <4>1. j \in 1..Len(Batch) /\ y.start = Stamps[j] /\ y.place \in 1..Len(queue)
        BY <3>3, DatableOfBatch
      <4>2. j \in 0..Len(Batch)
        BY <1>2, <4>1
      <4>3. CASE x \in upload.sent
        BY <2>4, <4>1, <4>2, <4>3
      <4>4. CASE x \in Datable
        <5>1. x.place \in 1..Len(queue)
          BY <4>4, DatableOfBatch
        <5>2. x.place - upload.offset <= j
          BY <1>1, <2>7, <4>1, <5>1
        <5>3. x.start <= Stamps[j]
          BY <2>5, <4>2, <4>4, <5>2
        <5>4. QED
          BY <4>1, <5>3
      <4>5. QED
        BY <4>3, <4>4
    <3>4. QED
      BY <3>1, <3>2, <3>3
  <2>8. QED
    BY <2>6, <2>7
<1>12. QED
  BY <1>7, <1>8, <1>9, <1>10, <1>11 DEF IInv

\* A batch nothing of which can be dated is passed as one that is sent.
LEMMA SkipBatchInv == IInv /\ SkipBatch => IInv'
<1> SUFFICES ASSUME IInv, SkipBatch PROVE IInv'
  OBVIOUS
<1>1. /\ upload.on /\ upload.offset < upload.total
      /\ Datable = {} /\ upload' = Continued(Datable)
      /\ UNCHANGED <<clockVars, pending, queue, ending, read>>
      /\ accepted' = accepted
  BY DEF SkipBatch
<1>2. Received = {}
  BY <1>1 DEF Received
<1>3. QED
  BY <1>1, <1>2, BatchPassed

\* A batch the server takes is passed with all its datable events received.
LEMMA SendBatchInv == IInv /\ SendBatch => IInv'
BY BatchPassed DEF SendBatch, Sending

\* An upload that ends, with the queue as it was or cleared.
LEMMA UploadEnds ==
  ASSUME IInv, UNCHANGED <<clockVars, pending, ending, read>>,
         upload' \in {Idle, [Idle EXCEPT !.refused = TRUE]},
         queue' \in {queue, <<>>}
  PROVE  IInv'
<1>1. upload' \in UploadRecord /\ ~upload'.on /\ upload'.sent = {}
  BY IdleIsUpload
<1>2. ClockInv'
  BY DEF IInv, ClockInv, clockVars
<1>3. queue' \in Seq(Event) /\ Len(queue') <= MaxQueued
  <2>1. <<>> \in Seq(Event) /\ Len(<<>>) = 0 /\ 0 <= MaxQueued
    BY EmptySeq, UploadConstants
  <2>2. queue \in Seq(Event) /\ Len(queue) <= MaxQueued
    BY DEF IInv, QueueInv
  <2>3. CASE queue' = queue
    BY <2>2, <2>3
  <2>4. CASE queue' = <<>>
    BY <2>1, <2>4
  <2>5. QED
    BY <2>3, <2>4
<1>4. QueueInv'
  BY <1>1, <1>3 DEF IInv, QueueInv
<1>5. QED
  BY <1>1, <1>2, <1>4, NoUpload

\* A failed request ends the upload and keeps the queue.
LEMMA FailedBatchInv == IInv /\ FailedBatch => IInv'
BY UploadEnds DEF FailedBatch, Kept

\* A server without the endpoint ends the upload and the queue.
LEMMA RefusedBatchInv == IInv /\ RefusedBatch => IInv'
BY UploadEnds DEF RefusedBatch

\* The last batch ends the upload and the queue.
LEMMA FinishUploadInv == IInv /\ FinishUpload => IInv'
BY UploadEnds DEF FinishUpload

\* An event that counts one more sync is still an event of its time.
LEMMA CountedEvent ==
  ASSUME NEW e \in Event, NEW n \in Nat
  PROVE  [e EXCEPT !.syncs = @ + n] \in Event /\ [e EXCEPT !.syncs = @ + n].at = e.at
BY DEF Event

\* Counting the syncs changes nothing else of the events.
LEMMA ResyncedKeeps ==
  ASSUME NEW s \in Seq(Event)
  PROVE  /\ Resynced(s) \in Seq(Event) /\ Len(Resynced(s)) = Len(s)
         /\ DOMAIN Resynced(s) = DOMAIN s
         /\ \A i \in DOMAIN s : Resynced(s)[i].at = s[i].at
<1> DEFINE more(e) == IF e.era = state.era THEN 1 ELSE 0
           counted(e) == [e EXCEPT !.syncs = @ + more(e)]
<1>1. DOMAIN s = 1..Len(s) /\ Len(s) \in Nat /\ \A i \in DOMAIN s : s[i] \in Event
  BY LenProperties, ElementOfSeq
<1>2. ASSUME NEW e \in Event
      PROVE  counted(e) \in Event /\ counted(e).at = e.at
  <2>1. more(e) \in Nat
    OBVIOUS
  <2> HIDE DEF more
  <2>2. [e EXCEPT !.syncs = @ + more(e)] \in Event /\ [e EXCEPT !.syncs = @ + more(e)].at = e.at
    BY <2>1, CountedEvent, Zenon
  <2>3. QED
    BY <2>2
<1>3. Resynced(s) = [i \in DOMAIN s |-> counted(s[i])]
  BY DEF Resynced
<1> HIDE DEF counted
<1>4. \A i \in DOMAIN s : Resynced(s)[i] = counted(s[i])
  BY <1>3
<1>5. Resynced(s) \in [1..Len(s) -> Event]
  BY <1>1, <1>2, <1>3
<1>6. Resynced(s) \in Seq(Event)
  BY <1>1, <1>5
<1>7. Len(Resynced(s)) = Len(s)
  BY <1>1, <1>3, <1>6, LenProperties
<1>8. QED
  BY <1>1, <1>2, <1>3, <1>4, <1>6, <1>7

\* A synchronisation comes between uploads and leaves the queue in place.
LEMMA SyncInv == IInv /\ Sync => IInv'
<1> SUFFICES ASSUME IInv, Sync PROVE IInv'
  OBVIOUS
<1>1. ClockInv'
  BY NtpSyncInv DEF IInv, Sync
<1>2. /\ queue' = Resynced(queue) /\ pending' = Resynced(pending)
      /\ UNCHANGED <<ending, upload, accepted, read>> /\ ~upload.on
  BY DEF Sync
<1>3. queue' \in Seq(Event) /\ pending' \in Seq(Event) /\ Len(queue') = Len(queue)
  BY <1>2, ResyncedKeeps DEF IInv, QueueInv
<1>4. QueueInv'
  BY <1>2, <1>3 DEF IInv, QueueInv
<1>5. QED
  BY <1>1, <1>2, <1>4, NoUpload

\* Time passing or set leaves the queue alone.
LEMMA IdlingInv == IInv /\ Idling => IInv'
<1> SUFFICES ASSUME IInv, Idling PROVE IInv'
  OBVIOUS
<1>1. ClockInv'
  BY TimePassesInv, ApplyClientTimeInv DEF IInv, Idling
<1>2. UNCHANGED <<pending, queue, ending, upload, accepted, read>> /\ ~upload.on
  BY DEF Idling
<1>3. QueueInv'
  BY <1>2 DEF IInv, QueueInv
<1>4. QED
  BY <1>1, <1>2, <1>3, NoUpload

\* A restart loses the session and the upload and keeps the queue.
LEMMA RestartInv == IInv /\ Restart => IInv'
<1> SUFFICES ASSUME IInv, Restart PROVE IInv'
  OBVIOUS
<1>1. ClockInv'
  BY SleepInv, ResetInv, PowerLossInv DEF IInv, Restart
<1>2. pending' = <<>> /\ ending' = FALSE /\ upload' = Idle /\ UNCHANGED <<queue, accepted, read>>
  BY DEF Restart
<1>3. QueueInv'
  BY <1>2, EmptySeq, IdleIsUpload DEF IInv, QueueInv
<1>4. QED
  BY <1>1, <1>2, <1>3, IdleIsUpload, NoUpload

\* Every step keeps the invariant.
LEMMA NextInv == IInv /\ [Next]_vars => IInv'
<1> SUFFICES ASSUME IInv, [Next]_vars PROVE IInv'
  OBVIOUS
<1>1. CASE TurnPage
  BY <1>1, TurnPageInv
<1>2. CASE EndSession
  BY <1>2, EndSessionInv
<1>3. CASE SaveTime
  BY <1>3, SaveTimeInv
<1>4. CASE BeginUpload
  BY <1>4, BeginUploadInv
<1>5. CASE SkipBatch
  BY <1>5, SkipBatchInv
<1>6. CASE SendBatch
  BY <1>6, SendBatchInv
<1>7. CASE FailedBatch
  BY <1>7, FailedBatchInv
<1>8. CASE RefusedBatch
  BY <1>8, RefusedBatchInv
<1>9. CASE FinishUpload
  BY <1>9, FinishUploadInv
<1>10. CASE Sync
  BY <1>10, SyncInv
<1>11. CASE Idling
  BY <1>11, IdlingInv
<1>12. CASE Restart
  BY <1>12, RestartInv
<1>13. CASE UNCHANGED vars
  BY <1>13 DEF vars, clockVars, IInv, ClockInv, QueueInv, Passed, SentOfQueue, Forward,
               Correctable, Undatable, Measured
<1>14. QED
  BY <1>1, <1>2, <1>3, <1>4, <1>5, <1>6, <1>7, <1>8, <1>9, <1>10, <1>11, <1>12, <1>13
     DEF Next

\* The invariant holds in every state the device can be in.
THEOREM Invariant == Spec => []IInv
<1>1. QED
  BY InitInv, NextInv, PTL DEF Spec

-----------------------------------------------------------------------------
(* The theorems.                                                           *)

\* The clock, the queue and the upload keep their types and bounds: no clock
\* runs past the true time by more than its drift and the queue never grows
\* over its cap (appendBatch).
THEOREM TypeCorrect == Spec => []TypeOK
<1>1. IInv => TypeOK
  <2> SUFFICES ASSUME IInv PROVE TypeOK
    OBVIOUS
  <2>1. ClockTypeOK
    BY ClockTyped DEF IInv
  <2>2. \A s \in {pending, queue} : Elements(s) \subseteq Event
    <3>1. ASSUME NEW s \in Seq(Event) PROVE Elements(s) \subseteq Event
      BY LenProperties, ElementOfSeq DEF Elements
    <3>2. QED
      BY <3>1 DEF IInv, QueueInv
  <2>3. QED
    BY <2>1, <2>2 DEF IInv, QueueInv, TypeOK
<1>2. QED
  BY Invariant, <1>1, PTL

\* One upload of uploadQueuedStats never goes back in time, whatever eras its
\* events are of and whatever was measured of them.
THEOREM UploadsGoForward == Spec => []Chronological
<1>1. IInv => Chronological
  <2> SUFFICES ASSUME IInv PROVE Chronological
    OBVIOUS
  <2>1. CASE upload.on
    BY <2>1 DEF IInv, Forward, Chronological
  <2>2. CASE ~upload.on
    BY <2>2 DEF IInv, QueueInv, Chronological
  <2>3. QED
    BY <2>1, <2>2
<1>2. QED
  BY Invariant, <1>1, PTL

\* What a step may take out of the queue.
KeptStep ==
  \A e \in Elements(queue) :
    e.at \notin Held(queue') =>
      \/ \E a \in accepted : a[1] = e.at
      \/ Undatable(e)
      \/ Len(queue') = MaxQueued
      \/ upload'.refused

\* Where every place of the queue keeps its event's time, nothing leaves it.
LEMMA PlacesKept ==
  ASSUME \A i \in DOMAIN queue : i \in DOMAIN queue' /\ queue'[i].at = queue[i].at
  PROVE  KeptStep
<1> SUFFICES ASSUME NEW e \in Elements(queue) PROVE e.at \in Held(queue')
  BY DEF KeptStep
<1>1. PICK i \in DOMAIN queue : e = queue[i]
  BY DEF Elements
<1>2. i \in DOMAIN queue' /\ queue'[i].at = e.at
  BY <1>1
<1>3. QED
  BY <1>2 DEF Held

\* Every step keeps an event or has a reason not to.
LEMMA NextKeeps == IInv /\ [Next]_vars => KeptStep
<1> SUFFICES ASSUME IInv, [Next]_vars PROVE KeptStep
  OBVIOUS
<1>1. DOMAIN queue = 1..Len(queue) /\ Len(queue) \in Nat /\ queue \in Seq(Event)
  BY LenProperties DEF IInv, QueueInv
<1>2. CASE UNCHANGED queue
  BY <1>2, PlacesKept
<1>3. CASE EndSession
  <2>1. queue' = Appended
    BY <1>3 DEF EndSession
  <2>2. CASE Len(Appended) = MaxQueued
    BY <2>1, <2>2 DEF KeptStep
  <2>3. CASE \A i \in 1..Len(queue) : i \in DOMAIN Appended /\ Appended[i] = queue[i]
    <3>1. \A i \in DOMAIN queue : i \in DOMAIN queue' /\ queue'[i].at = queue[i].at
      BY <1>1, <2>1, <2>3
    <3>2. QED
      BY <3>1, PlacesKept
  <2>4. QED
    BY <2>2, <2>3, AppendedKeepsLast DEF IInv
<1>4. CASE Sync
  <2>1. queue' = Resynced(queue)
    BY <1>4 DEF Sync
  <2>2. QED
    BY <1>1, <2>1, ResyncedKeeps, PlacesKept
<1>5. CASE RefusedBatch
  BY <1>5, IdleIsUpload DEF RefusedBatch, KeptStep
<1>6. CASE FinishUpload
  <2>1. upload.on /\ upload.total = Len(queue) /\ upload.offset >= upload.total
    BY <1>6 DEF FinishUpload, IInv, QueueInv
  <2>2. upload.offset \in Nat
    BY DEF IInv, QueueInv, UploadRecord
  <2>3. ASSUME NEW e \in Elements(queue)
        PROVE  Undatable(e) \/ \E a \in accepted : a[1] = e.at
    <3>1. PICK i \in 1..Len(queue) : e = queue[i]
      BY <1>1 DEF Elements
    <3>2. i <= upload.offset
      BY <1>1, <2>1, <2>2
    <3>3. QED
      BY <2>1, <3>1, <3>2 DEF IInv, Passed
  <2>4. QED
    BY <2>3 DEF KeptStep
<1>7. TurnPage \/ SaveTime \/ BeginUpload \/ SkipBatch \/ SendBatch \/ FailedBatch
      \/ Idling \/ Restart \/ UNCHANGED vars => UNCHANGED queue
  BY DEF TurnPage, SaveTime, BeginUpload, SkipBatch, SendBatch, FailedBatch, Kept,
         Idling, Restart, vars
<1>8. QED
  BY <1>2, <1>3, <1>4, <1>5, <1>6, <1>7 DEF Next

\* An event leaves the queue only once the server has it, when it can never be
\* dated, over the cap, or when the server takes none: whatever batch failed,
\* whichever answer was lost and wherever the device restarted.
THEOREM NothingLost == Spec => KeptUntilSent
<1>1. KeptUntilSent <=> [][KeptStep]_vars
  BY DEF KeptUntilSent, KeptStep
<1>2. QED
  BY Invariant, NextKeeps, <1>1, PTL DEF Spec

-----------------------------------------------------------------------------
(* Rounding.                                                               *)

\* A quotient lies between the numbers its multiples lie between.
LEMMA QuotientBetween ==
  ASSUME NEW m \in Int, NEW d \in Int, d > 0, NEW lo \in Int, NEW hi \in Int,
         d * lo <= m, m < d * (hi + 1)
  PROVE  m \div d \in lo..hi
<1> DEFINE q == m \div d
<1>1. q \in Int /\ d * q <= m /\ m < d * q + d
  OBVIOUS
<1> HIDE DEF q
<1>2. ~(q < lo)
  <2>1. ASSUME q + 1 <= lo PROVE FALSE
    <3>1. d * (lo - (q + 1)) >= 0
      BY <1>1, <2>1
    <3>2. d * (lo - (q + 1)) = d * lo - d * q - d
      BY <1>1
    <3>3. QED
      BY <1>1, <3>1, <3>2
  <2>2. QED
    BY <1>1, <2>1
<1>3. ~(q > hi)
  <2>1. ASSUME q >= hi + 1 PROVE FALSE
    <3>1. d * (q - (hi + 1)) >= 0
      BY <1>1, <2>1
    <3>2. d * (q - (hi + 1)) = d * q - d * (hi + 1)
      BY <1>1
    <3>3. QED
      BY <1>1, <3>1, <3>2
  <2>2. QED
    BY <1>1, <2>1
<1>4. q \in lo..hi
  BY <1>1, <1>2, <1>3
<1>5. QED
  BY <1>4 DEF q

\* Half of a positive number, rounded down, is less than it.
LEMMA HalfOf ==
  ASSUME NEW d \in Int, d > 0
  PROVE  d \div 2 \in Int /\ 0 <= d \div 2 /\ d \div 2 < d
OBVIOUS

\* What is rounded of a number between 0 and a multiple of d lies between 0
\* and the multiplier.
LEMMA RoundedBetween ==
  ASSUME NEW n \in Int, NEW d \in Int, d > 0, NEW k \in Int,
         (0 <= n /\ n <= d * k) \/ (d * k <= n /\ n <= 0)
  PROVE  Rounded(n, d) \in 0..k \/ Rounded(n, d) \in k..0
<1> DEFINE half == d \div 2
<1>1. half \in Int /\ 0 <= half /\ half < d
  BY HalfOf
<1>2. CASE n >= 0
  <2>1. Rounded(n, d) = (n + half) \div d
    BY <1>2 DEF Rounded
  <2> HIDE DEF half
  <2>2. CASE n <= d * k
    <3>1. d * 0 <= n + half /\ n + half < d * (k + 1) /\ n + half \in Int
      BY <1>1, <1>2, <2>2
    <3>2. (n + half) \div d \in 0..k
      BY <3>1, QuotientBetween
    <3>3. QED
      BY <2>1, <3>2
  <2>3. CASE ~(n <= d * k)
    <3>1. n = 0 /\ d * k <= 0
      BY <1>2, <2>3
    <3>2. k <= 0
      BY <3>1
    <3>3. d * 0 <= n + half /\ n + half < d * (0 + 1) /\ n + half \in Int
      BY <1>1, <3>1
    <3>4. (n + half) \div d \in 0..0
      BY <3>3, QuotientBetween
    <3>5. QED
      BY <2>1, <3>2, <3>4
  <2>4. QED
    BY <2>2, <2>3
<1>3. CASE ~(n >= 0)
  <2>1. Rounded(n, d) = -((half - n) \div d)
    BY <1>3 DEF Rounded
  <2> HIDE DEF half
  <2>2. d * k <= n
    BY <1>3
  <2>3. d * 0 <= half - n /\ half - n < d * (-k + 1) /\ half - n \in Int /\ -k \in Int
    BY <1>1, <1>3, <2>2
  <2>4. (half - n) \div d \in 0..-k
    BY <2>3, QuotientBetween
  <2>5. QED
    BY <2>1, <2>4
<1>4. QED
  BY <1>2, <1>3

\* A product with a part of d lies between 0 and the product with all of it.
LEMMA PartOfProduct ==
  ASSUME NEW c \in Int, NEW d \in Int, NEW r \in Int, 0 <= r, r <= d
  PROVE  (0 <= c * r /\ c * r <= d * c) \/ (d * c <= c * r /\ c * r <= 0)
<1>1. CASE c >= 0
  <2>1. c * r >= 0 /\ c * (d - r) >= 0
    BY <1>1
  <2>2. c * (d - r) = d * c - c * r
    OBVIOUS
  <2>3. QED
    BY <2>1, <2>2
<1>2. CASE c < 0
  <2>1. (-c) * r >= 0 /\ (-c) * (d - r) >= 0
    BY <1>2
  <2>2. (-c) * (d - r) = c * r - d * c /\ (-c) * r = -(c * r)
    OBVIOUS
  <2>3. QED
    BY <2>1, <2>2
<1>3. QED
  BY <1>1, <1>2

-----------------------------------------------------------------------------
(* What the times of the queue and the corrections have to do with the     *)
(* truth.                                                                  *)

\* The events that wait, in the session or on the card, oldest first.
Waiting == queue \o pending
Events == Elements(queue) \cup Elements(pending)

\* How far an event's stamp is from the truth, and how far drift explains.
Error(x) == x.start - x.at
Near(n) == 0 <= n + drift /\ n <= drift

\* What is stored is what runs, with one correction for an era and none of an
\* era to come.
OneCorrectionEach ==
  /\ file = state
  /\ \A s \in Slots :
       state.history[s].used =>
         state.history[s].era <= state.era /\ state.history[s].syncDevice # 0
  /\ \A s, t \in Slots :
       state.history[s].used /\ state.history[t].used
         /\ state.history[s].era = state.history[t].era => s = t

\* Events are of the past, and no stamp is ahead of its event by more than the
\* drift.
PastEvent(x) == x.era <= state.era /\ x.start <= x.at + drift /\ x.at \in Plausible..real
EventsPast == \A x \in Events : PastEvent(x)
InOrder == \A i, j \in 1..Len(Waiting) : i <= j => Waiting[i].at <= Waiting[j].at

\* The clock of a measured era, after its last measurement c.
ClockFollows(c) ==
  /\ Near(clock - real)
  /\ 0 <= clock - real + c.delta + drift
  /\ c.syncDevice + c.delta <= real
ClockFits == ~stepped => \A s \in SlotsOf(state.history, state.era) : ClockFollows(state.history[s])

\* A correction an event can be dated with: the one measured after it, or one
\* it is not older than.
Fits(x, c) ==
  /\ x.start <= c.syncDevice => Near(Error(x) + c.delta)
  /\ x.syncs = 0 \/ c.windowStart # 0 \/ x.start > c.syncDevice => Near(Error(x))
\* The clock has only drifted since an event no sync came after.
Followed(x) ==
  x.era = state.era /\ x.syncs = 0 => x.start <= clock /\ Near(Error(x) - (clock - real))
Correctly(x) ==
  x.syncs <= 1 => \A s \in SlotsOf(state.history, x.era) : Fits(x, state.history[s])
EventsFit == ~stepped => \A x \in Events : Followed(x) /\ Correctly(x)

\* The upload is capped by a clock that is right; what it sent is right, and
\* what the next event must not go behind is not ahead of it.
SentRight ==
  /\ \A x \in upload.sent :
       /\ x.start <= x.event.at + drift
       /\ Measured(x.event.era) => x.event.at - drift <= x.start
  /\ \A j \in 1..Len(queue) : upload.offset < j => upload.previous <= queue[j].at + drift
SentFits ==
  upload.on =>
    /\ upload.instant = IF IsPlausible(clock) THEN clock ELSE 0
    /\ Trusted => SentRight

TimesInv == OneCorrectionEach /\ EventsPast /\ InOrder /\ ClockFits /\ EventsFit /\ SentFits

\* The slot a correction is looked up in holds one of that era.
LEMMA SlotOfEra ==
  ASSUME ClockInv, NEW era, Measured(era)
  PROVE  /\ Least(SlotsOf(state.history, era)) \in SlotsOf(state.history, era)
         /\ Least(SlotsOf(state.history, era)) \in Slots
         /\ state.history[Least(SlotsOf(state.history, era))] \in Correction
<1>1. SlotsOf(state.history, era) \in SUBSET Nat /\ SlotsOf(state.history, era) # {}
  BY ClockConstants DEF SlotsOf, Slots, Measured
<1>2. Least(SlotsOf(state.history, era)) \in SlotsOf(state.history, era)
  BY <1>1, LeastOfSet
<1>3. Least(SlotsOf(state.history, era)) \in Slots
  BY <1>2 DEF SlotsOf
<1>4. QED
  BY <1>2, <1>3 DEF ClockInv, State

\* A part of a correction leaves an error no greater than none or all of it.
LEMMA BetweenNear ==
  ASSUME drift \in Int, NEW e \in Int, NEW k \in Int, NEW r \in Int,
         Near(e), Near(e + k), r \in 0..k \/ r \in k..0
  PROVE  Near(e + r)
BY DEF Near

\* An event is dated right with a correction that fits it (correctionForEvent).
LEMMA CorrectionRight ==
  ASSUME ClockInv, NEW x \in Event, Measured(x.era),
         OneCorrectionEach, \A s \in SlotsOf(state.history, x.era) : Fits(x, state.history[s])
  PROVE  Near(Error(x) + CorrectionFor(x.era, x.start))
<1> DEFINE slot == Least(SlotsOf(state.history, x.era))
           c == state.history[slot]
<1>1. slot \in SlotsOf(state.history, x.era) /\ c \in Correction
  BY SlotOfEra
<1>2. Fits(x, c) /\ c.syncDevice # 0
  BY <1>1 DEF OneCorrectionEach, SlotsOf
<1>3. CorrectionFor(x.era, x.start) =
        IF c.syncDevice # 0 /\ x.start > c.syncDevice THEN 0
        ELSE IF c.windowStart = 0 \/ c.syncDevice <= c.windowStart THEN c.delta
        ELSE IF x.start <= c.windowStart THEN 0
        ELSE Interpolated(c, x.start)
  BY DEF CorrectionFor
<1> HIDE DEF c, slot
<1>4. /\ c.delta \in Int /\ c.windowStart \in Int /\ c.syncDevice \in Nat
      /\ x.start \in Nat /\ x.at \in Int /\ drift \in Int
  BY <1>1, ClockConstants DEF Correction, Event, ClockInv
<1>5. Error(x) \in Int /\ Error(x) + 0 = Error(x)
  BY <1>4 DEF Error
<1>6. CASE x.start > c.syncDevice
  <2>1. c.syncDevice # 0 /\ Near(Error(x))
    BY <1>2, <1>6 DEF Fits
  <2>2. QED
    BY <1>3, <1>5, <1>6, <2>1
<1>7. CASE x.start <= c.syncDevice
  <2>1. Near(Error(x) + c.delta)
    BY <1>2, <1>7 DEF Fits
  <2>2. c.windowStart # 0 => Near(Error(x))
    BY <1>2 DEF Fits
  <2>3. ~(c.syncDevice # 0 /\ x.start > c.syncDevice)
    BY <1>4, <1>7
  <2>4. CASE c.windowStart = 0 \/ c.syncDevice <= c.windowStart
    BY <1>3, <2>1, <2>3, <2>4
  <2>5. CASE ~(c.windowStart = 0 \/ c.syncDevice <= c.windowStart) /\ x.start <= c.windowStart
    BY <1>3, <1>5, <2>2, <2>3, <2>5
  <2>6. CASE ~(c.windowStart = 0 \/ c.syncDevice <= c.windowStart) /\ x.start > c.windowStart
    <3> DEFINE d == c.syncDevice - c.windowStart
               r == x.start - c.windowStart
               n == c.delta * r
    <3>1. d \in Int /\ d > 0 /\ r \in Int /\ 0 <= r /\ r <= d
      BY <1>4, <1>7, <2>6
    <3>2. Interpolated(c, x.start) = Rounded(n, d)
      BY DEF Interpolated
    <3> HIDE DEF d, r
    <3>3. (0 <= n /\ n <= d * c.delta) \/ (d * c.delta <= n /\ n <= 0)
      BY <1>4, <3>1, PartOfProduct
    <3>4. n \in Int
      BY <1>4, <3>1
    <3> HIDE DEF n
    <3>5. Rounded(n, d) \in 0..c.delta \/ Rounded(n, d) \in c.delta..0
      BY <1>4, <3>1, <3>3, <3>4, RoundedBetween
    <3>6. Rounded(n, d) \in Int
      BY <3>1, <3>4, RoundedType
    <3>7. Near(Error(x) + Rounded(n, d))
      BY <1>4, <1>5, <2>1, <2>2, <2>6, <3>5, <3>6, BetweenNear
    <3>8. CorrectionFor(x.era, x.start) = Rounded(n, d)
      BY <1>3, <1>4, <2>3, <2>6, <3>2
    <3>9. QED
      BY <3>7, <3>8
  <2>7. QED
    BY <1>4, <2>4, <2>5, <2>6
<1>8. QED
  BY <1>4, <1>6, <1>7

\* The waiting events are those of the queue and then those of the session.
LEMMA WaitingEvents ==
  ASSUME QueueInv
  PROVE  /\ Len(queue) \in Nat /\ Len(pending) \in Nat
         /\ Len(Waiting) = Len(queue) + Len(pending)
         /\ \A i \in 1..Len(queue) : Waiting[i] = queue[i]
         /\ \A i \in 1..Len(pending) : Waiting[Len(queue) + i] = pending[i]
         /\ \A i \in 1..Len(Waiting) : Waiting[i] \in Events /\ Waiting[i] \in Event
         /\ Events \subseteq Event
         /\ \A i \in 1..Len(queue) : queue[i] \in Events /\ queue[i] \in Event
<1>1. queue \in Seq(Event) /\ pending \in Seq(Event)
  BY DEF QueueInv
<1>2. /\ Len(queue) \in Nat /\ DOMAIN queue = 1..Len(queue)
      /\ Len(pending) \in Nat /\ DOMAIN pending = 1..Len(pending)
      /\ \A i \in 1..Len(queue) : queue[i] \in Event
      /\ \A i \in 1..Len(pending) : pending[i] \in Event
  BY <1>1, LenProperties, ElementOfSeq
<1>3. /\ Len(Waiting) = Len(queue) + Len(pending)
      /\ \A i \in 1..Len(queue) + Len(pending) :
           Waiting[i] = IF i <= Len(queue) THEN queue[i] ELSE pending[i - Len(queue)]
  BY <1>1, ConcatProperties DEF Waiting
<1>4. \A i \in 1..Len(queue) : Waiting[i] = queue[i]
  BY <1>2, <1>3
<1>5. ASSUME NEW i \in 1..Len(pending) PROVE Waiting[Len(queue) + i] = pending[i]
  <2>1. Len(queue) + i \in 1..Len(queue) + Len(pending) /\ ~(Len(queue) + i <= Len(queue))
        /\ (Len(queue) + i) - Len(queue) = i
    BY <1>2
  <2>2. QED
    BY <1>3, <2>1
<1>6. Events \subseteq Event /\ \A i \in 1..Len(queue) : queue[i] \in Events
  BY <1>2 DEF Events, Elements
<1>7. ASSUME NEW i \in 1..Len(Waiting) PROVE Waiting[i] \in Events
  <2>1. CASE i <= Len(queue)
    BY <1>2, <1>3, <1>6, <2>1
  <2>2. CASE ~(i <= Len(queue))
    <3>1. i - Len(queue) \in 1..Len(pending) /\ Waiting[i] = pending[i - Len(queue)]
      BY <1>2, <1>3, <2>2
    <3>2. QED
      BY <1>2, <3>1 DEF Events, Elements
  <2>3. QED
    BY <2>1, <2>2
<1>8. QED
  BY <1>2, <1>3, <1>4, <1>5, <1>6, <1>7

\* What the upload may rely on while it is trusted.
Reliable ==
  /\ ClockInv /\ QueueInv /\ InOrder
  /\ OneCorrectionEach /\ EventsPast /\ ClockFits /\ EventsFit
  /\ upload.on
  /\ upload.instant = IF IsPlausible(clock) THEN clock ELSE 0
  /\ ~stepped /\ Measured(state.era)

\* The clock of a measured era is the true time up to drift.
LEMMA ClockNear == Reliable => Near(clock - real)
<1> SUFFICES ASSUME Reliable PROVE Near(clock - real)
  OBVIOUS
<1>1. PICK s \in SlotsOf(state.history, state.era) : TRUE
  BY DEF Reliable, Measured
<1>2. QED
  BY <1>1 DEF Reliable, ClockFits, ClockFollows

\* The time an event is uploaded with: not ahead of the truth by more than the
\* drift when nothing before it was, and of a measured era not behind it.
LEMMA UploadedRight ==
  ASSUME Reliable, NEW x \in Events, Measured(x.era) => x.syncs <= 1,
         NEW previous \in Int, previous <= x.at + drift
  PROVE  /\ Uploaded(x, previous) <= x.at + drift
         /\ Measured(x.era) => x.at - drift <= Uploaded(x, previous)
<1>1. /\ x \in Event /\ x.start \in Int /\ x.at \in Int /\ drift \in Int
      /\ clock \in Int /\ real \in Int /\ clock > 0
  <2>1. x \in Event
    BY WaitingEvents DEF Reliable
  <2>2. QED
    BY <2>1, ClockConstants DEF Event, Reliable, ClockInv
<1>2. x.start <= x.at + drift /\ x.at <= real
  BY <1>1, ClockConstants DEF Reliable, EventsPast, PastEvent
<1>3. CASE ~Measured(x.era)
  BY <1>2, <1>3 DEF Uploaded
<1>4. CASE Measured(x.era)
  <2> DEFINE correction == CorrectionFor(x.era, x.start)
             shifted == x.start + correction
             capped == IF upload.instant # 0 THEN Smaller(shifted, upload.instant) ELSE shifted
  <2>1. ClockInv /\ OneCorrectionEach /\ Correctly(x)
    BY DEF Reliable, EventsFit
  <2>2. Near(Error(x) + correction) /\ correction \in Int
    BY <1>1, <1>4, <2>1, CorrectionRight, CorrectionType DEF Correctly
  <2>3. Uploaded(x, previous) = Larger(capped, previous)
    BY <1>4 DEF Uploaded, Corrected
  <2> HIDE DEF correction
  <2>4. shifted \in Int /\ x.at - drift <= shifted /\ shifted <= x.at + drift
    BY <1>1, <2>2 DEF Near, Error
  <2>5. clock >= x.at - drift
    BY <1>1, <1>2, ClockNear DEF Near
  <2>6. upload.instant \in {0, clock}
    BY DEF Reliable
  <2> HIDE DEF shifted
  <2>7. capped \in Int /\ x.at - drift <= capped /\ capped <= x.at + drift
    BY <1>1, <2>4, <2>5, <2>6 DEF Smaller
  <2> HIDE DEF capped
  <2>8. QED
    BY <1>1, <2>3, <2>7 DEF Larger
<1>5. QED
  BY <1>3, <1>4

\* The stamps of a batch: none is ahead of an event behind it by more than the
\* drift.
LEMMA StampsRight ==
  ASSUME Reliable, upload.offset < upload.total,
         \A i \in 1..Len(Batch) : Measured(Batch[i].era) => Batch[i].syncs <= 1,
         \A j \in 1..Len(queue) : upload.offset < j => upload.previous <= queue[j].at + drift
  PROVE  /\ \A i \in 0..Len(Batch) : \A j \in 1..Len(queue) :
              upload.offset + i < j => Stamps[i] <= queue[j].at + drift
         /\ \A i \in 1..Len(Batch) :
              /\ Stamps[i] <= Batch[i].at + drift
              /\ Measured(Batch[i].era) => Batch[i].at - drift <= Stamps[i]
<1>1. /\ ClockInv /\ QueueInv /\ upload.on /\ InOrder
      /\ upload.offset \in Nat /\ Len(queue) \in Nat /\ drift \in Int
  BY LenProperties, ClockConstants DEF Reliable, QueueInv, UploadRecord, ClockInv
<1>2. Len(Batch) \in Nat
  BY <1>1, BatchIsNext
<1> DEFINE Behind(i) == \A j \in 1..Len(queue) :
                          upload.offset + i < j => Stamps[i] <= queue[j].at + drift
           Right(i) == /\ Stamps[i] <= Batch[i].at + drift
                       /\ Measured(Batch[i].era) => Batch[i].at - drift <= Stamps[i]
           Good == {i \in Nat : i <= Len(Batch) => Behind(i)}
<1>3. ASSUME NEW i \in Nat, i + 1 <= Len(Batch), Behind(i)
      PROVE  Behind(i + 1) /\ Right(i + 1)
  <2> DEFINE k == upload.offset + (i + 1)
  <2>1. i + 1 \in 1..Len(Batch) /\ i \in 0..Len(Batch) /\ (i + 1) - 1 = i
    BY <1>2, <1>3
  <2>2. k \in 1..Len(queue) /\ Batch[i + 1] = queue[k]
    BY <1>1, <2>1, BatchIsNext
  <2>3. upload.offset + i < k /\ k \in Int
    BY <1>1
  <2> HIDE DEF k
  <2>4. Stamps[i] <= queue[k].at + drift /\ Stamps[i] \in Int
    BY <1>1, <1>3, <2>1, <2>2, <2>3, StampsType
  <2>5. queue[k] \in Events /\ queue[k] \in Event
    BY <1>1, <2>2, WaitingEvents
  <2>6. Stamps[i + 1] = Uploaded(Batch[i + 1], Stamps[i]) /\ Stamps[i + 1] \in Int
    BY <1>1, <1>2, <2>1, StampsType
  <2>7. Measured(queue[k].era) => queue[k].syncs <= 1
    BY <2>1, <2>2
  <2>8. Right(i + 1)
    BY <2>2, <2>4, <2>5, <2>6, <2>7, UploadedRight
  <2>9. ASSUME NEW j \in 1..Len(queue), upload.offset + (i + 1) < j
        PROVE  Stamps[i + 1] <= queue[j].at + drift
    <3>1. k <= j
      BY <1>1, <2>9 DEF k
    <3>2. j \in 1..Len(Waiting) /\ k \in 1..Len(Waiting)
      BY <1>1, <2>2, WaitingEvents
    <3>3. Waiting[j] = queue[j] /\ Waiting[k] = queue[k] /\ queue[j] \in Event
      BY <1>1, <2>2, WaitingEvents
    <3>4. queue[k].at <= queue[j].at
      BY <1>1, <3>1, <3>2, <3>3 DEF InOrder
    <3>5. queue[k].at \in Int /\ queue[j].at \in Int
      BY <2>5, <3>3 DEF Event
    <3>6. Stamps[i + 1] <= queue[k].at + drift
      BY <2>2, <2>8
    <3>7. QED
      BY <1>1, <2>6, <3>4, <3>5, <3>6
  <2>10. QED
    BY <2>8, <2>9
<1>4. Behind(0)
  BY <1>1, StampsType
<1> HIDE DEF Behind, Right
<1>5. 0 \in Good
  BY <1>4
<1>6. ASSUME NEW i \in Nat, i \in Good PROVE i + 1 \in Good
  <2>1. CASE i + 1 <= Len(Batch)
    <3>1. Behind(i)
      BY <1>2, <1>6, <2>1
    <3>2. QED
      BY <1>3, <2>1, <3>1
  <2>2. CASE ~(i + 1 <= Len(Batch))
    BY <2>2
  <2>3. QED
    BY <2>1, <2>2
<1>7. Nat \subseteq Good
  <2> HIDE DEF Good
  <2>1. QED
    BY <1>5, <1>6, InductionOnSet
<1>8. \A i \in 0..Len(Batch) : Behind(i)
  BY <1>2, <1>7
<1>9. ASSUME NEW i \in 1..Len(Batch) PROVE Right(i)
  <2>1. i - 1 \in Nat /\ (i - 1) + 1 = i /\ i - 1 \in 0..Len(Batch) /\ i <= Len(Batch)
    BY <1>2
  <2>2. Behind(i - 1)
    BY <1>8, <2>1
  <2>3. Right((i - 1) + 1)
    BY <1>3, <2>1, <2>2
  <2>4. QED
    BY <2>1, <2>3
<1>10. QED
  BY <1>8, <1>9 DEF Behind, Right

-----------------------------------------------------------------------------
(* Every step keeps the times right, while wallclock.bin is read and       *)
(* written whole.                                                          *)

NoFileFault == Faults \subseteq {"erase"}

\* What TimesInv says but of the upload and of the order.
EventTimes == OneCorrectionEach /\ EventsPast /\ ClockFits /\ EventsFit

\* Where no upload is under way there is nothing to claim of one.
LEMMA NoUploadFits == ~upload'.on => SentFits'
BY DEF SentFits

\* A save that cannot fail saves.
LEMMA Saved ==
  ASSUME NoFileFault, NEW st, SaveState(st)
  PROVE  file' = st
<1>1. "save" \notin Faults /\ "torn" \notin Faults
  BY DEF NoFileFault
<1>2. QED
  BY <1>1 DEF SaveState

\* What holds of the events holds of fewer of them, under the same clock.
LEMMA SameClock ==
  ASSUME EventTimes,
         state'.history = state.history, state'.era = state.era, file' = state',
         UNCHANGED <<real, clock, drift, stepped>>, Events' \subseteq Events
  PROVE  EventTimes'
<1>1. OneCorrectionEach'
  BY DEF EventTimes, OneCorrectionEach
<1>2. EventsPast'
  BY DEF EventTimes, EventsPast, PastEvent
<1>3. ClockFits'
  BY DEF EventTimes, ClockFits, ClockFollows, SlotsOf, Near
<1>4. EventsFit'
  BY DEF EventTimes, EventsFit, Followed, Correctly, Fits, Error, SlotsOf, Near
<1>5. QED
  BY <1>1, <1>2, <1>3, <1>4 DEF EventTimes

\* Waiting events that are the last, or the first, of those that waited are in
\* order.
LEMMA StillInOrder ==
  ASSUME InOrder, NEW n \in Nat, Len(Waiting) \in Nat, Len(Waiting') \in Nat,
         \A i \in 1..Len(Waiting') :
           n + i \in 1..Len(Waiting) /\ Waiting'[i].at = Waiting[n + i].at
  PROVE  InOrder'
<1> SUFFICES ASSUME NEW i \in 1..Len(Waiting'), NEW j \in 1..Len(Waiting'), i <= j
             PROVE  Waiting'[i].at <= Waiting'[j].at
  BY DEF InOrder
<1>1. n + i \in 1..Len(Waiting) /\ n + j \in 1..Len(Waiting) /\ n + i <= n + j
  OBVIOUS
<1>2. Waiting[n + i].at <= Waiting[n + j].at
  BY <1>1 DEF InOrder
<1>3. QED
  BY <1>2

\* A tick of time, which the drift accounts for when the clock does not show it.
LEMMA TickKeepsTimes ==
  ASSUME ClockInv, TimePasses
  PROVE  /\ \A x \in Event : PastEvent(x) => PastEvent(x)'
         /\ \A c \in Correction : ClockFollows(c) => ClockFollows(c)'
         /\ \A x \in Event : Followed(x) /\ Correctly(x) => Followed(x)' /\ Correctly(x)'
<1>1. PICK shown \in 0..2 :
        /\ real' = real + 1
        /\ clock' = clock + shown
        /\ drift' = drift + (IF shown = 1 THEN 0 ELSE 1)
        /\ UNCHANGED <<state, file, stepped>>
  BY DEF TimePasses
<1>2. PICK more \in 0..1 :
        drift' = drift + more /\ shown - 1 <= more /\ 1 - shown <= more
  BY <1>1
<1>3. /\ real \in Int /\ clock \in Int /\ drift \in Int /\ Plausible \in Int
      /\ clock' = clock + shown /\ real' = real + 1
  BY <1>1, ClockConstants DEF ClockInv
<1>4. ASSUME NEW n \in Int, Near(n) PROVE Near(n)'
  BY <1>2, <1>3, <1>4 DEF Near
<1>5. ASSUME NEW x \in Event, PastEvent(x) PROVE PastEvent(x)'
  BY <1>1, <1>2, <1>3, <1>5 DEF PastEvent, Event
<1>6. ASSUME NEW c \in Correction, ClockFollows(c) PROVE ClockFollows(c)'
  <2>1. c.delta \in Int /\ c.syncDevice \in Int
    BY DEF Correction
  <2>2. QED
    BY <1>2, <1>3, <1>6, <2>1 DEF ClockFollows, Near
<1>7. ASSUME NEW x \in Event, Followed(x), Correctly(x)
      PROVE  Followed(x)' /\ Correctly(x)'
  <2>1. x.start \in Int /\ x.at \in Int /\ Error(x) \in Int
    BY DEF Event, Error
  <2>2. Followed(x)'
    BY <1>1, <1>2, <1>3, <1>7, <2>1 DEF Followed, Near, Error
  <2>3. ASSUME x.syncs <= 1, NEW s \in SlotsOf(state.history, x.era)
        PROVE  Fits(x, state.history[s])'
    <3>1. Fits(x, state.history[s])
      BY <1>7, <2>3 DEF Correctly
    <3>2. state.history[s] \in Correction
      BY DEF ClockInv, State, SlotsOf
    <3>3. Error(x) + state.history[s].delta \in Int
      BY <2>1, <3>2 DEF Correction
    <3>4. QED
      BY <1>1, <1>4, <2>1, <3>1, <3>3 DEF Fits, Near, Error
  <2>4. SlotsOf(state.history, x.era)' = SlotsOf(state.history, x.era)
    BY <1>1 DEF SlotsOf
  <2>5. Correctly(x)'
    BY <2>3, <2>4 DEF Correctly
  <2>6. QED
    BY <2>2, <2>5
<1>8. QED
  BY <1>5, <1>6, <1>7

\* Time passing keeps what holds of the events.
LEMMA TickKeepsEvents ==
  ASSUME ClockInv, QueueInv, EventTimes, TimePasses
  PROVE  /\ OneCorrectionEach' /\ ClockFits'
         /\ \A x \in Events : PastEvent(x)'
         /\ ~stepped' => \A x \in Events : Followed(x)' /\ Correctly(x)'
<1>1. UNCHANGED <<state, file, stepped>>
  BY DEF TimePasses
<1>2. OneCorrectionEach'
  BY <1>1 DEF EventTimes, OneCorrectionEach
<1>3. ClockFits'
  <2> SUFFICES ASSUME ~stepped', NEW s \in SlotsOf(state.history, state.era)'
               PROVE  ClockFollows(state.history[s])'
    BY DEF ClockFits
  <2>1. s \in SlotsOf(state.history, state.era) /\ ~stepped
    BY <1>1 DEF SlotsOf
  <2>2. ClockFollows(state.history[s])
    BY <2>1 DEF EventTimes, ClockFits
  <2>3. state.history[s] \in Correction /\ state'.history[s] = state.history[s]
    BY <1>1, <2>1 DEF ClockInv, State, SlotsOf
  <2>4. \A c \in Correction : ClockFollows(c) => ClockFollows(c)'
    BY TickKeepsTimes
  <2>5. QED
    BY <2>2, <2>3, <2>4 DEF ClockFollows
<1>4. Events \subseteq Event
  BY WaitingEvents
<1>5. \A x \in Events : PastEvent(x)'
  BY <1>4, TickKeepsTimes DEF EventTimes, EventsPast
<1>6. ~stepped' => \A x \in Events : Followed(x)' /\ Correctly(x)'
  BY <1>1, <1>4, TickKeepsTimes DEF EventTimes, EventsFit
<1>7. QED
  BY <1>2, <1>3, <1>5, <1>6

\* The start of a page read for one tick that ends now (TurnPage).
StampAt(now) == IF now > 1 THEN now - 1 ELSE now

\* It is a tick before, but for the clock's first.
LEMMA StampCases ==
  ASSUME NEW now \in Int
  PROVE  /\ now > 1 => StampAt(now) = now - 1
         /\ ~(now > 1) => StampAt(now) = now
BY DEF StampAt

\* The stamp of a page read for one tick, and how far it is from the truth.
LEMMA StampOfPage ==
  ASSUME ClockInv, EventTimes, TimePasses,
         NEW e \in Event, e.era = state.era, e.at = real, e.syncs = 0,
         e.start = StampAt(clock')
  PROVE  PastEvent(e)' /\ (~stepped' => Followed(e)' /\ Correctly(e)')
<1>1. PICK shown \in 0..2 :
        /\ real' = real + 1
        /\ clock' = clock + shown
        /\ drift' = drift + (IF shown = 1 THEN 0 ELSE 1)
        /\ UNCHANGED <<state, file, stepped>>
  BY DEF TimePasses
<1>2. PICK more \in 0..1 :
        drift' = drift + more /\ shown - 1 <= more /\ 1 - shown <= more
  BY <1>1
<1>3. /\ real \in Int /\ clock \in Int /\ clock >= 1 /\ drift \in Int /\ drift >= 0
      /\ Plausible \in Int /\ Plausible <= real /\ clock <= real + drift
      /\ state.era \in Int
  BY ClockConstants DEF ClockInv
<1>4. PICK start \in Int :
        /\ e.start = start
        /\ start <= clock + shown
        /\ clock <= start + more /\ start <= clock + more
        /\ (start - real) - ((clock + shown) - (real + 1)) \in 0..more
  <2>1. e.start = StampAt(clock + shown)
    BY <1>1
  <2>2. CASE clock + shown > 1
    <3>1. e.start = clock + shown - 1
      BY <1>3, <2>1, <2>2, StampCases
    <3>2. (clock + shown - 1 - real) - ((clock + shown) - (real + 1)) = 0
      BY <1>3
    <3>3. QED
      BY <1>2, <1>3, <3>1, <3>2
  <2>3. CASE ~(clock + shown > 1)
    <3>1. e.start = clock + shown /\ clock = 1 /\ shown = 0
      BY <1>3, <2>1, <2>3, StampCases
    <3>2. more = 1
      BY <1>2, <3>1
    <3>3. QED
      BY <1>3, <3>1, <3>2
  <2>4. QED
    BY <2>2, <2>3
<1>5. Error(e) = start - real /\ Error(e) \in Int
  BY <1>3, <1>4 DEF Error
<1>6. PastEvent(e)'
  BY <1>1, <1>2, <1>3, <1>4 DEF PastEvent
<1>7. Followed(e)'
  <2>1. PICK n \in Int : n = (clock + shown) - (real + 1)
    BY <1>3
  <2>2. Near(Error(e) - n)'
    BY <1>2, <1>3, <1>4, <1>5, <2>1 DEF Near, Error
  <2>3. clock' - real' = n
    BY <1>1, <2>1
  <2>4. (e.start <= clock)'
    BY <1>1, <1>4
  <2>5. QED
    BY <2>2, <2>3, <2>4 DEF Followed, Error
<1>8. ASSUME ~stepped', NEW s \in SlotsOf(state.history, state.era)
      PROVE  Fits(e, state.history[s])'
  <2> DEFINE c == state.history[s]
  <2>1. ~stepped /\ c \in Correction /\ c' = c
    BY <1>1, <1>8 DEF ClockInv, State, SlotsOf
  <2>2. ClockFollows(c)
    BY <2>1 DEF EventTimes, ClockFits
  <2>3. c.syncDevice # 0
    BY DEF EventTimes, OneCorrectionEach, SlotsOf
  <2> HIDE DEF c
  <2>4. c.delta \in Int /\ c.syncDevice \in Int
    BY <2>1 DEF Correction
  <2>5. 0 <= clock - real + drift /\ clock - real <= drift
        /\ 0 <= clock - real + c.delta + drift /\ c.syncDevice + c.delta <= real
    BY <2>2 DEF ClockFollows, Near
  <2>6. Near(Error(e))'
    BY <1>2, <1>3, <1>4, <1>5, <2>5 DEF Near, Error
  <2>7. start <= c.syncDevice => Near(Error(e) + c.delta)'
    <3>1. start <= c.syncDevice => (start - real) + c.delta <= drift + more
      BY <1>2, <1>3, <1>4, <2>4, <2>5
    <3>2. 0 <= (start - real) + c.delta + (drift + more)
      BY <1>2, <1>3, <1>4, <2>4, <2>5
    <3>3. QED
      BY <1>2, <1>3, <1>4, <1>5, <2>1, <2>4, <3>1, <3>2 DEF Near, Error
  <2>8. Fits(e, c)'
    BY <1>4, <2>1, <2>3, <2>6, <2>7 DEF Fits, Error
  <2>9. QED
    BY <2>8 DEF c
<1>9. SlotsOf(state.history, state.era)' = SlotsOf(state.history, state.era)
  BY <1>1 DEF SlotsOf
<1>10. ~stepped' => Correctly(e)'
  BY <1>1, <1>8, <1>9 DEF Correctly, SlotsOf
<1>11. QED
  BY <1>6, <1>7, <1>10

\* Between uploads an order of what waits and the times of the events are all.
LEMMA TimesWithoutUpload == EventTimes' /\ InOrder' /\ ~upload'.on => TimesInv'
BY NoUploadFits DEF EventTimes, TimesInv

\* Where the queue and the session stay, what waits stays in order.
LEMMA SameOrder == InOrder /\ UNCHANGED <<queue, pending>> => InOrder'
BY DEF InOrder, Waiting

\* A page turn dates its event with the clock.
LEMMA TurnPageTimes == IInv /\ TimesInv /\ TurnPage => TimesInv'
<1> SUFFICES ASSUME IInv, TimesInv, TurnPage PROVE TimesInv'
  OBVIOUS
<1>1. /\ ClockInv /\ QueueInv /\ ClockInv' /\ QueueInv' /\ EventTimes /\ TimePasses
      /\ InOrder /\ EventsPast
  BY TurnPageInv DEF IInv, TimesInv, EventTimes, TurnPage
<1>2. queue' = queue /\ upload' = upload /\ ~upload.on
  BY DEF TurnPage
<1>3. PICK e \in Event :
        /\ pending' = Append(pending, e)
        /\ e.start = StampAt(clock') /\ e.era = state.era /\ e.at = real /\ e.syncs = 0
  <2> DEFINE turned == [start |-> StampAt(clock'), era |-> state.era, at |-> real, syncs |-> 0]
  <2>1. clock' \in Nat /\ state.era \in Nat /\ real \in Nat
    BY <1>1, ClockConstants DEF ClockInv
  <2>2. StampAt(clock') \in Nat
    BY <2>1, StartType, Zenon DEF StampAt
  <2>3. turned \in Event
    BY <2>1, <2>2 DEF Event
  <2>4. pending' = Append(pending, turned)
    BY Zenon DEF TurnPage, StampAt
  <2>5. /\ turned.start = StampAt(clock') /\ turned.era = state.era
        /\ turned.at = real /\ turned.syncs = 0
    OBVIOUS
  <2> HIDE DEF turned
  <2>6. QED
    BY <2>3, <2>4, <2>5
<1>5. PastEvent(e)' /\ (~stepped' => Followed(e)' /\ Correctly(e)')
  BY <1>1, <1>3, StampOfPage
<1>6. /\ pending \in Seq(Event) /\ Len(pending) \in Nat /\ Len(queue) \in Nat
      /\ Len(pending') = Len(pending) + 1 /\ pending' \in Seq(Event)
      /\ \A i \in 1..Len(pending) : pending'[i] = pending[i]
      /\ pending'[Len(pending) + 1] = e
  BY <1>1, <1>2, <1>3, AppendProperties, LenProperties DEF QueueInv
<1>7. Events' \subseteq Events \cup {e}
  <2>1. DOMAIN pending' = 1..Len(pending) + 1 /\ DOMAIN pending = 1..Len(pending)
    BY <1>6, LenProperties
  <2>2. \A i \in 1..Len(pending) + 1 : i \in 1..Len(pending) \/ i = Len(pending) + 1
    BY <1>6
  <2>3. Elements(pending)' \subseteq Elements(pending) \cup {e}
    BY <1>6, <2>1, <2>2 DEF Elements
  <2>4. Elements(queue)' = Elements(queue)
    BY <1>2 DEF Elements
  <2>5. QED
    BY <2>3, <2>4 DEF Events
<1>8. /\ OneCorrectionEach' /\ ClockFits'
      /\ \A x \in Events : PastEvent(x)'
      /\ ~stepped' => \A x \in Events : Followed(x)' /\ Correctly(x)'
  BY <1>1, TickKeepsEvents
<1>9. EventsPast' /\ EventsFit'
  BY <1>5, <1>7, <1>8 DEF EventsPast, EventsFit
<1>10. InOrder'
  <2> DEFINE last == Len(Waiting) + 1
  <2>1. /\ Len(Waiting) \in Nat /\ Len(Waiting') = Len(Waiting) + 1
        /\ \A i \in 1..Len(Waiting) : Waiting'[i] = Waiting[i]
        /\ Waiting'[last] = e
    <3>1. /\ queue \in Seq(Event) /\ Waiting = queue \o pending /\ Waiting' = queue \o pending'
          /\ Len(Waiting) = Len(queue) + Len(pending)
      BY <1>1, <1>2, WaitingEvents DEF Waiting, QueueInv
    <3>2. /\ Len(Waiting') = Len(queue) + Len(pending')
          /\ \A i \in 1..Len(queue) + Len(pending') :
               Waiting'[i] = IF i <= Len(queue) THEN queue[i] ELSE pending'[i - Len(queue)]
          /\ \A i \in 1..Len(queue) + Len(pending) :
               Waiting[i] = IF i <= Len(queue) THEN queue[i] ELSE pending[i - Len(queue)]
      BY <1>6, <3>1, ConcatProperties
    <3>3. ASSUME NEW i \in 1..Len(Waiting) PROVE Waiting'[i] = Waiting[i]
      <4>1. i \in 1..Len(queue) + Len(pending) /\ i \in 1..Len(queue) + Len(pending')
            /\ (~(i <= Len(queue)) => i - Len(queue) \in 1..Len(pending))
        BY <1>6, <3>1
      <4>2. QED
        BY <1>6, <3>2, <4>1
    <3>4. Waiting'[last] = e
      <4>1. last \in 1..Len(queue) + Len(pending') /\ ~(last <= Len(queue))
            /\ last - Len(queue) = Len(pending) + 1
        BY <1>6, <3>1
      <4>2. QED
        BY <1>6, <3>2, <4>1
    <3>5. QED
      BY <1>6, <3>1, <3>2, <3>3, <3>4
  <2> SUFFICES ASSUME NEW i \in 1..Len(Waiting'), NEW j \in 1..Len(Waiting'), i <= j
               PROVE  Waiting'[i].at <= Waiting'[j].at
    BY DEF InOrder
  <2>2. \A k \in 1..Len(Waiting) : Waiting[k].at \in Plausible..real
    BY <1>1, WaitingEvents DEF EventsPast, PastEvent
  <2>3. real \in Int /\ Plausible \in Int
    BY <1>1, ClockConstants DEF ClockInv
  <2>4. CASE j # last
    <3>1. i \in 1..Len(Waiting) /\ j \in 1..Len(Waiting)
      BY <2>1, <2>4
    <3>2. Waiting[i].at <= Waiting[j].at
      BY <1>1, <3>1 DEF InOrder
    <3>3. QED
      BY <2>1, <3>1, <3>2
  <2>5. CASE j = last /\ i # last
    <3>1. i \in 1..Len(Waiting)
      BY <2>1, <2>5
    <3>2. Waiting[i].at <= real
      BY <2>2, <2>3, <3>1
    <3>3. QED
      BY <1>3, <2>1, <2>5, <3>1, <3>2
  <2>6. CASE j = last /\ i = last
    BY <1>3, <2>1, <2>3, <2>6
  <2>7. QED
    BY <2>4, <2>5, <2>6
<1>11. EventTimes'
  BY <1>8, <1>9 DEF EventTimes
<1>12. QED
  BY <1>2, <1>10, <1>11, TimesWithoutUpload

\* The end of a session drops the oldest of what waits, or nothing.
LEMMA EndSessionTimes == IInv /\ TimesInv /\ EndSession => TimesInv'
<1> SUFFICES ASSUME IInv, TimesInv, EndSession PROVE TimesInv'
  OBVIOUS
<1>1. /\ QueueInv /\ QueueInv' /\ EventTimes /\ InOrder
  BY EndSessionInv DEF IInv, TimesInv, EventTimes
<1>2. UNCHANGED clockVars /\ upload' = upload /\ ~upload.on
      /\ queue' = Appended /\ pending' = <<>>
  BY DEF EndSession
<1> DEFINE over == Len(Waiting) - MaxQueued + 1
           first == Larger(1, over)
<1>3. /\ Len(Waiting) \in Nat /\ \A i \in 1..Len(Waiting) : Waiting[i] \in Event /\ Waiting[i] \in Events
      /\ Waiting \in Seq(Event)
  <2>1. Waiting \in Seq(Event)
    BY <1>1, ConcatProperties DEF QueueInv, Waiting
  <2>2. QED
    BY <1>1, <2>1, WaitingEvents, LenProperties
<1>4. first \in Int /\ first >= 1
  BY <1>3, UploadConstants DEF Larger
<1>5. Appended = SubSeq(Waiting, first, Len(Waiting))
  BY DEF Appended, Waiting
<1> HIDE DEF first, over
<1>6. \A i \in first..Len(Waiting) : Waiting[i] \in Event
  <2>1. ASSUME NEW i \in first..Len(Waiting) PROVE i \in 1..Len(Waiting)
    BY <1>3, <1>4
  <2>2. QED
    BY <1>3, <2>1
<1>7. /\ Appended \in Seq(Event)
      /\ Len(Appended) = IF first <= Len(Waiting) THEN Len(Waiting) - first + 1 ELSE 0
      /\ \A i \in 1..Len(Waiting) - first + 1 : Appended[i] = Waiting[first + i - 1]
  BY <1>3, <1>4, <1>5, <1>6, SubSeqProperties
<1>8. ASSUME NEW i \in 1..Len(Appended)
      PROVE  (first - 1) + i \in 1..Len(Waiting) /\ Appended[i] = Waiting[(first - 1) + i]
  <2>1. i \in 1..Len(Waiting) - first + 1 /\ first + i - 1 = (first - 1) + i
        /\ (first - 1) + i \in 1..Len(Waiting)
    BY <1>3, <1>4, <1>7
  <2>2. QED
    BY <1>7, <2>1
<1>9. /\ Len(Waiting') = Len(Appended) /\ Len(Appended) \in Nat
      /\ \A i \in 1..Len(Appended) : Waiting'[i] = Appended[i]
      /\ Events' \subseteq {Appended[i] : i \in 1..Len(Appended)}
  <2>1. /\ Len(queue') \in Nat /\ Len(pending') \in Nat
        /\ Len(Waiting') = Len(queue') + Len(pending')
        /\ \A i \in 1..Len(queue') : Waiting'[i] = queue'[i]
    <3>1. QueueInv' => /\ Len(queue') \in Nat /\ Len(pending') \in Nat
                       /\ Len(Waiting') = Len(queue') + Len(pending')
                       /\ \A i \in 1..Len(queue') : Waiting'[i] = queue'[i]
      <4>1. QueueInv' => queue' \in Seq(Event) /\ pending' \in Seq(Event)
        BY DEF QueueInv
      <4>2. Waiting' = queue' \o pending'
        BY DEF Waiting
      <4>3. QED
        BY <4>1, <4>2, ConcatProperties, LenProperties
    <3>2. QED
      BY <1>1, <3>1
  <2>2. Len(pending') = 0 /\ DOMAIN pending' = {} /\ DOMAIN queue' = 1..Len(queue')
    BY <1>2, <1>7, EmptySeq, LenProperties
  <2>3. QED
    BY <1>2, <2>1, <2>2 DEF Events, Elements
<1>10. Events' \subseteq Events
  BY <1>3, <1>8, <1>9
<1>11. EventTimes'
  <2>1. file' = state'
    BY <1>1, <1>2 DEF clockVars, EventTimes, OneCorrectionEach
  <2>2. QED
    BY <1>1, <1>2, <1>10, <2>1, SameClock DEF clockVars
<1>12. InOrder'
  <2>1. first - 1 \in Nat
    BY <1>4
  <2>2. QED
    BY <1>1, <1>3, <1>8, <1>9, <2>1, StillInOrder
<1>13. QED
  BY <1>2, <1>11, <1>12, TimesWithoutUpload

\* A checkpoint changes nothing the times rest on.
LEMMA SaveTimeTimes == NoFileFault /\ IInv /\ TimesInv /\ SaveTime => TimesInv'
<1> SUFFICES ASSUME NoFileFault, IInv, TimesInv, SaveTime PROVE TimesInv'
  OBVIOUS
<1>1. /\ ending /\ Checkpoint /\ UNCHANGED <<pending, queue, upload>>
      /\ EventTimes /\ InOrder /\ ~upload.on
  BY DEF SaveTime, TimesInv, EventTimes, IInv, QueueInv
<1>2. state'.history = state.history /\ state'.era = state.era /\ file' = state'
      /\ UNCHANGED <<real, clock, drift, stepped>>
  <2>1. CASE IsPlausible(clock)
    <3>1. /\ state' = [state EXCEPT !.checkpoint = clock] /\ SaveState(state')
          /\ UNCHANGED <<real, clock, drift, stepped>>
      BY <1>1, <2>1 DEF Checkpoint
    <3>2. file' = state'
      BY <3>1, Saved
    <3>3. state \in State
      BY DEF IInv, ClockInv
    <3>4. state'.history = state.history /\ state'.era = state.era
      BY <3>1, <3>3 DEF State
    <3>5. QED
      BY <3>1, <3>2, <3>4
  <2>2. CASE ~IsPlausible(clock)
    BY <1>1, <2>2 DEF Checkpoint, clockVars, EventTimes, OneCorrectionEach
  <2>3. QED
    BY <2>1, <2>2
<1>3. Events' = Events
  BY <1>1 DEF Events, Elements
<1>4. EventTimes'
  BY <1>1, <1>2, <1>3, SameClock
<1>5. QED
  BY <1>1, <1>4, SameOrder, TimesWithoutUpload

\* While an upload runs neither the clock nor what waits changes.
LEMMA NothingMoves ==
  ASSUME TimesInv, UNCHANGED <<clockVars, pending, queue>>
  PROVE  EventTimes' /\ InOrder'
<1>1. EventTimes /\ InOrder
  BY DEF TimesInv, EventTimes
<1>2. Events' = Events
  BY DEF Events, Elements
<1>3. file' = state'
  BY <1>1 DEF clockVars, EventTimes, OneCorrectionEach
<1>4. EventTimes'
  BY <1>1, <1>2, <1>3, SameClock DEF clockVars
<1>5. QED
  BY <1>1, <1>4, SameOrder

\* An upload begins with the time the clock shows, and nothing to be after.
LEMMA BeginUploadTimes == IInv /\ TimesInv /\ BeginUpload => TimesInv'
<1> SUFFICES ASSUME IInv, TimesInv, BeginUpload PROVE TimesInv'
  OBVIOUS
<1> DEFINE instant == IF IsPlausible(clock) THEN clock ELSE 0
<1>1. /\ UNCHANGED <<clockVars, pending, queue>>
      /\ upload' = [Idle EXCEPT !.on = TRUE, !.total = Smaller(Len(queue), MaxQueued),
                                !.instant = instant]
  BY Zenon DEF BeginUpload
<1>2. upload'.instant = instant /\ upload'.sent = {} /\ upload'.offset = 0 /\ upload'.previous = 0
  <2> HIDE DEF instant
  <2>1. QED
    BY <1>1 DEF Idle
<1>3. EventTimes' /\ InOrder'
  BY <1>1, NothingMoves
<1>4. (IF IsPlausible(clock) THEN clock ELSE 0)' = instant
  BY <1>1 DEF clockVars, IsPlausible
<1>5. SentRight'
  <2>1. ASSUME NEW j \in 1..Len(queue) PROVE 0 <= queue[j].at + drift
    <3>1. queue[j] \in Events
      BY WaitingEvents DEF IInv
    <3>2. queue[j].at \in Plausible..real
      BY <3>1 DEF TimesInv, EventsPast, PastEvent
    <3>3. QED
      BY <3>2, ClockConstants DEF IInv, ClockInv
  <2>2. queue' = queue /\ drift' = drift
    BY <1>1 DEF clockVars
  <2>3. QED
    BY <1>2, <2>1, <2>2 DEF SentRight
<1>6. SentFits'
  BY <1>2, <1>4, <1>5 DEF SentFits
<1>7. QED
  BY <1>3, <1>6 DEF EventTimes, TimesInv

\* A batch, sent or passed over, is dated right and leaves a stamp that is not
\* ahead of what comes next.
LEMMA BatchTimes ==
  ASSUME IInv, TimesInv, upload.on, upload.offset < upload.total,
         upload' = Continued(Datable), UNCHANGED <<clockVars, pending, queue>>
  PROVE  TimesInv'
<1>1. /\ upload'.on
      /\ upload'.offset = upload.offset + BatchSize
      /\ upload'.previous = Stamps[Len(Batch)]
      /\ upload'.sent = upload.sent \cup Datable
      /\ upload'.instant = upload.instant
  BY ContinuedUpload
<1>2. EventTimes' /\ InOrder'
  BY NothingMoves
<1>3. queue' = queue /\ state' = state /\ clock' = clock /\ drift' = drift /\ stepped' = stepped
  BY DEF clockVars
<1>4. upload'.instant = (IF IsPlausible(clock) THEN clock ELSE 0)'
  BY <1>1, <1>3 DEF TimesInv, SentFits, IsPlausible
<1>5. ASSUME Trusted' PROVE SentRight'
  <2>1. /\ ~stepped /\ Measured(state.era)
        /\ \A x \in upload.sent \cup Datable : x.event.syncs <= 1
    BY <1>1, <1>3, <1>5 DEF Trusted, Measured
  <2>2. Trusted /\ SentRight
    BY <2>1 DEF Trusted, TimesInv, SentFits
  <2>3. Reliable
    BY <2>1 DEF Reliable, IInv, TimesInv, SentFits
  <2>4. QueueInv /\ Len(Batch) \in Nat \ {0} /\ Len(queue) \in Nat /\ upload.offset \in Nat
    BY BatchIsNext, LenProperties DEF IInv, QueueInv, UploadRecord
  <2>5. ASSUME NEW i \in 1..Len(Batch), Measured(Batch[i].era) PROVE Batch[i].syncs <= 1
    <3> DEFINE x == [place |-> upload.offset + i, event |-> Batch[i], start |-> Stamps[i]]
    <3>1. x \in Stamped /\ x.event = Batch[i]
      BY DEF Stamped
    <3> HIDE DEF x
    <3>2. x \in Datable
      BY <2>5, <3>1 DEF Datable, Undatable
    <3>3. QED
      BY <2>1, <3>1, <3>2
  <2>6. \A j \in 1..Len(queue) : upload.offset < j => upload.previous <= queue[j].at + drift
    BY <2>2 DEF SentRight
  <2>7. /\ \A i \in 0..Len(Batch) : \A j \in 1..Len(queue) :
             upload.offset + i < j => Stamps[i] <= queue[j].at + drift
        /\ \A i \in 1..Len(Batch) :
             /\ Stamps[i] <= Batch[i].at + drift
             /\ Measured(Batch[i].era) => Batch[i].at - drift <= Stamps[i]
    BY <2>3, <2>5, <2>6, StampsRight
  <2>8. ASSUME NEW x \in Datable
        PROVE  /\ x.start <= x.event.at + drift
               /\ Measured(x.event.era) => x.event.at - drift <= x.start
    <3> DEFINE i == x.place - upload.offset
    <3>1. /\ i \in 1..Len(Batch) /\ x.start = Stamps[i] /\ x.event = queue[x.place]
          /\ x.place \in 1..Len(queue)
      BY DatableOfBatch
    <3>2. upload.offset + i = x.place
      BY <2>4, <3>1
    <3> HIDE DEF i
    <3>3. Batch[i] = x.event
      BY <2>4, <3>1, <3>2, BatchIsNext
    <3>4. QED
      BY <2>7, <3>1, <3>3
  <2>9. ASSUME NEW j \in 1..Len(queue), upload.offset + BatchSize < j
        PROVE  Stamps[Len(Batch)] <= queue[j].at + drift
    <3>1. upload.offset + Len(Batch) <= upload.offset + BatchSize
      BY <2>4, BatchIsNext
    <3>2. upload.offset + Len(Batch) < j
      BY <2>4, <2>9, <3>1, UploadConstants
    <3>3. Len(Batch) \in 0..Len(Batch)
      BY <2>4
    <3>4. QED
      BY <2>7, <3>2, <3>3
  <2>10. ASSUME NEW x \in upload.sent
         PROVE  /\ x.start <= x.event.at + drift
                /\ Measured(x.event.era) => x.event.at - drift <= x.start
    BY <2>2 DEF SentRight
  <2>11. \A era : Measured(era)' <=> Measured(era)
    BY <1>3 DEF Measured
  <2>12. QED
    BY <1>1, <1>3, <2>8, <2>9, <2>10, <2>11 DEF SentRight, Measured
<1>6. SentFits'
  BY <1>1, <1>4, <1>5 DEF SentFits
<1>7. QED
  BY <1>2, <1>6 DEF EventTimes, TimesInv

\* A batch nothing of which can be dated.
LEMMA SkipBatchTimes == IInv /\ TimesInv /\ SkipBatch => TimesInv'
<1> SUFFICES ASSUME IInv, TimesInv, SkipBatch PROVE TimesInv'
  OBVIOUS
<1>1. /\ upload.on /\ upload.offset < upload.total /\ upload' = Continued(Datable)
      /\ UNCHANGED <<clockVars, pending, queue>>
  BY DEF SkipBatch
<1>2. QED
  BY <1>1, BatchTimes

\* A batch the server takes.
LEMMA SendBatchTimes == IInv /\ TimesInv /\ SendBatch => TimesInv'
BY BatchTimes DEF SendBatch, Sending

\* An upload that ends, with the queue as it was or cleared.
LEMMA UploadEndsTimes ==
  ASSUME IInv, TimesInv, UNCHANGED <<clockVars, pending>>,
         upload' \in {Idle, [Idle EXCEPT !.refused = TRUE]},
         queue' \in {queue, <<>>}
  PROVE  TimesInv'
<1>1. ~upload'.on
  BY IdleIsUpload
<1>2. CASE queue' = queue
  <2>1. EventTimes' /\ InOrder'
    BY <1>2, NothingMoves
  <2>2. QED
    BY <1>1, <2>1, TimesWithoutUpload
<1>3. CASE queue' = <<>>
  <2>1. EventTimes /\ InOrder /\ QueueInv
    BY DEF TimesInv, EventTimes, IInv
  <2>2. pending \in Seq(Event) /\ DOMAIN queue' = {} /\ pending' = pending
    BY <1>3, <2>1, EmptySeq DEF QueueInv
  <2>3. Events' \subseteq Events
    BY <2>2 DEF Events, Elements
  <2>4. file' = state'
    BY <2>1 DEF clockVars, EventTimes, OneCorrectionEach
  <2>5. EventTimes'
    BY <2>1, <2>3, <2>4, SameClock DEF clockVars
  <2>6. Waiting' = pending
    <3>1. Waiting' = <<>> \o pending
      BY <1>3, <2>2 DEF Waiting
    <3>2. QED
      BY <2>2, <3>1, ConcatEmptySeq
  <2>7. /\ Len(queue) \in Nat /\ Len(pending) \in Nat
        /\ Len(Waiting) = Len(queue) + Len(pending)
        /\ \A i \in 1..Len(pending) : Waiting[Len(queue) + i] = pending[i]
    BY <2>1, WaitingEvents
  <2>8. Len(Waiting) \in Nat /\ Len(Waiting') = Len(pending)
    BY <2>6, <2>7
  <2>9. ASSUME NEW i \in 1..Len(Waiting')
        PROVE  Len(queue) + i \in 1..Len(Waiting) /\ Waiting'[i].at = Waiting[Len(queue) + i].at
    <3>1. i \in 1..Len(pending)
      BY <2>8
    <3>2. Len(queue) + i \in 1..Len(Waiting)
      BY <2>7, <3>1
    <3>3. QED
      BY <2>6, <2>7, <3>1, <3>2
  <2>10. InOrder'
    BY <2>1, <2>7, <2>8, <2>9, StillInOrder
  <2>11. QED
    BY <1>1, <2>5, <2>10, TimesWithoutUpload
<1>4. QED
  BY <1>2, <1>3

\* A new era's correction goes where the oldest of another era was.
LEMMA OldestIsSlot ==
  ASSUME NEW h \in [Slots -> Correction]
  PROVE  Oldest(h) \in Slots
<1> DEFINE eras == {EraIn(h, s) : s \in Slots}
           oldest == {s \in Slots : \A t \in Slots : EraIn(h, s) <= EraIn(h, t)}
<1>1. 1 \in Slots /\ Slots \subseteq Nat
  BY ClockConstants DEF Slots
<1>2. \A s \in Slots : EraIn(h, s) \in Nat
  BY ClockConstants DEF EraIn, Correction
<1>3. eras \in SUBSET Nat /\ eras # {}
  BY <1>1, <1>2
<1>4. Least(eras) \in eras /\ \A n \in eras : Least(eras) <= n
  BY <1>3, LeastOfSet
<1>5. oldest # {}
  <2>1. PICK m \in Slots : EraIn(h, m) = Least(eras)
    BY <1>4
  <2>2. \A t \in Slots : EraIn(h, m) <= EraIn(h, t)
    BY <1>4, <2>1
  <2>3. m \in oldest
    BY <2>2
  <2>4. QED
    BY <2>3
<1>6. oldest \in SUBSET Nat
  BY <1>1
<1>7. Least(oldest) \in oldest
  BY <1>5, <1>6, LeastOfSet
<1>8. QED
  BY <1>7 DEF Oldest

\* A measurement takes one slot, the one its era had if it had one; the other
\* slots are of other eras and stay.
LEMMA UpsertSlots ==
  ASSUME ClockInv, OneCorrectionEach, NEW entry \in Correction, entry.era = state.era
  PROVE  \E k \in Slots :
           /\ Upsert(state.history, entry) = [state.history EXCEPT ![k] = entry]
           /\ \A s \in Slots \ {k} : s \notin SlotsOf(state.history, state.era)
<1> DEFINE own == SlotsOf(state.history, state.era)
           k == IF own # {} THEN Least(own) ELSE Oldest(state.history)
<1>1. state.history \in [Slots -> Correction]
  BY DEF ClockInv, State
<1>2. Upsert(state.history, entry) = [state.history EXCEPT ![k] = entry]
  BY DEF Upsert
<1>3. CASE own # {}
  <2>1. k = Least(own) /\ k \in own /\ k \in Slots
    BY <1>3, SlotOfEra DEF Measured
  <2>2. \A s \in Slots \ {k} : s \notin own
    BY <2>1 DEF OneCorrectionEach, SlotsOf
  <2>3. QED
    BY <1>2, <2>1, <2>2
<1>4. CASE own = {}
  <2>1. k \in Slots
    BY <1>1, <1>4, OldestIsSlot
  <2>2. QED
    BY <1>2, <1>4, <2>1
<1>5. QED
  BY <1>3, <1>4

\* An event with one more sync keeps the rest.
LEMMA ResyncedEvent ==
  ASSUME NEW s \in Seq(Event), NEW y \in Elements(Resynced(s))
  PROVE  \E x \in Elements(s) :
           /\ x \in Event /\ y.start = x.start /\ y.at = x.at /\ y.era = x.era
           /\ y.syncs = x.syncs + (IF x.era = state.era THEN 1 ELSE 0)
<1>1. DOMAIN Resynced(s) = DOMAIN s
  BY DEF Resynced
<1>2. PICK i \in DOMAIN s : y = Resynced(s)[i]
  BY <1>1 DEF Elements
<1> DEFINE x == s[i]
<1>3. x \in Elements(s) /\ x \in Event
  BY LenProperties, ElementOfSeq DEF Elements
<1>4. y = [x EXCEPT !.syncs = @ + (IF x.era = state.era THEN 1 ELSE 0)]
  BY <1>2, Zenon DEF Resynced
<1> HIDE DEF x
<1>5. /\ y.start = x.start /\ y.at = x.at /\ y.era = x.era
      /\ y.syncs = x.syncs + (IF x.era = state.era THEN 1 ELSE 0)
  BY <1>3, <1>4 DEF Event
<1>6. QED
  BY <1>3, <1>5

\* A synchronisation measures what the clock was off by, for the events before
\* it; the next ones have the clock it set.
LEMMA SyncTimes == NoFileFault /\ IInv /\ TimesInv /\ Sync => TimesInv'
<1> SUFFICES ASSUME NoFileFault, IInv, TimesInv, Sync PROVE TimesInv'
  OBVIOUS
<1>1. /\ ClockInv /\ QueueInv /\ OneCorrectionEach /\ EventsPast /\ InOrder /\ ClockFits /\ EventsFit
      /\ NtpSync /\ queue' = Resynced(queue) /\ pending' = Resynced(pending)
      /\ upload' = upload /\ ~upload.on
  BY DEF Sync, IInv, TimesInv
<1>2. /\ real \in Int /\ clock \in Int /\ clock >= 1 /\ drift \in Int /\ drift >= 0
      /\ clock <= real + drift /\ state \in State /\ Plausible \in Int
  BY <1>1, ClockConstants DEF ClockInv
<1>3. PICK entry \in Correction :
        /\ entry.used /\ entry.era = state.era /\ entry.delta = real - clock
        /\ entry.syncDevice = clock /\ entry.windowStart = WindowStart(state)
        /\ state' = [state EXCEPT !.history = Upsert(state.history, entry), !.checkpoint = real]
  <2> DEFINE measured == [used |-> TRUE, era |-> state.era, delta |-> real - clock,
                          windowStart |-> WindowStart(state), syncDevice |-> clock]
  <2>1. WindowStart(state) \in Nat
    BY <1>2, WindowStartType
  <2>2. state.era \in 0..MaxRestarts + 1 /\ real - clock \in Int /\ clock \in Nat
    BY <1>1, ClockConstants DEF ClockInv
  <2>3. measured \in Correction
    BY <2>1, <2>2 DEF Correction
  <2>4. /\ measured.used /\ measured.era = state.era /\ measured.delta = real - clock
        /\ measured.syncDevice = clock /\ measured.windowStart = WindowStart(state)
    OBVIOUS
  <2>5. state' = [state EXCEPT !.history = Upsert(state.history, measured), !.checkpoint = real]
    BY <1>1 DEF NtpSync
  <2> HIDE DEF measured
  <2>6. QED
    BY <2>3, <2>4, <2>5
<1>4. /\ entry.used /\ entry.era = state.era /\ entry.delta = real - clock
      /\ entry.syncDevice = clock /\ entry.windowStart = WindowStart(state)
  BY <1>3
<1>5. /\ state' = [state EXCEPT !.history = Upsert(state.history, entry), !.checkpoint = real]
      /\ SaveState(state')
      /\ clock' = real /\ UNCHANGED <<real, drift, stepped>>
  BY <1>1, <1>3 DEF NtpSync
<1>6. PICK k \in Slots :
        /\ Upsert(state.history, entry) = [state.history EXCEPT ![k] = entry]
        /\ \A s \in Slots \ {k} : s \notin SlotsOf(state.history, state.era)
  BY <1>1, <1>3, <1>4, UpsertSlots
<1>7. /\ state'.era = state.era /\ file' = state'
      /\ state'.history[k] = entry
      /\ \A s \in Slots \ {k} : state'.history[s] = state.history[s]
  <2>1. state'.era = state.era /\ state'.history = Upsert(state.history, entry)
    BY <1>2, <1>5 DEF State
  <2>2. state.history \in [Slots -> Correction]
    BY <1>2 DEF State
  <2>3. QED
    BY <1>5, <1>6, <2>1, <2>2, Saved
\* The slots of another era are some of those it had, as they were.
<1>8. ASSUME NEW era, era # state.era, NEW s \in SlotsOf(state'.history, era)
      PROVE  s \in SlotsOf(state.history, era) /\ state'.history[s] = state.history[s]
  BY <1>4, <1>7, <1>8 DEF SlotsOf
<1>9. \A s \in SlotsOf(state'.history, state.era) : state'.history[s] = entry
  <2>1. ASSUME NEW s \in SlotsOf(state'.history, state.era) PROVE s = k
    <3>1. s \in Slots /\ state'.history[s].used /\ state'.history[s].era = state.era
      BY DEF SlotsOf
    <3>2. s # k => s \in SlotsOf(state.history, state.era)
      BY <1>7, <3>1 DEF SlotsOf
    <3>3. QED
      BY <1>6, <3>1, <3>2
  <2>2. QED
    BY <1>7, <2>1
<1>10. OneCorrectionEach'
  <2>1. ASSUME NEW s \in Slots, state'.history[s].used
        PROVE  state'.history[s].era <= state'.era /\ state'.history[s].syncDevice # 0
    <3>1. CASE s = k
      <4>1. state.era <= state.era
        BY <1>2 DEF State
      <4>2. QED
        BY <1>2, <1>4, <1>7, <3>1, <4>1
    <3>2. CASE s # k
      BY <1>1, <1>7, <2>1, <3>2 DEF OneCorrectionEach
    <3>3. QED
      BY <3>1, <3>2
  <2>2. ASSUME NEW s \in Slots, NEW t \in Slots,
               state'.history[s].used, state'.history[t].used,
               state'.history[s].era = state'.history[t].era
        PROVE  s = t
    <3>1. CASE state'.history[s].era = state.era
      <4>1. s = k
        BY <1>6, <1>7, <2>2, <3>1 DEF SlotsOf
      <4>2. t = k
        BY <1>6, <1>7, <2>2, <3>1 DEF SlotsOf
      <4>3. QED
        BY <4>1, <4>2
    <3>2. CASE state'.history[s].era # state.era
      <4>1. s # k /\ t # k
        BY <1>4, <1>7, <2>2, <3>2
      <4>2. QED
        BY <1>1, <1>7, <2>2, <4>1 DEF OneCorrectionEach
    <3>3. QED
      BY <3>1, <3>2
  <2>3. QED
    BY <1>7, <2>1, <2>2 DEF OneCorrectionEach
\* The events are the same, but for the syncs of those of this era.
<1>11. ASSUME NEW y \in Events'
       PROVE  \E x \in Events :
                /\ x \in Event /\ y.start = x.start /\ y.at = x.at /\ y.era = x.era
                /\ y.syncs = x.syncs + (IF x.era = state.era THEN 1 ELSE 0)
  <2>1. y \in Elements(Resynced(queue)) \/ y \in Elements(Resynced(pending))
    BY <1>1 DEF Events, Elements
  <2>2. queue \in Seq(Event) /\ pending \in Seq(Event)
    BY <1>1 DEF QueueInv
  <2>3. QED
    BY <2>1, <2>2, ResyncedEvent DEF Events
<1>12. EventsPast'
  <2> SUFFICES ASSUME NEW y \in Events' PROVE PastEvent(y)'
    BY DEF EventsPast
  <2>1. PICK x \in Events : y.start = x.start /\ y.at = x.at /\ y.era = x.era
    BY <1>11
  <2>2. PastEvent(x)
    BY <1>1 DEF EventsPast
  <2>3. QED
    BY <1>5, <1>7, <2>1, <2>2 DEF PastEvent
<1>13. ClockFits'
  <2> SUFFICES ASSUME NEW s \in SlotsOf(state'.history, state'.era)
               PROVE  ClockFollows(state.history[s])'
    BY DEF ClockFits
  <2>1. state'.history[s] = entry
    BY <1>7, <1>9
  <2>2. /\ 0 <= (real - real) + drift /\ real - real <= drift
        /\ 0 <= real - real + (real - clock) + drift
        /\ clock + (real - clock) <= real
    BY <1>2
  <2>3. QED
    BY <1>4, <1>5, <2>1, <2>2 DEF ClockFollows, Near
<1>14. EventsFit'
  <2> SUFFICES ASSUME ~stepped, NEW y \in Events' PROVE Followed(y)' /\ Correctly(y)'
    BY <1>5 DEF EventsFit
  <2>1. PICK x \in Events :
          /\ x \in Event /\ y.start = x.start /\ y.at = x.at /\ y.era = x.era
          /\ y.syncs = x.syncs + (IF x.era = state.era THEN 1 ELSE 0)
    BY <1>11
  <2>2. Followed(x) /\ Correctly(x) /\ x.syncs \in Nat /\ x.start \in Int /\ x.at \in Int
    BY <1>1, <2>1 DEF EventsFit, Event
  <2>3. Error(y) = Error(x) /\ Error(x) \in Int
    BY <2>1, <2>2 DEF Error
  <2>4. CASE x.era = state.era
    <3>1. y.syncs = x.syncs + 1 /\ y.syncs # 0
      BY <2>1, <2>2, <2>4
    <3>2. Followed(y)'
      BY <3>1 DEF Followed
    <3>3. ASSUME y.syncs <= 1, NEW s \in SlotsOf(state'.history, y.era)
          PROVE  Fits(y, state.history[s])'
      <4>1. state'.history[s] = entry
        BY <1>9, <2>1, <2>4, <3>3
      <4>2. x.syncs = 0 /\ x.start <= clock /\ Near(Error(x) - (clock - real))
        BY <2>2, <2>4, <3>1, <3>3 DEF Followed
      <4>3. Near(Error(x) + entry.delta)
        <5>1. Error(x) - (clock - real) = Error(x) + entry.delta
          BY <1>2, <1>4, <2>3
        <5>2. QED
          BY <4>2, <5>1
      <4>4. entry.windowStart # 0 => Near(Error(x))
        <5>1. WindowStart(state) # 0 => SlotsOf(state.history, state.era) # {}
          BY DEF WindowStart
        <5>2. ASSUME NEW t \in SlotsOf(state.history, state.era) PROVE Near(Error(x))
          BY <2>2, <2>4, <4>2 DEF Correctly, Fits
        <5>3. QED
          BY <1>4, <5>1, <5>2
      <4>5. ~(y.start > entry.syncDevice)
        BY <1>2, <1>4, <2>1, <2>2, <4>2
      <4>6. Fits(y, entry)
        BY <2>3, <3>1, <4>3, <4>4, <4>5 DEF Fits
      <4>7. Fits(y, entry)'
        BY <1>5, <4>6 DEF Fits, Near, Error
      <4>8. QED
        BY <4>1, <4>7 DEF Fits, Error
    <3>4. QED
      BY <3>2, <3>3 DEF Correctly
  <2>5. CASE x.era # state.era
    <3>1. y.syncs = x.syncs
      BY <2>1, <2>2, <2>5
    <3>2. Followed(y)'
      BY <1>7, <2>1, <2>5 DEF Followed
    <3>3. ASSUME y.syncs <= 1, NEW s \in SlotsOf(state'.history, y.era)
          PROVE  Fits(y, state.history[s])'
      <4>1. s \in SlotsOf(state.history, x.era) /\ state'.history[s] = state.history[s]
        BY <1>8, <2>1, <2>5
      <4>2. Fits(x, state.history[s])
        BY <2>2, <3>1, <3>3, <4>1 DEF Correctly
      <4>3. Fits(y, state.history[s])
        BY <2>1, <2>3, <3>1, <4>2 DEF Fits
      <4>4. QED
        BY <1>5, <4>1, <4>3 DEF Fits, Near, Error
    <3>4. QED
      BY <3>2, <3>3 DEF Correctly
  <2>6. QED
    BY <2>4, <2>5
<1>15. InOrder'
  <2>1. queue \in Seq(Event) /\ pending \in Seq(Event)
    BY <1>1 DEF QueueInv
  <2>2. /\ queue' \in Seq(Event) /\ Len(queue') = Len(queue)
        /\ pending' \in Seq(Event) /\ Len(pending') = Len(pending)
        /\ \A i \in DOMAIN queue : queue'[i].at = queue[i].at
        /\ \A i \in DOMAIN pending : pending'[i].at = pending[i].at
    BY <1>1, <2>1, ResyncedKeeps
  <2>3. /\ Len(queue) \in Nat /\ Len(pending) \in Nat
        /\ DOMAIN queue = 1..Len(queue) /\ DOMAIN pending = 1..Len(pending)
    BY <2>1, LenProperties
  <2>4. /\ Len(Waiting) = Len(queue) + Len(pending)
        /\ \A i \in 1..Len(queue) + Len(pending) :
             Waiting[i] = IF i <= Len(queue) THEN queue[i] ELSE pending[i - Len(queue)]
    BY <2>1, ConcatProperties DEF Waiting
  <2>5. PICK q \in Seq(Event), p \in Seq(Event) :
          /\ q = queue' /\ p = pending'
          /\ Len(Waiting') = Len(q) + Len(p)
          /\ \A i \in 1..Len(q) + Len(p) :
               Waiting'[i] = IF i <= Len(q) THEN q[i] ELSE p[i - Len(q)]
    <3>1. PICK q \in Seq(Event), p \in Seq(Event) : q = queue' /\ p = pending'
      BY <2>2
    <3>2. Waiting' = q \o p
      BY <3>1 DEF Waiting
    <3>3. /\ Len(q \o p) = Len(q) + Len(p)
          /\ \A i \in 1..Len(q) + Len(p) :
               (q \o p)[i] = IF i <= Len(q) THEN q[i] ELSE p[i - Len(q)]
      BY ConcatProperties
    <3>4. QED
      BY <3>1, <3>2, <3>3
  <2>6. ASSUME NEW i \in 1..Len(Waiting')
        PROVE  0 + i \in 1..Len(Waiting) /\ Waiting'[i].at = Waiting[0 + i].at
    <3>1. i \in 1..Len(queue) + Len(pending) /\ 0 + i = i
      BY <2>2, <2>3, <2>5
    <3>2. CASE i <= Len(queue)
      <4>1. i \in DOMAIN queue
        BY <2>3, <3>1, <3>2
      <4>2. Waiting'[i] = queue'[i] /\ Waiting[i] = queue[i]
        BY <2>2, <2>4, <2>5, <3>1, <3>2
      <4>3. QED
        BY <2>2, <2>4, <3>1, <4>1, <4>2
    <3>3. CASE ~(i <= Len(queue))
      <4>1. i - Len(queue) \in DOMAIN pending
        BY <2>3, <3>1, <3>3
      <4>2. Waiting'[i] = pending'[i - Len(queue)] /\ Waiting[i] = pending[i - Len(queue)]
        BY <2>2, <2>4, <2>5, <3>1, <3>3
      <4>3. QED
        BY <2>2, <2>4, <3>1, <4>1, <4>2
    <3>4. QED
      BY <3>2, <3>3
  <2>7. Len(Waiting) \in Nat /\ Len(Waiting') \in Nat /\ 0 \in Nat
    BY <2>2, <2>3, <2>4, <2>5
  <2>8. QED
    BY <1>1, <2>6, <2>7, StillInOrder
<1>16. QED
  BY <1>1, <1>10, <1>12, <1>13, <1>14, <1>15, TimesWithoutUpload DEF EventTimes

\* Time passes, or a browser sets it, which no measurement can be trusted after.
LEMMA IdlingTimes == IInv /\ TimesInv /\ Idling => TimesInv'
<1> SUFFICES ASSUME IInv, TimesInv, Idling PROVE TimesInv'
  OBVIOUS
<1>1. /\ ClockInv /\ QueueInv /\ EventTimes /\ InOrder /\ ~upload'.on
      /\ UNCHANGED <<pending, queue>>
  BY DEF Idling, IInv, TimesInv, EventTimes
<1>2. Events' = Events
  BY <1>1 DEF Events, Elements
<1>3. CASE TimePasses
  <2>1. /\ OneCorrectionEach' /\ ClockFits'
        /\ \A x \in Events : PastEvent(x)'
        /\ ~stepped' => \A x \in Events : Followed(x)' /\ Correctly(x)'
    BY <1>1, <1>3, TickKeepsEvents
  <2>2. EventTimes'
    BY <1>2, <2>1 DEF EventTimes, EventsPast, EventsFit
  <2>3. QED
    BY <1>1, <2>2, SameOrder, TimesWithoutUpload
<1>4. CASE ApplyClientTime
  <2>1. stepped' /\ UNCHANGED <<real, state, file, drift>>
    BY <1>4 DEF ApplyClientTime
  <2>2. OneCorrectionEach' /\ EventsPast'
    BY <1>1, <1>2, <2>1 DEF EventTimes, OneCorrectionEach, EventsPast, PastEvent
  <2>3. EventTimes'
    BY <2>1, <2>2 DEF EventTimes, ClockFits, EventsFit
  <2>4. QED
    BY <1>1, <2>3, SameOrder, TimesWithoutUpload
<1>5. QED
  BY <1>3, <1>4 DEF Idling

\* A boot keeps the era and its clock, or opens an era of its own, or is known
\* to have moved the clock.
LEMMA BootTimes ==
  ASSUME NoFileFault, ClockInv, QueueInv, EventTimes,
         NEW flash, NEW running, NEW base, Boot(flash, running, base),
         NEW off \in Nat, real' = real + off, Events' \subseteq Events
  PROVE  EventTimes'
<1> DEFINE restored == IF running \/ flash = 0 THEN base ELSE flash
           opened == [state EXCEPT !.era = @ + 1]
<1>1. /\ real \in Int /\ clock \in Int /\ drift \in Int /\ Plausible \in Int
      /\ state \in State /\ state.era \in Nat
  BY ClockConstants DEF ClockInv
<1>2. file = state /\ file # Torn
  <2>1. Torn.era = -1
    BY DEF Torn
  <2>2. QED
    BY <1>1, <2>1 DEF EventTimes, OneCorrectionEach
<1>3. drift' = drift
      /\ stepped' = (stepped \/ (state'.era = state.era /\ clock' # clock + (real' - real)))
  BY DEF Boot
<1>4. CASE IsPlausible(restored)
  <2>1. state' = state /\ file' = state
    BY <1>2, <1>4 DEF Boot
  <2>2. ~stepped' => ~stepped /\ clock' = clock + off
    <3>1. real' - real = off
      BY <1>1
    <3>2. QED
      BY <1>3, <2>1, <3>1
  <2>3. OneCorrectionEach'
    BY <2>1 DEF EventTimes, OneCorrectionEach
  <2>4. EventsPast'
    <3> SUFFICES ASSUME NEW x \in Events' PROVE PastEvent(x)'
      BY DEF EventsPast
    <3>1. PastEvent(x)
      BY DEF EventTimes, EventsPast
    <3>2. x.at \in Plausible..real + off
      BY <1>1, <3>1 DEF PastEvent
    <3>3. QED
      BY <1>3, <2>1, <3>1, <3>2 DEF PastEvent
  <2>5. ClockFits'
    <3> SUFFICES ASSUME ~stepped', NEW s \in SlotsOf(state.history, state.era)
                 PROVE  ClockFollows(state.history[s])'
      BY <2>1 DEF ClockFits, SlotsOf
    <3>1. PICK c \in Correction : c = state.history[s]
      BY <1>1 DEF State, SlotsOf
    <3>2. ClockFollows(c) /\ c.delta \in Int /\ c.syncDevice \in Int
      BY <2>2, <3>1 DEF EventTimes, ClockFits, Correction
    <3>3. /\ (clock + off) - (real + off) = clock - real
          /\ c.syncDevice + c.delta <= real + off
      BY <1>1, <3>2 DEF ClockFollows
    <3>4. clock' - real' = clock - real /\ c.syncDevice + c.delta <= real'
      BY <2>2, <3>3
    <3>5. ClockFollows(c)'
      BY <1>3, <3>2, <3>4 DEF ClockFollows, Near
    <3>6. QED
      BY <2>1, <3>1, <3>5 DEF ClockFollows
  <2>6. EventsFit'
    <3> SUFFICES ASSUME ~stepped', NEW x \in Events' PROVE Followed(x)' /\ Correctly(x)'
      BY DEF EventsFit
    <3>1. Followed(x) /\ Correctly(x) /\ x \in Event
      BY <2>2, WaitingEvents DEF EventTimes, EventsFit
    <3>2. x.start \in Int
      BY <3>1 DEF Event
    <3>3. (clock + off) - (real + off) = clock - real
          /\ (x.start <= clock => x.start <= clock + off)
      BY <1>1, <3>2
    <3>4. clock' - real' = clock - real /\ (x.start <= clock => x.start <= clock')
      BY <2>2, <3>3
    <3>5. Followed(x)'
      BY <1>3, <2>1, <3>1, <3>4 DEF Followed, Near, Error
    <3>6. Correctly(x)'
      BY <1>3, <2>1, <3>1 DEF Correctly, Fits, SlotsOf, Near, Error
    <3>7. QED
      BY <3>5, <3>6
  <2>7. QED
    BY <2>3, <2>4, <2>5, <2>6 DEF EventTimes
<1>5. CASE ~IsPlausible(restored)
  <2>1. state' = opened /\ SaveState(opened)
    BY <1>2, <1>5 DEF Boot
  <2>2. file' = state'
    BY <2>1, Saved
  <2>3. state'.era = state.era + 1 /\ state'.history = state.history /\ state'.era # state.era
    BY <1>1, <2>1 DEF State
  <2>4. ~stepped' => ~stepped
    BY <1>3, Zenon
  <2>5. OneCorrectionEach'
    <3>1. ASSUME NEW s \in Slots, state.history[s].used
          PROVE  state.history[s].era <= state.era + 1 /\ state.history[s].syncDevice # 0
      <4>1. state.history[s].era <= state.era /\ state.history[s].syncDevice # 0
        BY <3>1 DEF EventTimes, OneCorrectionEach
      <4>2. state.history[s].era \in Int
        BY <1>1, ClockConstants DEF State, Correction
      <4>3. QED
        BY <1>1, <4>1, <4>2
    <3>2. QED
      BY <2>2, <2>3, <3>1 DEF EventTimes, OneCorrectionEach
  <2>6. EventsPast'
    <3> SUFFICES ASSUME NEW x \in Events' PROVE PastEvent(x)'
      BY DEF EventsPast
    <3>1. PastEvent(x) /\ x \in Event
      BY WaitingEvents DEF EventTimes, EventsPast
    <3>2. x.at \in Plausible..real + off /\ x.era <= state.era + 1
      BY <1>1, <3>1 DEF PastEvent, Event
    <3>3. QED
      BY <1>3, <2>3, <3>1, <3>2 DEF PastEvent
  <2>7. ClockFits'
    <3>1. ASSUME NEW s \in SlotsOf(state.history, state.era + 1) PROVE FALSE
      <4>1. s \in Slots /\ state.history[s].used /\ state.history[s].era = state.era + 1
        BY DEF SlotsOf
      <4>2. state.history[s].era <= state.era
        BY <4>1 DEF EventTimes, OneCorrectionEach
      <4>3. QED
        BY <1>1, <4>1, <4>2
    <3>2. QED
      BY <2>3, <3>1 DEF ClockFits, SlotsOf
  <2>8. EventsFit'
    <3> SUFFICES ASSUME ~stepped, NEW x \in Events' PROVE Followed(x)' /\ Correctly(x)'
      BY <2>4 DEF EventsFit
    <3>1. Correctly(x) /\ x.era <= state.era /\ x.era \in Int
      BY WaitingEvents DEF EventTimes, EventsFit, EventsPast, PastEvent, Event
    <3>2. x.era # state'.era
      BY <1>1, <2>3, <3>1
    <3>3. Followed(x)'
      BY <3>2 DEF Followed
    <3>4. Correctly(x)'
      BY <1>3, <2>3, <3>1 DEF Correctly, Fits, SlotsOf, Near, Error
    <3>5. QED
      BY <3>3, <3>4
  <2>9. QED
    BY <2>5, <2>6, <2>7, <2>8 DEF EventTimes
<1>6. QED
  BY <1>4, <1>5

\* A restart is a boot some time later, with the queue as the card has it.
LEMMA RestartTimes == NoFileFault /\ IInv /\ TimesInv /\ Restart => TimesInv'
<1> SUFFICES ASSUME NoFileFault, IInv, TimesInv, Restart PROVE TimesInv'
  OBVIOUS
<1>1. /\ ClockInv /\ QueueInv /\ EventTimes /\ InOrder
      /\ pending' = <<>> /\ queue' = queue /\ upload' = Idle
  BY DEF Restart, IInv, TimesInv, EventTimes
<1>2. Events' \subseteq Events
  <2>1. DOMAIN pending' = {}
    BY <1>1, EmptySeq
  <2>2. QED
    BY <1>1, <2>1 DEF Events, Elements
<1>3. \E off \in Nat : \E flash, running, base : real' = real + off /\ Boot(flash, running, base)
  <2>1. ASSUME NEW keepLp \in BOOLEAN, Sleep(keepLp)
        PROVE  \E off \in Nat : \E flash, running, base : real' = real + off /\ Boot(flash, running, base)
    <3>1. PICK off \in 1..MaxOff, saved \in {FALSE, IsPlausible(clock)} :
            /\ real' = real + off
            /\ Boot(IF saved THEN clock ELSE nvs, keepLp /\ (saved \/ lp),
                    IF keepLp THEN clock + off ELSE 1)
      BY <2>1 DEF Sleep
    <3>2. off \in Nat
      BY ClockConstants
    <3>3. QED
      BY <3>1, <3>2
  <2>2. ASSUME Reset
        PROVE  \E off \in Nat : \E flash, running, base : real' = real + off /\ Boot(flash, running, base)
    <3>1. real' = real /\ Boot(nvs, lp, clock)
      BY <2>2 DEF Reset
    <3>2. real' = real + 0
      BY <1>1, <3>1, ClockConstants DEF ClockInv
    <3>3. QED
      BY <3>1, <3>2
  <2>3. ASSUME NEW erased \in BOOLEAN, PowerLoss(erased)
        PROVE  \E off \in Nat : \E flash, running, base : real' = real + off /\ Boot(flash, running, base)
    <3>1. PICK off \in 1..MaxOff :
            real' = real + off /\ Boot(IF erased THEN 0 ELSE nvs, FALSE, 1)
      BY <2>3 DEF PowerLoss
    <3>2. off \in Nat
      BY ClockConstants
    <3>3. QED
      BY <3>1, <3>2
  <2>4. QED
    BY <2>1, <2>2, <2>3 DEF Restart
<1>4. EventTimes'
  BY <1>1, <1>2, <1>3, BootTimes
<1>5. InOrder'
  <2>1. /\ Len(queue) \in Nat /\ Len(pending) \in Nat
        /\ Len(Waiting) = Len(queue) + Len(pending)
        /\ \A i \in 1..Len(queue) : Waiting[i] = queue[i]
    BY <1>1, WaitingEvents
  <2>2. Waiting' = queue
    <3>1. Waiting' = queue \o <<>> /\ queue \in Seq(Event)
      BY <1>1 DEF Waiting, QueueInv
    <3>2. QED
      BY <3>1, ConcatEmptySeq
  <2>3. Len(Waiting) \in Nat /\ Len(Waiting') = Len(queue)
    BY <2>1, <2>2
  <2>4. ASSUME NEW i \in 1..Len(Waiting')
        PROVE  0 + i \in 1..Len(Waiting) /\ Waiting'[i].at = Waiting[0 + i].at
    BY <2>1, <2>2, <2>3
  <2>5. QED
    BY <1>1, <2>1, <2>3, <2>4, StillInOrder
<1>6. ~upload'.on
  BY <1>1, IdleIsUpload
<1>7. QED
  BY <1>4, <1>5, <1>6, TimesWithoutUpload

\* At the start nothing waits and nothing was measured.
LEMMA InitTimes == Init => TimesInv
<1> SUFFICES ASSUME Init PROVE TimesInv
  OBVIOUS
<1>1. queue = <<>> /\ pending = <<>> /\ upload = Idle /\ file = state
      /\ state = [Fresh EXCEPT !.era = 1]
  BY DEF Init, ClockInit
<1>2. \A s \in Slots : state.history[s] = Unused /\ ~state.history[s].used
  BY <1>1 DEF Fresh, Unused
<1>3. Events = {}
  BY <1>1, EmptySeq DEF Events, Elements
<1>4. Len(Waiting) = 0
  BY <1>1, EmptySeq, ConcatEmptySeq DEF Waiting
<1>5. InOrder
  BY <1>4 DEF InOrder
<1>6. OneCorrectionEach
  BY <1>1, <1>2 DEF OneCorrectionEach
<1>7. ClockFits
  BY <1>2 DEF ClockFits, SlotsOf
<1>8. QED
  BY <1>1, <1>3, <1>5, <1>6, <1>7, IdleIsUpload DEF TimesInv, EventsPast, EventsFit, SentFits

\* Every step keeps the times right.
LEMMA NextTimes == NoFileFault /\ IInv /\ TimesInv /\ [Next]_vars => TimesInv'
<1> SUFFICES ASSUME NoFileFault, IInv, TimesInv, [Next]_vars PROVE TimesInv'
  OBVIOUS
<1>1. CASE TurnPage
  BY <1>1, TurnPageTimes
<1>2. CASE EndSession
  BY <1>2, EndSessionTimes
<1>3. CASE SaveTime
  BY <1>3, SaveTimeTimes
<1>4. CASE BeginUpload
  BY <1>4, BeginUploadTimes
<1>5. CASE SkipBatch
  BY <1>5, SkipBatchTimes
<1>6. CASE SendBatch
  BY <1>6, SendBatchTimes
<1>7. CASE FailedBatch \/ RefusedBatch \/ FinishUpload
  BY <1>7, UploadEndsTimes DEF FailedBatch, RefusedBatch, FinishUpload, Kept
<1>8. CASE Sync
  BY <1>8, SyncTimes
<1>9. CASE Idling
  BY <1>9, IdlingTimes
<1>10. CASE Restart
  BY <1>10, RestartTimes
<1>11. CASE UNCHANGED vars
  <2>1. UNCHANGED <<clockVars, pending, queue>> /\ upload' = upload
    BY <1>11 DEF vars
  <2>2. EventTimes' /\ InOrder'
    BY <2>1, NothingMoves
  <2>3. SentFits'
    BY <2>1 DEF clockVars, TimesInv, SentFits, SentRight, Trusted, Measured, IsPlausible
  <2>4. QED
    BY <2>2, <2>3 DEF EventTimes, TimesInv
<1>12. QED
  BY <1>1, <1>2, <1>3, <1>4, <1>5, <1>6, <1>7, <1>8, <1>9, <1>10, <1>11 DEF Next

\* An event of a measured era is uploaded with its true time up to drift: its
\* era's flat correction, the part of a ramp that was its due, or none, whatever
\* was measured, evicted, slept through or lost since, while wallclock.bin is
\* read and written whole (markNtpSynced, correctionForEvent, uploadQueuedStats).
THEOREM SentTimesAreTrue == ASSUME Faults \subseteq {"erase"} PROVE Spec => []Dated
<1>1. NoFileFault
  BY DEF NoFileFault
<1>2. Init => TimesInv
  BY InitTimes
<1>3. IInv /\ TimesInv /\ [Next]_vars => TimesInv'
  BY <1>1, NextTimes
<1>4. IInv /\ TimesInv => Dated
  <2> SUFFICES ASSUME IInv, TimesInv, Trusted,
                      NEW x \in upload.sent, Measured(x.event.era)
               PROVE  x.start - x.event.at \in -drift..drift
    BY DEF Dated
  <2>1. upload.on
    BY DEF IInv, QueueInv
  <2>2. x.start <= x.event.at + drift /\ x.event.at - drift <= x.start
    BY <2>1 DEF TimesInv, SentFits, SentRight
  <2>3. x.start \in Int /\ x.event.at \in Int /\ drift \in Int
    BY ClockConstants DEF IInv, QueueInv, UploadRecord, SentEvent, Event, ClockInv
  <2>4. QED
    BY <2>2, <2>3
<1>5. QED
  BY <1>2, <1>3, <1>4, Invariant, PTL DEF Spec
=============================================================================
