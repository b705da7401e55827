----------------------------- MODULE WallClock -----------------------------
(***************************************************************************)
(* The device's idea of the time on a board without a battery-backed RTC:  *)
(* the system clock, what HalClock keeps of it over a restart, and         *)
(* WallClock's eras, checkpoint and corrections (src/lib/WallClock,        *)
(* src/lib/hal/HalClock.cpp).  Time is counted in ticks; an epoch below    *)
(* Plausible stands for one before MIN_PLAUSIBLE_EPOCH.                    *)
(***************************************************************************)
EXTENDS Integers

CONSTANTS Plausible,   \* first plausible epoch, and the real time at the start
          Horizon,     \* BOUND: last instant of real time
          EraSlots,    \* ERA_HISTORY: the slots of the correction table
          MaxOff,      \* BOUND: ticks one power-off or sleep may last
          MaxDrift,    \* BOUND: ticks the clock gains or loses in all
          MaxSyncs,    \* BOUND: NTP synchronisations
          MaxRestarts, \* BOUND: sleeps, resets and power losses
          Faults       \* subset of {"torn", "save", "erase"}

ASSUME ClockAssumption ==
  /\ {Plausible, Horizon, EraSlots, MaxOff, MaxDrift, MaxSyncs, MaxRestarts} \subseteq Nat
  /\ EraSlots > 0 /\ Plausible > 1 /\ Horizon >= Plausible
  /\ Faults \subseteq {"torn", "save", "erase"}

VARIABLES
  real,     \* true time
  clock,    \* time(nullptr)
  nvs,      \* the epoch HalClock keeps in flash, 0 for none
  lp,       \* the RTC snapshot can be carried on by the low-power timer
  state,    \* WallClock's s_state
  file,     \* wallclock.bin, Torn for none that loads
  drift,    \* history: ticks gained or lost so far
  stepped,  \* history: the clock was moved without a measurement or a new era
  syncs, restarts \* counters of the bounds

clockVars == <<real, clock, nvs, lp, state, file, drift, stepped, syncs, restarts>>

Slots == 1..EraSlots
Unused == [used |-> FALSE, era |-> 0, delta |-> 0, windowStart |-> 0, syncDevice |-> 0]
Correction == [used : BOOLEAN, era : 0..MaxRestarts + 1, delta : Int,
               windowStart : Nat, syncDevice : Nat]
Fresh == [era |-> 0, checkpoint |-> 0, history |-> [s \in Slots |-> Unused]]
Torn == [era |-> -1, checkpoint |-> 0, history |-> [s \in Slots |-> Unused]]

IsPlausible(t) == t >= Plausible

-----------------------------------------------------------------------------
(* The correction table. *)

Least(S) == CHOOSE s \in S : \A t \in S : s <= t

\* The slots that hold an era, and the first of those a new era replaces.
SlotsOf(h, era) == {s \in Slots : h[s].used /\ h[s].era = era}
EraIn(h, s) == IF h[s].used THEN h[s].era ELSE 0
Oldest(h) == Least({s \in Slots : \A t \in Slots : EraIn(h, s) <= EraIn(h, t)})

Upsert(h, entry) ==
  LET own == SlotsOf(h, entry.era)
  IN [h EXCEPT ![IF own # {} THEN Least(own) ELSE Oldest(h)] = entry]

\* Where the ramp of a new measurement starts: the previous one of this era.
WindowStart(st) ==
  LET own == SlotsOf(st.history, st.era)
      last == st.history[Least(own)]
  IN IF own # {} /\ last.syncDevice # 0 /\ IsPlausible(last.syncDevice + last.delta)
     THEN last.syncDevice + last.delta ELSE 0

Measured(era) == SlotsOf(state.history, era) # {}

\* n/d to the nearest integer, halves away from zero, as the code rounds it.
Rounded(n, d) == IF n >= 0 THEN (n + d \div 2) \div d ELSE -((d \div 2 - n) \div d)

Interpolated(c, recorded) ==
  Rounded(c.delta * (recorded - c.windowStart), c.syncDevice - c.windowStart)

CorrectionForAll(era, recorded) ==
  LET c == state.history[Least(SlotsOf(state.history, era))]
  IN IF c.windowStart = 0 \/ c.syncDevice <= c.windowStart THEN c.delta
     ELSE IF recorded <= c.windowStart THEN 0
     ELSE Interpolated(c, recorded)

\* correctionForEvent, for an era that was measured.
CorrectionFor(era, recorded) ==
  LET c == state.history[Least(SlotsOf(state.history, era))]
  IN IF c.syncDevice # 0 /\ recorded > c.syncDevice THEN 0
     ELSE IF c.windowStart = 0 \/ c.syncDevice <= c.windowStart THEN c.delta
     ELSE IF recorded <= c.windowStart THEN 0
     ELSE Interpolated(c, recorded)

-----------------------------------------------------------------------------
(* Saving and loading. *)

\* saveState opens the file, which empties it, and then writes it.
SaveState(st) ==
  file' \in {st} \cup (IF "save" \in Faults THEN {file} ELSE {})
                 \cup (IF "torn" \in Faults THEN {Torn} ELSE {})

\* HalClock::restore, then initAtBoot.  flash is what nvs holds by then,
\* running whether the low-power timer carried the snapshot on, base what the
\* system clock shows before either.
Boot(flash, running, base) ==
  LET restored == IF running \/ flash = 0 THEN base ELSE flash
      loaded == IF file = Torn THEN Fresh ELSE file
      opened == [loaded EXCEPT !.era = @ + 1]
  IN /\ nvs' = flash
     /\ lp' = running
     /\ IF IsPlausible(restored)
        THEN /\ state' = loaded
             /\ clock' = restored
             /\ UNCHANGED file
        ELSE /\ state' = opened
             /\ clock' = IF IsPlausible(opened.checkpoint) THEN opened.checkpoint ELSE restored
             /\ SaveState(opened)
     /\ stepped' = (stepped \/ (state'.era = state.era /\ clock' # clock + (real' - real)))
     /\ restarts' = restarts + 1
     /\ UNCHANGED <<drift, syncs>>

-----------------------------------------------------------------------------
(* The operations. *)

ClockInit ==
  /\ real = Plausible
  /\ clock = 1
  /\ nvs = 0
  /\ lp = FALSE
  /\ state = [Fresh EXCEPT !.era = 1]
  /\ file = state
  /\ drift = 0 /\ stepped = FALSE /\ syncs = 0 /\ restarts = 0

\* One tick of real time; the clock, on an RC oscillator, may show none or two.
\* updatePeriodic, when due, rewrites the snapshot but not its checksum.
TimePasses ==
  \E shown \in 0..2 :
    /\ real < Horizon
    /\ drift + (IF shown = 1 THEN 0 ELSE 1) <= MaxDrift
    /\ real' = real + 1
    /\ clock' = clock + shown
    /\ drift' = drift + (IF shown = 1 THEN 0 ELSE 1)
    /\ lp' \in {lp, FALSE}
    /\ UNCHANGED <<nvs, state, file, stepped, syncs, restarts>>

\* HalClock::syncNtp that succeeds, with the callback markNtpSynced.
NtpSync ==
  /\ syncs < MaxSyncs
  /\ LET entry == [used |-> TRUE, era |-> state.era, delta |-> real - clock,
                   windowStart |-> WindowStart(state), syncDevice |-> clock]
     IN state' = [state EXCEPT !.history = Upsert(@, entry), !.checkpoint = real]
  /\ SaveState(state')
  /\ clock' = real
  /\ nvs' = real
  /\ lp' = TRUE
  /\ syncs' = syncs + 1
  /\ UNCHANGED <<real, drift, stepped, restarts>>

\* A browser on the device's own network sets the clock; WallClock is not told,
\* and the snapshot's checksum no longer fits.
ApplyClientTime ==
  /\ clock # real
  /\ clock' = real
  /\ nvs' = real
  /\ lp' = FALSE
  /\ stepped' = TRUE
  /\ UNCHANGED <<real, state, file, drift, syncs, restarts>>

\* Nothing is saved while the clock is implausible.
Checkpoint ==
  IF IsPlausible(clock)
  THEN /\ state' = [state EXCEPT !.checkpoint = clock]
       /\ SaveState(state')
       /\ UNCHANGED <<real, clock, nvs, lp, drift, stepped, syncs, restarts>>
  ELSE UNCHANGED clockVars

\* Deep sleep: saveBeforeSleep, which keeps the time only if the clock is set
\* and not stale, then a boot after off ticks.  With the rail cut nothing counts
\* them.
Sleep(keepLp) ==
  \E off \in 1..MaxOff, saved \in {FALSE, IsPlausible(clock)} :
    /\ restarts < MaxRestarts
    /\ real + off <= Horizon
    /\ real' = real + off
    /\ Boot(IF saved THEN clock ELSE nvs, keepLp /\ (saved \/ lp),
            IF keepLp THEN clock + off ELSE 1)

\* A panic or a silent restart: the chip's clock goes on, but restore uses it
\* only if the last snapshot says so.
Reset ==
  /\ restarts < MaxRestarts
  /\ real' = real
  /\ Boot(nvs, lp, clock)

\* The battery is empty or pulled.  Reflashing the device erases nvs as well.
PowerLoss(erased) ==
  \E off \in 1..MaxOff :
    /\ restarts < MaxRestarts
    /\ erased => "erase" \in Faults
    /\ real + off <= Horizon
    /\ real' = real + off
    /\ Boot(IF erased THEN 0 ELSE nvs, FALSE, 1)

-----------------------------------------------------------------------------
ClockTypeOK ==
  /\ real \in Plausible..Horizon
  /\ clock \in 1..Horizon + MaxDrift
  /\ nvs \in 0..Horizon + MaxDrift
  /\ lp \in BOOLEAN
  /\ \A st \in {state, file} :
       /\ st.era \in -1..MaxRestarts + 1
       /\ st.checkpoint \in 0..Horizon + MaxDrift
       /\ st.history \in [Slots -> Correction]
  /\ state.era >= 0
  /\ drift \in 0..MaxDrift /\ stepped \in BOOLEAN
  /\ syncs \in 0..MaxSyncs /\ restarts \in 0..MaxRestarts

\* WallClock.h, "within one era the clock only ever drifts (any clock loss
\* opens a new era)": whenever the clock falls behind by more than a drifting
\* oscillator explains, the era has changed.
LossOpensEra ==
  [][ real' - clock' > (real - clock) + 1 /\ clock' # real' => state'.era # state.era ]_clockVars
=============================================================================
