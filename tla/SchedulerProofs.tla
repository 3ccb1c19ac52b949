---------------------------- MODULE SchedulerProofs ---------------------------
(***************************************************************************)
(* A job is started at most once for a slot: whatever was started for has a *)
(* last run at or after it.  And a daemon that is up over a slot serves it:  *)
(* once a tick has seen the slot, the last run is at or after it.            *)
(***************************************************************************)
EXTENDS Scheduler, TLAPS

\* What is saved as the last run is at or after every slot that was served.
Served == \A s \in fired : s <= lastRun

IInv == TypeOK /\ Served

\* The clock shows moments since the epoch.
LEMMA ClockType == Clock \subseteq Nat
<1>1. DayLen \in Nat
  BY SchedulerAssumption
<1>2. QED
  BY <1>1 DEF Clock

\* The start of a slot is a moment since the epoch.
LEMMA SlotType ==
    ASSUME TypeOK, setting.time < DayLen
    PROVE  Slot(Today) \in Int
<1>1. setting.time \in Nat /\ now \in Int /\ DayLen \in Nat \ {0}
  BY SchedulerAssumption, ClockType DEF TypeOK, Schedule
<1>2. Today \in Int
  BY <1>1 DEF Today
<1>3. Today * DayLen \in Int
  BY <1>1, <1>2
<1>4. QED
  BY <1>1, <1>3 DEF Slot

\* The invariant holds when the daemon has never run.
LEMMA InitInvariant == Init => IInv
<1>1. DayLen \in Nat \ {0} /\ Days \in Nat \ {0} /\ MaxGap \in Nat
  BY SchedulerAssumption
<1>2. DayLen * (Days + 1) \in Nat /\ DayLen * (Days + 1) = DayLen * Days + DayLen
  BY <1>1
<1>3. DayLen * Days \in Nat /\ DayLen * Days >= 1
  BY <1>1
<1>4. DayLen \in Clock
  BY <1>1, <1>2, <1>3 DEF Clock
<1>5. SUFFICES ASSUME Init PROVE TypeOK /\ Served
  BY DEF IInv
<1>6. /\ now \in Clock /\ steady \in Clock /\ setting \in Settings
      /\ lastRun = 0 /\ idle = 0 /\ fired = {} /\ up = FALSE
  BY <1>4, <1>5 DEF Init
<1>7. 0 \in Nat /\ 0 \in 0..MaxGap
  BY <1>1
<1>8. Served
  BY <1>6 DEF Served
<1>9. TypeOK
  BY <1>6, <1>7 DEF TypeOK
<1>10. QED
  BY <1>8, <1>9

\* Every tick and every disturbance preserves it.
LEMMA StepInvariant == IInv /\ [Next]_vars => IInv'
<1> SUFFICES ASSUME IInv, [Next]_vars PROVE IInv'
  OBVIOUS
<1> USE SchedulerAssumption DEF IInv, TypeOK, Served
<1>1. CASE Tick
  <2>1. CASE ShouldRun
    <3>1. Slot(Today) \in Int /\ Slot(Today) <= now /\ lastRun < Slot(Today)
      BY <2>1, SlotType DEF ShouldRun, HasSlot
    <3>2. Slot(Today) \in Nat /\ now \in Nat
      BY <3>1, ClockType
    <3>3. lastRun' = now /\ fired' = fired \cup {Slot(Today)}
      BY <1>1, <2>1 DEF Tick
    <3>4. /\ now' \in Clock /\ up' \in BOOLEAN /\ idle' \in 0..MaxGap
          /\ setting' \in Settings /\ steady' \in Clock
      BY <1>1 DEF Tick
    <3>5. Served'
      BY <3>1, <3>2, <3>3
    <3>6. QED
      BY <3>2, <3>3, <3>4, <3>5
  <2>2. CASE ~ShouldRun
    <3>1. UNCHANGED <<now, up, setting, lastRun, fired, steady>> /\ idle' = 0
      BY <1>1, <2>2 DEF Tick
    <3>2. QED
      BY <3>1
  <2>3. QED
    BY <2>1, <2>2
<1>2. CASE Pass
  BY <1>2 DEF Pass
<1>3. CASE Switch
  BY <1>3 DEF Switch
<1>4. CASE Configure
  BY <1>4 DEF Configure
<1>5. CASE SetClock
  BY <1>5 DEF SetClock
<1>6. CASE UNCHANGED vars
  BY <1>6 DEF vars
<1>7. QED
  BY <1>1, <1>2, <1>3, <1>4, <1>5, <1>6 DEF Next

\* The inductive invariant.
LEMMA Invariance == Spec => []IInv
BY InitInvariant, StepInvariant, PTL DEF Spec

\* The type invariant of the scheduler and its clock.
THEOREM SchedulerTypes == Spec => []TypeOK
<1>1. IInv => TypeOK
  BY DEF IInv
<1>2. QED
  BY <1>1, Invariance, PTL

\* A job is started at most once for a slot, for every grace, tick interval,
\* calendar and schedule, with the clock set and the daemon restarted at will.
THEOREM StartedOncePerSlot == Spec => OncePerSlot
<1>1. IInv /\ [Next]_vars => [Tick /\ ShouldRun => Slot(Today) \notin fired]_vars
  <2> SUFFICES ASSUME IInv, ShouldRun PROVE Slot(Today) \notin fired
    OBVIOUS
  <2>1. Slot(Today) \in Int /\ lastRun < Slot(Today)
    BY SlotType DEF IInv, ShouldRun, HasSlot
  <2>2. QED
    BY <2>1 DEF IInv, TypeOK, Served
<1>2. QED
  BY <1>1, Invariance, PTL DEF Spec, OncePerSlot
-------------------------------------------------------------------------------
\* The timer's longest gap fits into the grace, and no slot is so late in its day that
\* the first tick after it may fall on the next day.
TimerFits ==
    /\ MaxGap <= Grace + 1
    /\ \A s \in Settings : s.time < DayLen => s.time + MaxGap <= DayLen

\* A slot that a tick has seen, with nothing changed since before it, is served.
Seen ==
    \A d \in 1..Days :
        up /\ HasSlot(d) /\ steady < Slot(d) /\ Slot(d) <= now - idle => lastRun >= Slot(d)

\* The day of a moment.
LEMMA DayOf ==
    ASSUME NEW d \in Int, NEW n \in Int, NEW len \in Nat \ {0}, d * len <= n, n < d * len + len
    PROVE  n \div len = d
<1> DEFINE q == n \div len
<1>1. q \in Int /\ q * len <= n /\ n < q * len + len
  OBVIOUS
<1> HIDE DEF q
<1>2. CASE q > d
  <2>1. q >= d + 1
    BY <1>1, <1>2
  <2>2. q * len >= (d + 1) * len
    BY <1>1, <2>1
  <2>3. QED
    BY <1>1, <2>2
<1>3. CASE q < d
  <2>1. d >= q + 1
    BY <1>1, <1>3
  <2>2. d * len >= (q + 1) * len
    BY <1>1, <2>1
  <2>3. QED
    BY <1>1, <2>2
<1>4. QED
  BY <1>1, <1>2, <1>3 DEF q

\* What the variables and the slot of a day are.
LEMMA Moments ==
    ASSUME TypeOK, NEW d \in 1..Days, setting.time < DayLen
    PROVE  /\ now \in Nat /\ steady \in Nat /\ lastRun \in Nat /\ idle \in Nat /\ idle <= MaxGap
           /\ MaxGap \in Nat /\ Grace \in Nat /\ DayLen \in Nat \ {0}
           /\ setting \in Settings /\ setting.time \in Nat
           /\ d * DayLen \in Nat /\ Slot(d) = d * DayLen + setting.time /\ Slot(d) \in Nat
<1>1. setting.time \in Nat /\ d \in Nat /\ DayLen \in Nat /\ d * DayLen \in Nat
  BY SchedulerAssumption DEF TypeOK, Schedule
<1>2. QED
  BY <1>1, SchedulerAssumption, ClockType DEF TypeOK, Slot

\* A tick at most MaxGap after one before the slot comes on the slot's day, in its grace.
LEMMA TickSees ==
    ASSUME TypeOK, Seen, TimerFits, Tick,
           NEW d \in 1..Days, HasSlot(d), steady < Slot(d), Slot(d) <= now
    PROVE  lastRun' >= Slot(d)
<1>1. setting.time < DayLen /\ up
  BY DEF HasSlot, Tick
<1>2. /\ now \in Nat /\ lastRun \in Nat /\ idle \in Nat /\ idle <= MaxGap
      /\ MaxGap \in Nat /\ Grace \in Nat /\ DayLen \in Nat \ {0}
      /\ d * DayLen \in Nat /\ Slot(d) = d * DayLen + setting.time /\ setting.time \in Nat
  BY <1>1, Moments
<1>3. CASE lastRun >= Slot(d)
  BY <1>2, <1>3 DEF Tick
<1>4. CASE lastRun < Slot(d)
  <2>1. now - idle < Slot(d)
    BY <1>1, <1>2, <1>4 DEF Seen
  <2>2. now < d * DayLen + DayLen /\ now <= Slot(d) + Grace
    BY <1>1, <1>2, <2>1 DEF TimerFits, TypeOK
  <2>3. Today = d
    BY <1>2, <2>2, DayOf DEF Today
  <2>4. ShouldRun
    BY <1>4, <2>2, <2>3 DEF ShouldRun
  <2>5. QED
    BY <1>2, <2>4 DEF Tick
<1>5. QED
  BY <1>2, <1>3, <1>4

\* Every step keeps what the ticks have seen.
LEMMA SeenStep == TimerFits /\ TypeOK /\ Seen /\ [Next]_vars => Seen'
<1> SUFFICES ASSUME TimerFits, TypeOK, Seen, [Next]_vars, NEW d \in 1..Days,
                    up', HasSlot(d)', steady' < Slot(d)', Slot(d)' <= now' - idle'
             PROVE  lastRun' >= Slot(d)'
  BY DEF Seen
<1>1. CASE Tick
  <2>1. UNCHANGED <<now, setting, steady>> /\ idle' = 0
    BY <1>1 DEF Tick
  <2>2. HasSlot(d) /\ steady < Slot(d) /\ Slot(d) <= now
    <3>1. now \in Nat
      BY ClockType DEF TypeOK
    <3>2. QED
      BY <2>1, <3>1 DEF HasSlot, Slot
  <2>3. QED
    BY <1>1, <2>1, <2>2, TickSees DEF Slot
<1>2. CASE Pass
  <2>1. UNCHANGED <<up, setting, lastRun, steady>> /\ now' = now + 1 /\ idle' = idle + 1
    BY <1>2 DEF Pass
  <2>2. now' - idle' = now - idle
    BY <2>1, ClockType, SchedulerAssumption DEF TypeOK
  <2>3. QED
    BY <2>1, <2>2 DEF Seen, HasSlot, Slot
<1>3. CASE Switch \/ Configure \/ SetClock
  <2>1. steady' = now' /\ idle' \in Nat /\ now' \in Nat
    <3>1. \/ now' = now /\ steady' = now
          \/ now' \in Clock /\ steady' = now'
      BY <1>3 DEF Switch, Configure, SetClock
    <3>2. idle' = 0 \/ idle' = idle
      BY <1>3 DEF Switch, Configure, SetClock
    <3>3. QED
      <4>1. now \in Nat /\ idle \in Nat /\ \A n \in Clock : n \in Nat
        BY ClockType, SchedulerAssumption DEF TypeOK
      <4>2. now' \in Nat
        BY <3>1, <4>1
      <4>3. QED
        BY <3>1, <3>2, <4>1, <4>2
  <2>2. setting' \in Schedule /\ setting'.time < DayLen
    BY <1>3, SchedulerAssumption DEF Switch, Configure, SetClock, TypeOK, HasSlot
  <2>3. Slot(d)' \in Nat
    BY <2>2, SchedulerAssumption DEF Slot, Schedule
  <2>4. QED
    BY <2>1, <2>3
<1>4. CASE UNCHANGED vars
  BY <1>4 DEF vars, Seen, HasSlot, Slot
<1>5. QED
  BY <1>1, <1>2, <1>3, <1>4 DEF Next

\* "a continuously-running daemon never misses its own slot", for every calendar, timer
\* and schedule that leave the timer room for a tick before midnight.
THEOREM SlotsAreServed == TimerFits /\ Spec => []NeverMisses
<1> SUFFICES ASSUME TimerFits PROVE Spec => []NeverMisses
  OBVIOUS
<1>1. Init => Seen
  BY DEF Init, Seen
<1>2. TypeOK /\ Seen => NeverMisses
  <2> SUFFICES ASSUME TypeOK, Seen, NEW d \in 1..Days,
                      up, HasSlot(d), steady < Slot(d), Slot(d) + Grace < now
               PROVE  lastRun >= Slot(d)
    BY DEF NeverMisses
  <2>1. Slot(d) <= now - idle
    BY Moments DEF TimerFits, HasSlot
  <2>2. QED
    BY <2>1 DEF Seen
<1>3. QED
  BY <1>1, <1>2, SeenStep, SchedulerTypes, PTL DEF Spec
===============================================================================
