------------------------------- MODULE Scheduler ------------------------------
(***************************************************************************)
(* tiBackupScheduler::shouldRun, and the daemon's timer (DiskMain, outside  *)
(* this library) that calls it with the wall clock and the persisted time   *)
(* of the last run.  Time is counted in units of a part of a minute; the    *)
(* calendar of the local time zone is a parameter.                          *)
(*                                                                          *)
(* The daemon may be down over a slot, its timer may be late, the clock may *)
(* be set forward or back and the job's schedule edited at any moment.      *)
(***************************************************************************)
EXTENDS Integers

CONSTANTS
    DayLen,         \* units in a day
    Grace,          \* graceSecs
    MaxGap,         \* most units between two ticks of a running daemon
    DayOfWeek(_),   \* day number -> 1..7
    DayOfMonth(_),  \* day number -> 1..31
    Settings,       \* schedules the job may have: [type, time, day]
    Days            \* bound: the clock shows days 1..Days

Schedule == [type : {"none", "daily", "weekly", "monthly"}, time : Nat, day : Nat]

ASSUME SchedulerAssumption ==
    /\ DayLen \in Nat \ {0}
    /\ Grace \in Nat
    /\ MaxGap \in Nat \ {0}
    /\ Settings \subseteq Schedule
    /\ Days \in Nat \ {0}

VARIABLES
    now,       \* the wall clock
    up,        \* the daemon runs
    idle,      \* units since the last tick, or since the daemon came up
    setting,   \* intervalType, intervalTime, intervalDay
    lastRun,   \* persisted time of the last run, 0 if none
    fired,     \* history: slots the job was started for
    steady     \* history: since when daemon, clock and schedule were left alone

vars == <<now, up, idle, setting, lastRun, fired, steady>>

Clock == DayLen .. (DayLen * (Days + 1) - 1)

\* The type invariant.
TypeOK ==
    /\ now \in Clock
    /\ up \in BOOLEAN
    /\ idle \in 0..MaxGap
    /\ setting \in Settings
    /\ lastRun \in Nat
    /\ fired \subseteq Nat
    /\ steady \in Clock

Init ==
    /\ now = DayLen
    /\ up = FALSE
    /\ idle = 0
    /\ setting \in Settings
    /\ lastRun = 0
    /\ fired = {}
    /\ steady = DayLen

-------------------------------------------------------------------------------
Today == now \div DayLen
Slot(d) == d * DayLen + setting.time

\* The switch over intervalType; a time that is no time of day gives no slot.
HasSlot(d) ==
    /\ setting.time < DayLen
    /\ \/ setting.type = "daily"
       \/ setting.type = "weekly" /\ DayOfWeek(d) - 1 = setting.day
       \/ setting.type = "monthly" /\ DayOfMonth(d) = setting.day

\* Mutant: the last run is not looked at.
ShouldRunAgain ==
    /\ HasSlot(Today)
    /\ Slot(Today) <= now /\ now <= Slot(Today) + Grace

\* Mutant: only a tick at the very slot counts.
ShouldRunPunctual ==
    /\ HasSlot(Today)
    /\ Slot(Today) = now
    /\ lastRun < Slot(Today)

\* shouldRun(job, now, lastRunEpoch, graceSecs).
ShouldRun ==
    /\ HasSlot(Today)
    /\ Slot(Today) <= now /\ now <= Slot(Today) + Grace
    /\ lastRun < Slot(Today)

\* Mutant: the time since the last tick is not reset.
TickUncounted ==
    /\ up /\ idle > 0
    /\ idle' = idle + 1
    /\ IF ShouldRun
          THEN lastRun' = now /\ fired' = fired \cup {Slot(Today)}
          ELSE UNCHANGED <<lastRun, fired>>
    /\ UNCHANGED <<now, up, setting, steady>>

\* A tick of the daemon: a job that is due is started and its last run is saved.
Tick ==
    /\ up /\ idle > 0
    /\ idle' = 0
    /\ IF ShouldRun
          THEN lastRun' = now /\ fired' = fired \cup {Slot(Today)}
          ELSE UNCHANGED <<lastRun, fired>>
    /\ UNCHANGED <<now, up, setting, steady>>

-------------------------------------------------------------------------------
\* The environment.

Pass ==
    /\ now + 1 \in Clock
    /\ up => idle < MaxGap
    /\ now' = now + 1
    /\ idle' = IF up THEN idle + 1 ELSE 0
    /\ UNCHANGED <<up, setting, lastRun, fired, steady>>

\* The daemon is started, or goes down.
Switch ==
    /\ up' = ~up
    /\ idle' = 0
    /\ steady' = now
    /\ UNCHANGED <<now, setting, lastRun, fired>>

Configure ==
    /\ setting' \in Settings \ {setting}
    /\ steady' = now
    /\ UNCHANGED <<now, up, idle, lastRun, fired>>

SetClock ==
    /\ now' \in Clock \ {now}
    /\ steady' = now'
    /\ UNCHANGED <<up, idle, setting, lastRun, fired>>

Next == Tick \/ Pass \/ Switch \/ Configure \/ SetClock

Spec == Init /\ [][Next]_vars

-------------------------------------------------------------------------------
\* Properties.

\* A job is started at most once for a slot, whatever happens to the daemon, the
\* clock and the schedule in between: nothing but the last run tells a second tick
\* in the grace window, or a clock set back into it, that the slot is done.
OncePerSlot == [][Tick /\ ShouldRun => Slot(Today) \notin fired]_vars

\* "Must exceed the daemon's tick interval so a continuously-running daemon never
\* misses its own slot": a slot that a daemon has been up for, with the clock and
\* the schedule left alone, is served when its grace window is over.
NeverMisses ==
    \A d \in 1..Days :
        up /\ HasSlot(d) /\ steady < Slot(d) /\ Slot(d) + Grace < now => lastRun >= Slot(d)
===============================================================================
