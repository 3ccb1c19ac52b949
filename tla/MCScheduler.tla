----------------------------- MODULE MCScheduler -----------------------------
(***************************************************************************)
(* Days of 12 units.  With a unit of half a minute, Grace = 4 and MaxGap = 3 *)
(* are the two minutes of defaultGraceSecs and a timer of one minute that    *)
(* may be half a minute late.  Day 1 is a Sunday and the 31st of its month.  *)
(***************************************************************************)
EXTENDS Scheduler

Weekday(d) == IF d = 1 THEN 7 ELSE d - 1
Monthday(d) == IF d = 1 THEN 31 ELSE d - 1

\* Slots at the start of the day, in it, and as late as the timer allows; one that
\* is no time of day, and one for a job that is not scheduled.
Usual == {[type |-> "daily", time |-> 9, day |-> 0],
          [type |-> "weekly", time |-> 0, day |-> 1],
          [type |-> "monthly", time |-> 5, day |-> 31],
          [type |-> "daily", time |-> 12, day |-> 0],
          [type |-> "none", time |-> 5, day |-> 0]}

\* A slot in the last minute of the day.
LastMinute == {[type |-> "daily", time |-> 10, day |-> 0]}
===============================================================================
