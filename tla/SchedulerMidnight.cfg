SPECIFICATION Spec
CONSTANTS
    DayLen = 12
    Grace = 4
    MaxGap = 3
    DayOfWeek <- Weekday
    DayOfMonth <- Monthday
    Settings <- LastMinute
    Days = 3
INVARIANT NeverMisses
