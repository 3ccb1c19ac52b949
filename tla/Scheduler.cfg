SPECIFICATION Spec
CONSTANTS
    DayLen = 12
    Grace = 4
    MaxGap = 3
    DayOfWeek <- Weekday
    DayOfMonth <- Monthday
    Settings <- Usual
    Days = 3
INVARIANTS
    TypeOK
    NeverMisses
PROPERTY OncePerSlot
