SPECIFICATION Spec
CONSTANTS
    Rules = {r}
    Versions <- AVersion
    Crons <- OneCron
    Targets = {x}
    Period = 2
    MaxTime = 4
    MaxEdits = 2
    MaxTroubles = 2
INVARIANTS
    ScheduleInv
PROPERTIES
    NoBackfill
    PeriodRuns
CHECK_DEADLOCK FALSE
