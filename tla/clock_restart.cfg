SPECIFICATION RestartSpec
CONSTANTS
    None = None
    DayLength = 8
    WeekLength = 7
    Duration = 3
    Interval = 3
    NotDueSleep = 2
    ClosedSleep = 3
    MaxRequest = 2
    MaxLag = 1
    Horizon = 6
    MaxStops = 0
    ZoneChoices <- MCZones
    ScheduleChoices <- MCAlways
    StartedChoices <- MCAlways
INVARIANT
    DowntimeDoesNotCount
CHECK_DEADLOCK FALSE
