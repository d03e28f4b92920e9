SPECIFICATION Spec
CONSTANTS
    None = None
    DayLength = 8
    WeekLength = 7
    Duration = 4
    Interval = 3
    NotDueSleep = 2
    ClosedSleep = 3
    MaxRequest = 2
    MaxLag = 1
    Horizon = 13
    MaxStops = 1
    ZoneChoices <- MCZones
    ScheduleChoices <- MCSchedules
    StartedChoices <- MCStarted
INVARIANTS
    TypeOK
    OpenAsTheWallClockShows
    NothingIsOverslept
    ActiveTimeIsTimeInWindows
PROPERTIES
    NextStartIsKept
    DeadlinesKeepTheTimeline
CHECK_DEADLOCK FALSE
