SPECIFICATION FairSpec
CONSTANTS
    l1 = l1
    r1 = r1
    NoOne = NoOne
    Loops = {l1}
    Requests = {r1}
    Clients = {l1, r1}
    Operations = {"start", "pause", "cancel", "render", "preview", "delete", "retention"}
    HasSchedule = TRUE
    Faults = {"log", "temp"}
    Crashes = FALSE
INVARIANT
    TypeOK
PROPERTIES
    CancelledLoopEnds
    RequestsEnd
    ScheduledIsWatched
CHECK_DEADLOCK FALSE
