SPECIFICATION FairShutdownSpec
CONSTANTS
    l1 = l1
    r1 = r1
    NoOne = NoOne
    Loops = {l1}
    Requests = {r1}
    Clients = {l1, r1}
    Operations = {"start", "pause", "render"}
    HasSchedule = TRUE
    Faults = {}
    Crashes = FALSE
INVARIANT
    NoLoopGoesOn
PROPERTY
    ShutdownEnds
CHECK_DEADLOCK FALSE
