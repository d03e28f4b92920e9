SPECIFICATION Spec
CONSTANTS
    l1 = l1
    r1 = r1
    NoOne = NoOne
    Loops = {l1}
    Requests = {r1}
    Clients = {l1, r1}
    Operations = {"start", "delete"}
    HasSchedule = FALSE
    Faults = {}
    Crashes = FALSE
PROPERTY
    DeletedStaysGone
