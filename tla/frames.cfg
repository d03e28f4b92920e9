SPECIFICATION FrameSpec
CONSTANTS
    l1 = l1
    l2 = l2
    r1 = r1
    NoOne = NoOne
    Loops = {l1, l2}
    Requests = {r1}
    Clients = {l1, l2, r1}
    Operations = {"start", "pause"}
    HasSchedule = FALSE
    Faults = {}
    Crashes = TRUE
    MaxStorageBytes = 2
    EstimatedFrameBytes = 1
    MaxSnapshotBytes = 2
    MostBytes = 3
SYMMETRY Symmetry
INVARIANTS
    OneOwner
    DiskCatchesUp
    NoMissingFrame
    StaysNearLimit
