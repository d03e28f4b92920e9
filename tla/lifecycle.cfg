SPECIFICATION UncancelledSpec
CONSTANTS
    l1 = l1
    l2 = l2
    r1 = r1
    r2 = r2
    r3 = r3
    NoOne = NoOne
    Loops = {l1, l2}
    Requests = {r1, r2, r3}
    Clients = {l1, l2, r1, r2, r3}
    Operations = {"start", "render", "preview"}
    HasSchedule = FALSE
    Faults = {"persist"}
    Crashes = TRUE
SYMMETRY Symmetry
INVARIANTS
    RenderingHasRenderer
    CapturingHasLoop
    OneEncoder
PROPERTIES
    FollowsLifecycle
