SPECIFICATION Spec
CONSTANTS
    e1 = e1
    e2 = e2
    e3 = e3
    w1 = w1
    w2 = w2
    r1 = r1
    r2 = r2
    NoEvent = NoEvent
    Events = {e1, e2, e3}
    Writers = {w1, w2}
    Readers = {r1, r2}
    Limits = {1, 3}
SYMMETRY Symmetry
INVARIANTS
    TypeOK
    StableSequence
    LoggedIsRead
CHECK_DEADLOCK FALSE
