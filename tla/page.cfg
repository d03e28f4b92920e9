SPECIFICATION Spec
CONSTANTS
    Nothing = Nothing
    PageSize = 2
    MaxFrames = 6
    Sizes <- MCSizes
    Pressed = 2
    t1 = t1
    t2 = t2
    t3 = t3
    Toasts = {t1, t2, t3}
INVARIANTS
    TypeOK
    OpenWhereClosable
    NoGap
    RemovedAtTheEnd
    SameLabel
PROPERTIES
    FocusComesBack
    NoticesTheEnd
    ButtonsComeBack
    StaysItsTime
    MessagesGo
CHECK_DEADLOCK FALSE
