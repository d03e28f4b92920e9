SPECIFICATION FinishedSpec
CONSTANTS
    maintenance = maintenance
    page = page
    Maintenance = maintenance
    Clients = {maintenance, page}
    Faults = {"delete"}
    DaysChoices = {0, 1, 2}
    Torn = Torn
    Never = Never
    Horizon = 4
INVARIANTS
    TypeOK
    NothingLeftBehind
PROPERTIES
    RestartKeepsSessions
    ExpiredGoes
CHECK_DEADLOCK FALSE
