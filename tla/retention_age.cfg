SPECIFICATION Spec
CONSTANTS
    maintenance = maintenance
    user = user
    Maintenance = maintenance
    Clients = {maintenance, user}
    Faults = {}
    DaysChoices = {1}
    Torn = Torn
    Never = Never
    Horizon = 3
PROPERTY
    FinishedLongEnough
CHECK_DEADLOCK FALSE
