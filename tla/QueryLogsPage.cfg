SPECIFICATION Spec
CONSTANTS
    Null = Null
    Logged <- MCLogged
    Window = 3
    MaxSpan = 1
    Mounted = "a"
    Off = {}
    Restricted = FALSE
    First = 2
    Limit = 1
    MaxRows = 3
    Queries <- MCQueries
    MaxEvents = 2
    MaxTicks = 1
    MaxArrivals = 3
INVARIANTS NoGap PillExact GroupsExact CardTruth
CHECK_DEADLOCK FALSE
