SPECIFICATION Spec
CONSTANTS
    Null = Null
    Accounts = {a1, a2}
    TotpAccounts = {a2}
    BusyAccounts = {a2}
    InactiveAccounts = {a2}
    SessionLimit = 1
    MaxSessions = 2
    MaxMishaps = 2
    MaxRequests = 1
    MaxCalls = 1
CHECK_DEADLOCK FALSE
INVARIANT OwnDataUnlessMixed
PROPERTY ExpirySignsOut
