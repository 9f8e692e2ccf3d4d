SPECIFICATION FairSpec
CONSTANTS
    p1 = p1
    p2 = p2
    r1 = r1
    r2 = r2
    Profile = {p1, p2}
    NoProfile = NoProfile
    Request = {r1, r2}
    TTL = 1
    Deadline = 1
    ProbeInterval = 1
    Size = 1
    MaxTime = 4
    OutageHorizon = 3
    MaxWrites = 2
    Written = {p1}
INVARIANTS ServedIsRecent OneProbePerInterval AnswerMatchesStore
PROPERTY MarkClears
