SPECIFICATION Spec
CONSTANTS
    Null = Null
    MaxDay = 2
    MaxStages = 2
    MaxOthers = 1
    MaxErrors = 1
    StatProfiles = {1, 2}
    Busy = {1}
    MaxClock = 9
    MaxStatClicks = 2
    MaxStatFaults = 1
INVARIANTS DeletionConfirmed ViewExact NeverStuck 
CHECK_DEADLOCK FALSE
