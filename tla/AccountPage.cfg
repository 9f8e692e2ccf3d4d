SPECIFICATION AccountPageSpec
CONSTANTS
    Null = Null
    Clicks = 3
    Errors = 1
    MaxKeys = 4
INVARIANTS RequestVerified 
CHECK_DEADLOCK FALSE
