SPECIFICATION UploadsSpec
CONSTANTS
    Files = {f1}
    MaxMessages = 1
    DayLength = 24
    Breaker = 5
    MaxTime = 2
    MaxErrors = 0
PROPERTY OnlyOldRemoved
CHECK_DEADLOCK FALSE
