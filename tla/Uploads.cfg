SPECIFICATION UploadsFairSpec
CONSTANTS
    Files = {f1, f2}
    MaxMessages = 2
    DayLength = 2
    Breaker = 2
    MaxTime = 2
    MaxErrors = 2
INVARIANTS UploadsTypeOK LinkedHasFile
PROPERTIES LinkedOnce OrphansRemoved
CHECK_DEADLOCK FALSE
