SPECIFICATION SupervisorFairSpec
CONSTANTS
    BaseDelay = 3
    MaxDelay = 60
    MaxRetries = 10
INVARIANTS SupervisorTypeOK StopIsFinal
PROPERTIES NoIterationAfterStop StopEnds RestartsEnd
CHECK_DEADLOCK FALSE
