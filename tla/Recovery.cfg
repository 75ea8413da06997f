CONSTANTS
    MaxSize = 2
    Overrun = 1
    MaxRetries = 2
    MaxAttempts = 3
    MaxRuns = 2
    NoFile = NoFile
    Foreign = Foreign
SPECIFICATION RecoverySpec
INVARIANTS FlakyServerNeverFails
PROPERTIES EventuallySucceeds CleanPartStaysClean
CHECK_DEADLOCK FALSE
