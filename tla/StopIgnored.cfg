CONSTANTS
    MaxSize = 1
    Overrun = 1
    MaxRetries = 1
    MaxAttempts = 3
    MaxRuns = 1
    NoFile = NoFile
    Foreign = Foreign
SPECIFICATION Spec
PROPERTIES StoppedIsNotSuccess
CHECK_DEADLOCK FALSE
