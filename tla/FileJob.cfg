CONSTANTS
    MaxSize = 2
    Overrun = 1
    MaxRetries = 1
    MaxAttempts = 3
    MaxRuns = 2
    NoFile = NoFile
    Foreign = Foreign
SPECIFICATION Spec
INVARIANTS TypeOK LateRequestsBounded
PROPERTIES RejectedPartIsDiscarded CompletePartSurvives KeepsPromise KeepsOutline RunEnds
CHECK_DEADLOCK FALSE
