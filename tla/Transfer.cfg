CONSTANTS
    MaxSize = 2
    Overrun = 1
    MaxRetries = 2
    NoFile = NoFile
    Foreign = Foreign
    Hops = 2
    Calls = 2
    Clock = 2
    MaxLines = 2
    MaxChunk = 3
    Poll = 2
    MaxLate = 1
    Horizon = 9
    Tries = 10
    InitialDelay = 5000
    MaxDelay = 60000
    MaxRetryAfter = 900000
    Slice = 500
    Factors = {80, 93, 120}
    Seconds = {0, 1000, 7000000}
    NoHeader = NoHeader
    Overlong = Overlong
    Idle = Idle
SPECIFICATION PartsSpec
INVARIANTS TransferPartsTypeOK AccountingMatchesDisk NoSplice CompleteIsLongEnough AtMostOneLateRequest CookiesAreRight RateIsRight RepeatedInTime StopIsSoon
PROPERTIES DataDroppedOnlyOnReset EveryCallEnds
CHECK_DEADLOCK FALSE
