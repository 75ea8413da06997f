CONSTANTS
    MaxSize = 2
    Overrun = 1
    MaxRetries = 2
    NoFile = NoFile
    Foreign = Foreign
SPECIFICATION TransferSpec
INVARIANTS OnlyVerifiedPartialStreamed
CHECK_DEADLOCK FALSE
