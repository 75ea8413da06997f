CONSTANTS
    Files = {f1, f2}
    Single = f1
    MaxVersion = 2
    MaxRuns = 3
    Absent = Absent
    Link = Link
    Torn = Torn
    MaxSize = 2
    Lists <- MCLists
    XmlSize = 1
    Overrun = 1
    Limit = 64
    MaxFree = 5
    NoFile = NoFile
    Idle = Idle
SPECIFICATION PartsSpec
INVARIANTS PartsTypeOK DiskLeftAlone ExitIsTrue DocumentIsNotBehind CheckAgrees EstimateIsRight
CHECK_DEADLOCK FALSE
