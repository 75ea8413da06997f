CONSTANTS
    a = a
    b = b
    xml = xml
    stray = stray
    Stems = {a, b, xml, stray}
    CaseFolds = FALSE
    TaskLists <- One
    XmlPath <- MCXmlPath
    StrayFile <- MCStrayFile
    StrayDir <- MCStrayDir
    FileKinds = {"none", "directory", "link", "short", "rotten", "locked", "good"}
    Focuses = {"check", "case", "date"}
    Disturbances = {TRUE, FALSE}
    MaxEntries = 3
    Volumes <- MCVolumes
    Plans <- MCPlans
    Times <- MCTimes
    Top = 4
    Resolutions = {1, 2}
    NoDate = NoDate
    Idle = Idle
SPECIFICATION PartsSpec
INVARIANTS PartsTypeOK ReportIsExact OkIsKept
PROPERTIES DatesAreRight
CHECK_DEADLOCK FALSE
