CONSTANTS
    a = a
    b = b
    xml = xml
    stray = stray
    Stems = {a, b, xml, stray}
    CaseFolds = FALSE
    TaskLists <- Meeting
    XmlPath <- MCXmlPath
    StrayFile <- MCStrayFile
    StrayDir <- MCStrayDir
    FileKinds = {"none", "good"}
    Focuses = {"check"}
    Disturbances = {FALSE}
    MaxEntries = 0
    Volumes <- MCVolumes
    Plans <- MCPlans
    Times <- MCTimes
    Top = 4
    Resolutions = {1}
    NoDate = NoDate
    Idle = Idle
SPECIFICATION PartsSpec
INVARIANTS ExtraIsUnaccounted
CHECK_DEADLOCK FALSE
