CONSTANTS
    a = a
    b = b
    Stems = {a, b}
    CaseFolds = FALSE
    TaskLists <- Apart
    MaxRuns = 2
    NoFile = NoFile
    Foreign = Foreign
    Courses = {TRUE, FALSE}
SPECIFICATION CourseSpec
INVARIANTS TypeOK ReportIsTrue
PROPERTIES StopsAtOnce GoodFilesStay RunsComplete
CHECK_DEADLOCK FALSE
