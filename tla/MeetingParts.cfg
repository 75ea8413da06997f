CONSTANTS
    a = a
    b = b
    Stems = {a, b}
    CaseFolds = FALSE
    TaskLists <- Meeting
    MaxRuns = 1
    NoFile = NoFile
    Foreign = Foreign
    Courses = {TRUE}
SPECIFICATION CourseSpec
PROPERTIES NeverOverwritesAnother
CHECK_DEADLOCK FALSE
