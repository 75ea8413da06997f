CONSTANTS
    a = a
    b = b
    xml = xml
    Stems = {a, b, xml}
    CaseFolds = TRUE
    Empty = Empty
    Dot = Dot
    WholeItem = WholeItem
    XmlName <- MCXmlName
    Names <- MCNames
    MaxEntries = 3
    Focuses = {"plan", "filter", "url", "local"}
    Star = Star
    Any = Any
    NoStar = NoStar
    NameChars <- MCNameChars
    FilterNames <- MCFilterNames
    Filters <- MCFilters
    RawPaths <- MCRawPaths
    UrlNames <- MCUrlNames
    LocalNames <- MCLocalNames
    MaxName = 3
    MaxPattern = 4
    RawBytes = {1, 2, 4, 5, 7, 8, 9, 10}
    MaxRaw = 5
    MaxSegment = 2
    MaxDepth = 2
    MaxLength = 4
    Idle = Idle
SPECIFICATION PartsSpec
INVARIANTS PartsTypeOK CollisionsAreRight NamesAreRight
PROPERTIES FilterIsRight
CHECK_DEADLOCK FALSE
