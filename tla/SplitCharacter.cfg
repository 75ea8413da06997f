CONSTANTS
    a = a
    b = b
    xml = xml
    Stems = {a, b, xml}
    CaseFolds = TRUE
    Empty = Empty
    Dot = Dot
    WholeItem = WholeItem
    XmlName <- MCXmlName
    Names <- MCNames
    MaxEntries = 3
    Focuses = {"url"}
    Star = Star
    Any = Any
    NoStar = NoStar
    NameChars <- MCNameChars
    FilterNames <- MCFilterNames
    Filters <- MCFilters
    RawPaths <- MCRawPaths
    UrlNames <- MCUrlNames
    LocalNames <- MCLocalNames
    MaxName = 3
    MaxPattern = 4
    RawBytes = {1, 4, 9, 10}
    MaxRaw = 4
    MaxSegment = 2
    MaxDepth = 2
    MaxLength = 4
    Idle = Idle
SPECIFICATION PartsSpec
INVARIANT EveryPathIsRead
CHECK_DEADLOCK FALSE
