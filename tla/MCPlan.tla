------------------------------- MODULE MCPlan -------------------------------
(* From a URL and the metadata's names to a plan, in four parts side by    *)
(* side: the planner over names that collide in every way it tells apart   *)
(* (Plan), the name filter (FileFilter), names in URLs (FileUrl) and local *)
(* paths (Sanitize) over all short names. focus says which of them moves;  *)
(* the plan is refused, the variables of the others are Idle, while they   *)
(* do not.                                                                 *)
EXTENDS Plan

CONSTANTS
    a, b, xml,
    Focuses,                 \* which parts are looked at
    Star, Any, NoStar, NameChars, FilterNames, Filters,   \* of FileFilter
    RawPaths, UrlNames,      \* of FileUrl
    LocalNames,              \* of Sanitize
    MaxName, MaxPattern,     \* bounds: lengths of MCFilterNames and MCFilters
    RawBytes,                \* the bytes of MCRawPaths
    MaxRaw, MaxSegment, MaxDepth,  \* bounds: bytes of MCRawPaths, characters of a
                                   \* segment and segments of MCUrlNames
    MaxLength,               \* bound: characters of MCLocalNames
    Idle

VARIABLES
    focus,
    \* those of FileFilter
    filter, name, stage, k, i, j, starI, starJ,
    \* those of FileUrl
    urlName, raw, urlStage, behind, out,
    \* those of Sanitize
    filename, rest, emitted, modified, done

filterVars   == <<filter, name, stage, k, i, j, starI, starJ>>
urlVars      == <<urlName, raw, urlStage, behind, out>>
sanitizeVars == <<filename, rest, emitted, modified, done>>
allVars      == <<focus, vars, filterVars, urlVars, sanitizeVars>>

Ext == INSTANCE SequencesExt

UpTo(S, n) == UNION {[1..m -> S] : m \in 0..n}

-----------------------------------------------------------------------------
(* Plan *)

segment(stem, upper, parts, odd) ==
    [stem |-> stem, upper |-> upper, parts |-> parts, odd |-> odd]

clean == segment(a, FALSE, 0, FALSE)      \* a
other == segment(b, FALSE, 0, FALSE)      \* b
self  == segment(xml, FALSE, 0, FALSE)    \* id_files.xml

MCXmlName == <<self>>

MCNames == {
    <<clean>>, <<other>>,
    <<segment(a, FALSE, 0, TRUE)>>,       \* sanitizes to a
    <<segment(a, TRUE, 0, FALSE)>>,       \* A
    <<segment(a, FALSE, 1, FALSE)>>,      \* a.part
    <<clean, other>>,                     \* a/b
    <<clean, clean>>,                     \* a/a
    <<Empty, clean, Empty, clean>>,       \* /a//a
    <<Empty>>, <<Dot, other>>,
    MCXmlName,
    <<segment(xml, TRUE, 0, FALSE)>>,
    <<self, other>>}                      \* id_files.xml/b

PlanRefused ==
    /\ files = <<>> /\ target = WholeItem /\ state = "refused" /\ next = 1
    /\ tasks = <<>> /\ plannedFiles = {} /\ plannedDirs = {} /\ collided = {}

-----------------------------------------------------------------------------
(* FileFilter: all short names and patterns, one pattern at a time, and small *)
(* combinations of patterns. A name may have a '?', but no '*'.               *)

MCNameChars == {a, b, Any}

one(p) == [includes |-> <<p>>, excludes |-> <<>>]

MCFilterNames == UpTo(NameChars, MaxName)
MCFilters ==
    {one(p) : p \in UpTo(NameChars \cup {Star}, MaxPattern)}
        \cup [includes: UpTo(UpTo(NameChars \cup {Star}, 1), 1),
              excludes: UpTo(UpTo(NameChars \cup {Star}, 1), 2)]

Filter == INSTANCE FileFilter WITH Names <- FilterNames

FilterIdle == /\ filter = Idle /\ name = Idle /\ stage = Idle /\ k = Idle
              /\ i = Idle /\ j = Idle /\ starI = Idle /\ starJ = Idle

-----------------------------------------------------------------------------
(* FileUrl: names of a digit, '%', '.', '?' and a character of two bytes *)

Characters == {<<1>>, <<4>>, <<6>>, <<8>>, <<9, 10>>}

MCRawPaths == UpTo(RawBytes, MaxRaw)
MCUrlNames ==
    UpTo({Ext!FlattenSeq(s) : s \in UpTo(Characters, MaxSegment)}, MaxDepth) \ {<<>>}

Url == INSTANCE FileUrl WITH
    FileNames <- UrlNames, name <- urlName, stage <- urlStage, i <- behind

UrlIdle == /\ urlName = Idle /\ raw = Idle /\ urlStage = Idle /\ behind = Idle
           /\ out = Idle

-----------------------------------------------------------------------------
(* Sanitize *)

MCLocalNames == UpTo({"x", ".", " ", "?", "com", "1", "^1", "/", "_"}, MaxLength)

Local == INSTANCE Sanitize WITH FileNames <- LocalNames

SanitizeIdle == /\ filename = Idle /\ rest = Idle /\ emitted = Idle
                /\ modified = Idle /\ done = Idle

ASSUME PartsAssumption ==
    Filter!InputsAssumption /\ Url!InputsAssumption /\ Local!InputsAssumption

-----------------------------------------------------------------------------
(* One part moves *)

PartsInit ==
    /\ focus \in Focuses
    /\ \/ focus = "plan" /\ Init /\ FilterIdle /\ UrlIdle /\ SanitizeIdle
       \/ focus = "filter" /\ Filter!Init /\ PlanRefused /\ UrlIdle /\ SanitizeIdle
       \/ focus = "url" /\ Url!Init /\ PlanRefused /\ FilterIdle /\ SanitizeIdle
       \/ focus = "local" /\ Local!Init /\ PlanRefused /\ FilterIdle /\ UrlIdle

PlanMoves ==
    focus = "plan" /\ Next /\ UNCHANGED <<focus, filterVars, urlVars, sanitizeVars>>
FilterMoves ==
    focus = "filter" /\ Filter!Next /\ UNCHANGED <<focus, vars, urlVars, sanitizeVars>>
UrlMoves ==
    focus = "url" /\ Url!Next /\ UNCHANGED <<focus, vars, filterVars, sanitizeVars>>
LocalMoves ==
    focus = "local" /\ Local!Next /\ UNCHANGED <<focus, vars, filterVars, urlVars>>

\* The fairness of FileFilter
PartsSpec ==
    /\ PartsInit
    /\ [][PlanMoves \/ FilterMoves \/ UrlMoves \/ LocalMoves]_allVars
    /\ WF_allVars(FilterMoves)

-----------------------------------------------------------------------------
(* The properties of all parts *)

\* Type correctness of every part.
PartsTypeOK ==
    /\ TypeOK
    /\ focus = "filter" => Filter!TypeOK
    /\ focus = "url"    => Url!TypeOK
    /\ focus = "local"  => Local!TypeOK

\* See FileFilter: there is an answer, and it is what the patterns mean.
FilterIsRight ==
    [](focus = "filter" => Filter!FilterIsRight) /\ (focus = "filter" => Filter!Answers)

\* See FileUrl and Sanitize. A name becomes a relative reference that is read
\* back as that name, and a path is decoded as documented; it becomes a local
\* path that fits every file system and stays as it is, and a change is noticed.
NamesAreRight ==
    /\ focus = "url" => /\ Url!UrlNamesTheFile /\ Url!ReferenceIsRelative
                        /\ Url!DecodesAsDocumented
    /\ focus = "local" => /\ Local!FitsEveryFileSystem /\ Local!StaysAsItIs
                          /\ Local!ModifiedIsTrue

\* See FileUrl (violated): every path is read.
EveryPathIsRead == focus = "url" => Url!EveryPathIsRead
=============================================================================
