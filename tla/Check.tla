------------------------------- MODULE Check -------------------------------
(***************************************************************************)
(* `ia-get --check`: walk the output directory, then classify each planned *)
(* file and whatever else was found (src/src/check.rs), while another      *)
(* ia-get may be downloading into the same directory.                      *)
(*                                                                         *)
(* A path holds nothing, a directory, a symlink or special file (link), or *)
(* a regular file: short of the expected size, rotten (right size, wrong   *)
(* data), locked (right size, cannot be read) or good. Times are not       *)
(* modelled here: the on-disk mtime is taken to be the expected one        *)
(* (Mtime). The volume's case rule is taken to be probed correctly         *)
(* (CaseProbe).                                                            *)
(***************************************************************************)
EXTENDS Paths, FiniteSets

CONSTANTS
    TaskLists,    \* lists of local paths the planner may hand over
    XmlPath,      \* the item's "<id>_files.xml"
    StrayFile, StrayDir,   \* a path no plan explains, and a directory
    FileKinds     \* bound: what may lie at a planned path

RegularFiles == {"short", "rotten", "locked", "good"}
Kinds == {"none", "directory", "link"} \cup RegularFiles

ASSUME BoundsAssumption == FileKinds \subseteq Kinds
ASSUME ListsAssumption ==
    \A l \in TaskLists : /\ l \in Seq(Paths) /\ l # <<>>
                         /\ Compatible(Append(l, XmlPath))
                         /\ \A p \in {StrayFile, StrayDir} : Compatible(Append(l, p))
ASSUME StrayAssumption == StrayFile \in Paths /\ StrayDir \in Ancestors(StrayFile)
\* The document lies in the output directory itself, and is no .part.
ASSUME XmlAssumption ==
    XmlPath \in Paths /\ Len(XmlPath) = 1 /\ XmlPath[1].parts = 0

VARIABLES
    list,        \* the plan's local paths
    sized, md5,  \* which tasks have a size, and an MD5, in the metadata
    options,     \* --md5, --strict, and whether the URL names the whole item
    disturbed,   \* whether another ia-get works in the directory
    disk,        \* what lies at each path
    running,     \* the stop flag
    stage,       \* "walk", "classify", "hash" or "done"
    unread,      \* paths the walk has still to reach
    files, dirs, others,   \* what the walk found
    cur,         \* the planned file to be classified next
    found,       \* the category of each planned file
    extra,       \* unexpected paths
    xmlMissing,  \* the metadata document was not found
    result       \* "none", "clean", "problems" or "interrupted"

fixedVars  == <<list, sized, md5, options, disturbed>>
walkVars   == <<unread, files, dirs, others>>
reportVars == <<found, extra, xmlMissing>>
vars == <<fixedVars, disk, running, stage, walkVars, cur, reportVars, result>>

Tasks == DOMAIN list
FilePath(i) == Key(list[i])
PartPath(i) == Key(PartOf(list[i]))
Expected == {FilePath(i) : i \in Tasks}
Parts    == {PartPath(i) : i \in Tasks}
AllPaths == Expected \cup Parts \cup {XmlPath, StrayFile, StrayDir}

Categories == {"missing", "incomplete", "size", "md5", "type", "read", "ok"}

\* What a path can hold without meaning: of the metadata document and of a
\* stray path only the presence matters.
MayHold(p) ==
    IF p \in Expected THEN FileKinds
    ELSE IF p = StrayDir THEN {"none", "directory"}
    ELSE {"none", "short", "link"}

\* What check_existing_file would keep
Keeps(i, kind) ==
    /\ kind \in RegularFiles
    /\ i \in sized => kind # "short"
    /\ i \in md5 => kind = "good"

-----------------------------------------------------------------------------

\* walk_into reads one entry after the other.
WalkEntry ==
    /\ stage = "walk"
    /\ \E p \in unread :
        /\ unread' = unread \ {p}
        /\ files'  = IF disk[p] \in RegularFiles THEN files \cup {p} ELSE files
        /\ dirs'   = IF disk[p] = "directory" THEN dirs \cup {p} ELSE dirs
        /\ others' = IF disk[p] = "link" THEN others \cup {p} ELSE others
    /\ UNCHANGED <<fixedVars, disk, running, stage, cur, reportVars, result>>

\* A whole-item run expects the metadata document.
WalkEnds ==
    /\ stage = "walk" /\ unread = {}
    /\ xmlMissing' = (options.whole /\ XmlPath \notin files)
    /\ stage' = "classify"
    /\ UNCHANGED <<fixedVars, disk, running, walkVars, cur, found, extra, result>>

\* Mutant: the index runs ahead of the list.
ClassifyTwice(category) ==
    /\ found' = [found EXCEPT ![cur] = category]
    /\ cur' = cur + 2

Classify(category) ==
    /\ found' = [found EXCEPT ![cur] = category]
    /\ cur' = cur + 1

Classifying == stage = "classify" /\ cur \in Tasks
Unmoved == UNCHANGED <<fixedVars, disk, running, stage, walkVars, xmlMissing, result>>

\* By the walk's findings alone: a directory, or nothing but a .part
ClassifyAbsent ==
    /\ Classifying
    /\ \/ FilePath(cur) \in dirs /\ Classify("type")
       \/ /\ FilePath(cur) \notin dirs \cup files
          /\ Classify(IF PartPath(cur) \in files THEN "incomplete" ELSE "missing")
    /\ UNCHANGED extra
    /\ Unmoved

Present == Classifying /\ FilePath(cur) \in files \ dirs

\* Mutant: the file is looked up in the walk, and only its size is read.
VanishedIsOk ==
    /\ Present
    /\ disk[FilePath(cur)] = "none"
    /\ Classify("ok")
    /\ UNCHANGED extra
    /\ Unmoved

\* It was there on the walk and is not now.
ClassifyVanished ==
    /\ Present
    /\ disk[FilePath(cur)] = "none"
    /\ Classify("read")
    /\ UNCHANGED extra
    /\ Unmoved

\* Mutant: the hash is computed and compared with nothing.
HashTrusted(kind) == IF kind \in {"none", "locked"} THEN "read" ELSE "ok"

\* calculate_md5 opens the file and compares: what lies there by now
Hashed(kind) ==
    IF kind \in {"none", "locked"} THEN "read"
    ELSE IF kind = "good" THEN "ok" ELSE "md5"

\* A .part beside a final file is an extra, whatever the file's category.
\* The size is compared; the --md5 pass comes after it.
ClassifyPresent ==
    /\ Present
    /\ disk[FilePath(cur)] \in RegularFiles
    /\ extra' = IF PartPath(cur) \in files THEN extra \cup {PartPath(cur)} ELSE extra
    /\ IF cur \in sized /\ disk[FilePath(cur)] = "short"
       THEN Classify("size") /\ UNCHANGED stage
       ELSE IF options.md5 /\ cur \in md5
       THEN stage' = "hash" /\ UNCHANGED <<cur, found>>
       ELSE Classify("ok") /\ UNCHANGED stage
    /\ UNCHANGED <<fixedVars, disk, running, walkVars, xmlMissing, result>>

HashEnds ==
    /\ stage = "hash"
    /\ running \/ disk[FilePath(cur)] \in {"none", "locked"}
    /\ Classify(Hashed(disk[FilePath(cur)]))
    /\ stage' = "classify"
    /\ UNCHANGED <<fixedVars, disk, running, walkVars, extra, xmlMissing, result>>

\* calculate_md5 sees the stop flag.
HashInterrupted ==
    /\ stage = "hash"
    /\ ~running
    /\ disk[FilePath(cur)] \in RegularFiles \ {"locked"}
    /\ stage' = "done"
    /\ result' = "interrupted"
    /\ UNCHANGED <<fixedVars, disk, running, walkVars, cur, reportVars>>

\* Mutant: every .part is taken for a leftover of the plan.
UnexplainedIgnoringParts ==
    {p \in files : /\ p \notin Expected
                   /\ ~(options.whole /\ p = XmlPath)
                   /\ p[Len(p)].parts = 0}
    \cup (others \ Expected)

\* Regular files that are neither planned, nor the .part of a planned file,
\* nor the metadata of a whole item; others that are not planned
Unexplained ==
    {p \in files : /\ p \notin Expected \cup Parts
                   /\ ~(options.whole /\ p = XmlPath)}
    \cup (others \ Expected)

\* Directories with no file below them that no planned file needs
EmptyDirs ==
    {d \in dirs : ~\E p \in files \cup Expected : d \in Ancestors(p)}

Failing(extras) ==
    \/ xmlMissing
    \/ \E i \in Tasks : found[i] # "ok"
    \/ options.strict /\ extras # {}

ClassifyExtras ==
    /\ stage = "classify" /\ cur = Len(list) + 1
    /\ extra' = extra \cup Unexplained \cup EmptyDirs
    /\ stage' = "done"
    /\ result' = IF Failing(extra') THEN "problems" ELSE "clean"
    /\ UNCHANGED <<fixedVars, disk, running, walkVars, cur, found, xmlMissing>>

-----------------------------------------------------------------------------
(* The user, and a concurrent download keeping FilePromise *)

Stop ==
    /\ running /\ stage # "done"
    /\ running' = FALSE
    /\ UNCHANGED <<fixedVars, disk, stage, walkVars, cur, reportVars, result>>

Disturb(p, kind) ==
    /\ disturbed
    /\ disk' = [disk EXCEPT ![p] = kind]
    /\ UNCHANGED <<fixedVars, running, stage, walkVars, cur, reportVars, result>>

OtherRemoves(i) ==
    /\ disk[FilePath(i)] \in RegularFiles /\ ~Keeps(i, disk[FilePath(i)])
    /\ Disturb(FilePath(i), "none")

OtherInstalls(i) ==
    /\ disk[FilePath(i)] = "none"
    /\ \E kind \in RegularFiles : Keeps(i, kind) /\ Disturb(FilePath(i), kind)

OtherDownloads(i) == \E kind \in {"none", "short"} :
    disk[PartPath(i)] # kind /\ Disturb(PartPath(i), kind)

CheckStep ==
    \/ WalkEntry \/ WalkEnds
    \/ ClassifyAbsent \/ ClassifyVanished \/ ClassifyPresent
    \/ HashEnds \/ HashInterrupted
    \/ ClassifyExtras

Init ==
    /\ list \in TaskLists
    /\ disk \in [AllPaths -> Kinds]
    /\ \A p \in AllPaths : disk[p] \in MayHold(p)
    /\ disk[StrayFile] # "none" => disk[StrayDir] = "directory"
    /\ sized \in SUBSET Tasks /\ md5 \in SUBSET Tasks
    /\ options \in [md5: BOOLEAN, strict: BOOLEAN, whole: BOOLEAN]
    /\ disturbed \in BOOLEAN
    /\ running = TRUE
    /\ stage = "walk"
    /\ unread = AllPaths
    /\ files = {} /\ dirs = {} /\ others = {}
    /\ cur = 1
    /\ found = [i \in Tasks |-> "none"]
    /\ extra = {} /\ xmlMissing = FALSE
    /\ result = "none"

Next ==
    \/ CheckStep
    \/ Stop
    \/ \E i \in Tasks : OtherRemoves(i) \/ OtherInstalls(i) \/ OtherDownloads(i)

Spec == Init /\ [][Next]_vars

-----------------------------------------------------------------------------
(* Properties *)

\* Type correctness of the check's state.
TypeOK ==
    /\ list \in TaskLists
    /\ sized \subseteq Tasks /\ md5 \subseteq Tasks
    /\ disk \in [AllPaths -> Kinds] /\ disturbed \in BOOLEAN
    /\ stage \in {"walk", "classify", "hash", "done"}
    /\ files \cup dirs \cup others \cup unread \subseteq AllPaths
    /\ cur \in 1..(Len(list) + 1)
    /\ found \in [Tasks -> Categories \cup {"none"}]
    /\ extra \subseteq AllPaths
    /\ result \in {"none", "clean", "problems", "interrupted"}

\* With --md5, a file reported as ok is one the downloader keeps, although
\* the walk, the report and a concurrent download interleave: a verified
\* file is never touched again.
OkIsKept ==
    options.md5 => \A i \in Tasks : found[i] = "ok" => Keeps(i, disk[FilePath(i)])

\* On a directory nobody changes, --check --md5 finds it clean exactly when
\* a download would keep every file and the metadata document is there.
\* A file that must be hashed and cannot be read is the downloader's failure too.
Complete ==
    /\ \A i \in Tasks : Keeps(i, disk[FilePath(i)])
    /\ options.whole => disk[XmlPath] = "short"

CleanIsComplete ==
    ~disturbed /\ options.md5 /\ ~options.strict /\ result \in {"clean", "problems"} =>
        (result = "clean" <=> Complete)

\* With --strict, exactly when besides that nothing else is there.
Exact ==
    /\ Complete
    /\ \A p \in AllPaths : disk[p] # "none" =>
         \/ p \in Expected
         \/ options.whole /\ p = XmlPath

StrictCleanIsExact ==
    ~disturbed /\ options.md5 /\ options.strict /\ result \in {"clean", "problems"} =>
        (result = "clean" <=> Exact)

\* Doc of CheckReport::extra: "Files in the directory that no metadata entry
\* (or its `.part`) accounts for". No path of an entry is among them.
ExtraIsUnaccounted == extra \cap Expected = {}
=============================================================================
