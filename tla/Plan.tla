-------------------------------- MODULE Plan --------------------------------
(***************************************************************************)
(* From the metadata's file list to the download tasks: the URL's          *)
(* selection, the name filter, and the loop of plan_download_tasks that    *)
(* skips what cannot be downloaded beside what is already planned          *)
(* (src/src/plan.rs, build_plan in src/src/main.rs).                       *)
(*                                                                         *)
(* A name is a sequence of segments: components spelled with or without a  *)
(* character that sanitizing replaces (odd), Empty (between two slashes),  *)
(* or Dot ("." and ".."). Two names that differ only in odd sanitize to    *)
(* the same path.                                                          *)
(***************************************************************************)
EXTENDS Paths

CONSTANTS
    Empty, Dot,    \* segments that name nothing
    Names,         \* the names the metadata may list
    XmlName,       \* the item's own "<id>_files.xml"
    WholeItem,     \* a URL that names the item and no file
    MaxEntries     \* bound: entries in the metadata

Segments == [stem: Stems, upper: BOOLEAN, parts: Nat, odd: BOOLEAN] \cup {Empty, Dot}

ASSUME NamesAssumption ==
    /\ Names \subseteq Seq(Segments) \ {<<>>}
    /\ XmlName \in Names
    /\ WholeItem \notin Names
    /\ Empty # Dot
    /\ {Empty, Dot} \cap [stem: Stems, upper: BOOLEAN, parts: Nat, odd: BOOLEAN] = {}
ASSUME EntriesAssumption == MaxEntries \in Nat

VARIABLES
    files,          \* the metadata's list, then the candidates
    target,         \* WholeItem, or the one name the URL asks for
    state,          \* "parsed", "planning", "planned" or "refused"
    next,           \* position in the list
    tasks,          \* local paths of the planned tasks
    plannedFiles,   \* keys of the planned files
    plannedDirs,    \* keys of the directories they need
    collided        \* history: positions skipped for a collision

vars == <<files, target, state, next, tasks, plannedFiles, plannedDirs, collided>>

-----------------------------------------------------------------------------
(* Names *)

\* sanitize_component: one spelling for all odd ones
CleanComponent(segment) ==
    [stem |-> segment.stem, upper |-> segment.upper, parts |-> segment.parts]

\* The elements of a sequence that are in S, in their order
Only(s, S) ==
    LET only[n \in 0..Len(s)] ==
          IF n = 0 THEN <<>>
          ELSE IF s[n] \in S THEN Append(only[n - 1], s[n]) ELSE only[n - 1]
    IN  only[Len(s)]

\* sanitize_filename
Sanitized(name) ==
    LET kept == Only(name, Segments \ {Empty, Dot})
    IN  [i \in DOMAIN kept |-> CleanComponent(kept[i])]

\* The document's name is one component: an item's id has no slash.
ASSUME XmlAssumption == Len(Sanitized(XmlName)) = 1

HasDotSegment(name) == \E i \in DOMAIN name : name[i] = Dot

\* Mutant: an empty name is not noticed.
NothingIsEmpty(name) == FALSE

\* encode_download_path drops slashes and dots; nothing is left.
EncodesToNothing(name) == \A i \in DOMAIN name : name[i] \in {Empty, Dot}

-----------------------------------------------------------------------------
(* select_files and the filter *)

\* The entries the URL names: all but the metadata, or the first one listed
\* under the requested name.
Selected ==
    IF target = WholeItem
    THEN Only(files, Names \ {XmlName})
    ELSE IF \E i \in DOMAIN files : files[i] = target THEN <<target>> ELSE <<>>

\* A single-file URL names a file that is not listed, or the filters keep
\* every candidate out.
Refuse == state' = "refused" /\ UNCHANGED <<next, tasks, plannedFiles, plannedDirs>>

\* build_plan: selection, filter, and the reserved metadata file. wanted is
\* what --include and --exclude let pass.
Select(wanted) ==
    /\ state = "parsed"
    /\ files' = Only(Selected, wanted)
    /\ IF files' = <<>> THEN Refuse
       ELSE /\ state' = "planning"
            /\ next' = 1
            /\ plannedFiles' =
                 IF target = WholeItem THEN {Key(Sanitized(XmlName))} ELSE {}
            /\ UNCHANGED <<tasks, plannedDirs>>
    /\ UNCHANGED <<target, collided>>

-----------------------------------------------------------------------------
(* The loop of plan_download_tasks *)

Planning == state = "planning" /\ next <= Len(files)

Skipped == Planning /\ next' = next + 1 /\ UNCHANGED <<files, target, state, tasks,
                                                         plannedFiles, plannedDirs>>

SkipUnnameable ==
    /\ Skipped
    /\ HasDotSegment(files[next]) \/ EncodesToNothing(files[next])
    /\ UNCHANGED collided

\* Mutant: a file may land where a directory is needed.
ClashIgnoringDirs(path) == Keys(Ancestors(path) \cup {path}) \cap plannedFiles # {}

\* Mutant: a directory two files share is a clash.
ClashOnSharedDirs(path) ==
    Keys(Ancestors(path) \cup {path}) \cap (plannedFiles \cup plannedDirs) # {}

\* clashing_entry: the path or one of its directories is a planned file, or
\* the path is a planned directory.
ClashingEntry(path) ==
    \/ Keys(Ancestors(path) \cup {path}) \cap plannedFiles # {}
    \/ Key(path) \in plannedDirs

Nameable == Planning /\ ~HasDotSegment(files[next]) /\ ~EncodesToNothing(files[next])

SkipCollision ==
    /\ Nameable
    /\ ClashingEntry(Sanitized(files[next]))
    /\ Skipped
    /\ collided' = collided \cup {next}

\* register_planned_path, and the task
PlanTask ==
    /\ Nameable
    /\ LET path == Sanitized(files[next])
       IN  /\ ~ClashingEntry(path)
           /\ plannedFiles' = plannedFiles \cup {Key(path)}
           /\ plannedDirs' = plannedDirs \cup Keys(Ancestors(path))
           /\ tasks' = Append(tasks, path)
    /\ next' = next + 1
    /\ UNCHANGED <<files, target, state, collided>>

\* Joining the base URL with the encoded name fails: the run is aborted.
JoinFails ==
    /\ Nameable
    /\ Refuse
    /\ UNCHANGED <<files, target, collided>>

\* An empty plan is an error.
FinishPlan ==
    /\ state = "planning" /\ next > Len(files)
    /\ state' = IF tasks = <<>> THEN "refused" ELSE "planned"
    /\ UNCHANGED <<files, target, next, tasks, plannedFiles, plannedDirs, collided>>

Init ==
    /\ files \in UNION {[1..n -> Names] : n \in 0..MaxEntries}
    /\ target \in Names \cup {WholeItem}
    /\ state = "parsed"
    /\ next = 1
    /\ tasks = <<>>
    /\ plannedFiles = {}
    /\ plannedDirs = {}
    /\ collided = {}

Next ==
    \/ \E wanted \in SUBSET {files[i] : i \in DOMAIN files} : Select(wanted)
    \/ SkipUnnameable
    \/ SkipCollision
    \/ PlanTask
    \/ JoinFails
    \/ FinishPlan

Spec == Init /\ [][Next]_vars

-----------------------------------------------------------------------------
(* Properties *)

\* Type correctness of the planner's state; no task has an empty path.
TypeOK ==
    /\ files \in Seq(Names)
    /\ target \in Names \cup {WholeItem}
    /\ state \in {"parsed", "planning", "planned", "refused"}
    /\ next \in Nat \ {0}
    /\ tasks \in Seq(Paths)
    /\ plannedFiles \subseteq Paths
    /\ plannedDirs \subseteq Paths
    /\ collided \subseteq 1..(next - 1)

\* Doc of plan_download_tasks: one file never overwrites another and never
\* lands where another needs a directory; nor does one hit the metadata
\* document a whole-item run saves beside them.
NoClash ==
    /\ Compatible(tasks)
    /\ target = WholeItem =>
         \A i \in DOMAIN tasks : ~Clash(tasks[i], Sanitized(XmlName))

\* A listed file is skipped as a collision only for one that is downloaded:
\* skipping it loses no file that could have been kept.
SkippedForAReason ==
    \A c \in collided :
        \/ \E i \in DOMAIN tasks : Clash(Sanitized(files[c]), tasks[i])
        \/ target = WholeItem /\ Clash(Sanitized(files[c]), Sanitized(XmlName))

\* The planned paths never meet on disk, nor the metadata document; and an
\* entry is left out as colliding only if it meets something kept.
CollisionsAreRight == NoClash /\ SkippedForAReason
=============================================================================
