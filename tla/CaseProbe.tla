----------------------------- MODULE CaseProbe -----------------------------
(***************************************************************************)
(* How `ia-get --check` matches names to the volume it runs on: the walk,  *)
(* the read-only probe of the volume's case rule, and the classification   *)
(* under the keys the probe chose (src/src/check.rs). Check models the     *)
(* contents of the files, and takes the case rule as given.                *)
(*                                                                         *)
(* A name is a sequence of symbols: "a" "A" "d" "D" are letters, "1" none, *)
(* "/" parts a directory from its entry, and ".p" and ".P" stand for       *)
(* ".part" and ".Part", whose first letter is a letter like any other.     *)
(***************************************************************************)
EXTENDS SequencesExt, FiniteSets

CONSTANTS
    Volumes,   \* the directories looked at: [disk: name -> kind, folds: BOOLEAN]
    Plans      \* sets of planned local paths

Symbols == {"a", "A", "d", "D", "1", "/", ".p", ".P"}
Names == Seq(Symbols)
Kinds == {"file", "directory", "link"}

Cases == {<<"a", "A">>, <<"d", "D">>, <<".p", ".P">>}
ToLower(s) == IF \E c \in Cases : c[2] = s THEN (CHOOSE c \in Cases : c[2] = s)[1] ELSE s
Other(s) == LET c == CHOOSE c \in Cases : s \in {c[1], c[2]}
            IN  IF s = c[1] THEN c[2] ELSE c[1]
HasCase(s) == \E c \in Cases : s \in {c[1], c[2]}

Lowercase(name) == [i \in DOMAIN name |-> ToLower(name[i])]
Part(name) == Append(name, ".p")
Below(dir, name) == IsPrefix(Append(dir, "/"), name)

\* Of the file system: no two entries of a folding volume differ by case only,
\* and an entry lies in a directory.
VolumeOk(v) ==
    /\ DOMAIN v.disk \subseteq Names /\ \A n \in DOMAIN v.disk : v.disk[n] \in Kinds
    /\ v.folds => \A m, n \in DOMAIN v.disk : Lowercase(m) = Lowercase(n) => m = n
    /\ \A n \in DOMAIN v.disk : \A i \in DOMAIN n : n[i] = "/" =>
           LET dir == SubSeq(n, 1, i - 1)
           IN  dir \in DOMAIN v.disk /\ v.disk[dir] = "directory"

\* What is assumed of the constants
InputsAssumption ==
    /\ \A v \in Volumes : v.folds \in BOOLEAN /\ IsFiniteSet(DOMAIN v.disk)
    /\ \A p \in Plans : p # {} /\ p \subseteq Names

VARIABLES
    volume,      \* what is on disk, and whether the volume folds case
    planned,     \* the planned local paths
    stage,       \* "walk", "probe", "classify" or "done"
    unread,      \* entries the walk has still to reach
    files, dirs, others,   \* what the walk found: files in the order it did
    ci,          \* the verdict of the probe
    found,       \* the category of each planned path classified so far
    extra        \* unexpected paths

vars == <<volume, planned, stage, unread, files, dirs, others, ci, found, extra>>

Categories == {"type", "missing", "incomplete", "read", "present"}

\* The entry a path opens, if any; a link is followed to a file elsewhere.
Answering(name) ==
    {n \in DOMAIN volume.disk :
        n = name \/ (volume.folds /\ Lowercase(n) = Lowercase(name))}
Exists(name) == Answering(name) # {}

-----------------------------------------------------------------------------

\* walk_into, in the order the directory gives its entries; a directory is read
\* before what it holds.
WalkEntry ==
    /\ stage = "walk"
    /\ \E n \in unread :
        /\ ~\E d \in unread : Below(d, n)
        /\ unread' = unread \ {n}
        /\ files'  = IF volume.disk[n] = "file" THEN Append(files, n) ELSE files
        /\ dirs'   = IF volume.disk[n] = "directory" THEN dirs \cup {n} ELSE dirs
        /\ others' = IF volume.disk[n] = "link" THEN others \cup {n} ELSE others
    /\ UNCHANGED <<volume, planned, stage, ci, found, extra>>

WalkEnds ==
    /\ stage = "walk" /\ unread = {}
    /\ stage' = "probe"
    /\ UNCHANGED <<volume, planned, unread, files, dirs, others, ci, found, extra>>

\* flip_first_ascii_letter
Flipped(name) ==
    LET first == SelectInSeq(name, HasCase)
    IN  [name EXCEPT ![first] = Other(name[first])]

HasLetter(name) == SelectInSeq(name, HasCase) # 0

\* The file the probe looks at: the first one with a letter, 0 if there is none
Probed == SelectInSeq(files, HasLetter)

\* Mutant: a hit is taken for folding, whatever the walk found.
VerdictOfHit ==
    /\ Probed # 0
    /\ ci' = Exists(Flipped(files[Probed]))

\* volume_case_insensitive: the first file that has a letter settles it.
Verdict ==
    /\ Probed # 0
    /\ LET twin == Flipped(files[Probed])
       IN  ci' = (Exists(twin) /\ ~Contains(files, twin))

Unprobed == Probed = 0 /\ ci' = FALSE

Probe ==
    /\ stage = "probe"
    /\ Verdict \/ Unprobed
    /\ stage' = "classify"
    /\ UNCHANGED <<volume, planned, unread, files, dirs, others, found, extra>>

-----------------------------------------------------------------------------

Key(name) == IF ci THEN Lowercase(name) ELSE name
FileSet == {Key(n) : n \in ToSet(files)}
DirSet  == {Key(n) : n \in dirs}
Expected == {Key(n) : n \in planned}

\* The planned path is not a file the walk found.
Absent(p) ==
    IF Key(Part(p)) \in FileSet THEN "incomplete" ELSE "missing"

\* The path itself is opened, as it is spelled in the plan.
Present(p) == IF Exists(p) THEN "present" ELSE "read"

Category(p) ==
    IF Key(p) \in DirSet THEN "type"
    ELSE IF Key(p) \notin FileSet THEN Absent(p)
    ELSE Present(p)

\* The sizes, hashes and dates of a present file are Check's matter. A .part
\* beside it is left over.
Classify ==
    /\ stage = "classify"
    /\ \E p \in planned \ DOMAIN found :
        /\ found' = [n \in DOMAIN found \cup {p} |->
                        IF n = p THEN Category(p) ELSE found[n]]
        /\ extra' = IF Category(p) = "present" /\ Key(Part(p)) \in FileSet
                    THEN extra \cup {Part(p)} ELSE extra
    /\ UNCHANGED <<volume, planned, stage, unread, files, dirs, others, ci>>

\* Mutant: the suffix is matched exactly, and what is left is keyed.
PartBaseExactly(name) ==
    IF name # <<>> /\ Last(name) = ".p" THEN {Front(name)} ELSE {}

\* part_base: the name a leftover stands for, if the suffix is there
PartBase(name) ==
    IF name # <<>> /\ (IF ci THEN ToLower(Last(name)) ELSE Last(name)) = ".p"
    THEN {Front(name)} ELSE {}

Explained(name) ==
    Key(name) \in Expected \/ \E base \in PartBase(name) : Key(base) \in Expected

\* A directory is of use if it holds a file, or a planned path lies below it.
DirExplained(dir) == \E n \in ToSet(files) \cup planned : Below(dir, n)

Leftovers ==
    /\ stage = "classify" /\ DOMAIN found = planned
    /\ extra' = extra \cup {n \in ToSet(files) : ~Explained(n)}
                      \cup {n \in others : Key(n) \notin Expected}
                      \cup {n \in dirs : ~DirExplained(n)}
    /\ stage' = "done"
    /\ UNCHANGED <<volume, planned, unread, files, dirs, others, ci, found>>

-----------------------------------------------------------------------------

Init ==
    /\ volume \in Volumes /\ VolumeOk(volume)
    /\ planned \in Plans
    /\ stage = "walk" /\ unread = DOMAIN volume.disk
    /\ files = <<>> /\ dirs = {} /\ others = {}
    /\ ci = FALSE
    /\ found = <<>>
    /\ extra = {}

Next == WalkEntry \/ WalkEnds \/ Probe \/ Classify \/ Leftovers

Spec == Init /\ [][Next]_vars

-----------------------------------------------------------------------------
(* Correctness *)

\* Type correctness; the walk loses nothing and finds nothing twice.
TypeOK ==
    /\ stage \in {"walk", "probe", "classify", "done"} /\ ci \in BOOLEAN
    /\ unread \cup ToSet(files) \cup dirs \cup others = DOMAIN volume.disk
    /\ Len(files) + Cardinality(unread \cup dirs \cup others)
           = Cardinality(DOMAIN volume.disk)
    /\ DOMAIN found \subseteq planned /\ \A p \in DOMAIN found : found[p] \in Categories
    /\ \A n \in extra : n \in DOMAIN volume.disk \/ n \in {Part(p) : p \in planned}

\* The probe has something to go by: on a volume that folds case, a file with a
\* letter; on one that does not, no directory or link beside a file whose name
\* differs by case only (the probe compares its hit with the files alone).
Probeable ==
    IF volume.folds THEN Probed # 0
    ELSE \A m, n \in DOMAIN volume.disk :
             m # n /\ Lowercase(m) = Lowercase(n) => volume.disk[m] = "file"

HoldsFile(name) == \E n \in Answering(name) : volume.disk[n] = "file"
HoldsDir(name)  == \E n \in Answering(name) : volume.disk[n] = "directory"

\* Whatever file the probe happened upon, each planned path gets the category
\* the volume itself would give it: present if opening it opens a regular file,
\* a wrong type if it opens a directory, incomplete if only its .part is there.
\* (Two spellings of one path never become "missing" and "extra", two paths
\* never become one: check.rs, comment on keys.)
CategoryIsRight ==
    Probeable => \A p \in DOMAIN found :
        found[p] = IF HoldsDir(p) THEN "type"
                   ELSE IF HoldsFile(p) THEN "present"
                   ELSE IF HoldsFile(Part(p)) THEN "incomplete"
                   ELSE "missing"

\* A file is called unexpected when no planned path opens it and no planned
\* path's .part does, or when it is the .part of a file that is there; any other
\* entry only when no planned path opens it.
ExtraIsRight ==
    stage = "done" /\ Probeable => \A n \in DOMAIN volume.disk :
        LET opens(path)  == n \in Answering(path)
            stale(p)     == opens(Part(p)) /\ HoldsFile(p) /\ ~HoldsDir(p)
            reported     == \E m \in extra : opens(m)
        IN  /\ volume.disk[n] = "file" =>
                   (reported <=> \/ \A p \in planned : ~opens(p) /\ ~opens(Part(p))
                                 \/ \E p \in planned : stale(p))
            /\ volume.disk[n] = "link" =>
                   (reported <=> \A p \in planned : ~opens(p))
=============================================================================
