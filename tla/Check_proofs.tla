---------------------------- MODULE Check_proofs ----------------------------
(***************************************************************************)
(* Theorems about check mode, for every plan and every content of the      *)
(* directory. That a file reported as ok stays good is proved while        *)
(* another ia-get works in the directory; what the report as a whole says, *)
(* of a directory nobody changes. Both need the ".part" paths to be apart  *)
(* from the others, which the planner does not promise (run                *)
(* meeting_extras).                                                        *)
(***************************************************************************)
EXTENDS MCCheck, Paths_proofs, FiniteSetTheorems, WellFoundedInduction

LEMMA ListFacts ==
    ASSUME TypeOK
    PROVE  /\ list \in Seq(Paths) /\ Len(list) \in Nat \ {0} /\ Tasks = 1..Len(list)
           /\ \A p \in {XmlPath, StrayFile, StrayDir} : Compatible(Append(list, p))
<1> QED
  BY ListsAssumption DEF TypeOK, Tasks

\* A list to which one path can be added has no clash of its own, and none of
\* its paths clashes with the one added.
LEMMA CompatibleParts ==
    ASSUME NEW l \in Seq(Paths), NEW p, Compatible(Append(l, p))
    PROVE  Compatible(l) /\ \A i \in DOMAIN l : ~Clash(l[i], p)
<1>1. /\ Len(l) \in Nat /\ DOMAIN l = 1..Len(l)
      /\ DOMAIN Append(l, p) = 1..(Len(l) + 1)
      /\ \A i \in 1..Len(l) : Append(l, p)[i] = l[i]
      /\ Append(l, p)[Len(l) + 1] = p
  OBVIOUS
<1>2. \A i \in 1..Len(l) : i \in DOMAIN Append(l, p) /\ i # Len(l) + 1
  BY <1>1
<1>3. Len(l) + 1 \in DOMAIN Append(l, p)
  BY <1>1
<1> QED
  BY <1>1, <1>2, <1>3 DEF Compatible

\* Paths of the check do not change, and a step is one of these.
OtherStep(i) == OtherRemoves(i) \/ OtherInstalls(i) \/ OtherDownloads(i)

LEMMA FixedForever == [Next]_vars => UNCHANGED fixedVars
<1> QED
  BY DEF Next, CheckStep, WalkEntry, WalkEnds, ClassifyAbsent, ClassifyVanished,
         ClassifyPresent, HashEnds, HashInterrupted, ClassifyExtras, Unmoved, Stop,
         OtherRemoves, OtherInstalls, OtherDownloads, Disturb, vars

LEMMA PathsFixed ==
    ASSUME UNCHANGED list
    PROVE  /\ Tasks' = Tasks /\ AllPaths' = AllPaths /\ Expected' = Expected
           /\ Parts' = Parts
           /\ \A i : FilePath(i)' = FilePath(i) /\ PartPath(i)' = PartPath(i)
<1> QED
  BY DEF Tasks, AllPaths, Expected, Parts, FilePath, PartPath

\* A file that is classified is one of the plan's.
PlaceInv ==
    /\ options \in [md5: BOOLEAN, strict: BOOLEAN, whole: BOOLEAN]
    /\ stage = "hash" => /\ cur \in Tasks /\ cur \in md5 /\ options.md5
                         /\ found[cur] = "none"
    /\ \A i \in Tasks : i >= cur => found[i] = "none"

LEMMA InitShape == Init => TypeOK /\ PlaceInv
<1> SUFFICES ASSUME Init PROVE TypeOK /\ PlaceInv
  OBVIOUS
<1>1. Len(list) \in Nat
  BY ListsAssumption DEF Init
<1> QED
  BY <1>1 DEF Init, TypeOK, PlaceInv

LEMMA ShapeStep == TypeOK /\ PlaceInv /\ [Next]_vars => TypeOK' /\ PlaceInv'
<1> SUFFICES ASSUME TypeOK, PlaceInv, [Next]_vars PROVE TypeOK' /\ PlaceInv'
  OBVIOUS
<1>0. /\ list' = list /\ sized' = sized /\ md5' = md5 /\ options' = options
      /\ disturbed' = disturbed /\ Tasks' = Tasks /\ AllPaths' = AllPaths
      /\ Len(list) \in Nat /\ Tasks = 1..Len(list)
      /\ \A i \in Tasks : FilePath(i) \in AllPaths /\ PartPath(i) \in AllPaths
  BY FixedForever, PathsFixed, ListFacts DEF fixedVars, AllPaths, Expected, Parts
<1> USE <1>0
<1>1. CASE WalkEntry
  BY <1>1 DEF WalkEntry, TypeOK, PlaceInv, reportVars
<1>2. CASE WalkEnds
  BY <1>2 DEF WalkEnds, TypeOK, PlaceInv, walkVars
<1>3. CASE ClassifyAbsent \/ ClassifyVanished
  <2>1. /\ UNCHANGED <<disk, files, dirs, others, unread, extra, result, stage>> /\ cur \in Tasks
        /\ stage = "classify" /\ cur' = cur + 1
        /\ \E c \in Categories : found' = [found EXCEPT ![cur] = c]
    BY <1>3
    DEF ClassifyAbsent, ClassifyVanished, Present, Classifying, Classify, Unmoved,
        Categories, walkVars
  <2>2. found' \in [Tasks -> Categories \cup {"none"}] /\ cur' \in 1..(Len(list) + 1)
    BY <2>1 DEF TypeOK
  <2>3. TypeOK'
    BY <2>1, <2>2 DEF TypeOK
  <2> QED
    BY <2>1, <2>3 DEF TypeOK, PlaceInv
<1>4. CASE ClassifyPresent
  <2>1. /\ UNCHANGED <<disk, files, dirs, others, unread, result>> /\ cur \in Tasks
        /\ \/ cur' = cur + 1 /\ stage' = "classify"
              /\ \E c \in Categories : found' = [found EXCEPT ![cur] = c]
           \/ cur' = cur /\ stage' = "hash" /\ found' = found /\ cur \in md5 /\ options.md5
        /\ extra' \subseteq AllPaths
    BY <1>4
    DEF ClassifyPresent, Present, Classifying, Classify, Categories, walkVars, TypeOK
  <2>2. found' \in [Tasks -> Categories \cup {"none"}] /\ cur' \in 1..(Len(list) + 1)
    BY <2>1 DEF TypeOK
  <2>3. TypeOK'
    BY <2>1, <2>2 DEF TypeOK
  <2> QED
    BY <2>1, <2>3 DEF TypeOK, PlaceInv
<1>5. CASE HashEnds
  <2>1. /\ UNCHANGED <<disk, files, dirs, others, unread, extra, result>> /\ cur \in Tasks
        /\ stage' = "classify" /\ cur' = cur + 1
        /\ \E c \in Categories : found' = [found EXCEPT ![cur] = c]
    BY <1>5 DEF HashEnds, Classify, Hashed, Categories, walkVars, PlaceInv
  <2>2. found' \in [Tasks -> Categories \cup {"none"}] /\ cur' \in 1..(Len(list) + 1)
    BY <2>1 DEF TypeOK
  <2>3. TypeOK'
    BY <2>1, <2>2 DEF TypeOK
  <2> QED
    BY <2>1, <2>3 DEF TypeOK, PlaceInv
<1>6. CASE HashInterrupted
  BY <1>6 DEF HashInterrupted, TypeOK, PlaceInv, walkVars, reportVars
<1>7. CASE ClassifyExtras
  <2>1. Unexplained \subseteq AllPaths /\ EmptyDirs \subseteq AllPaths
    BY DEF Unexplained, EmptyDirs, TypeOK
  <2> QED
    BY <1>7, <2>1 DEF ClassifyExtras, TypeOK, PlaceInv, walkVars
<1>8. CASE Stop
  BY <1>8 DEF Stop, TypeOK, PlaceInv, walkVars, reportVars
<1>9. ASSUME NEW i \in Tasks, OtherStep(i) PROVE TypeOK' /\ PlaceInv'
  <2>1. \E p \in AllPaths, kind \in Kinds : Disturb(p, kind)
    BY <1>9
    DEF OtherStep, OtherRemoves, OtherInstalls, OtherDownloads, Kinds, RegularFiles
  <2>2. disk' \in [AllPaths -> Kinds] /\ UNCHANGED <<stage, walkVars, cur, reportVars, result>>
    BY <2>1 DEF Disturb, TypeOK
  <2> QED
    BY <2>2 DEF TypeOK, PlaceInv, walkVars, reportVars
<1>10. CASE UNCHANGED vars
  BY <1>10 DEF vars, TypeOK, PlaceInv, walkVars, reportVars
<1> QED
  BY <1>1, <1>2, <1>3, <1>4, <1>5, <1>6, <1>7, <1>8, <1>9, <1>10
  DEF Next, CheckStep, OtherStep

LEMMA ShapeInvariance == Spec => [](TypeOK /\ PlaceInv)
<1> QED
  BY InitShape, ShapeStep, PTL DEF Spec

-----------------------------------------------------------------------------
(* A file reported as ok, while another ia-get works in the directory *)

\* Different files lie at different paths, and no .part at one of them.
LEMMA FilesApart ==
    ASSUME TypeOK, PartsApart(list), NEW i \in Tasks, NEW j \in Tasks
    PROVE  /\ i # j => FilePath(i) # FilePath(j)
           /\ PartPath(i) # FilePath(j)
           /\ i # j => PartPath(i) # PartPath(j)
<1>1. Compatible(list)
  BY ListFacts, CompatibleParts
<1> QED
  BY <1>1, PathsApart DEF FilePath, PartPath, Tasks

\* Only a file the downloader would keep is classified as ok.
LEMMA ClassifiedOk ==
    ASSUME TypeOK, PlaceInv, CheckStep, options.md5,
           NEW i \in Tasks, found'[i] = "ok", found[i] # "ok"
    PROVE  Keeps(i, disk[FilePath(i)]) /\ disk' = disk
<1>1. disk' = disk
  BY DEF CheckStep, WalkEntry, WalkEnds, ClassifyAbsent, ClassifyVanished,
         ClassifyPresent, HashEnds, HashInterrupted, ClassifyExtras, Unmoved
<1>2. CASE ClassifyPresent
  <2>1. found \in [Tasks -> Categories \cup {"none"}]
    BY DEF TypeOK
  <2>2. i = cur /\ disk[FilePath(cur)] \in RegularFiles /\ cur \notin md5
        /\ ~(cur \in sized /\ disk[FilePath(cur)] = "short")
    BY <1>2, <2>1 DEF ClassifyPresent, Classify, Present, Classifying
  <2> QED
    BY <1>1, <2>2 DEF Keeps
<1>3. CASE HashEnds
  <2>1. found \in [Tasks -> Categories \cup {"none"}]
    BY DEF TypeOK
  <2>2. i = cur /\ disk[FilePath(cur)] = "good"
    BY <1>3, <2>1 DEF HashEnds, Classify, Hashed
  <2> QED
    BY <1>1, <2>2 DEF Keeps, RegularFiles
<1>4. CASE ~ClassifyPresent /\ ~HashEnds
  <2>1. found \in [Tasks -> Categories \cup {"none"}]
    BY DEF TypeOK
  <2>2. \/ found' = found
        \/ \E c \in {"type", "incomplete", "missing", "read"} : found' = [found EXCEPT ![cur] = c]
    BY <1>4
    DEF CheckStep, WalkEntry, WalkEnds, ClassifyAbsent, ClassifyVanished, Classify,
        HashInterrupted, ClassifyExtras, reportVars
  <2> QED
    BY <2>1, <2>2
<1> QED
  BY <1>2, <1>3, <1>4

\* The other ia-get leaves alone what the downloader would keep.
LEMMA KeptUndisturbed ==
    ASSUME TypeOK, PartsApart(list), NEW j \in Tasks, OtherStep(j),
           NEW i \in Tasks, Keeps(i, disk[FilePath(i)])
    PROVE  disk'[FilePath(i)] = disk[FilePath(i)]
<1>1. /\ disk \in [AllPaths -> Kinds] /\ FilePath(i) \in AllPaths
  BY DEF TypeOK, AllPaths, Expected
<1>2. CASE OtherRemoves(j) \/ OtherInstalls(j)
  <2>1. i # j
    BY <1>2 DEF OtherRemoves, OtherInstalls, Keeps, RegularFiles
  <2>2. \E kind : disk' = [disk EXCEPT ![FilePath(j)] = kind]
    BY <1>2 DEF OtherRemoves, OtherInstalls, Disturb
  <2> QED
    BY <1>1, <2>1, <2>2, FilesApart
<1>3. CASE OtherDownloads(j)
  <2>1. \E kind : disk' = [disk EXCEPT ![PartPath(j)] = kind]
    BY <1>3 DEF OtherDownloads, Disturb
  <2> QED
    BY <1>1, <2>1, FilesApart
<1> QED
  BY <1>2, <1>3 DEF OtherStep

\* With --md5 a file reported as ok is one the downloader keeps, at the time of
\* the report and ever after, whatever another ia-get does meanwhile, if no
\* .part meets another path.
THEOREM OkKept == Spec /\ PartsApart(list) => []OkIsKept
<1> DEFINE Inv == TypeOK /\ PlaceInv /\ PartsApart(list) /\ OkIsKept
<1>1. Init /\ PartsApart(list) => Inv
  BY InitShape DEF Init, OkIsKept
<1>2. Inv /\ [Next]_vars => Inv'
  <2> SUFFICES ASSUME Inv, [Next]_vars PROVE PartsApart(list)' /\ OkIsKept'
    BY ShapeStep
  <2>1. /\ list' = list /\ options' = options /\ sized' = sized /\ md5' = md5
        /\ Tasks' = Tasks /\ \A i : FilePath(i)' = FilePath(i)
    BY FixedForever, PathsFixed DEF fixedVars
  <2>2. SUFFICES ASSUME options.md5, NEW i \in Tasks, found'[i] = "ok"
                 PROVE  Keeps(i, disk'[FilePath(i)])
    BY <2>1 DEF OkIsKept, Keeps
  <2>3. CASE CheckStep
    <3>1. disk' = disk
      BY <2>3
      DEF CheckStep, WalkEntry, WalkEnds, ClassifyAbsent, ClassifyVanished,
          ClassifyPresent, HashEnds, HashInterrupted, ClassifyExtras, Unmoved
    <3> QED
      BY <2>2, <2>3, <3>1, ClassifiedOk DEF OkIsKept
  <2>4. ASSUME NEW j \in Tasks, OtherStep(j) PROVE Keeps(i, disk'[FilePath(i)])
    <3>1. found' = found
      BY <2>4 DEF OtherStep, OtherRemoves, OtherInstalls, OtherDownloads, Disturb, reportVars
    <3>2. Keeps(i, disk[FilePath(i)])
      BY <2>2, <3>1 DEF OkIsKept
    <3> QED
      BY <2>4, <3>2, KeptUndisturbed
  <2>5. CASE Stop \/ UNCHANGED vars
    BY <2>2, <2>5 DEF Stop, vars, reportVars, OkIsKept
  <2> QED
    BY <2>3, <2>4, <2>5 DEF Next, OtherStep
<1>3. Inv => OkIsKept
  OBVIOUS
<1> QED
  BY <1>1, <1>2, <1>3, PTL DEF Spec

-----------------------------------------------------------------------------
(* The report of a directory nobody changes *)

\* The document and the stray directory are at no planned path, and no planned
\* file needs the stray directory.
LEMMA OthersAreUnplanned ==
    ASSUME TypeOK
    PROVE  /\ XmlPath \notin Expected /\ StrayDir \notin Expected
           /\ \A p \in Expected : StrayDir \notin Ancestors(p)
           /\ StrayDir \notin Ancestors(XmlPath)
           /\ XmlPath \notin Parts
<1>1. XmlPath \in Paths /\ StrayDir \in Paths
  BY XmlAssumption, StrayAssumption, AncestorFacts
<1>2. ASSUME NEW i \in Tasks
      PROVE  /\ FilePath(i) # XmlPath /\ FilePath(i) # StrayDir
             /\ StrayDir \notin Ancestors(FilePath(i))
             /\ PartPath(i) # XmlPath
  <2>1. list[i] \in Paths /\ ~Clash(list[i], XmlPath) /\ ~Clash(list[i], StrayDir)
    BY ListFacts, CompatibleParts DEF Tasks
  <2>2. Len(list[i]) \in Nat \ {0}
    BY <2>1, PathFacts
  <2>3. PartPath(i) # XmlPath
    <3>1. /\ PartOf(list[i]) \in Paths /\ Len(PartOf(list[i])) = Len(list[i])
          /\ PartOf(list[i])[Len(list[i])].parts = list[i][Len(list[i])].parts + 1
      BY <2>1, PartOfIsPath
    <3>2. list[i][Len(list[i])].parts \in Nat
      <4>1. list[i][Len(list[i])] \in Components
        BY <2>1, <2>2, PathFacts
      <4> QED
        BY <4>1 DEF Components
    <3>3. /\ Len(PartPath(i)) = Len(list[i])
          /\ PartPath(i)[Len(list[i])].parts = list[i][Len(list[i])].parts + 1
      BY <2>2, <3>1, KeyIsPath DEF PartPath
    <3>4. ASSUME PartPath(i) = XmlPath PROVE FALSE
      <4>1. Len(list[i]) = 1
        BY <3>3, <3>4, XmlAssumption
      <4>2. XmlPath[1].parts = list[i][1].parts + 1 /\ list[i][1].parts \in Nat
        BY <3>2, <3>3, <3>4, <4>1
      <4> QED
        BY <4>2, XmlAssumption
    <3> QED
      BY <3>4
  <2> QED
    BY <1>1, <2>1, <2>3, NoClashWithKey DEF FilePath
<1>3. Ancestors(XmlPath) = {}
  BY XmlAssumption DEF Ancestors
<1> QED
  BY <1>2, <1>3 DEF Expected, Parts

\* What the walk has seen is what is there.
WalkInv ==
    /\ \A p \in AllPaths : disk[p] \in MayHold(p)
    /\ \A p \in AllPaths \ unread : /\ p \in files <=> disk[p] \in RegularFiles
                                    /\ p \in dirs <=> disk[p] = "directory"
                                    /\ p \in others <=> disk[p] = "link"
    /\ \A p \in unread : p \notin files \cup dirs \cup others
    /\ stage # "walk" => unread = {}
    /\ stage # "walk" => (xmlMissing <=> options.whole /\ XmlPath \notin files)
    /\ stage = "walk" => cur = 1

\* Of the files classified so far, ok are those the downloader would keep; the
\* extras so far are their .part files.
ClassInv ==
    /\ \A i \in Tasks : i < cur => (found[i] = "ok" <=> Keeps(i, disk[FilePath(i)]))
    /\ stage = "hash" => /\ disk[FilePath(cur)] \in RegularFiles
                         /\ cur \in sized => disk[FilePath(cur)] # "short"
    /\ stage # "done" => extra \subseteq Parts \cap files
    /\ \A i \in Tasks :
         /\ i < cur \/ (stage = "hash" /\ i = cur)
         /\ disk[FilePath(i)] \in RegularFiles
         /\ PartPath(i) \in files
         => PartPath(i) \in extra

\* The report at the end.
EndInv ==
    /\ stage # "done" => result = "none"
    /\ CleanIsComplete
    /\ PartsApart(list) => StrictCleanIsExact

ReportInv == ~disturbed /\ options.md5 => WalkInv /\ ClassInv /\ EndInv

CheckInv == TypeOK /\ PlaceInv /\ ReportInv

LEMMA ReportInit == Init => ReportInv
<1> SUFFICES ASSUME Init PROVE WalkInv /\ ClassInv /\ EndInv
  BY DEF ReportInv
<1>1. \A i \in Tasks : i \in Nat /\ ~(i < 1)
  BY ListsAssumption DEF Init, Tasks
<1> QED
  BY <1>1 DEF Init, WalkInv, ClassInv, EndInv, CleanIsComplete, StrictCleanIsExact

\* Nobody else moves: the disk stays as it is.
LEMMA UndisturbedStep ==
    ASSUME TypeOK, ~disturbed, [Next]_vars
    PROVE  /\ UNCHANGED <<fixedVars, disk>> /\ list' = list /\ options' = options
           /\ sized' = sized /\ md5' = md5
           /\ Tasks' = Tasks /\ AllPaths' = AllPaths /\ Expected' = Expected /\ Parts' = Parts
           /\ \A i : FilePath(i)' = FilePath(i) /\ PartPath(i)' = PartPath(i)
           /\ \A p : MayHold(p)' = MayHold(p)
           /\ CheckStep \/ (UNCHANGED <<stage, walkVars, cur, reportVars, result>>)
<1>1. UNCHANGED fixedVars
  BY FixedForever
<1>2. disk' = disk
  BY DEF Next, CheckStep, WalkEntry, WalkEnds, ClassifyAbsent, ClassifyVanished,
         ClassifyPresent, HashEnds, HashInterrupted, ClassifyExtras, Unmoved, Stop,
         OtherRemoves, OtherInstalls, OtherDownloads, Disturb, vars
<1>3. \A p : MayHold(p)' = MayHold(p)
  BY <1>1 DEF MayHold, Expected, FilePath, Tasks, fixedVars
<1>4. CheckStep \/ (UNCHANGED <<stage, walkVars, cur, reportVars, result>>)
  BY DEF Next, Stop, OtherRemoves, OtherInstalls, OtherDownloads, Disturb, vars
<1> QED
  BY <1>1, <1>2, <1>3, <1>4, PathsFixed DEF fixedVars

\* At the end, the files found ok and the document are all there is to ask for.
LEMMA FoundAllIsComplete ==
    ASSUME TypeOK, WalkInv, ClassInv, stage # "walk", cur = Len(list) + 1
    PROVE  ~xmlMissing /\ (\A i \in Tasks : found[i] = "ok") <=> Complete
<1>1. \A i \in Tasks : found[i] = "ok" <=> Keeps(i, disk[FilePath(i)])
  BY ListFacts DEF ClassInv
<1>2. XmlPath \in files <=> disk[XmlPath] = "short"
  <2>1. XmlPath \in AllPaths /\ XmlPath \notin Expected
    BY OthersAreUnplanned DEF AllPaths
  <2>2. disk[XmlPath] \in {"none", "short", "link", "directory"}
    BY <2>1 DEF WalkInv, MayHold
  <2> QED
    BY <2>1, <2>2 DEF WalkInv, RegularFiles
<1> QED
  BY <1>1, <1>2 DEF Complete, WalkInv

\* Of a directory with all files and the document, the extras are empty exactly
\* when nothing else is there.
LEMMA NoExtrasIsExact ==
    ASSUME TypeOK, WalkInv, ClassInv, PartsApart(list), stage = "classify",
           cur = Len(list) + 1, Complete
    PROVE  extra \cup Unexplained \cup EmptyDirs = {} <=> Exact
<1>1. \A i \in Tasks : disk[FilePath(i)] \in RegularFiles
  BY DEF Complete, Keeps
<1>2. ASSUME NEW i \in Tasks, PartPath(i) \in files PROVE PartPath(i) \in extra
  BY <1>1, <1>2, ListFacts DEF ClassInv
<1>3. \A p \in AllPaths : /\ p \in files <=> disk[p] \in RegularFiles
                          /\ p \in dirs <=> disk[p] = "directory"
                          /\ p \in others <=> disk[p] = "link"
                          /\ disk[p] \in MayHold(p)
  BY DEF WalkInv
<1>4. files \subseteq AllPaths /\ dirs \subseteq AllPaths /\ others \subseteq AllPaths
  BY DEF TypeOK
<1>5. Parts \cap Expected = {}
  BY FilesApart DEF Parts, Expected
<1>6. ASSUME extra \cup Unexplained \cup EmptyDirs = {},
             NEW p \in AllPaths, disk[p] # "none", p \notin Expected,
             ~(options.whole /\ p = XmlPath)
      PROVE  FALSE
  <2>1. \A q \in files : q \in Expected \/ (options.whole /\ q = XmlPath)
    <3>1. \A q \in files : q \notin Parts
      BY <1>2, <1>6 DEF Parts
    <3> QED
      BY <1>6, <3>1 DEF Unexplained
  <2>2. CASE disk[p] \in RegularFiles
    BY <1>3, <1>6, <2>1, <2>2
  <2>3. CASE disk[p] = "link"
    BY <1>3, <1>6, <2>3 DEF Unexplained
  <2>4. CASE disk[p] = "directory"
    <3>1. p = StrayDir /\ p \in dirs
      BY <1>3, <1>6, <2>4 DEF MayHold
    <3>2. \A q \in files \cup Expected : p \notin Ancestors(q)
      BY <2>1, <3>1, OthersAreUnplanned
    <3> QED
      BY <1>6, <3>1, <3>2 DEF EmptyDirs
  <2>5. disk[p] \in Kinds
    BY DEF TypeOK
  <2> QED
    BY <1>6, <2>2, <2>3, <2>4, <2>5 DEF Kinds
<1>7. ASSUME Exact, NEW p \in extra \cup Unexplained \cup EmptyDirs PROVE FALSE
  <2>1. extra \subseteq Parts \cap files
    BY DEF ClassInv
  <2>2. \A q \in files \cup dirs \cup others : q \in Expected \/ (options.whole /\ q = XmlPath)
    BY <1>3, <1>4, <1>7 DEF Exact, RegularFiles
  <2>3. p \notin extra
    BY <1>5, <2>1, <2>2, OthersAreUnplanned
  <2>4. \A q \in others \cup dirs : ~(options.whole /\ q = XmlPath)
    BY <1>3, <1>4 DEF Complete
  <2>5. p \notin Unexplained
    BY <2>2, <2>4 DEF Unexplained
  <2>6. \A q \in dirs : q \notin Expected
    BY <1>1, <1>3, <1>4 DEF Expected, RegularFiles
  <2>7. p \notin EmptyDirs
    BY <2>2, <2>4, <2>6 DEF EmptyDirs
  <2> QED
    BY <1>7, <2>3, <2>5, <2>7
<1>8. Exact <=> \A p \in AllPaths : disk[p] # "none" =>
                  p \in Expected \/ (options.whole /\ p = XmlPath)
  BY DEF Exact
<1> QED
  BY <1>6, <1>7, <1>8

LEMMA ReportStep == CheckInv /\ [Next]_vars => ReportInv'
<1> SUFFICES ASSUME CheckInv, [Next]_vars, ~disturbed, options.md5
             PROVE  WalkInv' /\ ClassInv' /\ EndInv'
  BY FixedForever DEF ReportInv, fixedVars
<1>0. TypeOK /\ PlaceInv /\ WalkInv /\ ClassInv /\ EndInv
  BY DEF CheckInv, ReportInv
<1>1. /\ UNCHANGED <<fixedVars, disk>> /\ list' = list /\ options' = options
      /\ sized' = sized /\ md5' = md5 /\ disk' = disk
      /\ Tasks' = Tasks /\ AllPaths' = AllPaths /\ Expected' = Expected /\ Parts' = Parts
      /\ \A i : FilePath(i)' = FilePath(i) /\ PartPath(i)' = PartPath(i)
      /\ \A p : MayHold(p)' = MayHold(p)
      /\ CheckStep \/ (UNCHANGED <<stage, walkVars, cur, reportVars, result>>)
  BY <1>0, UndisturbedStep
<1>2. /\ found \in [Tasks -> Categories \cup {"none"}] /\ cur \in Nat
      /\ Tasks = 1..Len(list) /\ Len(list) \in Nat
      /\ \A i \in Tasks : FilePath(i) \in AllPaths /\ PartPath(i) \in AllPaths
      /\ \A i \in Tasks : i \in Nat
  BY <1>0, ListFacts DEF TypeOK, AllPaths, Expected, Parts
<1> USE <1>1, <1>2
<1>a. ASSUME stage' # "done", result' = result, stage # "done" PROVE EndInv'
  BY <1>0, <1>a DEF EndInv, CleanIsComplete, StrictCleanIsExact
<1>3. CASE WalkEntry
  <2>1. PICK p \in unread : /\ unread' = unread \ {p}
                            /\ files'  = IF disk[p] \in RegularFiles THEN files \cup {p} ELSE files
                            /\ dirs'   = IF disk[p] = "directory" THEN dirs \cup {p} ELSE dirs
                            /\ others' = IF disk[p] = "link" THEN others \cup {p} ELSE others
    BY <1>3 DEF WalkEntry
  <2>2. stage = "walk" /\ UNCHANGED <<stage, cur, found, extra, xmlMissing, result>>
    BY <1>3 DEF WalkEntry, reportVars
  <2>3. WalkInv'
    BY <1>0, <2>1, <2>2 DEF WalkInv
  <2>4. ClassInv'
    BY <1>0, <2>1, <2>2 DEF ClassInv, WalkInv
  <2> QED
    BY <1>a, <2>2, <2>3, <2>4
<1>4. CASE WalkEnds
  <2>1. WalkInv'
    BY <1>0, <1>4 DEF WalkEnds, WalkInv, walkVars
  <2>2. ClassInv'
    BY <1>0, <1>4 DEF WalkEnds, ClassInv, Keeps, walkVars
  <2> QED
    BY <1>4, <1>a, <2>1, <2>2 DEF WalkEnds
<1>5. CASE ClassifyAbsent \/ ClassifyVanished
  <2>1. /\ UNCHANGED <<unread, files, dirs, others, stage, extra, xmlMissing, result>>
        /\ stage = "classify" /\ cur \in Tasks /\ cur' = cur + 1
        /\ disk[FilePath(cur)] \notin RegularFiles
        /\ \E c \in Categories \ {"ok"} : found' = [found EXCEPT ![cur] = c]
    <3>1. /\ FilePath(cur) \in dirs => disk[FilePath(cur)] \notin RegularFiles
          /\ FilePath(cur) \notin files => disk[FilePath(cur)] \notin RegularFiles
          /\ disk[FilePath(cur)] = "none" => disk[FilePath(cur)] \notin RegularFiles
      BY <1>0, <1>5
      DEF WalkInv, RegularFiles, ClassifyAbsent, ClassifyVanished, Present, Classifying
    <3> QED
      BY <1>5, <3>1
      DEF ClassifyAbsent, ClassifyVanished, Present, Classifying, Classify, Unmoved,
          Categories, walkVars
  <2>2. WalkInv'
    BY <1>0, <2>1 DEF WalkInv
  <2>3. ClassInv'
    BY <1>0, <2>1 DEF ClassInv, Keeps
  <2> QED
    BY <1>a, <2>1, <2>2, <2>3
<1>6. CASE ClassifyPresent
  <2>1. /\ UNCHANGED <<unread, files, dirs, others, xmlMissing, result>>
        /\ stage = "classify" /\ cur \in Tasks /\ disk[FilePath(cur)] \in RegularFiles
        /\ extra' = IF PartPath(cur) \in files THEN extra \cup {PartPath(cur)} ELSE extra
    BY <1>6 DEF ClassifyPresent, Present, Classifying, walkVars
  <2>2. \/ /\ stage' = "classify" /\ cur' = cur + 1 /\ found' = [found EXCEPT ![cur] = "size"]
           /\ cur \in sized /\ disk[FilePath(cur)] = "short"
        \/ /\ stage' = "hash" /\ cur' = cur /\ found' = found
           /\ cur \in sized => disk[FilePath(cur)] # "short"
        \/ /\ stage' = "classify" /\ cur' = cur + 1 /\ found' = [found EXCEPT ![cur] = "ok"]
           /\ cur \in sized => disk[FilePath(cur)] # "short"
           /\ cur \notin md5
    BY <1>6 DEF ClassifyPresent, Classify, Present, Classifying
  <2>3. WalkInv'
    BY <1>0, <2>1, <2>2 DEF WalkInv
  <2>4. \A i \in Tasks : i < cur' => (found'[i] = "ok" <=> Keeps(i, disk[FilePath(i)]))
    BY <1>0, <2>1, <2>2 DEF ClassInv, Keeps
  <2>5. PartPath(cur) \in Parts
    BY <2>1 DEF Parts
  <2>6. extra' \subseteq Parts \cap files
    BY <1>0, <2>1, <2>5 DEF ClassInv
  <2>7. \A i \in Tasks : /\ i < cur' \/ (stage' = "hash" /\ i = cur')
                         /\ disk[FilePath(i)] \in RegularFiles
                         /\ PartPath(i) \in files
                         => PartPath(i) \in extra'
    BY <1>0, <2>1, <2>2 DEF ClassInv
  <2>8. ClassInv'
    BY <2>1, <2>2, <2>4, <2>6, <2>7 DEF ClassInv, Keeps
  <2> QED
    BY <1>a, <2>1, <2>2, <2>3, <2>8
<1>7. CASE HashEnds
  <2>1. /\ UNCHANGED <<unread, files, dirs, others, extra, xmlMissing, result>>
        /\ stage = "hash" /\ stage' = "classify" /\ cur \in Tasks /\ cur' = cur + 1
        /\ cur \in md5 /\ found' = [found EXCEPT ![cur] = Hashed(disk[FilePath(cur)])]
    BY <1>0, <1>7 DEF HashEnds, Classify, PlaceInv, walkVars
  <2>2. Hashed(disk[FilePath(cur)]) = "ok" <=> Keeps(cur, disk[FilePath(cur)])
    BY <1>0, <2>1 DEF Hashed, Keeps, RegularFiles
  <2>3. WalkInv'
    BY <1>0, <2>1 DEF WalkInv
  <2>4. \A i \in Tasks : i < cur' => (found'[i] = "ok" <=> Keeps(i, disk[FilePath(i)]))
    BY <1>0, <2>1, <2>2 DEF ClassInv
  <2>5. ClassInv'
    BY <1>0, <2>1, <2>4 DEF ClassInv, Keeps
  <2> QED
    BY <1>a, <2>1, <2>3, <2>5
<1>8. CASE HashInterrupted
  <2>1. /\ UNCHANGED <<unread, files, dirs, others, extra, xmlMissing, found, cur>>
        /\ stage = "hash" /\ stage' = "done" /\ result' = "interrupted"
    BY <1>8 DEF HashInterrupted, walkVars, reportVars
  <2>2. WalkInv'
    BY <1>0, <2>1 DEF WalkInv
  <2>3. ClassInv'
    BY <1>0, <2>1 DEF ClassInv, Keeps
  <2>4. EndInv'
    BY <2>1 DEF EndInv, CleanIsComplete, StrictCleanIsExact
  <2> QED
    BY <2>2, <2>3, <2>4
<1>9. CASE ClassifyExtras
  <2>1. /\ UNCHANGED <<unread, files, dirs, others, xmlMissing, found, cur>>
        /\ stage = "classify" /\ stage' = "done" /\ cur = Len(list) + 1
        /\ extra' = extra \cup Unexplained \cup EmptyDirs
        /\ result' = IF Failing(extra') THEN "problems" ELSE "clean"
    BY <1>9 DEF ClassifyExtras, walkVars
  <2>2. WalkInv'
    BY <1>0, <2>1 DEF WalkInv
  <2>3. ClassInv'
    BY <1>0, <2>1 DEF ClassInv, Keeps
  <2>4. /\ Complete' <=> Complete
        /\ Exact' <=> Exact
        /\ PartsApart(list)' <=> PartsApart(list)
    BY DEF Complete, Exact, Keeps
  <2>5. ~xmlMissing /\ (\A i \in Tasks : found[i] = "ok") <=> Complete
    BY <1>0, <2>1, FoundAllIsComplete
  <2>6. Failing(extra') <=> ~Complete \/ (options.strict /\ extra' # {})
    BY <2>5 DEF Failing
  <2>7. CleanIsComplete'
    BY <2>1, <2>4, <2>6 DEF CleanIsComplete
  <2>8. PartsApart(list) => StrictCleanIsExact'
    <3>1. PartsApart(list) /\ Complete => (extra' = {} <=> Exact)
      BY <1>0, <2>1, NoExtrasIsExact
    <3>2. Exact => Complete
      BY DEF Exact
    <3> QED
      BY <2>1, <2>4, <2>6, <3>1, <3>2 DEF StrictCleanIsExact
  <2> QED
    BY <2>1, <2>2, <2>3, <2>4, <2>7, <2>8 DEF EndInv
<1>10. CASE UNCHANGED <<stage, walkVars, cur, reportVars, result>>
  <2>1. UNCHANGED <<stage, unread, files, dirs, others, extra, xmlMissing, found, cur, result>>
    BY <1>10 DEF walkVars, reportVars
  <2>2. WalkInv'
    BY <1>0, <2>1 DEF WalkInv
  <2>3. ClassInv'
    BY <1>0, <2>1 DEF ClassInv, Keeps
  <2>4. EndInv'
    BY <1>0, <2>1 DEF EndInv, CleanIsComplete, StrictCleanIsExact, Complete, Exact, Keeps
  <2> QED
    BY <2>2, <2>3, <2>4
<1> QED
  BY <1>3, <1>4, <1>5, <1>6, <1>7, <1>8, <1>9, <1>10 DEF CheckStep

LEMMA CheckInvariance == Spec => []CheckInv
<1>1. Init => CheckInv
  BY InitShape, ReportInit DEF CheckInv
<1>2. CheckInv /\ [Next]_vars => CheckInv'
  BY ShapeStep, ReportStep DEF CheckInv
<1> QED
  BY <1>1, <1>2, PTL DEF Spec

-----------------------------------------------------------------------------

\* Every variable of the check keeps its type.
THEOREM CheckTypeCorrect == Spec => []TypeOK
<1> QED
  BY ShapeInvariance, PTL

\* Of a directory nobody changes, --check --md5 says clean exactly when a
\* download would keep every file and the metadata document is there.
THEOREM CleanMeansComplete == Spec => []CleanIsComplete
<1>1. CheckInv => CleanIsComplete
  BY DEF CheckInv, ReportInv, EndInv, CleanIsComplete
<1> QED
  BY <1>1, CheckInvariance, PTL

\* With --strict, exactly when besides that nothing else is there, if no .part
\* meets another path.
THEOREM StrictCleanMeansExact == Spec /\ PartsApart(list) => []StrictCleanIsExact
<1> DEFINE Inv == CheckInv /\ PartsApart(list)
<1>1. Init /\ PartsApart(list) => Inv
  BY InitShape, ReportInit DEF CheckInv
<1>2. Inv /\ [Next]_vars => Inv'
  BY ShapeStep, ReportStep, FixedForever DEF CheckInv, fixedVars
<1>3. Inv => StrictCleanIsExact
  BY DEF CheckInv, ReportInv, EndInv, StrictCleanIsExact
<1> QED
  BY <1>1, <1>2, <1>3, PTL DEF Spec
-----------------------------------------------------------------------------
(* Mtime *)

\* The time is an integer of the volume's; after a run that set it, it is the
\* published one, or that as the volume keeps it.
TimeInv ==
    /\ expected \in Nat \cup {NoDate} /\ server \in Int \cup {NoDate}
    /\ mtime \in Int \cup {NoDate} /\ resolution \in Nat \ {0}
    /\ origins \subseteq Int
    /\ mtime = NoDate <=> last = "nothing"
    /\ last = "kept" /\ ~warned /\ Date!FromXml # NoDate =>
          mtime \in {expected, Date!Rounded(expected)}

FindingInv ==
    /\ finding \in {"unknown", "fine", "date"}
    /\ finding # "unknown" => mtime # NoDate
    /\ finding = "fine" /\ expected # NoDate /\ mtime >= 0 => mtime = expected
    /\ finding = "date" => expected # NoDate /\ mtime # expected

DateInv == TimeInv /\ FindingInv /\ Date!NothingIsMadeUp

LEMMA DateConstants ==
    /\ Times \subseteq Int /\ Top \in Nat /\ NoDate \notin Int
    /\ Resolutions \subseteq Nat \ {0}
BY PartsAssumption DEF Date!InputsAssumption

LEMMA RoundedIsInt ==
    ASSUME TimeInv, NEW t \in Int
    PROVE  Date!Rounded(t) \in Int
<1>1. resolution \in Nat \ {0}
  BY DEF TimeInv
<1>2. t % resolution \in Int
  BY <1>1
<1> QED
  BY <1>2 DEF Date!Rounded

LEMMA DateInit == Date!Init => DateInv
<1> SUFFICES ASSUME Date!Init PROVE DateInv
  OBVIOUS
<1>1. expected \in Nat \cup {NoDate} /\ server \in Int \cup {NoDate}
  BY DateConstants DEF Date!Init
<1>2. resolution \in Nat \ {0}
  BY DateConstants DEF Date!Init
<1> QED
  BY <1>1, <1>2 DEF Date!Init, DateInv, TimeInv, FindingInv, Date!NothingIsMadeUp

\* What sync_file_mtime leaves: the time it found, or that of its target.
LEMMA SyncedGives ==
    ASSUME TimeInv, NEW current \in Int, NEW target \in Int \cup {NoDate},
           Date!Synced(current, target)
    PROVE  /\ warned' \in BOOLEAN
           /\ \/ mtime' = current
              \/ target # NoDate /\ mtime' = Date!Rounded(target)
           /\ target \in Nat /\ ~warned' =>
                 \/ mtime' = Date!Rounded(target)
                 \/ mtime' = current /\ current = target
           /\ mtime' \in Int
<1>1. target \in Int => Date!Rounded(target) \in Int
  BY RoundedIsInt
<1>2. CASE target = NoDate
  <2>1. mtime' = current /\ warned' = FALSE
    BY <1>2 DEF Date!Synced
  <2> QED
    BY <1>2, <2>1, DateConstants
<1>3. CASE target # NoDate
  <2>1. Date!Sets(current, target) /\ target \in Int
    BY <1>3 DEF Date!Synced
  <2>2. CASE Date!AsSeconds(target) = NoDate \/ Date!AsSeconds(target) = Date!AsSeconds(current)
    <3>1. mtime' = current /\ warned' = FALSE
      BY <2>1, <2>2 DEF Date!Sets
    <3>2. target \in Nat => current = target
      BY <2>1, <2>2, DateConstants DEF Date!AsSeconds
    <3> QED
      BY <3>1, <3>2
  <2>3. CASE ~(Date!AsSeconds(target) = NoDate \/ Date!AsSeconds(target) = Date!AsSeconds(current))
    <3>1. \/ mtime' = Date!Rounded(target) /\ warned' = FALSE
          \/ mtime' = current /\ warned' = TRUE
      BY <2>1, <2>3 DEF Date!Sets
    <3> QED
      BY <1>1, <1>3, <2>1, <3>1
  <2> QED
    BY <2>2, <2>3
<1> QED
  BY <1>2, <1>3

LEMMA FromXmlIs == TimeInv => Date!FromXml \in {expected, NoDate} /\ Date!FromXml \in Nat \cup {NoDate}
<1> QED
  BY DEF TimeInv, Date!FromXml

LEMMA DateStep == DateInv /\ Date!Next => DateInv' /\ Date!Settled
<1> SUFFICES ASSUME DateInv, Date!Next PROVE DateInv' /\ Date!Settled
  OBVIOUS
<1>0. TimeInv
  BY DEF DateInv
<1>1. CASE Date!Install
  <2>1. PICK written \in Times :
           /\ Date!Synced(Date!Rounded(written),
                          IF server # NoDate THEN server ELSE Date!FromXml)
           /\ origins' = {written}
    BY <1>1 DEF Date!Install
  <2> DEFINE target == IF server # NoDate THEN server ELSE Date!FromXml
  <2>2. /\ last' = "installed" /\ finding' = "unknown"
        /\ UNCHANGED <<expected, server, resolution>>
    BY <1>1 DEF Date!Install
  <2>3. target \in Int \cup {NoDate} /\ written \in Int
    BY <1>0, FromXmlIs, DateConstants DEF TimeInv
  <2>4. Date!Rounded(written) \in Int
    BY <1>0, <2>3, RoundedIsInt
  <2>5. /\ mtime' \in Int
        /\ \/ mtime' = Date!Rounded(written)
           \/ target # NoDate /\ mtime' = Date!Rounded(target)
    BY <1>0, <2>1, <2>3, <2>4, SyncedGives
  <2>6. TimeInv'
    BY <1>0, <2>1, <2>2, <2>3, <2>5, DateConstants DEF TimeInv
  <2>7. \A t : Date!Rounded(t)' = Date!Rounded(t)
    BY <2>2 DEF Date!Rounded
  <2>8. Date!NothingIsMadeUp'
    <3>1. Date!FromXml' = Date!FromXml
      BY <2>2 DEF Date!FromXml
    <3>2. \E time \in origins' \cup ({server, Date!FromXml} \ {NoDate}) :
             mtime' = Date!Rounded(time)
      BY <2>1, <2>5
    <3> QED
      BY <2>2, <2>7, <3>1, <3>2 DEF Date!NothingIsMadeUp
  <2> QED
    BY <2>2, <2>6, <2>8 DEF DateInv, FindingInv, Date!Settled
<1>2. CASE Date!Keep
  <2>1. /\ mtime # NoDate /\ Date!Synced(mtime, Date!FromXml)
        /\ last' = "kept" /\ finding' = "unknown"
        /\ UNCHANGED <<expected, server, resolution, origins>>
    BY <1>2 DEF Date!Keep
  <2>2. mtime \in Int /\ Date!FromXml \in {expected, NoDate} /\ Date!FromXml \in Nat \cup {NoDate}
    BY <1>0, <2>1, FromXmlIs DEF TimeInv
  <2>3. /\ mtime' \in Int
        /\ \/ mtime' = mtime
           \/ Date!FromXml # NoDate /\ mtime' = Date!Rounded(Date!FromXml)
        /\ Date!FromXml \in Nat /\ ~warned' =>
              \/ mtime' = Date!Rounded(Date!FromXml)
              \/ mtime' = mtime /\ mtime = Date!FromXml
    BY <1>0, <2>1, <2>2, SyncedGives
  <2>4. \A t : Date!Rounded(t)' = Date!Rounded(t)
    BY <2>1 DEF Date!Rounded
  <2>5. Date!FromXml' = Date!FromXml
    BY <2>1 DEF Date!FromXml
  <2>6. ~warned' /\ Date!FromXml # NoDate => mtime' \in {expected, Date!Rounded(expected)}
    BY <2>2, <2>3
  <2>7. TimeInv'
    BY <1>0, <2>1, <2>3, <2>4, <2>5, <2>6, DateConstants DEF TimeInv
  <2>8. Date!NothingIsMadeUp'
    <3>1. \E time \in origins \cup ({server, Date!FromXml} \ {NoDate}) :
             mtime' = Date!Rounded(time)
      BY <2>1, <2>3 DEF DateInv, Date!NothingIsMadeUp
    <3> QED
      BY <2>1, <2>4, <2>5, <3>1 DEF Date!NothingIsMadeUp
  <2>9. Date!Settled
    <3> SUFFICES ASSUME last = "kept", ~warned PROVE mtime' = mtime
      BY DEF Date!Settled
    <3>1. CASE Date!FromXml = NoDate
      BY <2>3, <3>1
    <3>2. CASE Date!FromXml # NoDate
      <4>1. mtime \in {expected, Date!Rounded(expected)} /\ Date!FromXml = expected
        BY <1>0, <2>2, <3>2 DEF TimeInv
      <4>2. CASE mtime = Date!Rounded(expected)
        BY <2>3, <4>1, <4>2
      <4>3. CASE mtime = expected
        <5>1. Date!AsSeconds(Date!FromXml) = Date!AsSeconds(mtime)
          BY <4>1, <4>3
        <5> QED
          BY <2>1, <5>1 DEF Date!Synced, Date!Sets
      <4> QED
        BY <4>1, <4>2, <4>3
    <3> QED
      BY <3>1, <3>2
  <2> QED
    BY <2>1, <2>7, <2>8, <2>9 DEF DateInv, FindingInv
<1>3. CASE Date!CheckDate
  <2>1. /\ mtime # NoDate
        /\ finding' = IF /\ expected # NoDate /\ Date!AsSeconds(mtime) # NoDate
                         /\ Date!AsSeconds(mtime) # expected
                      THEN "date" ELSE "fine"
        /\ UNCHANGED <<expected, server, resolution, mtime, last, warned, origins>>
    BY <1>3 DEF Date!CheckDate
  <2>2. TimeInv' /\ Date!NothingIsMadeUp'
    BY <1>0, <2>1 DEF DateInv, TimeInv, Date!NothingIsMadeUp, Date!FromXml, Date!Rounded
  <2>3. FindingInv'
    BY <1>0, <2>1, DateConstants DEF TimeInv, FindingInv, Date!AsSeconds
  <2> QED
    BY <2>1, <2>2, <2>3 DEF DateInv, Date!Settled
<1>4. CASE Date!Touch
  <2>1. PICK time \in Times : mtime' = Date!Rounded(time) /\ origins' = origins \cup {time}
    BY <1>4 DEF Date!Touch
  <2>2. /\ mtime # NoDate /\ last' = "touched" /\ finding' = "unknown"
        /\ UNCHANGED <<expected, server, resolution, warned>>
    BY <1>4 DEF Date!Touch
  <2>3. time \in Int /\ mtime' \in Int
    BY <1>0, <2>1, RoundedIsInt, DateConstants
  <2>4. TimeInv'
    BY <1>0, <2>1, <2>2, <2>3, DateConstants DEF TimeInv
  <2>5. Date!NothingIsMadeUp'
    BY <2>1, <2>2 DEF Date!NothingIsMadeUp, Date!Rounded
  <2> QED
    BY <2>2, <2>4, <2>5 DEF DateInv, FindingInv, Date!Settled
<1>5. CASE Date!Remove
  <2>1. /\ mtime' = NoDate /\ last' = "nothing" /\ finding' = "unknown"
        /\ server' \in Times \cup {NoDate}
        /\ UNCHANGED <<expected, resolution, warned, origins>>
    BY <1>5 DEF Date!Remove
  <2> QED
    BY <1>0, <2>1, DateConstants
    DEF DateInv, TimeInv, FindingInv, Date!NothingIsMadeUp, Date!Settled
<1> QED
  BY <1>1, <1>2, <1>3, <1>4, <1>5 DEF Date!Next

LEMMA DateFollows ==
    DateInv => Date!NothingIsMadeUp /\ Date!KeptHasTheDate /\ Date!DateIsCompared
<1> SUFFICES ASSUME DateInv
             PROVE  Date!NothingIsMadeUp /\ Date!KeptHasTheDate /\ Date!DateIsCompared
  OBVIOUS
<1>1. Date!KeptHasTheDate
  <2> SUFFICES ASSUME last = "kept", ~warned, expected # NoDate, expected <= Top,
                      expected % resolution = 0
               PROVE  finding # "date"
    BY DEF Date!KeptHasTheDate
  <2>1. expected \in Nat /\ Date!FromXml = expected
    BY DEF DateInv, TimeInv, Date!FromXml
  <2>2. Date!Rounded(expected) = expected
    BY <2>1 DEF Date!Rounded
  <2>3. mtime = expected
    BY <2>1, <2>2 DEF DateInv, TimeInv
  <2> QED
    BY <2>3 DEF DateInv, FindingInv
<1> QED
  BY <1>1 DEF DateInv, FindingInv, Date!DateIsCompared

-----------------------------------------------------------------------------
(* CaseProbe: names *)

LEMMA SameCount ==
    /\ \A S : Case!Cardinality(S) = Cardinality(S)
    /\ \A S : Case!IsFiniteSet(S) <=> IsFiniteSet(S)
<1>1. \A S : Case!Cardinality(S) = Cardinality(S)
  BY DEF Case!Cardinality, Cardinality
<1>2. \A S : Case!IsFiniteSet(S) <=> IsFiniteSet(S)
  BY DEF Case!IsFiniteSet, IsFiniteSet
<1> QED
  BY <1>1, <1>2

LEMMA CaseConstants ==
    /\ \A v \in Volumes : v.folds \in BOOLEAN /\ IsFiniteSet(DOMAIN v.disk)
    /\ \A p \in Plans : p # {} /\ p \subseteq Case!Names
BY PartsAssumption, SameCount DEF Case!InputsAssumption

\* The other spelling of a letter is a symbol too, and the same in lower case.
LEMMA Letters ==
    ASSUME NEW s \in Case!Symbols
    PROVE  /\ Case!ToLower(s) \in Case!Symbols
           /\ Case!HasCase(s) =>
                 /\ Case!Other(s) \in Case!Symbols /\ Case!Other(s) # s
                 /\ Case!ToLower(Case!Other(s)) = Case!ToLower(s)
<1>1. Case!ToLower(s) \in Case!Symbols
  <2> DEFINE Pair(c) == c[2] = s
  <2>1. CASE \E c \in Case!Cases : Pair(c)
    <3>1. (CHOOSE c \in Case!Cases : Pair(c)) \in Case!Cases
      BY <2>1
    <3>2. \A c \in Case!Cases : c[1] \in Case!Symbols
      BY DEF Case!Cases, Case!Symbols
    <3>3. Case!ToLower(s) = (CHOOSE c \in Case!Cases : Pair(c))[1]
      BY <2>1 DEF Case!ToLower
    <3> QED
      BY <3>1, <3>2, <3>3
  <2>2. CASE ~\E c \in Case!Cases : Pair(c)
    BY <2>2 DEF Case!ToLower
  <2> QED
    BY <2>1, <2>2
<1>2. ASSUME Case!HasCase(s)
      PROVE  /\ Case!Other(s) \in Case!Symbols /\ Case!Other(s) # s
             /\ Case!ToLower(Case!Other(s)) = Case!ToLower(s)
  BY <1>2 DEF Case!Symbols, Case!HasCase, Case!Other, Case!ToLower, Case!Cases
<1> QED
  BY <1>1, <1>2

LEMMA PartSuffix == Case!ToLower(".p") = ".p" /\ ".p" \in Case!Symbols
BY DEF Case!ToLower, Case!Cases, Case!Symbols

\* What SelectInSeq picks is there.
LEMMA LeastOne ==
    ASSUME NEW S \in SUBSET Nat, S # {}
    PROVE  Case!Min(S) \in S
<1> DEFINE Less == {ss \in Nat \X Nat : ss[1] < ss[2]}
<1>1. OpToRel(<, Nat) = Less
  BY Zenon DEF OpToRel
<1>2. IsWellFoundedOn(Less, Nat)
  BY <1>1, NatLessThanWellFounded, Zenon
<1> HIDE DEF Less
<1>3. PICK x \in S : \A y \in S : ~(<<y, x>> \in Less)
  BY <1>2, WFMin
<1>4. ASSUME NEW y \in S
      PROVE  x <= y
  <2>1. x \in Nat /\ y \in Nat /\ <<y, x>> \notin Less
    BY <1>3
  <2>2. ~(y < x)
    BY <2>1 DEF Less
  <2> QED
    BY <2>1, <2>2
<1> QED
  BY <1>4 DEF Case!Min

\* flip_first_ascii_letter gives another spelling of the same name.
LEMMA FlippedIsATwin ==
    ASSUME NEW n \in Case!Names, Case!HasLetter(n)
    PROVE  /\ Case!Flipped(n) \in Case!Names /\ Case!Flipped(n) # n
           /\ Case!Lowercase(Case!Flipped(n)) = Case!Lowercase(n)
<1> DEFINE first == Case!SelectInSeq(n, Case!HasCase)
           twin == [n EXCEPT ![first] = Case!Other(n[first])]
<1>0. first # 0
  BY DEF Case!HasLetter
<1>1. first \in 1..Len(n) /\ Case!HasCase(n[first])
  BY <1>0, LeastOne DEF Case!SelectInSeq
<1>2. Case!Flipped(n) = twin
  BY DEF Case!Flipped
<1> HIDE DEF first
<1>3. n \in Seq(Case!Symbols) /\ n[first] \in Case!Symbols
  BY <1>1 DEF Case!Names
<1>4. /\ Case!Other(n[first]) \in Case!Symbols /\ Case!Other(n[first]) # n[first]
      /\ Case!ToLower(Case!Other(n[first])) = Case!ToLower(n[first])
  BY <1>1, <1>3, Letters
<1>5. twin \in Seq(Case!Symbols) /\ twin # n
  BY <1>1, <1>3, <1>4
<1>6. \A i \in DOMAIN n : Case!ToLower(twin[i]) = Case!ToLower(n[i])
  BY <1>1, <1>3, <1>4
<1>7. DOMAIN twin = DOMAIN n
  OBVIOUS
<1>8. Case!Lowercase(twin) = Case!Lowercase(n)
  BY <1>6, <1>7 DEF Case!Lowercase
<1> QED
  BY <1>2, <1>5, <1>8 DEF Case!Names

\* A name in lower case is the name of its symbols' lower cases.
LEMMA LowercaseFacts ==
    ASSUME NEW n \in Seq(Case!Symbols)
    PROVE  /\ Case!Lowercase(n) \in Seq(Case!Symbols)
           /\ Len(Case!Lowercase(n)) = Len(n)
           /\ \A i \in 1..Len(n) : Case!Lowercase(n)[i] = Case!ToLower(n[i])
<1>1. DOMAIN n = 1..Len(n) /\ Len(n) \in Nat /\ \A i \in 1..Len(n) : n[i] \in Case!Symbols
  OBVIOUS
<1>2. Case!Lowercase(n) = [i \in 1..Len(n) |-> Case!ToLower(n[i])]
  BY <1>1 DEF Case!Lowercase
<1>3. \A i \in 1..Len(n) : Case!ToLower(n[i]) \in Case!Symbols
  BY <1>1, Letters
<1> QED
  BY <1>1, <1>2, <1>3

\* A sequence is another one and an element exactly if that is its last one and
\* the rest the other.
LEMMA AppendedIs ==
    ASSUME NEW S, NEW n \in Seq(S), NEW p \in Seq(S), NEW x \in S
    PROVE  n = Append(p, x) <=>
              Len(n) = Len(p) + 1 /\ n[Len(p) + 1] = x /\ \A i \in 1..Len(p) : n[i] = p[i]
<1>1. /\ Append(p, x) \in Seq(S) /\ Len(Append(p, x)) = Len(p) + 1
      /\ Append(p, x)[Len(p) + 1] = x
      /\ \A i \in 1..Len(p) : Append(p, x)[i] = p[i]
      /\ Len(p) \in Nat
  OBVIOUS
<1>2. ASSUME Len(n) = Len(p) + 1, n[Len(p) + 1] = x, \A i \in 1..Len(p) : n[i] = p[i]
      PROVE  n = Append(p, x)
  <2>1. \A i \in 1..Len(n) : n[i] = Append(p, x)[i]
    BY <1>1, <1>2
  <2> QED
    BY <1>1, <1>2, <2>1
<1> QED
  BY <1>1, <1>2

LEMMA FrontFacts ==
    ASSUME NEW S, NEW n \in Seq(S), n # <<>>
    PROVE  /\ Case!Front(n) \in Seq(S) /\ Len(Case!Front(n)) + 1 = Len(n)
           /\ \A i \in 1..(Len(n) - 1) : Case!Front(n)[i] = n[i]
           /\ Case!Last(n) = n[Len(n)] /\ Len(n) \in Nat \ {0}
<1>1. Len(n) \in Nat \ {0} /\ Len(n) - 1 \in 0..Len(n)
  OBVIOUS
<1> DEFINE k == Len(n) - 1
<1>2. k \in Nat /\ k <= Len(n)
  BY <1>1
<1> HIDE DEF k
<1>3. SubSeq(n, 1, k) = [i \in 1..k |-> n[i]]
  BY <1>2
<1>4. \A i \in 1..k : n[i] \in S
  BY <1>1, <1>2
<1>5. SubSeq(n, 1, k) \in Seq(S) /\ Len(SubSeq(n, 1, k)) = k
  BY <1>2, <1>3, <1>4
<1>6. \A i \in 1..k : SubSeq(n, 1, k)[i] = n[i]
  BY <1>3
<1>7. k = Len(n) - 1
  BY DEF k
<1> QED
  BY <1>1, <1>5, <1>6, <1>7 DEF Case!Front, Case!Last

\* The leftover of a name is what part_base gives that name for.
LEMMA PartBaseIs ==
    ASSUME NEW n \in Seq(Case!Symbols), NEW p \in Seq(Case!Symbols), ci \in BOOLEAN
    PROVE  (\E base \in Case!PartBase(n) : Case!Key(base) = Case!Key(p))
              <=> Case!Key(n) = Case!Key(Case!Part(p))
<1> DEFINE S == Case!Symbols
<1>1. ".p" \in S /\ Append(p, ".p") \in Seq(S) /\ Case!Part(p) = Append(p, ".p")
  BY PartSuffix DEF Case!Part
<1>2. Len(n) \in Nat /\ Len(p) \in Nat /\ (n = <<>> <=> Len(n) = 0)
  OBVIOUS
<1>3. CASE ~ci
  <2>1. n # <<>> => (n[Len(n)] = ".p" /\ Case!Front(n) = p <=> n = Append(p, ".p"))
    <3> SUFFICES ASSUME n # <<>>
                 PROVE  n[Len(n)] = ".p" /\ Case!Front(n) = p <=> n = Append(p, ".p")
      OBVIOUS
    <3>1. /\ Case!Front(n) \in Seq(S) /\ Len(Case!Front(n)) + 1 = Len(n)
          /\ \A i \in 1..(Len(n) - 1) : Case!Front(n)[i] = n[i]
      BY FrontFacts
    <3>2. Case!Front(n) = p <=> Len(n) = Len(p) + 1 /\ \A i \in 1..Len(p) : n[i] = p[i]
      BY <1>2, <3>1
    <3> QED
      BY <1>1, <1>2, <3>2, AppendedIs
  <2>2. n = <<>> => n # Append(p, ".p")
    BY <1>1, <1>2, AppendedIs
  <2>3. (\E base \in Case!PartBase(n) : base = p)
           <=> n # <<>> /\ n[Len(n)] = ".p" /\ Case!Front(n) = p
    BY <1>3 DEF Case!PartBase, Case!Last
  <2> QED
    BY <1>1, <1>3, <2>1, <2>2, <2>3 DEF Case!Key
<1>4. CASE ci
  <2> DEFINE low(m) == Case!Lowercase(m)
  <2>1. /\ low(n) \in Seq(S) /\ Len(low(n)) = Len(n)
        /\ \A i \in 1..Len(n) : low(n)[i] = Case!ToLower(n[i])
        /\ low(p) \in Seq(S) /\ Len(low(p)) = Len(p)
        /\ \A i \in 1..Len(p) : low(p)[i] = Case!ToLower(p[i])
    BY LowercaseFacts
  <2>2. low(Append(p, ".p")) = Append(low(p), ".p")
    <3>0. Len(Append(p, ".p")) = Len(p) + 1
      BY <1>1
    <3>1. /\ Len(low(Append(p, ".p"))) = Len(p) + 1
          /\ \A i \in 1..(Len(p) + 1) :
                low(Append(p, ".p"))[i] = Case!ToLower(Append(p, ".p")[i])
          /\ low(Append(p, ".p")) \in Seq(S)
      BY <1>1, <3>0, LowercaseFacts
    <3>2. /\ Append(p, ".p")[Len(p) + 1] = ".p"
          /\ \A i \in 1..Len(p) : Append(p, ".p")[i] = p[i]
      BY <1>1, <1>2, AppendedIs
    <3>3. /\ low(Append(p, ".p"))[Len(p) + 1] = ".p"
          /\ \A i \in 1..Len(p) : low(Append(p, ".p"))[i] = low(p)[i]
      <4>1. Len(p) + 1 \in 1..(Len(p) + 1)
        BY <1>2
      <4>2. low(Append(p, ".p"))[Len(p) + 1] = ".p"
        BY <3>1, <3>2, <4>1, PartSuffix
      <4>3. ASSUME NEW i \in 1..Len(p)
            PROVE  low(Append(p, ".p"))[i] = low(p)[i]
        <5>1. i \in 1..(Len(p) + 1)
          BY <1>2
        <5>2. low(Append(p, ".p"))[i] = Case!ToLower(p[i])
          BY <3>1, <3>2, <5>1
        <5> QED
          BY <2>1, <5>2
      <4> QED
        BY <4>2, <4>3
    <3> HIDE DEF low
    <3> QED
      BY <1>1, <2>1, <3>1, <3>3, AppendedIs
  <2>3. n # <<>> => (Case!ToLower(n[Len(n)]) = ".p" /\ low(Case!Front(n)) = low(p)
                        <=> low(n) = Append(low(p), ".p"))
    <3> SUFFICES ASSUME n # <<>>
                 PROVE  Case!ToLower(n[Len(n)]) = ".p" /\ low(Case!Front(n)) = low(p)
                           <=> low(n) = Append(low(p), ".p")
      OBVIOUS
    <3>1. /\ Case!Front(n) \in Seq(S) /\ Len(Case!Front(n)) + 1 = Len(n)
          /\ \A i \in 1..(Len(n) - 1) : Case!Front(n)[i] = n[i]
      BY FrontFacts
    <3>2. /\ low(Case!Front(n)) \in Seq(S) /\ Len(low(Case!Front(n))) + 1 = Len(n)
          /\ \A i \in 1..(Len(n) - 1) : low(Case!Front(n))[i] = Case!ToLower(n[i])
      BY <1>2, <3>1, LowercaseFacts
    <3> HIDE DEF low
    <3>3. low(Case!Front(n)) = low(p)
             <=> Len(n) = Len(p) + 1 /\ \A i \in 1..Len(p) : low(n)[i] = low(p)[i]
      BY <1>2, <2>1, <3>2
    <3>4. low(n)[Len(n)] = Case!ToLower(n[Len(n)])
      BY <1>2, <2>1
    <3> QED
      BY <1>1, <1>2, <2>1, <3>3, <3>4, AppendedIs
  <2>4. n = <<>> => low(n) # Append(low(p), ".p")
    <3> HIDE DEF low
    <3> QED
      BY <1>1, <1>2, <2>1, AppendedIs
  <2>5. (\E base \in Case!PartBase(n) : low(base) = low(p))
           <=> n # <<>> /\ Case!ToLower(n[Len(n)]) = ".p" /\ low(Case!Front(n)) = low(p)
    BY <1>4 DEF Case!PartBase, Case!Last
  <2> QED
    BY <1>1, <1>4, <2>2, <2>3, <2>4, <2>5 DEF Case!Key
<1> QED
  BY <1>3, <1>4

-----------------------------------------------------------------------------
(* CaseProbe: the walk, the probe and the report *)

\* What the walk has found so far of one kind
Walked(kind) == {n \in DOMAIN volume.disk \ caseUnread : volume.disk[n] = kind}

ListingInv ==
    /\ volume \in Volumes /\ Case!VolumeOk(volume) /\ planned \in Plans
    /\ caseStage \in {"walk", "probe", "classify", "done"} /\ ci \in BOOLEAN
    /\ caseUnread \subseteq DOMAIN volume.disk
    /\ caseStage # "walk" => caseUnread = {}
    /\ caseFiles \in Seq(DOMAIN volume.disk)
    /\ Case!ToSet(caseFiles) = Walked("file")
    /\ caseDirs = Walked("directory") /\ caseOthers = Walked("link")

\* The probe tells the case rule of the volume, whatever file it looks at.
VerdictInv ==
    caseStage \in {"classify", "done"} /\ Case!Probeable => ci = volume.folds

\* A planned file that is there with its .part
LeftOver(p) == Case!Category(p) = "present" /\ Case!Key(Case!Part(p)) \in Case!FileSet

CategoriesInv ==
    /\ caseStage \in {"walk", "probe"} => caseFound = <<>> /\ caseExtra = {}
    /\ DOMAIN caseFound \subseteq planned
    /\ \A p \in DOMAIN caseFound : caseFound[p] = Case!Category(p)
    /\ caseStage = "classify" =>
          caseExtra = {Case!Part(p) : p \in {q \in DOMAIN caseFound : LeftOver(q)}}
    /\ caseStage = "done" =>
          caseExtra = {Case!Part(p) : p \in {q \in planned : LeftOver(q)}}
                         \cup {n \in Case!ToSet(caseFiles) : ~Case!Explained(n)}
                         \cup {n \in caseOthers : Case!Key(n) \notin Case!Expected}
                         \cup {n \in caseDirs : ~Case!DirExplained(n)}

CaseInv == ListingInv /\ VerdictInv /\ CategoriesInv

LEMMA CaseInit == Case!Init => CaseInv
<1> SUFFICES ASSUME Case!Init PROVE CaseInv
  OBVIOUS
<1>1. ListingInv
  <2>1. caseFiles = <<>> /\ <<>> \in Seq(DOMAIN volume.disk)
    BY DEF Case!Init
  <2>2. \A kind : Walked(kind) = {}
    BY DEF Case!Init, Walked
  <2>3. Case!ToSet(caseFiles) = {}
    BY <2>1 DEF Case!ToSet
  <2> QED
    BY <2>1, <2>2, <2>3 DEF Case!Init, ListingInv
<1>2. VerdictInv /\ CategoriesInv
  BY DEF Case!Init, VerdictInv, CategoriesInv
<1> QED
  BY <1>1, <1>2 DEF CaseInv

\* What the report is made of changes only with what it is made from.
LEMMA ReportFixed ==
    ASSUME UNCHANGED <<volume, planned, caseFiles, caseDirs, caseOthers, ci>>
    PROVE  /\ \A p : Case!Category(p)' = Case!Category(p)
           /\ \A p : LeftOver(p)' = LeftOver(p)
           /\ \A n : Case!Explained(n)' = Case!Explained(n)
           /\ \A n : Case!DirExplained(n)' = Case!DirExplained(n)
           /\ \A n : Case!Key(n)' = Case!Key(n)
           /\ Case!Expected' = Case!Expected /\ Case!ToSet(caseFiles)' = Case!ToSet(caseFiles)
<1>1. \A n : Case!Key(n)' = Case!Key(n)
  BY DEF Case!Key
<1>2. /\ Case!Expected' = Case!Expected /\ Case!FileSet' = Case!FileSet
      /\ Case!DirSet' = Case!DirSet /\ Case!ToSet(caseFiles)' = Case!ToSet(caseFiles)
  BY DEF Case!Expected, Case!FileSet, Case!DirSet, Case!ToSet, Case!Key
<1>3. \A n : Case!Exists(n)' = Case!Exists(n)
  BY DEF Case!Exists, Case!Answering
<1>4. \A p : Case!Category(p)' = Case!Category(p)
  BY <1>1, <1>2, <1>3 DEF Case!Category, Case!Absent, Case!Present
<1>5. \A p : LeftOver(p)' = LeftOver(p)
  BY <1>1, <1>2, <1>4 DEF LeftOver
<1>6. \A n : Case!Explained(n)' = Case!Explained(n)
  BY <1>1, <1>2 DEF Case!Explained, Case!PartBase
<1>7. \A n : Case!DirExplained(n)' = Case!DirExplained(n)
  BY <1>2 DEF Case!DirExplained
<1> QED
  BY <1>1, <1>2, <1>4, <1>5, <1>6, <1>7

LEMMA ProbeableFixed == UNCHANGED <<volume, caseFiles>> => Case!Probeable' = Case!Probeable
<1> QED
  BY DEF Case!Probeable, Case!Probed, Case!SelectInSeq

\* volume_case_insensitive finds the rule of the volume, if it can.
LEMMA ProbeIsRight ==
    ASSUME ListingInv, caseUnread = {}, Case!Probeable, Case!Verdict \/ Case!Unprobed
    PROVE  ci' = volume.folds
<1>0. volume.folds \in BOOLEAN
  BY CaseConstants DEF ListingInv
<1>1. CASE Case!Probed = 0
  BY <1>0, <1>1 DEF Case!Probeable, Case!Verdict, Case!Unprobed
<1>2. CASE Case!Probed # 0
  <2> DEFINE n == caseFiles[Case!Probed]
             twin == Case!Flipped(n)
  <2>1. Case!Probed \in 1..Len(caseFiles) /\ Case!HasLetter(n)
    <3> DEFINE lettered == {i \in 1..Len(caseFiles) : Case!HasLetter(caseFiles[i])}
    <3>1. Case!Probed = IF lettered # {} THEN Case!Min(lettered) ELSE 0
      BY DEF Case!Probed, Case!SelectInSeq
    <3>2. lettered \in SUBSET Nat
      OBVIOUS
    <3> QED
      BY <1>2, <3>1, <3>2, LeastOne
  <2>2. n \in Walked("file")
    BY <2>1 DEF ListingInv, Case!ToSet
  <2>3. n \in DOMAIN volume.disk /\ volume.disk[n] = "file" /\ n \in Case!Names
    BY <2>2 DEF Walked, ListingInv, Case!VolumeOk
  <2>4. twin # n /\ Case!Lowercase(twin) = Case!Lowercase(n)
    BY <2>1, <2>3, FlippedIsATwin
  <2>5. ci' = (Case!Exists(twin) /\ ~Case!Contains(caseFiles, twin))
    BY <1>2 DEF Case!Verdict, Case!Unprobed
  <2>6. Case!Contains(caseFiles, twin) <=> twin \in Walked("file")
    BY DEF Case!Contains, ListingInv, Case!ToSet
  <2> HIDE DEF n, twin
  <2>7. CASE volume.folds
    <3>1. Case!Exists(twin)
      BY <2>3, <2>4, <2>7 DEF Case!Exists, Case!Answering
    <3>2. twin \notin DOMAIN volume.disk
      BY <2>3, <2>4, <2>7 DEF ListingInv, Case!VolumeOk
    <3> QED
      BY <2>5, <2>6, <2>7, <3>1, <3>2 DEF Walked
  <2>8. CASE ~volume.folds
    <3>1. Case!Exists(twin) => twin \in DOMAIN volume.disk
      BY <2>8 DEF Case!Exists, Case!Answering
    <3>2. twin \in DOMAIN volume.disk => volume.disk[twin] = "file"
      BY <2>3, <2>4, <2>8 DEF Case!Probeable
    <3>3. twin \in DOMAIN volume.disk => twin \in Walked("file")
      BY <3>2, ListingInv DEF Walked, ListingInv
    <3> QED
      BY <1>0, <2>5, <2>6, <2>8, <3>1, <3>3
  <2> QED
    BY <2>7, <2>8
<1> QED
  BY <1>1, <1>2

LEMMA ListingStep == ListingInv /\ Case!Next => ListingInv'
<1> SUFFICES ASSUME ListingInv, Case!Next PROVE ListingInv'
  OBVIOUS
<1>1. CASE Case!WalkEntry
  <2>1. PICK n \in caseUnread :
           /\ caseUnread' = caseUnread \ {n}
           /\ caseFiles' = IF volume.disk[n] = "file" THEN Append(caseFiles, n) ELSE caseFiles
           /\ caseDirs' = IF volume.disk[n] = "directory" THEN caseDirs \cup {n} ELSE caseDirs
           /\ caseOthers' = IF volume.disk[n] = "link" THEN caseOthers \cup {n} ELSE caseOthers
    BY <1>1 DEF Case!WalkEntry
  <2>2. caseStage = "walk" /\ UNCHANGED <<volume, planned, caseStage, ci>>
    BY <1>1 DEF Case!WalkEntry
  <2>3. n \in DOMAIN volume.disk
    BY <2>1 DEF ListingInv
  <2>4. \A kind : Walked(kind)' = IF volume.disk[n] = kind THEN Walked(kind) \cup {n}
                                  ELSE Walked(kind)
    BY <2>1, <2>2, <2>3 DEF Walked
  <2>5. caseFiles' \in Seq(DOMAIN volume.disk)
    <3>1. caseFiles \in Seq(DOMAIN volume.disk)
      BY DEF ListingInv
    <3> DEFINE D == DOMAIN volume.disk
    <3>2. n \in D /\ caseFiles \in Seq(D)
      BY <2>3, <3>1
    <3> HIDE DEF D
    <3>3. Append(caseFiles, n) \in Seq(D)
      BY <3>2
    <3>4. caseFiles' \in Seq(D)
      BY <2>1, <3>2, <3>3
    <3> QED
      BY <3>4 DEF D
  <2>6. Case!ToSet(caseFiles)' = IF volume.disk[n] = "file"
                                 THEN Case!ToSet(caseFiles) \cup {n}
                                 ELSE Case!ToSet(caseFiles)
    <3>1. CASE volume.disk[n] = "file"
      <4>1. caseFiles' = Append(caseFiles, n) /\ caseFiles \in Seq(DOMAIN volume.disk)
        BY <2>1, <3>1 DEF ListingInv
      <4>2. /\ DOMAIN caseFiles = 1..Len(caseFiles) /\ Len(caseFiles) \in Nat
            /\ DOMAIN caseFiles' = 1..(Len(caseFiles) + 1)
            /\ caseFiles'[Len(caseFiles) + 1] = n
            /\ \A i \in 1..Len(caseFiles) : caseFiles'[i] = caseFiles[i]
        BY <2>3, <4>1
      <4> QED
        BY <3>1, <4>2 DEF Case!ToSet
    <3>2. CASE volume.disk[n] # "file"
      BY <2>1, <3>2 DEF Case!ToSet
    <3> QED
      BY <3>1, <3>2
  <2> QED
    BY <2>1, <2>2, <2>4, <2>5, <2>6 DEF ListingInv, Case!VolumeOk
<1>2. CASE Case!WalkEnds \/ Case!Classify \/ Case!Leftovers
  <2>1. /\ UNCHANGED <<volume, planned, caseUnread, caseFiles, caseDirs, caseOthers, ci>>
        /\ caseStage' \in {"probe", "classify", "done"}
        /\ caseStage = "walk" => caseUnread = {}
    BY <1>2 DEF Case!WalkEnds, Case!Classify, Case!Leftovers
  <2> QED
    BY <2>1 DEF ListingInv, Walked, Case!VolumeOk, Case!ToSet
<1>3. CASE Case!Probe
  <2>1. /\ UNCHANGED <<volume, planned, caseUnread, caseFiles, caseDirs, caseOthers>>
        /\ caseStage = "probe" /\ caseStage' = "classify"
    BY <1>3 DEF Case!Probe
  <2>2. ci' \in BOOLEAN
    BY <1>3 DEF Case!Probe, Case!Verdict, Case!Unprobed
  <2> QED
    BY <2>1, <2>2 DEF ListingInv, Walked, Case!VolumeOk, Case!ToSet
<1> QED
  BY <1>1, <1>2, <1>3 DEF Case!Next

LEMMA CaseStep == CaseInv /\ Case!Next => CaseInv'
<1> SUFFICES ASSUME CaseInv, Case!Next PROVE CaseInv'
  OBVIOUS
<1>0. ListingInv /\ ListingInv'
  BY ListingStep DEF CaseInv
<1>1. CASE Case!WalkEntry \/ Case!WalkEnds
  <2>1. /\ caseStage = "walk" /\ caseStage' \in {"walk", "probe"}
        /\ UNCHANGED <<planned, caseFound, caseExtra>>
    BY <1>1 DEF Case!WalkEntry, Case!WalkEnds
  <2>2. CategoriesInv'
    BY <2>1 DEF CaseInv, CategoriesInv
  <2> QED
    BY <1>0, <2>1, <2>2 DEF CaseInv, VerdictInv
<1>2. CASE Case!Probe
  <2>1. /\ caseStage = "probe" /\ caseStage' = "classify"
        /\ UNCHANGED <<volume, planned, caseFiles, caseFound, caseExtra>>
        /\ Case!Verdict \/ Case!Unprobed
    BY <1>2 DEF Case!Probe
  <2>2. VerdictInv'
    BY <1>0, <2>1, ProbeIsRight, ProbeableFixed DEF VerdictInv, ListingInv
  <2>3. caseFound' = <<>> /\ caseExtra' = {} /\ DOMAIN caseFound' = {}
    BY <2>1 DEF CaseInv, CategoriesInv
  <2>4. CategoriesInv'
    BY <2>1, <2>3 DEF CategoriesInv
  <2> QED
    BY <1>0, <2>2, <2>4 DEF CaseInv
<1>3. CASE Case!Classify
  <2>1. PICK p \in planned \ DOMAIN caseFound :
           /\ caseFound' = [n \in DOMAIN caseFound \cup {p} |->
                               IF n = p THEN Case!Category(p) ELSE caseFound[n]]
           /\ caseExtra' = IF Case!Category(p) = "present"
                                 /\ Case!Key(Case!Part(p)) \in Case!FileSet
                           THEN caseExtra \cup {Case!Part(p)} ELSE caseExtra
    BY <1>3 DEF Case!Classify
  <2>2. /\ caseStage = "classify" /\ caseStage' = "classify"
        /\ UNCHANGED <<volume, planned, caseFiles, caseDirs, caseOthers, ci>>
    BY <1>3 DEF Case!Classify
  <2>3. VerdictInv'
    BY <2>2, ProbeableFixed DEF CaseInv, VerdictInv
  <2>4. \A q : Case!Category(q)' = Case!Category(q) /\ LeftOver(q)' = LeftOver(q)
    BY <2>2, ReportFixed
  <2>5. DOMAIN caseFound' = DOMAIN caseFound \cup {p} /\ DOMAIN caseFound' \subseteq planned
    BY <2>1 DEF CaseInv, CategoriesInv
  <2>6. \A q \in DOMAIN caseFound' : caseFound'[q] = Case!Category(q)
    BY <2>1, <2>5 DEF CaseInv, CategoriesInv
  <2>7. caseExtra' = {Case!Part(q) : q \in {r \in DOMAIN caseFound' : LeftOver(r)}}
    BY <2>1, <2>2, <2>5 DEF CaseInv, CategoriesInv, LeftOver
  <2>8. CategoriesInv'
    BY <2>2, <2>4, <2>5, <2>6, <2>7 DEF CategoriesInv
  <2> QED
    BY <1>0, <2>3, <2>8 DEF CaseInv
<1>4. CASE Case!Leftovers
  <2>1. /\ caseStage = "classify" /\ DOMAIN caseFound = planned /\ caseStage' = "done"
        /\ caseExtra' = caseExtra \cup {n \in Case!ToSet(caseFiles) : ~Case!Explained(n)}
                          \cup {n \in caseOthers : Case!Key(n) \notin Case!Expected}
                          \cup {n \in caseDirs : ~Case!DirExplained(n)}
        /\ UNCHANGED <<volume, planned, caseFiles, caseDirs, caseOthers, ci, caseFound>>
    BY <1>4 DEF Case!Leftovers
  <2>2. VerdictInv'
    BY <2>1, ProbeableFixed DEF CaseInv, VerdictInv
  <2>3. caseExtra = {Case!Part(p) : p \in {q \in planned : LeftOver(q)}}
    BY <2>1 DEF CaseInv, CategoriesInv
  <2>4. CategoriesInv'
    BY <2>1, <2>3, ReportFixed DEF CaseInv, CategoriesInv
  <2> QED
    BY <1>0, <2>2, <2>4 DEF CaseInv
<1> QED
  BY <1>1, <1>2, <1>3, <1>4 DEF Case!Next

\* Once the case rule is known, an entry answers to the paths with its key, and
\* is the only one to do so.
LEMMA KeysRight ==
    ASSUME CaseInv, Case!Probeable, caseStage \in {"classify", "done"}
    PROVE  /\ \A p : Case!Answering(p) = {n \in DOMAIN volume.disk : Case!Key(n) = Case!Key(p)}
           /\ \A m, n \in DOMAIN volume.disk : Case!Key(m) = Case!Key(n) => m = n
           /\ \A p : Case!Key(p) \in Case!FileSet <=> Case!HoldsFile(p)
           /\ \A p : Case!Key(p) \in Case!DirSet <=> Case!HoldsDir(p)
<1>1. ci = volume.folds /\ ci \in BOOLEAN
  BY DEF CaseInv, VerdictInv, ListingInv
<1>2. ASSUME NEW p
      PROVE  Case!Answering(p) = {n \in DOMAIN volume.disk : Case!Key(n) = Case!Key(p)}
  BY <1>1 DEF Case!Answering, Case!Key
<1>3. \A m, n \in DOMAIN volume.disk : Case!Key(m) = Case!Key(n) => m = n
  BY <1>1 DEF CaseInv, ListingInv, Case!VolumeOk, Case!Key
<1>4. caseUnread = {}
  BY DEF CaseInv, ListingInv
<1>5. /\ Case!ToSet(caseFiles) = {n \in DOMAIN volume.disk : volume.disk[n] = "file"}
      /\ caseDirs = {n \in DOMAIN volume.disk : volume.disk[n] = "directory"}
  BY <1>4 DEF CaseInv, ListingInv, Walked
<1>6. ASSUME NEW p
      PROVE  Case!Key(p) \in Case!FileSet <=> Case!HoldsFile(p)
  BY <1>2, <1>5 DEF Case!FileSet, Case!HoldsFile
<1>7. ASSUME NEW p
      PROVE  Case!Key(p) \in Case!DirSet <=> Case!HoldsDir(p)
  BY <1>2, <1>5 DEF Case!DirSet, Case!HoldsDir
<1> QED
  BY <1>2, <1>3, <1>6, <1>7

LEMMA CategoryFollows == CaseInv => Case!CategoryIsRight
<1> SUFFICES ASSUME CaseInv, Case!Probeable, NEW p \in DOMAIN caseFound
             PROVE  caseFound[p] = IF Case!HoldsDir(p) THEN "type"
                                   ELSE IF Case!HoldsFile(p) THEN "present"
                                   ELSE IF Case!HoldsFile(Case!Part(p)) THEN "incomplete"
                                   ELSE "missing"
  BY DEF Case!CategoryIsRight
<1>1. caseStage \in {"classify", "done"}
  <2>1. caseFound # <<>>
    OBVIOUS
  <2> QED
    BY <2>1 DEF CaseInv, CategoriesInv, ListingInv
<1>2. caseFound[p] = Case!Category(p)
  BY DEF CaseInv, CategoriesInv
<1>3. /\ Case!Key(p) \in Case!FileSet <=> Case!HoldsFile(p)
      /\ Case!Key(p) \in Case!DirSet <=> Case!HoldsDir(p)
      /\ Case!Key(Case!Part(p)) \in Case!FileSet <=> Case!HoldsFile(Case!Part(p))
  BY <1>1, KeysRight
<1>4. Case!HoldsFile(p) => Case!Exists(p)
  BY DEF Case!HoldsFile, Case!Exists
<1>5. Case!Category(p) = IF Case!HoldsDir(p) THEN "type"
                         ELSE IF Case!HoldsFile(p) THEN "present"
                         ELSE IF Case!HoldsFile(Case!Part(p)) THEN "incomplete"
                         ELSE "missing"
  BY <1>3, <1>4 DEF Case!Category, Case!Absent, Case!Present
<1> QED
  BY <1>2, <1>5

LEMMA ExtraFollows == CaseInv => Case!ExtraIsRight
<1> DEFINE Opens(n, path) == n \in Case!Answering(path)
           Stale(n, p) == Opens(n, Case!Part(p)) /\ Case!HoldsFile(p) /\ ~Case!HoldsDir(p)
           Reported(n) == \E m \in caseExtra : Opens(n, m)
<1> SUFFICES ASSUME CaseInv, caseStage = "done", Case!Probeable,
                    NEW n \in DOMAIN volume.disk
             PROVE  /\ volume.disk[n] = "file" =>
                          (Reported(n) <=>
                              \/ \A p \in planned : ~Opens(n, p) /\ ~Opens(n, Case!Part(p))
                              \/ \E p \in planned : Stale(n, p))
                    /\ volume.disk[n] = "link" =>
                          (Reported(n) <=> \A p \in planned : ~Opens(n, p))
  BY DEF Case!ExtraIsRight
<1>1. /\ \A p : Opens(n, p) <=> Case!Key(n) = Case!Key(p)
      /\ \A m \in DOMAIN volume.disk : Opens(n, m) <=> m = n
      /\ \A p : Case!Key(p) \in Case!FileSet <=> Case!HoldsFile(p)
      /\ \A p : Case!Key(p) \in Case!DirSet <=> Case!HoldsDir(p)
  BY KeysRight
<1>2. /\ caseUnread = {} /\ planned \subseteq Case!Names
      /\ DOMAIN volume.disk \subseteq Case!Names /\ ci \in BOOLEAN
  BY CaseConstants DEF CaseInv, ListingInv, Case!VolumeOk
<1>3. /\ Case!ToSet(caseFiles) = {m \in DOMAIN volume.disk : volume.disk[m] = "file"}
      /\ caseDirs = {m \in DOMAIN volume.disk : volume.disk[m] = "directory"}
      /\ caseOthers = {m \in DOMAIN volume.disk : volume.disk[m] = "link"}
  BY <1>2 DEF CaseInv, ListingInv, Walked
<1>4. \A p \in planned : LeftOver(p) <=> /\ Case!HoldsFile(p) /\ ~Case!HoldsDir(p)
                                         /\ Case!HoldsFile(Case!Part(p))
  <2> SUFFICES ASSUME NEW p \in planned
               PROVE  LeftOver(p) <=> /\ Case!HoldsFile(p) /\ ~Case!HoldsDir(p)
                                      /\ Case!HoldsFile(Case!Part(p))
    OBVIOUS
  <2>1. Case!HoldsFile(p) => Case!Exists(p)
    BY DEF Case!HoldsFile, Case!Exists
  <2>2. Case!Category(p) = "present" <=> Case!HoldsFile(p) /\ ~Case!HoldsDir(p)
    BY <1>1, <2>1 DEF Case!Category, Case!Absent, Case!Present
  <2> QED
    BY <1>1, <2>2 DEF LeftOver
<1>5. Case!Explained(n) <=> \E p \in planned : Opens(n, p) \/ Opens(n, Case!Part(p))
  <2>1. \A p \in planned :
           (\E base \in Case!PartBase(n) : Case!Key(base) = Case!Key(p))
              <=> Case!Key(n) = Case!Key(Case!Part(p))
    BY <1>2, PartBaseIs DEF Case!Names
  <2>2. Case!Explained(n) <=>
           \/ \E p \in planned : Case!Key(n) = Case!Key(p)
           \/ \E p \in planned : \E base \in Case!PartBase(n) : Case!Key(base) = Case!Key(p)
    BY DEF Case!Explained, Case!Expected
  <2> QED
    BY <1>1, <2>1, <2>2
<1>6. Case!Key(n) \in Case!Expected <=> \E p \in planned : Opens(n, p)
  BY <1>1 DEF Case!Expected
<1>7. Reported(n) <=>
         \/ \E p \in planned : LeftOver(p) /\ Opens(n, Case!Part(p))
         \/ volume.disk[n] = "file" /\ ~Case!Explained(n)
         \/ volume.disk[n] = "link" /\ Case!Key(n) \notin Case!Expected
         \/ volume.disk[n] = "directory" /\ ~Case!DirExplained(n)
  <2>1. caseExtra = {Case!Part(p) : p \in {q \in planned : LeftOver(q)}}
                       \cup {m \in Case!ToSet(caseFiles) : ~Case!Explained(m)}
                       \cup {m \in caseOthers : Case!Key(m) \notin Case!Expected}
                       \cup {m \in caseDirs : ~Case!DirExplained(m)}
    BY DEF CaseInv, CategoriesInv
  <2> HIDE DEF Opens
  <2> QED
    BY <1>1, <1>3, <2>1
<1>8. Opens(n, n)
  BY <1>1
<1>9. volume.disk[n] = "file" =>
         \A p \in planned : Opens(n, Case!Part(p)) => Case!HoldsFile(Case!Part(p))
  BY DEF Case!HoldsFile
<1>10. volume.disk[n] = "link" =>
         \A p \in planned : Opens(n, Case!Part(p)) => ~Case!HoldsFile(Case!Part(p))
  <2> SUFFICES ASSUME volume.disk[n] = "link", NEW p \in planned, Opens(n, Case!Part(p)),
                      NEW m \in Case!Answering(Case!Part(p)), volume.disk[m] = "file"
               PROVE  FALSE
    BY DEF Case!HoldsFile
  <2>1. m \in DOMAIN volume.disk /\ Case!Key(m) = Case!Key(n)
    BY KeysRight
  <2>2. m = n
    BY <2>1, KeysRight
  <2> QED
    BY <2>2
<1> HIDE DEF Opens, Reported
<1>11. CASE volume.disk[n] = "file"
  <2>1. \A p \in planned : LeftOver(p) /\ Opens(n, Case!Part(p)) <=> Stale(n, p)
    BY <1>4, <1>9, <1>11
  <2> QED
    BY <1>5, <1>7, <1>11, <2>1
<1>12. CASE volume.disk[n] = "link"
  <2>1. \A p \in planned : ~(LeftOver(p) /\ Opens(n, Case!Part(p)))
    BY <1>4, <1>10, <1>12
  <2> QED
    BY <1>6, <1>7, <1>12, <2>1
<1> QED
  BY <1>11, <1>12

-----------------------------------------------------------------------------
(* The parts of MCCheck side by side *)

PartsInv ==
    /\ focus \in {"check", "case", "date"}
    /\ IF focus = "check" THEN CheckInv ELSE CheckOver
    /\ focus = "case" => CaseInv
    /\ focus = "date" => DateInv

LEMMA PartsStart == PartsInit => PartsInv
<1> SUFFICES ASSUME PartsInit PROVE PartsInv
  OBVIOUS
<1>1. CASE focus = "check" /\ Init
  BY <1>1, InitShape, ReportInit DEF CheckInv, PartsInv
<1>2. CASE focus = "case" /\ Case!Init /\ CheckOver
  BY <1>2, CaseInit DEF PartsInv
<1>3. CASE focus = "date" /\ Date!Init /\ CheckOver
  BY <1>3, DateInit DEF PartsInv
<1> QED
  BY <1>1, <1>2, <1>3 DEF PartsInit

\* What a part says depends on its own variables alone.
LEMMA CheckOverFixed == CheckOver /\ UNCHANGED vars => CheckOver'
<1> SUFFICES ASSUME CheckOver, UNCHANGED vars PROVE CheckOver'
  OBVIOUS
<1>1. UNCHANGED <<list, sized, md5, options, disturbed, disk, running, stage, unread, files,
                  dirs, others, cur, found, extra, xmlMissing, result>>
  BY DEF vars, fixedVars, walkVars, reportVars
<1>2. AllPaths' = AllPaths
  BY <1>1, PathsFixed
<1> QED
  BY <1>1, <1>2 DEF CheckOver

LEMMA CaseFixed == CaseInv /\ UNCHANGED caseVars => CaseInv'
<1> SUFFICES ASSUME CaseInv, UNCHANGED caseVars PROVE CaseInv'
  OBVIOUS
<1>1. UNCHANGED <<volume, planned, caseStage, caseUnread, caseFiles, caseDirs, caseOthers,
                  ci, caseFound, caseExtra>>
  BY DEF caseVars
<1>2. ListingInv'
  BY <1>1 DEF CaseInv, ListingInv, Walked, Case!VolumeOk, Case!ToSet
<1>3. VerdictInv'
  BY <1>1, ProbeableFixed DEF CaseInv, VerdictInv
<1>4. CategoriesInv'
  BY <1>1, ReportFixed DEF CaseInv, CategoriesInv
<1> QED
  BY <1>2, <1>3, <1>4 DEF CaseInv

LEMMA DateFixed == DateInv /\ UNCHANGED dateVars => DateInv'
<1> SUFFICES ASSUME DateInv, UNCHANGED dateVars PROVE DateInv'
  OBVIOUS
<1>1. UNCHANGED <<expected, server, resolution, mtime, last, warned, finding, origins>>
  BY DEF dateVars
<1>2. Date!FromXml' = Date!FromXml /\ \A t : Date!Rounded(t)' = Date!Rounded(t)
  BY <1>1 DEF Date!FromXml, Date!Rounded
<1> QED
  BY <1>1, <1>2 DEF DateInv, TimeInv, FindingInv, Date!NothingIsMadeUp

\* One part moves, the others are as they were.
LEMMA PartsMove ==
    ASSUME PartsInv, [CheckMoves \/ CaseMoves \/ DateMoves]_allVars
    PROVE  /\ focus' = focus
           /\ \/ focus = "check" /\ [Next]_vars
              \/ focus = "case" /\ (Case!Next \/ UNCHANGED caseVars) /\ UNCHANGED vars
              \/ focus = "date" /\ (Date!Next \/ UNCHANGED dateVars) /\ UNCHANGED vars
<1> QED
  BY DEF PartsInv, CheckMoves, CaseMoves, DateMoves, allVars

LEMMA PartsStep ==
    ASSUME PartsInv, [CheckMoves \/ CaseMoves \/ DateMoves]_allVars
    PROVE  PartsInv'
<1>1. CASE focus = "check" /\ focus' = focus /\ [Next]_vars
  <2>1. TypeOK' /\ PlaceInv' /\ CheckInv'
    BY <1>1, ShapeStep, ReportStep DEF PartsInv, CheckInv
  <2> QED
    BY <1>1, <2>1 DEF PartsInv
<1>2. CASE /\ focus = "case" /\ focus' = focus
           /\ (Case!Next \/ UNCHANGED caseVars) /\ UNCHANGED vars
  <2>1. CheckOver' /\ CaseInv'
    BY <1>2, CheckOverFixed, CaseStep, CaseFixed DEF PartsInv
  <2> QED
    BY <1>2, <2>1 DEF PartsInv
<1>3. CASE /\ focus = "date" /\ focus' = focus
           /\ (Date!Next \/ UNCHANGED dateVars) /\ UNCHANGED vars
  <2>1. CheckOver' /\ DateInv'
    BY <1>3, CheckOverFixed, DateStep, DateFixed DEF PartsInv
  <2> QED
    BY <1>3, <2>1 DEF PartsInv
<1> QED
  BY <1>1, <1>2, <1>3, PartsMove

LEMMA PartsInvariance == PartsSpec => []PartsInv
<1> QED
  BY PartsStart, PartsStep, PTL DEF PartsSpec

\* The plan of the check is the same at every step.
LEMMA PlanFixed ==
    ASSUME PartsInv, [CheckMoves \/ CaseMoves \/ DateMoves]_allVars
    PROVE  list' = list
<1>1. [Next]_vars => list' = list
  BY FixedForever DEF fixedVars
<1>2. UNCHANGED vars => list' = list
  BY DEF vars, fixedVars
<1> QED
  BY <1>1, <1>2, PartsMove

\* A verdict of "clean" means that a download would leave the directory alone,
\* with --strict also that nothing else is in it; and the categories and the
\* extras are those the volume gives, whatever its case rule, however large the
\* directory and the plan, if no .part meets another path.
THEOREM ReportExact == PartsSpec /\ PartsApart(list) => []ReportIsExact
<1> DEFINE Inv == PartsInv /\ PartsApart(list)
<1>1. PartsInit /\ PartsApart(list) => Inv
  BY PartsStart
<1>2. Inv /\ [CheckMoves \/ CaseMoves \/ DateMoves]_allVars => Inv'
  BY PartsStep, PlanFixed
<1>3. Inv => ReportIsExact
  <2> SUFFICES ASSUME Inv PROVE ReportIsExact
    OBVIOUS
  <2>1. CleanIsComplete /\ StrictCleanIsExact
    <3>1. CASE focus = "check"
      BY <3>1 DEF PartsInv, CheckInv, ReportInv, EndInv, CleanIsComplete, StrictCleanIsExact
    <3>2. CASE focus # "check"
      BY <3>2 DEF PartsInv, CheckOver, CleanIsComplete, StrictCleanIsExact
    <3> QED
      BY <3>1, <3>2
  <2>2. focus = "case" => Case!CategoryIsRight /\ Case!ExtraIsRight
    BY CategoryFollows, ExtraFollows DEF PartsInv
  <2> QED
    BY <2>1, <2>2 DEF ReportIsExact
<1> QED
  BY <1>1, <1>2, <1>3, PTL DEF PartsSpec

\* The time of a file is one somebody gave to it or published, a run over a file
\* that is there makes --check content with its date or says so, and further
\* runs leave it alone, on volumes of every resolution.
THEOREM DatesRight == PartsSpec => DatesAreRight
<1>1. PartsInv => (focus = "date" => /\ Date!NothingIsMadeUp /\ Date!KeptHasTheDate
                                     /\ Date!DateIsCompared)
  BY DateFollows DEF PartsInv, DateInv
<1>2. PartsInv /\ [CheckMoves \/ CaseMoves \/ DateMoves]_allVars
         => [focus = "date" => Date!Settled]_allVars
  <2> SUFFICES ASSUME PartsInv, CheckMoves \/ CaseMoves \/ DateMoves, focus = "date"
               PROVE  Date!Settled
    OBVIOUS
  <2>1. Date!Next /\ DateInv
    BY DEF PartsInv, CheckMoves, CaseMoves, DateMoves
  <2> QED
    BY <2>1, DateStep
<1> QED
  BY <1>1, <1>2, PartsInvariance, PTL DEF PartsSpec, DatesAreRight

-----------------------------------------------------------------------------
(* Type correctness of all parts *)

\* The walk lists a file once.
CountInv ==
    Len(caseFiles) + Cardinality(DOMAIN volume.disk \ Walked("file"))
        = Cardinality(DOMAIN volume.disk)

\* A volume keeps multiples of its resolution.
KeptInv ==
    /\ server \in Times \cup {NoDate} /\ resolution \in Resolutions /\ warned \in BOOLEAN
    /\ last \in {"nothing", "installed", "kept", "touched"}
    /\ mtime # NoDate => mtime % resolution = 0

LEMMA CountStep == ListingInv /\ CountInv /\ Case!Next => CountInv'
<1> SUFFICES ASSUME ListingInv, CountInv, Case!Next PROVE CountInv'
  OBVIOUS
<1>1. CASE Case!WalkEntry
  <2>1. PICK n \in caseUnread :
           /\ caseUnread' = caseUnread \ {n}
           /\ caseFiles' = IF volume.disk[n] = "file" THEN Append(caseFiles, n) ELSE caseFiles
    BY <1>1 DEF Case!WalkEntry
  <2> DEFINE D == DOMAIN volume.disk
             U == D \ Walked("file")
  <2>2. volume' = volume /\ caseFiles \in Seq(D) /\ IsFiniteSet(D)
    BY <1>1, CaseConstants DEF Case!WalkEntry, ListingInv
  <2>3. n \in U
    BY <2>1 DEF ListingInv, Walked
  <2>4. U' = IF volume.disk[n] = "file" THEN U \ {n} ELSE U
    BY <2>1, <2>2, <2>3 DEF ListingInv, Walked
  <2>5. IsFiniteSet(U)
    BY <2>2, FS_Subset
  <2>6. Cardinality(U) \in Nat /\ Cardinality(U \ {n}) = Cardinality(U) - 1
    BY <2>3, <2>5, FS_CardinalityType, FS_RemoveElement
  <2>7. Len(caseFiles) + Cardinality(U) = Cardinality(D) /\ Len(caseFiles) \in Nat
    BY <2>2 DEF CountInv
  <2>8. volume.disk[n] = "file" => Len(caseFiles') = Len(caseFiles) + 1
    BY <2>1, <2>2, <2>3
  <2>9. Len(caseFiles') + Cardinality(U') = Cardinality(D)
    <3> HIDE DEF D, U
    <3>1. CASE volume.disk[n] = "file"
      BY <2>4, <2>6, <2>7, <2>8, <3>1
    <3>2. CASE volume.disk[n] # "file"
      BY <2>1, <2>4, <2>7, <3>2
    <3> QED
      BY <3>1, <3>2
  <2> QED
    BY <2>2, <2>9 DEF CountInv
<1>2. CASE Case!WalkEnds \/ Case!Probe \/ Case!Classify \/ Case!Leftovers
  <2>1. UNCHANGED <<volume, caseFiles, caseUnread>>
    BY <1>2 DEF Case!WalkEnds, Case!Probe, Case!Classify, Case!Leftovers
  <2> QED
    BY <2>1 DEF CountInv, Walked
<1> QED
  BY <1>1, <1>2 DEF Case!Next

LEMMA CaseTypes == CaseInv /\ CountInv => Case!TypeOK
<1> SUFFICES ASSUME CaseInv, CountInv PROVE Case!TypeOK
  OBVIOUS
<1>1. ListingInv
  BY DEF CaseInv
<1>2. /\ caseUnread \cup Case!ToSet(caseFiles) \cup caseDirs \cup caseOthers
             = DOMAIN volume.disk
      /\ caseUnread \cup caseDirs \cup caseOthers = DOMAIN volume.disk \ Walked("file")
  BY <1>1 DEF ListingInv, Walked, Case!VolumeOk, Case!Kinds
<1>3. \A p \in DOMAIN caseFound : caseFound[p] \in Case!Categories
  BY DEF CaseInv, CategoriesInv, Case!Category, Case!Absent, Case!Present, Case!Categories
<1>4. \A n \in caseExtra : n \in DOMAIN volume.disk \/ n \in {Case!Part(p) : p \in planned}
  <2>1. /\ Case!ToSet(caseFiles) \subseteq DOMAIN volume.disk
        /\ caseDirs \subseteq DOMAIN volume.disk /\ caseOthers \subseteq DOMAIN volume.disk
    BY <1>2
  <2>2. caseStage \in {"walk", "probe", "classify", "done"}
    BY <1>1 DEF ListingInv
  <2> QED
    BY <2>1, <2>2 DEF CaseInv, CategoriesInv
<1> QED
  BY <1>1, <1>2, <1>3, <1>4, SameCount
  DEF CaseInv, CategoriesInv, ListingInv, CountInv, Case!TypeOK

LEMMA RoundedIsKept ==
    ASSUME NEW r \in Nat \ {0}, NEW t \in Int
    PROVE  (t - (t % r)) % r = 0
  OBVIOUS

LEMMA KeptStep == TimeInv /\ KeptInv /\ Date!Next => KeptInv'
<1> SUFFICES ASSUME TimeInv, KeptInv, Date!Next PROVE KeptInv'
  OBVIOUS
<1>0. \A t \in Int : Date!Rounded(t) % resolution = 0
  BY RoundedIsKept DEF TimeInv, Date!Rounded
<1>1. ASSUME NEW current \in Int, current % resolution = 0,
             NEW target \in Int \cup {NoDate}, Date!Synced(current, target)
      PROVE  mtime' % resolution = 0 /\ warned' \in BOOLEAN
  BY <1>0, <1>1, SyncedGives
<1>2. CASE Date!Install
  <2>1. PICK written \in Times :
           Date!Synced(Date!Rounded(written), IF server # NoDate THEN server ELSE Date!FromXml)
    BY <1>2 DEF Date!Install
  <2>2. written \in Int /\ Date!Rounded(written) \in Int
    BY DateConstants, RoundedIsInt
  <2>3. (IF server # NoDate THEN server ELSE Date!FromXml) \in Int \cup {NoDate}
    BY FromXmlIs DEF TimeInv
  <2>4. mtime' % resolution = 0 /\ warned' \in BOOLEAN
    BY <1>0, <1>1, <2>1, <2>2, <2>3
  <2> QED
    BY <1>2, <2>4 DEF Date!Install, KeptInv
<1>3. CASE Date!Keep
  <2>1. mtime \in Int /\ mtime % resolution = 0 /\ Date!FromXml \in Int \cup {NoDate}
    BY <1>3, FromXmlIs DEF Date!Keep, KeptInv, TimeInv
  <2>2. mtime' % resolution = 0 /\ warned' \in BOOLEAN
    BY <1>1, <1>3, <2>1 DEF Date!Keep
  <2> QED
    BY <1>3, <2>2 DEF Date!Keep, KeptInv
<1>4. CASE Date!CheckDate
  BY <1>4 DEF Date!CheckDate, KeptInv
<1>5. CASE Date!Touch
  <2>1. mtime' % resolution = 0
    BY <1>0, <1>5, DateConstants DEF Date!Touch
  <2> QED
    BY <1>5, <2>1 DEF Date!Touch, KeptInv
<1>6. CASE Date!Remove
  BY <1>6 DEF Date!Remove, KeptInv
<1> QED
  BY <1>2, <1>3, <1>4, <1>5, <1>6 DEF Date!Next

\* Every variable of every part keeps its type; the walk loses no entry and
\* finds none twice, and the volume keeps no time it cannot represent.
THEOREM PartsTypeCorrect == PartsSpec => []PartsTypeOK
<1> DEFINE Inv == /\ PartsInv
                  /\ focus = "case" => CountInv
                  /\ focus = "date" => KeptInv
<1>1. PartsInit => Inv
  <2> SUFFICES ASSUME PartsInit PROVE (focus = "case" => CountInv) /\ (focus = "date" => KeptInv)
    BY PartsStart
  <2>1. CASE focus = "case" /\ Case!Init
    <3>1. caseFiles = <<>> /\ caseUnread = DOMAIN volume.disk /\ IsFiniteSet(DOMAIN volume.disk)
      BY <2>1, CaseConstants DEF Case!Init
    <3>2. Len(caseFiles) = 0 /\ Cardinality(DOMAIN volume.disk) \in Nat
      BY <3>1, FS_CardinalityType
    <3>3. DOMAIN volume.disk \ Walked("file") = DOMAIN volume.disk
      BY <3>1 DEF Walked
    <3>4. Cardinality(DOMAIN volume.disk \ Walked("file")) = Cardinality(DOMAIN volume.disk)
      BY <3>3
    <3>5. CountInv
      <4> DEFINE c == Cardinality(DOMAIN volume.disk)
                 k == Cardinality(DOMAIN volume.disk \ Walked("file"))
                 l == Len(caseFiles)
      <4>1. k = c /\ l = 0 /\ c \in Nat
        BY <3>2, <3>4
      <4> HIDE DEF c, k, l
      <4>2. l + k = c
        BY <4>1
      <4> QED
        BY <4>2 DEF CountInv, c, k, l
    <3> QED
      BY <2>1, <3>5
  <2>2. CASE focus = "date" /\ Date!Init
    BY <2>2 DEF Date!Init, KeptInv
  <2>3. CASE focus = "check"
    BY <2>3
  <2> QED
    BY <2>1, <2>2, <2>3 DEF PartsInit
<1>2. Inv /\ [CheckMoves \/ CaseMoves \/ DateMoves]_allVars => Inv'
  <2> SUFFICES ASSUME Inv, [CheckMoves \/ CaseMoves \/ DateMoves]_allVars
               PROVE  (focus = "case" => CountInv') /\ (focus = "date" => KeptInv')
    BY PartsStep, PartsMove
  <2>1. ASSUME focus = "case" PROVE CountInv'
    <3>1. CASE Case!Next
      BY <2>1, <3>1, CountStep DEF PartsInv, CaseInv
    <3>2. CASE UNCHANGED caseVars
      BY <2>1, <3>2 DEF caseVars, CountInv, Walked
    <3> QED
      BY <2>1, <3>1, <3>2, PartsMove
  <2>2. ASSUME focus = "date" PROVE KeptInv'
    <3>1. CASE Date!Next
      BY <2>2, <3>1, KeptStep DEF PartsInv, DateInv
    <3>2. CASE UNCHANGED dateVars
      BY <2>2, <3>2 DEF dateVars, KeptInv
    <3> QED
      BY <2>2, <3>1, <3>2, PartsMove
  <2> QED
    BY <2>1, <2>2
<1>3. Inv => PartsTypeOK
  <2> SUFFICES ASSUME Inv PROVE PartsTypeOK
    OBVIOUS
  <2>1. focus = "check" => TypeOK
    BY DEF PartsInv, CheckInv
  <2>2. focus = "case" => Case!TypeOK
    BY CaseTypes DEF PartsInv
  <2>3. focus = "date" => Date!TypeOK
    <3> SUFFICES ASSUME focus = "date" PROVE Date!TypeOK
      OBVIOUS
    <3>1. TimeInv /\ FindingInv /\ KeptInv
      BY DEF PartsInv, DateInv
    <3> QED
      BY <3>1 DEF TimeInv, FindingInv, KeptInv, Date!TypeOK
  <2> QED
    BY <2>1, <2>2, <2>3 DEF PartsTypeOK
<1> QED
  BY <1>1, <1>2, <1>3, PTL DEF PartsSpec
=============================================================================
