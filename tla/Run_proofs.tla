----------------------------- MODULE Run_proofs -----------------------------
(***************************************************************************)
(* Theorems about the program as a whole, and about the space it needs.    *)
(*                                                                         *)
(* The program, for every item, any number of its versions and any number  *)
(* of runs: what a run may write, what its exit code says, and what the    *)
(* document and a later check say of the files. The steps of Run are taken *)
(* by what they are part of; each part of the invariant is kept by each of *)
(* these groups.                                                           *)
(*                                                                         *)
(* The disk-space estimate, for every plan, whatever lies at its paths,    *)
(* and every volume: the run's books, kept file by file.                   *)
(***************************************************************************)
EXTENDS MCRun, TLAPS, WellFoundedInduction, SequenceTheorems

FetchStep == Begin \/ Settings \/ HeadRequest \/ GetFails \/ Get \/ List
CheckStep == Probe \/ Verify \/ VerifyStopped
SaveStep  == Output \/ Plan \/ Space \/ SaveTruncates \/ SaveFails \/ SaveWrites \/ Ready
BatchStep == (\E f \in Files : RemoveStale(f) \/ BatchFile(f)) \/ BatchEnds \/ BatchStops
UserStep  == Press \/ Kill \/ Edit \/ Withdraw

\* The stages of a download after a step that may end it
Saving   == {"save", "write", "ready", "batch"}
Planning == {"space"} \cup Saving
Writing  == {"output"} \cup Planning
Asking   == {"settings", "head", "get"}
Known    == {"list", "probe", "plan", "verify"} \cup Writing

\* Each mode goes its own way, and a step that is behind has not failed.
ControlInv ==
    /\ options.mode \in Modes
    /\ stage = "list" => options.mode = "list"
    /\ stage \in {"probe", "verify"} => options.mode = "check"
    /\ stage = "plan" => options.mode # "list"
    /\ stage \in Writing => options.mode = "download"
    /\ stage \in {"head", "get"} \cup Known => options.fault # "settings"
    /\ stage \in {"plan"} \cup Planning => options.fault # "output"
    /\ stage \in Planning => options.fault # "plan"
    /\ stage \in Saving => options.fault # "space"

\* The spinner turns until a run has something to say.
SpinnerInv ==
    /\ stage \in Asking \cup {"list", "probe", "output", "plan", "space", "save", "write",
                  "ready"} => spinner = TRUE
    /\ exit = "error" => printed = TRUE

\* No file is newer than what a run that is about to download knows.
VersionInv ==
    /\ latest \in Versions /\ server \in {0, latest}
    /\ fetched \in Nat /\ fetched <= latest
    /\ data \in [Files -> Nat]
    /\ \A f \in Files : data[f] <= latest
    /\ stage \in Asking => fetched = 0
    /\ stage \in Known => fetched # 0 /\ \A f \in Files : data[f] <= fetched

\* What the batch has behind it is there; of a whole item, the document too.
BatchInv ==
    /\ stage \in {"ready", "batch"} /\ options.whole => xml = fetched
    /\ stage = "batch" =>
          /\ \A f \in Planned \ (todo \cup failed) : data[f] = fetched
          /\ options.whole \/ mixed

\* What a whole-item run has downloaded stays until the next download.
GoodInv ==
    /\ stage \in Planning \/ (stage = "plan" /\ options.mode = "download") =>
          good = 0 /\ dir
    /\ good # 0 => /\ good \in Nat /\ xml = good /\ dir
                   /\ \A f \in Files : data[f] = good

RunInv == /\ ControlInv /\ SpinnerInv /\ VersionInv /\ BatchInv /\ GoodInv
          /\ DiskLeftAlone /\ SuccessMeansAll /\ DocumentIsNotBehind /\ CheckAgrees

LEMMA StepGroups == Next <=> FetchStep \/ CheckStep \/ SaveStep \/ BatchStep \/ UserStep
BY DEF Next, FetchStep, CheckStep, SaveStep, BatchStep, UserStep

\* The way of a run through its stages.
LEMMA ControlKept == ControlInv /\ [Next]_vars => ControlInv'
<1> SUFFICES ASSUME ControlInv, [Next]_vars PROVE ControlInv'
  OBVIOUS
<1>1. CASE FetchStep
  BY <1>1
  DEF ControlInv, Modes, Saving, Planning, Writing, Known, Fails, Goes, Ends,
      runVars, FetchStep, Begin, Settings, HeadRequest, GetFails, Get, Branch, List
<1>2. CASE CheckStep
  BY <1>2
  DEF ControlInv, Saving, Planning, Writing, Known, Fails, Goes, Ends,
      runVars, CheckStep, Probe, Verify, VerifyStopped
<1>3. CASE SaveStep
  BY <1>3
  DEF ControlInv, Saving, Planning, Writing, Known, Fails, Goes, runVars,
      SaveStep, Output, BeginsDownload, Plan, Space, SaveTruncates, SaveFails,
      SaveWrites, Ready
<1>4. CASE BatchStep
  BY <1>4
  DEF ControlInv, Saving, Planning, Writing, Known, Ends, runVars, BatchStep,
      RemoveStale, BatchFile, BatchEnds, BatchStops
<1>5. CASE UserStep
  BY <1>5
  DEF ControlInv, Saving, Planning, Writing, Known, runVars, UserStep, Press,
      Kill, Edit, Withdraw
<1>6. CASE UNCHANGED vars
  BY <1>6 DEF ControlInv, runVars, vars
<1> QED
  BY <1>1, <1>2, <1>3, <1>4, <1>5, <1>6, StepGroups

\* The spinner, and the line that says why a run fails.
LEMMA SpinnerKept == SpinnerInv /\ [Next]_vars => SpinnerInv'
<1> SUFFICES ASSUME SpinnerInv, [Next]_vars PROVE SpinnerInv'
  OBVIOUS
<1>1. CASE FetchStep
  BY <1>1
  DEF SpinnerInv, Asking, Fails, Goes, Ends, runVars, FetchStep, Begin,
      Settings, HeadRequest, GetFails, Get, Branch, List
<1>2. CASE CheckStep
  BY <1>2
  DEF SpinnerInv, Asking, Fails, Goes, Ends, runVars, CheckStep, Probe,
      Verify, VerifyStopped
<1>3. CASE SaveStep
  BY <1>3
  DEF SpinnerInv, Asking, Fails, Goes, runVars, SaveStep, Output,
      BeginsDownload, Plan, Space, SaveTruncates, SaveFails, SaveWrites, Ready
<1>4. CASE BatchStep
  BY <1>4
  DEF SpinnerInv, Asking, Ends, runVars, BatchStep, RemoveStale, BatchFile,
      BatchEnds, BatchStops
<1>5. CASE UserStep
  BY <1>5 DEF SpinnerInv, Asking, runVars, UserStep, Press, Kill, Edit, Withdraw
<1>6. CASE UNCHANGED vars
  BY <1>6 DEF SpinnerInv, runVars, vars
<1> QED
  BY <1>1, <1>2, <1>3, <1>4, <1>5, <1>6, StepGroups

\* The versions of item, document and files.
LEMMA VersionKept == ControlInv /\ VersionInv /\ [Next]_vars => VersionInv'
<1> SUFFICES ASSUME ControlInv, VersionInv, [Next]_vars PROVE VersionInv'
  OBVIOUS
<1>1. CASE FetchStep
  BY <1>1
  DEF ControlInv, VersionInv, Versions, Modes, Asking, Known, Saving,
      Planning, Writing, Fails, Goes, Ends, runVars, Quiet, diskVars,
      FetchStep, Begin, Settings, HeadRequest, GetFails, Get, Branch, List
<1>2. CASE CheckStep
  BY <1>2
  DEF VersionInv, Asking, Known, Fails, Goes, Ends, runVars, Quiet, diskVars,
      CheckStep, Probe, Verify, VerifyStopped
<1>3. CASE SaveStep
  BY <1>3
  DEF VersionInv, Asking, Known, Saving, Planning, Writing, Fails, Goes,
      runVars, Quiet, diskVars, SaveStep, Output, BeginsDownload, Plan, Space,
      SaveTruncates, SaveFails, SaveWrites, Ready
<1>4. CASE BatchStep
  BY <1>4
  DEF VersionInv, Versions, Asking, Known, Saving, Planning, Writing, Ends,
      runVars, Quiet, diskVars, BatchStep, RemoveStale, BatchFile, BatchEnds,
      BatchStops
<1>5. CASE UserStep
  BY <1>5, BoundsAssumption
  DEF VersionInv, Versions, Asking, Known, Saving, Planning, Writing, runVars,
      diskVars, UserStep, Press, Kill, Edit, Withdraw
<1>6. CASE UNCHANGED vars
  BY <1>6 DEF VersionInv, runVars, diskVars, vars
<1> QED
  BY <1>1, <1>2, <1>3, <1>4, <1>5, <1>6, StepGroups

\* What the batch has done.
LEMMA BatchKept ==
    ControlInv /\ VersionInv /\ BatchInv /\ [Next]_vars => BatchInv'
<1> SUFFICES ASSUME ControlInv, VersionInv, BatchInv, [Next]_vars PROVE BatchInv'
  OBVIOUS
<1>1. CASE FetchStep
  BY <1>1
  DEF ControlInv, BatchInv, Modes, Fails, Goes, Ends, FetchStep, Begin,
      Settings, HeadRequest, GetFails, Get, Branch, List
<1>2. CASE CheckStep
  BY <1>2
  DEF BatchInv, Fails, Goes, Ends, CheckStep, Probe, Verify, VerifyStopped
<1>3. CASE SaveStep
  BY <1>3
  DEF BatchInv, Planned, Fails, Goes, runVars, diskVars, SaveStep, Output,
      BeginsDownload, Plan, Space, SaveTruncates, SaveFails, SaveWrites, Ready
<1>4. CASE BatchStep
  <2>1. ASSUME NEW f \in Files, RemoveStale(f) PROVE BatchInv'
    BY <2>1 DEF BatchInv, RemoveStale, Planned, runVars, histVars
  <2>2. ASSUME NEW f \in Files, BatchFile(f) PROVE BatchInv'
    BY <2>2, SingleAssumption
    DEF BatchInv, VersionInv, BatchFile, Planned, histVars
  <2>3. CASE BatchEnds \/ BatchStops
    BY <2>3 DEF BatchInv, BatchEnds, BatchStops, Ends
  <2> QED
    BY <1>4, <2>1, <2>2, <2>3 DEF BatchStep
<1>5. CASE UserStep
  BY <1>5
  DEF BatchInv, Planned, runVars, diskVars, histVars, UserStep, Press, Kill,
      Edit, Withdraw
<1>6. CASE UNCHANGED vars
  BY <1>6 DEF BatchInv, Planned, runVars, diskVars, histVars, vars
<1> QED
  BY <1>1, <1>2, <1>3, <1>4, <1>5, <1>6, StepGroups

\* What a whole-item run leaves.
LEMMA GoodKept ==
    ControlInv /\ VersionInv /\ BatchInv /\ GoodInv /\ [Next]_vars => GoodInv'
<1> SUFFICES ASSUME ControlInv, VersionInv, BatchInv, GoodInv, [Next]_vars
             PROVE  GoodInv'
  OBVIOUS
<1>1. CASE FetchStep
  BY <1>1
  DEF ControlInv, GoodInv, Modes, Saving, Planning, Fails, Goes, Ends, Quiet,
      diskVars, histVars, FetchStep, Begin, Settings, HeadRequest, GetFails, Get,
      Branch, List
<1>2. CASE CheckStep
  BY <1>2
  DEF ControlInv, GoodInv, Saving, Planning, Fails, Goes, Ends, runVars,
      Quiet, diskVars, histVars, CheckStep, Probe, Verify, VerifyStopped
<1>3. CASE SaveStep
  BY <1>3
  DEF GoodInv, Saving, Planning, Fails, Quiet, diskVars, histVars, SaveStep,
      Output, BeginsDownload, Plan, Space, SaveTruncates, SaveFails,
      SaveWrites, Ready
<1>4. CASE BatchStep
  BY <1>4
  DEF VersionInv, BatchInv, GoodInv, Planned, Saving, Planning, Ends, Quiet,
      diskVars, histVars, BatchStep, RemoveStale, BatchFile, BatchEnds,
      BatchStops
<1>5. CASE UserStep
  BY <1>5
  DEF GoodInv, Saving, Planning, runVars, diskVars, histVars, UserStep, Press,
      Kill, Edit, Withdraw
<1>6. CASE UNCHANGED vars
  BY <1>6 DEF GoodInv, runVars, diskVars, histVars, vars
<1> QED
  BY <1>1, <1>2, <1>3, <1>4, <1>5, <1>6, StepGroups

\* What a run may write, and when.
LEMMA DiskKept == ControlInv /\ DiskLeftAlone /\ [Next]_vars => DiskLeftAlone'
<1> SUFFICES ASSUME ControlInv, DiskLeftAlone, [Next]_vars PROVE DiskLeftAlone'
  OBVIOUS
<1>1. CASE FetchStep
  BY <1>1
  DEF DiskLeftAlone, ReadOnly, NothingBeforeItFits, OnDisk, Fails, Goes, Ends,
      runVars, Quiet, diskVars, histVars, FetchStep, Begin, Settings, HeadRequest,
      GetFails, Get, Branch, List
<1>2. CASE CheckStep
  BY <1>2
  DEF DiskLeftAlone, ReadOnly, NothingBeforeItFits, OnDisk, Fails, Goes, Ends,
      runVars, Quiet, diskVars, histVars, CheckStep, Probe, Verify,
      VerifyStopped
<1>3. CASE SaveStep
  BY <1>3
  DEF ControlInv, DiskLeftAlone, ReadOnly, NothingBeforeItFits, OnDisk, Known,
      Saving, Planning, Writing, Fails, Goes, runVars, Quiet, diskVars,
      histVars, SaveStep, Output, BeginsDownload, Plan, Space, SaveTruncates,
      SaveFails, SaveWrites, Ready
<1>4. CASE BatchStep
  BY <1>4
  DEF ControlInv, DiskLeftAlone, ReadOnly, NothingBeforeItFits, Known, Saving,
      Planning, Writing, Ends, runVars, BatchStep, RemoveStale, BatchFile,
      BatchEnds, BatchStops
<1>5. CASE UserStep
  BY <1>5
  DEF DiskLeftAlone, ReadOnly, NothingBeforeItFits, OnDisk, runVars, diskVars,
      histVars, UserStep, Press, Kill, Edit, Withdraw
<1>6. CASE UNCHANGED vars
  BY <1>6
  DEF DiskLeftAlone, ReadOnly, NothingBeforeItFits, OnDisk, runVars, diskVars,
      histVars, vars
<1> QED
  BY <1>1, <1>2, <1>3, <1>4, <1>5, <1>6, StepGroups

\* What exit code 0 says.
LEMMA SuccessKept ==
    ControlInv /\ BatchInv /\ SuccessMeansAll /\ [Next]_vars => SuccessMeansAll'
<1> SUFFICES ASSUME ControlInv, BatchInv, SuccessMeansAll, [Next]_vars
             PROVE  SuccessMeansAll'
  OBVIOUS
<1>1. CASE FetchStep
  BY <1>1
  DEF ControlInv, SuccessMeansAll, Fails, Goes, Ends, FetchStep, Begin,
      Settings, HeadRequest, GetFails, Get, Branch, List
<1>2. CASE CheckStep
  BY <1>2
  DEF ControlInv, SuccessMeansAll, Fails, Goes, Ends, CheckStep, Probe,
      Verify, VerifyStopped
<1>3. CASE SaveStep
  BY <1>3
  DEF SuccessMeansAll, Fails, Goes, SaveStep, Output, BeginsDownload, Plan,
      Space, SaveTruncates, SaveFails, SaveWrites, Ready
<1>4. CASE BatchStep
  BY <1>4
  DEF BatchInv, SuccessMeansAll, Planned, Ends, diskVars, BatchStep,
      RemoveStale, BatchFile, BatchEnds, BatchStops
<1>5. CASE UserStep
  BY <1>5
  DEF SuccessMeansAll, Planned, runVars, diskVars, UserStep, Press, Kill,
      Edit, Withdraw
<1>6. CASE UNCHANGED vars
  BY <1>6 DEF SuccessMeansAll, Planned, runVars, diskVars, vars
<1> QED
  BY <1>1, <1>2, <1>3, <1>4, <1>5, <1>6, StepGroups

\* The document and the files.
LEMMA DocumentKept ==
    VersionInv /\ BatchInv /\ DocumentIsNotBehind /\ [Next]_vars => DocumentIsNotBehind'
<1> SUFFICES ASSUME VersionInv, BatchInv, DocumentIsNotBehind, [Next]_vars
             PROVE  DocumentIsNotBehind'
  OBVIOUS
<1>1. CASE FetchStep
  BY <1>1
  DEF DocumentIsNotBehind, Quiet, diskVars, histVars, FetchStep, Begin,
      Settings, HeadRequest, GetFails, Get, Branch, List
<1>2. CASE CheckStep
  BY <1>2
  DEF DocumentIsNotBehind, Quiet, diskVars, histVars, CheckStep, Probe,
      Verify, VerifyStopped
<1>3. CASE SaveStep
  <2>1. CASE SaveWrites
    <3>1. fetched \in Versions /\ \A f \in Files : data[f] <= fetched
      BY <2>1, BoundsAssumption
      DEF SaveWrites, VersionInv, Versions, Known, Writing, Planning, Saving
    <3>2. xml' = fetched /\ data' = data
      BY <2>1 DEF SaveWrites
    <3> QED
      BY <3>1, <3>2 DEF DocumentIsNotBehind
  <2>2. CASE SaveTruncates
    BY <2>2 DEF SaveTruncates, DocumentIsNotBehind
  <2>3. CASE Ready
    <3>1. xml' = xml /\ data' = data /\ (~mixed' => ~mixed)
      BY <2>3 DEF Ready, diskVars
    <3> QED
      BY <3>1 DEF DocumentIsNotBehind
  <2>4. CASE Output \/ Plan \/ Space \/ SaveFails
    BY <2>4
    DEF DocumentIsNotBehind, Output, BeginsDownload, Plan, Space, SaveFails,
        Quiet, diskVars, histVars
  <2> QED
    BY <1>3, <2>1, <2>2, <2>3, <2>4 DEF SaveStep
<1>4. CASE BatchStep
  BY <1>4
  DEF VersionInv, BatchInv, DocumentIsNotBehind, Quiet, diskVars, histVars,
      BatchStep, RemoveStale, BatchFile, BatchEnds, BatchStops
<1>5. CASE UserStep
  BY <1>5
  DEF DocumentIsNotBehind, diskVars, histVars, UserStep, Press, Kill, Edit,
      Withdraw
<1>6. CASE UNCHANGED vars
  BY <1>6 DEF DocumentIsNotBehind, diskVars, histVars, vars
<1> QED
  BY <1>1, <1>2, <1>3, <1>4, <1>5, <1>6, StepGroups

\* A check after a download.
LEMMA CheckKept ==
    ControlInv /\ VersionInv /\ GoodInv /\ CheckAgrees /\ [Next]_vars => CheckAgrees'
<1> SUFFICES ASSUME ControlInv, VersionInv, GoodInv, CheckAgrees, [Next]_vars
             PROVE  CheckAgrees'
  OBVIOUS
<1>1. CASE FetchStep
  BY <1>1
  DEF VersionInv, CheckAgrees, Asking, Fails, Goes, Ends, FetchStep, Begin,
      Settings, HeadRequest, GetFails, Get, Branch, List
<1>2. CASE CheckStep
  BY <1>2, DocumentAssumption, SingleAssumption
  DEF GoodInv, CheckAgrees, Conforms, Planned, Fails, Goes, Ends, Quiet,
      histVars, CheckStep, Probe, Verify, VerifyStopped
<1>3. CASE SaveStep
  BY <1>3
  DEF GoodInv, CheckAgrees, Saving, Planning, Fails, Quiet, histVars,
      SaveStep, Output, BeginsDownload, Plan, Space, SaveTruncates, SaveFails,
      SaveWrites, Ready
<1>4. CASE BatchStep
  BY <1>4
  DEF GoodInv, CheckAgrees, Saving, Planning, Ends, Quiet, histVars,
      BatchStep, RemoveStale, BatchFile, BatchEnds, BatchStops
<1>5. CASE UserStep
  BY <1>5
  DEF CheckAgrees, runVars, histVars, UserStep, Press, Kill, Edit, Withdraw
<1>6. CASE UNCHANGED vars
  BY <1>6 DEF CheckAgrees, runVars, histVars, vars
<1> QED
  BY <1>1, <1>2, <1>3, <1>4, <1>5, <1>6, StepGroups
-----------------------------------------------------------------------------
(* The invariant of a sequence of runs, and what follows from it *)

LEMMA InitEstablishes == Init => RunInv
<1> SUFFICES ASSUME Init PROVE RunInv
  OBVIOUS
<1>1. ControlInv /\ SpinnerInv
  BY DEF Init, ControlInv, SpinnerInv, Modes, Saving, Planning, Writing,
         Asking
<1>2. VersionInv
  BY BoundsAssumption
  DEF Init, VersionInv, Versions, Saving, Planning, Writing, Known
<1>3. BatchInv /\ GoodInv
  BY DEF Init, BatchInv, GoodInv, Saving, Planning
<1>4. DiskLeftAlone /\ SuccessMeansAll /\ DocumentIsNotBehind /\ CheckAgrees
  BY DEF Init, DiskLeftAlone, ReadOnly, NothingBeforeItFits, SuccessMeansAll,
         DocumentIsNotBehind, CheckAgrees
<1> QED
  BY <1>1, <1>2, <1>3, <1>4 DEF RunInv

LEMMA RunInvKept == RunInv /\ [Next]_vars => RunInv'
BY ControlKept, SpinnerKept, VersionKept, BatchKept, GoodKept, DiskKept,
   SuccessKept, DocumentKept, CheckKept
DEF RunInv

LEMMA RunInvariant == Spec => []RunInv
BY InitEstablishes, RunInvKept, PTL DEF Spec

\* --list and --check write nothing, and a download writes nothing before the
\* plan is known to fit (run and run_check in src/src/main.rs).
THEOREM LeavesDiskAlone == Spec => []DiskLeftAlone
<1>1. RunInv => DiskLeftAlone
  BY DEF RunInv
<1> QED
  BY RunInvariant, <1>1, PTL

\* Exit code 0 of a download means that every planned file, and the document of
\* a whole item, are there as this run's metadata describes them; exit code 1
\* never comes without a line on the screen (main in src/src/main.rs).
THEOREM ExitCodeIsTrue == Spec => []ExitIsTrue
<1>1. RunInv => ExitIsTrue
  BY DEF RunInv, SpinnerInv, ExitIsTrue, FailureIsSaid
<1> QED
  BY RunInvariant, <1>1, PTL

\* If only whole items are downloaded, the document is never older than a file,
\* over all crashes and edits (the save before the batch in src/src/main.rs).
THEOREM DocumentIsCurrent == Spec => []DocumentIsNotBehind
<1>1. RunInv => DocumentIsNotBehind
  BY DEF RunInv
<1> QED
  BY RunInvariant, <1>1, PTL

\* What a successful whole-item download leaves, a --check of the same version
\* agrees with until the next download (run_check in src/src/main.rs).
THEOREM CheckAgreesWithDownload == Spec => []CheckAgrees
<1>1. RunInv => CheckAgrees
  BY DEF RunInv
<1> QED
  BY RunInvariant, <1>1, PTL

-----------------------------------------------------------------------------
(* Types *)

\* What the types of the rest depend on
ShapeInv ==
    /\ dir \in BOOLEAN /\ xml \in {Absent, Link, Torn} \cup Versions
    /\ stage \in {"idle", "settings", "head", "get", "list", "probe", "verify", "output",
                  "plan", "space", "save", "write", "ready", "batch"}
    /\ exit \in {"none", "ok", "error", "killed"}
    /\ {spinner, running, printed, mixed} \subseteq BOOLEAN
    /\ todo \cup failed \subseteq Planned
    /\ xml \in {Torn} \cup Versions \/ (\E f \in Files : data[f] # 0) => dir

RunsInv == runs \in 0..MaxRuns

LEMMA RunsKept == RunsInv /\ [Next]_vars => RunsInv'
<1> SUFFICES ASSUME RunsInv, [Next]_vars PROVE RunsInv'
  OBVIOUS
<1>1. runs' = runs \/ (runs < MaxRuns /\ runs' = runs + 1)
  BY DEF Next, vars, histVars, Quiet, Begin, Settings, HeadRequest, GetFails, Get, List,
         Probe, Verify, VerifyStopped, Output, BeginsDownload, Plan, Space,
         SaveTruncates, SaveFails, SaveWrites, Ready, RemoveStale, BatchFile, BatchEnds,
         BatchStops, Press, Kill, Edit, Withdraw
<1> QED
  BY <1>1, BoundsAssumption DEF RunsInv

LEMMA ShapeKept == RunInv /\ ShapeInv /\ [Next]_vars => ShapeInv'
<1> SUFFICES ASSUME RunInv, ShapeInv, [Next]_vars PROVE ShapeInv'
  OBVIOUS
<1> USE DEF RunInv
<1>1. CASE FetchStep
  <2>1. CASE Begin
    BY <2>1 DEF ShapeInv, Begin, Planned, diskVars
  <2>2. CASE Get
    BY <2>2 DEF ControlInv, ShapeInv, Modes, Planned, Quiet, diskVars, histVars, Get, Branch
  <2>3. CASE Settings \/ HeadRequest \/ GetFails \/ List
    BY <2>3
    DEF ShapeInv, Planned, Fails, Goes, Ends, runVars, Quiet, diskVars, histVars,
        Settings, HeadRequest, GetFails, List
  <2> QED
    BY <1>1, <2>1, <2>2, <2>3 DEF FetchStep
<1>2. CASE CheckStep
  BY <1>2
  DEF ShapeInv, Planned, Fails, Goes, Ends, runVars, Quiet, diskVars,
      histVars, CheckStep, Probe, Verify, VerifyStopped
<1>3. CASE SaveStep
  <2>1. stage \in Known => fetched \in Versions
    BY BoundsAssumption DEF VersionInv, Versions
  <2> QED
    BY <1>3, <2>1
    DEF ControlInv, GoodInv, ShapeInv, Known, Saving, Planning, Writing,
        Planned, Fails, Goes, runVars, Quiet, diskVars, histVars, SaveStep, Output,
        BeginsDownload, Plan, Space, SaveTruncates, SaveFails, SaveWrites, Ready
<1>4. CASE BatchStep
  BY <1>4
  DEF VersionInv, GoodInv, ShapeInv, Known, Saving, Planning, Writing,
      Planned, Ends, runVars, Quiet, diskVars, histVars, BatchStep, RemoveStale,
      BatchFile, BatchEnds, BatchStops
<1>5. CASE UserStep
  BY <1>5
  DEF ShapeInv, Planned, runVars, diskVars, histVars, UserStep,
      Press, Kill, Edit, Withdraw
<1>6. CASE UNCHANGED vars
  BY <1>6 DEF ShapeInv, Planned, runVars, diskVars, histVars, vars
<1> QED
  BY <1>1, <1>2, <1>3, <1>4, <1>5, <1>6, StepGroups

LEMMA InitShape == Init => ShapeInv /\ RunsInv
<1> SUFFICES ASSUME Init PROVE ShapeInv /\ RunsInv
  OBVIOUS
<1>1. ShapeInv
  <2>1. /\ dir \in BOOLEAN /\ xml \in {Absent, Link, Torn} \cup Versions
        /\ stage = "idle" /\ exit = "none"
        /\ {spinner, running, printed, mixed} \subseteq BOOLEAN
        /\ todo \cup failed \subseteq Planned
    BY DEF Init
  <2>2. (xml \notin {Torn} \cup Versions \/ dir) /\ \A f \in Files : data[f] = 0
    <3>1. Absent \notin Versions /\ Link \notin Versions
      BY DocumentAssumption, BoundsAssumption DEF Versions
    <3> QED
      BY <3>1, DocumentAssumption DEF Init
  <2> QED
    BY <2>1, <2>2 DEF ShapeInv
<1>2. RunsInv
  BY BoundsAssumption DEF Init, RunsInv
<1> QED
  BY <1>1, <1>2

LEMMA TypesHold == RunInv /\ ShapeInv /\ RunsInv => TypeOK
<1> SUFFICES ASSUME RunInv, ShapeInv, RunsInv PROVE TypeOK
  OBVIOUS
<1>1. /\ server \in 0..latest /\ latest \in Versions
      /\ fetched \in 0..latest
  BY BoundsAssumption DEF RunInv, VersionInv, Versions
<1>2. data \in [Files -> {0} \cup Versions]
  BY BoundsAssumption DEF RunInv, VersionInv, Versions
<1>3. good \in 0..latest
  BY SingleAssumption, BoundsAssumption DEF RunInv, GoodInv, VersionInv, Versions
<1> QED
  BY <1>1, <1>2, <1>3 DEF ShapeInv, RunsInv, TypeOK
-----------------------------------------------------------------------------
(* DiskSpace: the sums of the estimate *)

\* No sum of the sizes reaches the number at which it wraps.
NoWrap ==
    \A l \in Lists : \A n \in 1..Len(l) :
        Volume!Sums(l)[n - 1] + Volume!RemainingBytesFor(l[n]) < Limit

LEMMA Least ==
    ASSUME NEW S \in SUBSET Nat, S # {}
    PROVE  \E x \in S : \A y \in S : x <= y
<1> DEFINE Less == {ss \in Nat \X Nat : ss[1] < ss[2]}
<1>1. OpToRel(<, Nat) = Less
  BY Zenon DEF OpToRel
<1>2. IsWellFoundedOn(Less, Nat)
  BY <1>1, NatLessThanWellFounded, Zenon
<1> HIDE DEF Less
<1>3. PICK x \in S : \A y \in S : ~(<<y, x>> \in Less)
  BY <1>2, WFMin
<1>4. ASSUME NEW y \in S
      PROVE  x <= y
  <2>1. x \in Nat /\ y \in Nat /\ <<y, x>> \notin Less
    BY <1>3
  <2>2. ~(y < x)
    BY <2>1 DEF Less
  <2> QED
    BY <2>1, <2>2
<1> QED
  BY <1>4

LEMMA ListTypes ==
    ASSUME NEW l \in Lists
    PROVE  /\ l \in Seq(Volume!Tasks) /\ Len(l) \in Nat \ {0} /\ DOMAIN l = 1..Len(l)
           /\ \A n \in 1..Len(l) : l[n] \in Volume!Tasks
<1>1. l \in Seq(Volume!Tasks) /\ l # <<>>
  BY SpaceAssumption DEF Volume!InputsAssumption
<1>2. Len(l) \in Nat /\ DOMAIN l = 1..Len(l) /\ \A n \in 1..Len(l) : l[n] \in Volume!Tasks
  BY <1>1, LenProperties, ElementOfSeq
<1>3. Len(l) # 0
  BY <1>1, EmptySeq
<1> QED
  BY <1>1, <1>2, <1>3

LEMMA RemainingIsNat ==
    ASSUME NEW t \in Volume!Tasks
    PROVE  Volume!RemainingBytesFor(t) \in Nat
<1>1. /\ t.size \in Nat /\ t.final \in {NoFile} \cup Volume!OnDisk
      /\ t.part \in {NoFile} \cup Nat
  BY DEF Volume!Tasks
<1>2. t.final # NoFile => t.final.blocks \in Nat
  BY <1>1 DEF Volume!OnDisk
<1> QED
  BY <1>1, <1>2
  DEF Volume!RemainingBytesFor, Volume!Shortfall, Volume!FreedByRemoval

\* There are such sums.
LEMMA SumsAre ==
    ASSUME NEW l, Len(l) \in Nat
    PROVE  /\ Volume!Sums(l)[0] = 0
           /\ \A x \in 1..Len(l) :
                Volume!Sums(l)[x] =
                  (Volume!Sums(l)[x - 1] + Volume!RemainingBytesFor(l[x])) % Limit
<1> DEFINE Step(f, x) ==
             IF x = 0 THEN 0 ELSE (f[x - 1] + Volume!RemainingBytesFor(l[x])) % Limit
           Has(m) == \E f : f = [x \in 0..m |-> Step(f, x)]
           S == {m \in Nat : ~Has(m)}
<1>1. S = {}
  <2> SUFFICES ASSUME S # {} PROVE FALSE
    OBVIOUS
  <2>1. PICK m \in S : \A k \in S : m <= k
    BY Least
  <2>2. m # 0
    <3>1. CASE m = 0
      <4> DEFINE f == [x \in 0..0 |-> 0]
      <4>1. f = [x \in 0..0 |-> Step(f, x)]
        OBVIOUS
      <4> QED
        BY <2>1, <3>1, <4>1
    <3> QED
      BY <3>1
  <2>3. m \in Nat /\ m - 1 \in Nat /\ m - 1 \notin S
    <3>1. m \in Nat
      BY <2>1
    <3> HIDE DEF S
    <3> QED
      BY <2>1, <2>2, <3>1
  <2>4. PICK f : f = [x \in 0..(m - 1) |-> Step(f, x)]
    BY <2>3
  <2> DEFINE g == [x \in 0..m |-> IF x = m THEN Step(f, m) ELSE f[x]]
  <2>5. ASSUME NEW x \in 0..m
        PROVE  g[x] = Step(g, x)
    <3>1. CASE x = 0
      BY <2>2, <2>3, <2>4, <3>1
    <3>2. CASE x # 0
      <4>1. x - 1 \in 0..(m - 1) /\ x - 1 \in 0..m /\ x - 1 # m
        BY <2>3, <3>2
      <4>2. g[x - 1] = f[x - 1]
        BY <4>1
      <4>3. Step(g, x) = Step(f, x)
        BY <4>2
      <4>4. x # m => f[x] = Step(f, x)
        <5>1. x # m => x \in 0..(m - 1)
          BY <2>3
        <5> QED
          BY <2>4, <5>1
      <4> QED
        BY <4>3, <4>4
    <3> QED
      BY <3>1, <3>2
  <2>6. g = [x \in 0..m |-> Step(g, x)]
    <3> HIDE DEF Step
    <3>1. g = [x \in 0..m |-> g[x]]
      OBVIOUS
    <3> QED
      BY <2>5, <3>1
  <2>7. Has(m)
    BY <2>6
  <2> QED
    BY <2>1, <2>7
<1>2. Has(Len(l))
  BY <1>1
<1>3. Volume!Sums(l) = [x \in 0..Len(l) |-> Step(Volume!Sums(l), x)]
  BY <1>2 DEF Volume!Sums
<1> HIDE DEF Step
<1>4. \A x \in 0..Len(l) : Volume!Sums(l)[x] = Step(Volume!Sums(l), x)
  BY <1>3
<1>5. \A x \in 1..Len(l) : x \in 0..Len(l) /\ x # 0
  OBVIOUS
<1> QED
  BY <1>4, <1>5 DEF Step

\* Without a wrap each file adds what remains of it,
LEMMA SumsAdd ==
    ASSUME NoWrap, NEW l \in Lists
    PROVE  /\ Volume!Sums(l)[0] = 0
           /\ \A x \in 0..Len(l) : Volume!Sums(l)[x] \in Nat
           /\ \A x \in 1..Len(l) :
                Volume!Sums(l)[x] = Volume!Sums(l)[x - 1] + Volume!RemainingBytesFor(l[x])
<1> DEFINE s == Volume!Sums(l)
           r(x) == Volume!RemainingBytesFor(l[x])
           n == Len(l)
<1>1. /\ n \in Nat /\ s[0] = 0
      /\ \A x \in 1..n : s[x] = (s[x - 1] + r(x)) % Limit
  BY ListTypes, SumsAre
<1>2. \A x \in 1..n : s[x - 1] + r(x) < Limit
  BY DEF NoWrap
<1>3. \A x \in 1..n : r(x) \in Nat
  BY ListTypes, RemainingIsNat
<1>4. Limit \in Nat \ {0}
  BY SpaceAssumption DEF Volume!InputsAssumption
<1> HIDE DEF s, r, n
<1>5. ASSUME NEW x \in 1..n, s[x - 1] \in Nat
      PROVE  s[x] = s[x - 1] + r(x) /\ s[x] \in Nat
  <2>1. s[x - 1] + r(x) \in Nat /\ s[x - 1] + r(x) < Limit
    BY <1>2, <1>3, <1>5
  <2>2. (s[x - 1] + r(x)) % Limit = s[x - 1] + r(x)
    BY <2>1, <1>4
  <2> QED
    BY <2>1, <2>2, <1>1
<1> DEFINE Bad == {x \in 0..n : s[x] \notin Nat}
<1>6. Bad = {}
  <2> SUFFICES ASSUME Bad # {} PROVE FALSE
    OBVIOUS
  <2>1. Bad \in SUBSET Nat
    BY <1>1
  <2>2. PICK m \in Bad : \A k \in Bad : m <= k
    BY <2>1, Least
  <2>3. m # 0 /\ m \in 0..n
    BY <2>2, <1>1
  <2>4. m \in 1..n /\ m - 1 \in 0..n /\ ~(m <= m - 1)
    BY <2>3, <1>1
  <2>5. s[m - 1] \in Nat
    BY <2>2, <2>4
  <2> QED
    BY <2>2, <2>4, <2>5, <1>5
<1>7. \A x \in 1..n : x - 1 \in 0..n
  BY <1>1
<1>8. \A x \in 0..n : s[x] \in Nat
  BY <1>6
<1>9. \A x \in 1..n : s[x] = s[x - 1] + r(x)
  BY <1>5, <1>7, <1>8
<1> QED
  BY <1>1, <1>8, <1>9 DEF s, r, n

\* so that no sum is more than the last one.
LEMMA SumsGrow ==
    ASSUME NoWrap, NEW l \in Lists, NEW x \in 0..Len(l)
    PROVE  Volume!Sums(l)[x] <= Volume!Required(l)
<1> DEFINE s == Volume!Sums(l)
           n == Len(l)
           Above == {d \in 0..n : s[n - d] > s[n]}
<1>1. /\ n \in Nat /\ \A y \in 0..n : s[y] \in Nat
      /\ \A y \in 1..n : s[y - 1] <= s[y]
  BY ListTypes, RemainingIsNat, SumsAdd
<1>2. x \in 0..n
  OBVIOUS
<1>3. Volume!Required(l) = s[n]
  BY DEF Volume!Required
<1> HIDE DEF s, n
<1>4. Above = {}
  <2> SUFFICES ASSUME Above # {} PROVE FALSE
    OBVIOUS
  <2>1. Above \in SUBSET Nat
    BY <1>1
  <2>2. PICK d \in Above : \A k \in Above : d <= k
    BY <2>1, Least
  <2>3. d \in 0..n /\ s[n - d] > s[n]
    BY <2>2
  <2>4. d # 0
    <3>1. CASE d = 0
      <4>1. n - d = n /\ n \in 0..n
        BY <3>1, <1>1
      <4> QED
        BY <2>3, <4>1, <1>1
    <3> QED
      BY <3>1
  <2>5. /\ d - 1 \in 0..n /\ ~(d <= d - 1)
        /\ n - (d - 1) \in 1..n /\ n - d = (n - (d - 1)) - 1
        /\ n - d \in 0..n /\ n \in 0..n /\ n - (d - 1) \in 0..n
    BY <2>3, <2>4, <1>1
  <2>6. ~(s[n - (d - 1)] > s[n])
    BY <2>2, <2>5
  <2>7. s[n - d] <= s[n - (d - 1)]
    BY <2>5, <1>1
  <2>8. s[n - d] \in Nat /\ s[n - (d - 1)] \in Nat /\ s[n] \in Nat
    BY <2>5, <1>1
  <2> QED
    BY <2>3, <2>6, <2>7, <2>8
<1>5. n - x \in 0..n /\ n - (n - x) = x /\ n \in 0..n
  BY <1>1, <1>2
<1>6. ~(s[x] > s[n])
  BY <1>4, <1>5
<1>7. s[x] \in Nat /\ s[n] \in Nat
  BY <1>1, <1>2, <1>5
<1> QED
  BY <1>3, <1>6, <1>7 DEF s

-----------------------------------------------------------------------------
(* The books of a batch. Of the current task: what its leftover .part holds at *)
(* the start, what removing a stale copy gives back, what is asked for it; the *)
(* estimate of the tasks before it, and of all; what its .part holds now.      *)

Leftover == Volume!Size(initial.tasks[cur].part)
Freed == IF initial.tasks[cur].final = NoFile THEN 0
          ELSE Volume!GivenBack(initial.tasks[cur].final)
Asked == Volume!RemainingBytesFor(initial.tasks[cur])
Sofar  == Volume!Sums(initial.tasks)[cur - 1]
Total  == Volume!Required(initial.tasks)
Held   == Volume!Size(tasks[cur].part)
Whole  == initial.tasks[cur].size

AllPartial ==
    \A i \in DOMAIN tasks :
        LET t == initial.tasks[i]
        IN  t.known /\ t.final = NoFile /\ Volume!Size(t.part) <= t.size

\* What lies on disk: untouched from the current task on.
TasksInv ==
    /\ initial.tasks \in Lists
    /\ tasks \in Seq(Volume!Tasks) /\ Len(tasks) = Len(initial.tasks)
    /\ spaceStage \in {"check", "save", "existing", "fetch", "done", "refused"}
    /\ cur \in 1..(Len(tasks) + 1)
    /\ spaceStage \in {"check", "save", "existing", "fetch"} => cur <= Len(tasks)
    /\ spaceStage \in {"check", "save"} => cur = 1
    /\ \A i \in DOMAIN tasks :
          i > cur \/ (i = cur /\ spaceStage # "fetch") => tasks[i] = initial.tasks[i]
    /\ spaceStage = "fetch" =>
          /\ tasks[cur].size = Whole /\ tasks[cur].known = initial.tasks[cur].known
          /\ tasks[cur].final = NoFile
          /\ ~Volume!Keeps(initial.tasks[cur])
          /\ ~overran => Held <= Whole \/ Held <= Leftover

CountInv ==
    /\ free \in Nat /\ lowest \in Nat
    /\ initial.free \in 0..MaxFree /\ lowest <= initial.free
    /\ checked \in BOOLEAN /\ someFailed \in BOOLEAN
    /\ full \in BOOLEAN /\ overran \in BOOLEAN

\* What is gone from the volume is accounted for.
SpentInv ==
    Volume!AllKnown /\ ~overran =>
        /\ spaceStage \in {"check", "save"} => initial.free <= free
        /\ spaceStage = "existing" => initial.free <= free + XmlSize + Sofar
        /\ spaceStage = "fetch" =>
              initial.free + Leftover + Freed <= free + XmlSize + Sofar + Held
        /\ full => initial.free < Total + XmlSize

\* Among leftovers, it is accounted for exactly.
ExactInv ==
    AllPartial /\ ~someFailed /\ ~overran =>
        /\ spaceStage \in {"check", "save"} => initial.free = free /\ lowest = free
        /\ spaceStage = "existing" => initial.free = free + XmlSize + Sofar /\ lowest = free
        /\ spaceStage = "fetch" =>
              /\ initial.free + Leftover = free + XmlSize + Sofar + Held
              /\ lowest <= free /\ initial.free <= lowest + XmlSize + Sofar + Asked
              /\ Held <= Whole
        /\ spaceStage = "done" => initial.free = lowest + XmlSize + Total

LEMMA Current ==
    ASSUME TasksInv, cur <= Len(tasks)
    PROVE  /\ cur \in DOMAIN tasks /\ cur \in DOMAIN initial.tasks
           /\ cur \in 1..Len(tasks) /\ Len(tasks) \in Nat
           /\ DOMAIN tasks = 1..Len(tasks) /\ DOMAIN initial.tasks = DOMAIN tasks
           /\ tasks[cur] \in Volume!Tasks /\ initial.tasks[cur] \in Volume!Tasks
<1>1. Len(tasks) \in Nat /\ DOMAIN tasks = 1..Len(tasks)
  BY LenProperties DEF TasksInv
<1>2. cur \in 1..Len(tasks)
  BY <1>1 DEF TasksInv
<1>3. tasks[cur] \in Volume!Tasks
  BY <1>2, ElementOfSeq DEF TasksInv
<1>4. /\ DOMAIN initial.tasks = 1..Len(initial.tasks)
      /\ \A n \in 1..Len(initial.tasks) : initial.tasks[n] \in Volume!Tasks
  BY ListTypes DEF TasksInv
<1> QED
  BY <1>1, <1>2, <1>3, <1>4 DEF TasksInv

LEMMA Quantities ==
    ASSUME NoWrap, TasksInv, cur <= Len(tasks)
    PROVE  /\ Leftover \in Nat /\ Freed \in Nat /\ Asked \in Nat /\ Sofar \in Nat
           /\ Total \in Nat /\ Held \in Nat /\ Whole \in Nat
           /\ Volume!Sums(initial.tasks)[cur] = Sofar + Asked
           /\ Sofar + Asked <= Total
           /\ cur = Len(tasks) => Sofar + Asked = Total
<1> DEFINE l == initial.tasks
<1>1. l \in Lists /\ cur \in 1..Len(l) /\ Len(l) = Len(tasks) /\ Len(l) \in Nat
  BY Current DEF TasksInv
<1>2. tasks[cur] \in Volume!Tasks /\ l[cur] \in Volume!Tasks
  BY Current
<1>3. Asked \in Nat
  BY <1>2, RemainingIsNat DEF Asked
<1>4. \A t \in Volume!Tasks :
        /\ t.size \in Nat /\ Volume!Size(t.part) \in Nat
        /\ t.final # NoFile => Volume!GivenBack(t.final) \in Nat
  BY DEF Volume!Tasks, Volume!Size, Volume!OnDisk, Volume!GivenBack
<1>5. Leftover \in Nat /\ Freed \in Nat /\ Held \in Nat /\ Whole \in Nat
  BY <1>2, <1>4 DEF Leftover, Freed, Held, Whole
<1>6. cur - 1 \in 0..Len(l) /\ cur \in 0..Len(l) /\ Len(l) \in 0..Len(l)
  BY <1>1
<1> HIDE DEF l
<1>7. /\ Volume!Sums(l)[cur - 1] \in Nat /\ Volume!Required(l) \in Nat
      /\ Volume!Sums(l)[cur] = Volume!Sums(l)[cur - 1] + Volume!RemainingBytesFor(l[cur])
  BY <1>1, <1>6, SumsAdd DEF Volume!Required
<1>8. Volume!Sums(l)[cur] <= Volume!Required(l)
  BY <1>1, <1>6, SumsGrow
<1>9. cur = Len(l) => Volume!Sums(l)[cur] = Volume!Required(l)
  BY DEF Volume!Required
<1> QED
  BY <1>1, <1>3, <1>5, <1>7, <1>8, <1>9 DEF l, Sofar, Asked, Total

\* The estimate for one file is enough: a file is as large as what is asked
\* for it, what its leftovers hold, and what its stale copy gives back.
LEMMA EstimateCovers ==
    ASSUME NEW t \in Volume!Tasks, t.known, ~Volume!Keeps(t)
    PROVE  t.size <= Volume!RemainingBytesFor(t) + Volume!Size(t.part)
                       + (IF t.final = NoFile THEN 0 ELSE Volume!GivenBack(t.final))
<1>1. /\ t.size \in Nat /\ t.final \in {NoFile} \cup Volume!OnDisk
      /\ t.part \in {NoFile} \cup Nat /\ t.md5 \in BOOLEAN
  BY DEF Volume!Tasks
<1>2. t.final # NoFile => t.final.blocks \in Nat
  BY <1>1 DEF Volume!OnDisk
<1>3. t.final # NoFile /\ t.final.len = t.size => t.md5
  BY <1>1 DEF Volume!Keeps
<1>4. NoFile \notin Nat
  BY SpaceAssumption DEF Volume!InputsAssumption
<1> QED
  BY <1>1, <1>2, <1>3, <1>4
  DEF Volume!RemainingBytesFor, Volume!Shortfall, Volume!FreedByRemoval, Volume!Size,
      Volume!GivenBack

LEMMA EstimateIsExact ==
    ASSUME NEW t \in Volume!Tasks, t.known, t.final = NoFile, Volume!Size(t.part) <= t.size
    PROVE  t.size = Volume!RemainingBytesFor(t) + Volume!Size(t.part)
<1>1. t.size \in Nat /\ t.part \in {NoFile} \cup Nat
  BY DEF Volume!Tasks
<1> QED
  BY <1>1 DEF Volume!RemainingBytesFor, Volume!Shortfall, Volume!Size

\* What a step that writes to the current task leaves
LEMMA BecomesIs ==
    ASSUME TasksInv, cur <= Len(tasks), NEW final, NEW part, Volume!Becomes(final, part),
           final \in {NoFile} \cup Volume!OnDisk, part \in {NoFile} \cup Nat
    PROVE  /\ tasks' \in Seq(Volume!Tasks) /\ Len(tasks') = Len(tasks)
           /\ DOMAIN tasks' = DOMAIN tasks
           /\ \A i \in DOMAIN tasks : i # cur => tasks'[i] = tasks[i]
           /\ tasks'[cur].size = tasks[cur].size /\ tasks'[cur].known = tasks[cur].known
           /\ tasks'[cur].final = final /\ tasks'[cur].part = part
<1> DEFINE t == [[tasks[cur] EXCEPT !.final = final] EXCEPT !.part = part]
<1>1. tasks' = [tasks EXCEPT ![cur] = t]
  BY Current DEF Volume!Becomes
<1>2. t \in Volume!Tasks /\ t.size = tasks[cur].size /\ t.known = tasks[cur].known
      /\ t.final = final /\ t.part = part
  BY Current DEF Volume!Tasks
<1> HIDE DEF t
<1>3. tasks' \in Seq(Volume!Tasks) /\ Len(tasks') = Len(tasks)
      /\ \A i \in 1..Len(tasks) : tasks'[i] = IF i = cur THEN t ELSE tasks[i]
  BY <1>1, <1>2, Current, ExceptSeq DEF TasksInv
<1>4. DOMAIN tasks' = DOMAIN tasks
  BY <1>1
<1> QED
  BY <1>2, <1>3, <1>4, Current
TaskStep == Volume!KeepExisting \/ Volume!RemoveStale \/ Volume!WriteBlock \/ Volume!ResetPart
              \/ Volume!DiskFull \/ Volume!Install \/ Volume!FileFails

\* A step on a task writes to the current one only.
LEMMA TaskStepLocal ==
    ASSUME TasksInv, TaskStep
    PROVE  /\ cur <= Len(tasks) /\ initial' = initial
           /\ tasks' \in Seq(Volume!Tasks) /\ Len(tasks') = Len(tasks)
           /\ DOMAIN tasks' = DOMAIN tasks
           /\ \A i \in DOMAIN tasks : i # cur => tasks'[i] = tasks[i]
           /\ tasks'[cur].size = tasks[cur].size /\ tasks'[cur].known = tasks[cur].known
<1>1. cur <= Len(tasks) /\ initial' = initial
  BY DEF TaskStep, TasksInv, Volume!KeepExisting, Volume!RemoveStale, Volume!WriteBlock,
         Volume!BodyGoesOn, Volume!DiskFull, Volume!ResetPart, Volume!Install,
         Volume!FileFails, Volume!histVars
<1>2. Held \in Nat /\ tasks[cur].size \in Nat
      /\ tasks[cur].final \in {NoFile} \cup Volume!OnDisk
  BY <1>1, Current DEF Held, Volume!Size, Volume!Tasks
<1>3. tasks' = tasks \/ \E final \in {NoFile} \cup Volume!OnDisk, part \in {NoFile} \cup Nat :
                           Volume!Becomes(final, part)
  <2>1. CASE Volume!KeepExisting
    BY <1>2, <2>1 DEF Volume!KeepExisting, Volume!Task
  <2>2. CASE Volume!RemoveStale \/ Volume!FileFails
    BY <2>2 DEF Volume!RemoveStale, Volume!FileFails
  <2>3. CASE Volume!WriteBlock
    <3>1. Held + 1 \in Nat
      BY <1>2
    <3> QED
      BY <2>3, <3>1 DEF Volume!WriteBlock, Volume!Task, Held
  <2>4. CASE Volume!ResetPart
    BY <2>4 DEF Volume!ResetPart
  <2>5. CASE Volume!Install
    <3>1. [len |-> Held, blocks |-> Held, linked |-> FALSE, good |-> TRUE] \in Volume!OnDisk
      BY <1>2 DEF Volume!OnDisk
    <3> QED
      BY <2>5, <3>1 DEF Volume!Install, Volume!Task, Held
  <2>6. CASE Volume!DiskFull
    BY <2>6 DEF Volume!DiskFull
  <2> QED
    BY <2>1, <2>2, <2>3, <2>4, <2>5, <2>6 DEF TaskStep
<1>4. CASE tasks' = tasks
  BY <1>1, <1>4 DEF TasksInv
<1>5. CASE \E final \in {NoFile} \cup Volume!OnDisk, part \in {NoFile} \cup Nat :
              Volume!Becomes(final, part)
  BY <1>1, <1>5, BecomesIs
<1> QED
  BY <1>1, <1>3, <1>4, <1>5

\* What becomes of the current task
LEMMA TaskStepCurrent ==
    ASSUME TasksInv, TaskStep
    PROVE  /\ Volume!RemoveStale \/ Volume!ResetPart => tasks'[cur].final = NoFile /\ Held' = 0
           /\ Volume!WriteBlock => tasks'[cur].final = NoFile /\ Held' = Held + 1
<1>1. cur <= Len(tasks)
  BY TaskStepLocal
<1>2. Held \in Nat
  BY <1>1, Current DEF Held, Volume!Size, Volume!Tasks
<1>3. NoFile \notin Nat
  BY SpaceAssumption DEF Volume!InputsAssumption
<1>4. cur' = cur => Held' = Volume!Size(tasks'[cur].part)
  BY DEF Held, Volume!Size
<1>5. ASSUME Volume!RemoveStale
      PROVE  tasks'[cur].final = NoFile /\ Held' = 0
  <2>1. Volume!Becomes(NoFile, NoFile) /\ cur' = cur
    BY <1>5 DEF Volume!RemoveStale
  <2>2. tasks'[cur].final = NoFile /\ tasks'[cur].part = NoFile
    BY <1>1, <2>1, BecomesIs
  <2> QED
    BY <1>3, <1>4, <2>1, <2>2 DEF Volume!Size
<1>6. ASSUME Volume!WriteBlock
      PROVE  tasks'[cur].final = NoFile /\ Held' = Held + 1
  <2>1. Volume!Becomes(NoFile, Held + 1) /\ cur' = cur
    BY <1>6 DEF Volume!WriteBlock, Volume!Task, Held
  <2>2. Held + 1 \in Nat
    BY <1>2
  <2>3. tasks'[cur].final = NoFile /\ tasks'[cur].part = Held + 1
    BY <1>1, <2>1, <2>2, BecomesIs
  <2>4. Volume!Size(Held + 1) = Held + 1
    BY <1>3, <2>2 DEF Volume!Size
  <2>5. Held' = Held + 1
    BY <1>4, <2>1, <2>3, <2>4
  <2> QED
    BY <2>3, <2>5
<1>7. ASSUME Volume!ResetPart
      PROVE  tasks'[cur].final = NoFile /\ Held' = 0
  <2>1. Volume!Becomes(NoFile, 0) /\ cur' = cur
    BY <1>7 DEF Volume!ResetPart
  <2>2. tasks'[cur].final = NoFile /\ tasks'[cur].part = 0
    BY <1>1, <2>1, BecomesIs
  <2> QED
    BY <1>3, <1>4, <2>1, <2>2 DEF Volume!Size
<1> QED
  BY <1>5, <1>6, <1>7
\* In stage "existing" the current task is as the plan has it.
LEMMA Untouched ==
    ASSUME TasksInv, spaceStage = "existing"
    PROVE  cur <= Len(tasks) /\ tasks[cur] = initial.tasks[cur] /\ Held = Leftover
<1>1. cur <= Len(tasks)
  BY DEF TasksInv
<1>2. tasks[cur] = initial.tasks[cur]
  BY <1>1, Current DEF TasksInv
<1> QED
  BY <1>1, <1>2 DEF Held, Leftover

\* Where a step goes
LEMMA Stages ==
    ASSUME TasksInv, Volume!Next
    PROVE  \/ Volume!CheckDiskSpace \/ Volume!CheckSkipped \/ Volume!SaveXml \/ Volume!SaveFails
           \/ Volume!NothingThere \/ TaskStep
BY DEF Volume!Next, TaskStep

LEMMA TasksKept == TasksInv /\ [Volume!Next]_spaceVars => TasksInv'
<1> SUFFICES ASSUME TasksInv, [Volume!Next]_spaceVars PROVE TasksInv'
  OBVIOUS
<1>1. CASE UNCHANGED spaceVars
  BY <1>1 DEF TasksInv, spaceVars, Held, Whole, Leftover, Volume!Size, Volume!Keeps
<1>2. CASE Volume!CheckDiskSpace \/ Volume!CheckSkipped \/ Volume!SaveXml \/ Volume!SaveFails
  <2>1. /\ UNCHANGED <<tasks, cur, initial>>
        /\ spaceStage \in {"check", "save"}
        /\ spaceStage' \in {"save", "existing", "done", "refused"}
    BY <1>2 DEF Volume!CheckDiskSpace, Volume!CheckSkipped, Volume!SaveXml, Volume!SaveFails,
                Volume!histVars
  <2> QED
    BY <1>2, <2>1
    DEF TasksInv, Volume!CheckDiskSpace, Volume!CheckSkipped, Volume!SaveXml, Volume!SaveFails
<1>3. CASE Volume!NothingThere
  <2>1. /\ UNCHANGED <<tasks, cur, initial>>
        /\ spaceStage = "existing" /\ spaceStage' = "fetch" /\ tasks[cur].final = NoFile
    BY <1>3 DEF Volume!NothingThere, Volume!Task, Volume!histVars
  <2>2. tasks[cur] = initial.tasks[cur] /\ Held = Leftover /\ Leftover \in Nat
    BY <2>1, Untouched, Current DEF Volume!Tasks, Volume!Size, Leftover
  <2>3. Held' = Held /\ Leftover' = Leftover /\ Whole' = Whole
    BY <2>1 DEF Held, Leftover, Whole, Volume!Size
  <2>4. tasks[cur].size = Whole /\ ~Volume!Keeps(initial.tasks[cur])
    BY <2>1, <2>2 DEF Whole, Volume!Keeps
  <2> QED
    BY <2>1, <2>2, <2>3, <2>4 DEF TasksInv, Whole, Volume!Keeps
<1>4. CASE TaskStep
  <2>1. /\ cur <= Len(tasks) /\ initial' = initial
        /\ tasks' \in Seq(Volume!Tasks) /\ Len(tasks') = Len(tasks)
        /\ DOMAIN tasks' = DOMAIN tasks
        /\ \A i \in DOMAIN tasks : i # cur => tasks'[i] = tasks[i]
        /\ tasks'[cur].size = tasks[cur].size /\ tasks'[cur].known = tasks[cur].known
    BY <1>4, TaskStepLocal
  <2>2. /\ cur \in 1..Len(tasks) /\ Len(tasks) \in Nat /\ DOMAIN tasks = 1..Len(tasks)
        /\ cur \in DOMAIN tasks
    BY <2>1, Current
  <2>3. CASE Volume!NextTask
    <3>1. cur' = cur + 1 /\ spaceStage' = IF cur = Len(tasks) THEN "done" ELSE "existing"
      BY <2>3 DEF Volume!NextTask
    <3>2. cur' \in 1..(Len(tasks') + 1) /\ (spaceStage' = "existing" => cur' <= Len(tasks'))
      BY <2>1, <2>2, <3>1
    <3>3. \A i \in DOMAIN tasks : i >= cur + 1 => i > cur /\ i # cur
      BY <2>2
    <3>4. \A i \in DOMAIN tasks' : i > cur' \/ i = cur' => tasks'[i] = initial'.tasks[i]
      <4>1. \A i \in DOMAIN tasks : i > cur' \/ i = cur' => i > cur /\ i # cur
        BY <2>2, <3>1
      <4> QED
        BY <2>1, <4>1 DEF TasksInv
    <3> QED
      BY <2>1, <3>1, <3>2, <3>4 DEF TasksInv
  <2>4. CASE ~Volume!NextTask
    <3>1. Volume!RemoveStale \/ Volume!WriteBlock \/ Volume!ResetPart
      BY <1>4, <2>4
      DEF TaskStep, Volume!KeepExisting, Volume!DiskFull, Volume!Install, Volume!FileFails
    <3>2. cur' = cur /\ spaceStage' = "fetch" /\ spaceStage \in {"existing", "fetch"}
      BY <3>1 DEF Volume!RemoveStale, Volume!WriteBlock, Volume!BodyGoesOn, Volume!ResetPart
    <3>3. Held \in Nat /\ Whole \in Nat
      BY <2>1, Current DEF Held, Whole, Volume!Size, Volume!Tasks
    <3>4. Whole' = Whole /\ Leftover' = Leftover
      BY <2>1, <3>2 DEF Whole, Leftover, Volume!Size
    <3>5. /\ tasks[cur].size = Whole /\ tasks[cur].known = initial.tasks[cur].known
          /\ ~Volume!Keeps(initial.tasks[cur])
      <4>1. CASE spaceStage = "fetch"
        BY <4>1 DEF TasksInv
      <4>2. CASE spaceStage = "existing"
        <5>1. tasks[cur] = initial.tasks[cur]
          BY <4>2, Untouched
        <5>2. Volume!RemoveStale
          BY <3>1, <4>2 DEF Volume!WriteBlock, Volume!BodyGoesOn, Volume!ResetPart
        <5> QED
          BY <5>1, <5>2 DEF Volume!RemoveStale, Volume!Task, Whole
      <4> QED
        BY <3>2, <4>1, <4>2
    <3>6. tasks'[cur].final = NoFile /\ (~overran' => Held' <= Whole)
      <4>1. CASE Volume!RemoveStale \/ Volume!ResetPart
        BY <1>4, <3>3, <4>1, TaskStepCurrent
      <4>2. CASE Volume!WriteBlock
        <5>0. ~overran' => ~(Held >= tasks[cur].size)
          BY <4>2, Zenon DEF Volume!WriteBlock, Volume!BodyGoesOn, Volume!Task, Held
        <5>1. ~overran' => Held < Whole
          BY <3>3, <3>5, <5>0
        <5>2. tasks'[cur].final = NoFile /\ Held' = Held + 1
          BY <1>4, <4>2, TaskStepCurrent
        <5> QED
          BY <3>3, <5>1, <5>2
      <4> QED
        BY <3>1, <4>1, <4>2
    <3>7. ~Volume!Keeps(initial'.tasks[cur'])
      BY <2>1, <3>2, <3>5
    <3>8. \A i \in DOMAIN tasks' : i > cur' => tasks'[i] = initial'.tasks[i]
      <4>1. \A i \in DOMAIN tasks : i > cur => i # cur
        BY <2>2
      <4> QED
        BY <2>1, <3>2, <4>1 DEF TasksInv
    <3>9. cur' \in 1..(Len(tasks') + 1) /\ cur' <= Len(tasks')
      BY <2>1, <3>2 DEF TasksInv
    <3>10. /\ tasks'[cur'].size = Whole' /\ tasks'[cur'].final = NoFile
           /\ tasks'[cur'].known = initial'.tasks[cur'].known
           /\ ~overran' => Held' <= Whole'
      BY <2>1, <3>2, <3>4, <3>5, <3>6
    <3> QED
      BY <2>1, <3>2, <3>7, <3>8, <3>9, <3>10 DEF TasksInv, Volume!Keeps
  <2> QED
    BY <2>3, <2>4
<1> QED
  BY <1>1, <1>2, <1>3, <1>4, Stages
\* The plan does not change, and the sums behind it neither.
LEMMA PlanFixed ==
    ASSUME TasksInv, Volume!Next
    PROVE  /\ initial' = initial /\ Total' = Total
           /\ Volume!AllKnown' = Volume!AllKnown
           /\ AllPartial' = AllPartial
           /\ overran => overran'
           /\ cur' = cur \/ (Volume!NextTask /\ cur <= Len(tasks))
           /\ cur' = cur => /\ Leftover' = Leftover /\ Freed' = Freed /\ Asked' = Asked
                            /\ Sofar' = Sofar /\ Whole' = Whole
           /\ Volume!NextTask => Sofar' = Volume!Sums(initial.tasks)[cur]
<1>1. initial' = initial /\ DOMAIN tasks' = DOMAIN tasks
  <2>1. CASE TaskStep
    BY <2>1, TaskStepLocal
  <2>2. CASE ~TaskStep
    BY <2>2, Stages
    DEF Volume!CheckDiskSpace, Volume!CheckSkipped, Volume!SaveXml, Volume!SaveFails,
        Volume!NothingThere, Volume!histVars
  <2> QED
    BY <2>1, <2>2
<1>2. cur' = cur \/ (Volume!NextTask /\ cur <= Len(tasks))
  <2>1. CASE TaskStep
    BY <2>1, TaskStepLocal
    DEF TaskStep, Volume!KeepExisting, Volume!RemoveStale, Volume!WriteBlock,
        Volume!BodyGoesOn, Volume!DiskFull, Volume!ResetPart, Volume!Install, Volume!FileFails
  <2>2. CASE ~TaskStep
    BY <2>2, Stages
    DEF Volume!CheckDiskSpace, Volume!CheckSkipped, Volume!SaveXml, Volume!SaveFails,
        Volume!NothingThere
  <2> QED
    BY <2>1, <2>2
<1>3. cur \in Nat
  BY LenProperties DEF TasksInv
<1>4. Volume!NextTask => Sofar' = Volume!Sums(initial.tasks)[cur]
  <2>1. SUFFICES ASSUME Volume!NextTask PROVE Sofar' = Volume!Sums(initial.tasks)[cur]
    OBVIOUS
  <2>2. cur' - 1 = cur
    BY <1>3, <2>1 DEF Volume!NextTask
  <2> QED
    BY <1>1, <2>2 DEF Sofar
<1>5. Total' = Total /\ Volume!AllKnown' = Volume!AllKnown /\ AllPartial' = AllPartial
  BY <1>1 DEF Total, Volume!AllKnown, AllPartial
<1>6. cur' = cur => /\ Leftover' = Leftover /\ Freed' = Freed /\ Asked' = Asked
                    /\ Sofar' = Sofar /\ Whole' = Whole
  BY <1>1 DEF Leftover, Freed, Asked, Sofar, Whole
<1>7. overran => overran'
  BY DEF Volume!Next, Volume!CheckDiskSpace, Volume!CheckSkipped, Volume!SaveXml,
         Volume!SaveFails, Volume!KeepExisting, Volume!RemoveStale, Volume!NothingThere,
         Volume!WriteBlock, Volume!BodyGoesOn, Volume!DiskFull, Volume!ResetPart,
         Volume!Install, Volume!FileFails, Volume!histVars
<1> QED
  BY <1>1, <1>2, <1>4, <1>5, <1>6, <1>7

\* What a step takes from the volume or gives back
LEMMA CountKept == TasksInv /\ CountInv /\ [Volume!Next]_spaceVars => CountInv'
<1> SUFFICES ASSUME TasksInv, CountInv, [Volume!Next]_spaceVars PROVE CountInv'
  OBVIOUS
<1>1. CASE UNCHANGED spaceVars
  BY <1>1 DEF CountInv, spaceVars
<1>2. CASE Volume!Next
  <2>1. initial' = initial
    BY <1>2, PlanFixed
  <2>2. /\ checked' \in BOOLEAN /\ someFailed' \in BOOLEAN
        /\ full' \in BOOLEAN /\ overran' \in BOOLEAN
    <3>1. /\ checked' \in {checked, TRUE} /\ someFailed' \in {someFailed, TRUE}
          /\ full' \in {full, TRUE}
          /\ \/ overran' = overran
             \/ overran' = (overran \/ Volume!Size(tasks[cur].part) >= tasks[cur].size)
      BY <1>2
      DEF Volume!Next, Volume!CheckDiskSpace, Volume!CheckSkipped, Volume!SaveXml,
          Volume!SaveFails, Volume!KeepExisting, Volume!RemoveStale, Volume!NothingThere,
          Volume!WriteBlock, Volume!BodyGoesOn, Volume!DiskFull, Volume!ResetPart,
          Volume!Install, Volume!FileFails, Volume!histVars, Volume!Task
    <3> QED
      BY <3>1 DEF CountInv
  <2>3. /\ cur <= Len(tasks)
        /\ tasks[cur].part \in {NoFile} \cup Nat
        /\ tasks[cur].final # NoFile => Volume!GivenBack(tasks[cur].final) \in Nat
    <3>1. cur <= Len(tasks)
      BY <1>2
      DEF TasksInv, Volume!Next, Volume!CheckDiskSpace, Volume!CheckSkipped, Volume!SaveXml,
          Volume!SaveFails, Volume!KeepExisting, Volume!RemoveStale, Volume!NothingThere,
          Volume!WriteBlock, Volume!BodyGoesOn, Volume!DiskFull, Volume!ResetPart,
          Volume!Install, Volume!FileFails
    <3> QED
      BY <3>1, Current DEF Volume!Tasks, Volume!OnDisk, Volume!GivenBack
  <2>4. XmlSize \in Nat
    BY SpaceAssumption DEF Volume!InputsAssumption
  <2>5. Volume!Size(tasks[cur].part) \in Nat
    BY <2>3 DEF Volume!Size
  <2>6. \/ \E n \in Nat : n <= free /\ Volume!Uses(n)
        \/ \E n \in Nat : free' = free + n /\ lowest' = lowest
    <3>1. CASE Volume!SaveXml
      BY <2>4, <3>1 DEF Volume!SaveXml
    <3>2. CASE Volume!WriteBlock
      BY <3>2 DEF Volume!WriteBlock, CountInv
    <3>3. CASE Volume!CheckDiskSpace \/ Volume!CheckSkipped \/ Volume!SaveFails
                 \/ Volume!NothingThere \/ Volume!Install \/ Volume!DiskFull
      BY <3>3
      DEF CountInv, Volume!CheckDiskSpace, Volume!CheckSkipped, Volume!SaveFails,
          Volume!NothingThere, Volume!Install, Volume!DiskFull, Volume!histVars
    <3>4. CASE Volume!KeepExisting
      BY <2>5, <3>4 DEF Volume!KeepExisting, Volume!Task, Volume!histVars
    <3>5. CASE Volume!RemoveStale
      <4>1. Volume!GivenBack(tasks[cur].final) + Volume!Size(tasks[cur].part) \in Nat
        BY <2>3, <2>5, <3>5 DEF Volume!RemoveStale, Volume!Task
      <4>2. /\ lowest' = lowest
            /\ free' = free + Volume!GivenBack(tasks[cur].final) + Volume!Size(tasks[cur].part)
        BY <3>5 DEF Volume!RemoveStale, Volume!Task, Volume!histVars
      <4>3. Volume!GivenBack(tasks[cur].final) \in Nat
        BY <2>3, <3>5 DEF Volume!RemoveStale, Volume!Task
      <4> QED
        BY <2>5, <4>1, <4>2, <4>3 DEF CountInv
    <3>6. CASE Volume!ResetPart
      <4>1. tasks[cur].part \in Nat
        BY <2>3, <3>6 DEF Volume!ResetPart, Volume!Task, Volume!Size
      <4> QED
        BY <3>6, <4>1 DEF Volume!ResetPart, Volume!Task, Volume!histVars
    <3>7. CASE Volume!FileFails
      BY <2>5, <3>7 DEF CountInv, Volume!FileFails, Volume!Task
    <3> QED
      BY <1>2, <3>1, <3>2, <3>3, <3>4, <3>5, <3>6, <3>7 DEF Volume!Next
  <2>7. free' \in Nat /\ lowest' \in Nat /\ lowest' <= initial.free
    BY <2>6 DEF CountInv, Volume!Uses
  <2> QED
    BY <2>1, <2>2, <2>7 DEF CountInv
<1> QED
  BY <1>1, <1>2
\* How a task ends: what the run has taken for it is covered by its estimate.
LEMMA SpentKept ==
    NoWrap /\ TasksInv /\ CountInv /\ SpentInv /\ [Volume!Next]_spaceVars => SpentInv'
<1> SUFFICES ASSUME NoWrap, TasksInv, CountInv, SpentInv, [Volume!Next]_spaceVars
             PROVE  SpentInv'
  OBVIOUS
<1>1. CASE UNCHANGED spaceVars
  BY <1>1
  DEF SpentInv, spaceVars, Held, Leftover, Freed, Sofar, Total, Volume!AllKnown
<1>2. CASE Volume!Next
  <2> SUFFICES ASSUME Volume!AllKnown, ~overran'
               PROVE  /\ spaceStage' \in {"check", "save"} => initial.free <= free'
                      /\ spaceStage' = "existing" => initial.free <= free' + XmlSize + Sofar'
                      /\ spaceStage' = "fetch" =>
                            initial.free + Leftover' + Freed' <= free' + XmlSize + Sofar' + Held'
                      /\ full' => initial.free < Total + XmlSize
    BY <1>2, PlanFixed DEF SpentInv
  <2>0. ~overran
    BY <1>2, PlanFixed
  <2>1. /\ free \in Nat /\ initial.free \in Nat /\ XmlSize \in Nat
    BY SpaceAssumption DEF CountInv, Volume!InputsAssumption
  <2>7. full => initial.free < Total + XmlSize
    BY <2>0 DEF SpentInv
  <2>2. CASE Volume!CheckDiskSpace \/ Volume!CheckSkipped \/ Volume!SaveFails
    BY <2>0, <2>2
    DEF SpentInv, Volume!CheckDiskSpace, Volume!CheckSkipped, Volume!SaveFails,
        Volume!histVars
  <2>3. CASE Volume!SaveXml
    <3>1. Sofar' = 0
      <4>1. cur = 1 /\ cur' = cur
        BY <2>3 DEF TasksInv, Volume!SaveXml
      <4>2. Sofar = 0
        BY <4>1, SumsAdd DEF Sofar, TasksInv
      <4> QED
        BY <1>2, <4>1, <4>2, PlanFixed
    <3>2. free' = free - XmlSize /\ initial.free <= free /\ spaceStage' = "existing"
          /\ full' = full
      BY <2>0, <2>3 DEF SpentInv, Volume!SaveXml, Volume!Uses
    <3> QED
      BY <2>0, <2>1, <2>7, <3>1, <3>2
  <2>4. cur <= Len(tasks) =>
           /\ Leftover \in Nat /\ Freed \in Nat /\ Asked \in Nat /\ Sofar \in Nat
           /\ Total \in Nat /\ Held \in Nat /\ Whole \in Nat
           /\ Volume!Sums(initial.tasks)[cur] = Sofar + Asked
           /\ Sofar + Asked <= Total
    BY Quantities
  <2>5. CASE Volume!NothingThere
    <3>1. spaceStage = "existing" /\ spaceStage' = "fetch" /\ cur' = cur
          /\ free' = free /\ full' = full
          /\ tasks' = tasks /\ tasks[cur].final = NoFile
      BY <2>5 DEF Volume!NothingThere, Volume!Task, Volume!histVars
    <3>2. Held' = Held /\ Held = Leftover /\ Freed = 0
      BY <3>1, Untouched DEF Held, Freed, Volume!Size
    <3>3. cur <= Len(tasks)
      BY <3>1, Untouched
    <3>4. Leftover' = Leftover /\ Freed' = Freed /\ Sofar' = Sofar
      BY <1>2, <3>1, PlanFixed
    <3>5. initial.free <= free + XmlSize + Sofar
      BY <2>0, <3>1 DEF SpentInv
    <3> QED
      BY <2>1, <2>4, <2>7, <3>1, <3>2, <3>3, <3>4, <3>5
  <2>6. CASE TaskStep
    <3>1. cur <= Len(tasks)
      BY <2>6, TaskStepLocal
    <3>0. /\ Leftover \in Nat /\ Freed \in Nat /\ Asked \in Nat /\ Sofar \in Nat
          /\ Total \in Nat /\ Held \in Nat /\ Whole \in Nat
          /\ Volume!Sums(initial.tasks)[cur] = Sofar + Asked
          /\ Sofar + Asked <= Total
      BY <2>4, <3>1
    <3>2. cur' = cur => Leftover' = Leftover /\ Freed' = Freed /\ Sofar' = Sofar
      BY <1>2, PlanFixed
    <3>3. CASE Volume!KeepExisting
      <4>1. /\ free' = free + Held /\ full' = full /\ spaceStage = "existing"
            /\ spaceStage' \in {"existing", "done"}
            /\ Volume!NextTask
        BY <3>3 DEF Volume!KeepExisting, Volume!NextTask, Volume!Task, Held, Volume!histVars
      <4>2. Sofar' = Sofar + Asked
        BY <1>2, <3>0, <4>1, PlanFixed
      <4>3. initial.free <= free + XmlSize + Sofar
        BY <2>0, <4>1 DEF SpentInv
      <4>4. initial.free <= free' + XmlSize + Sofar'
        BY <2>1, <3>0, <4>1, <4>2, <4>3
      <4> QED
        BY <2>7, <4>1, <4>4
    <3>4. CASE Volume!RemoveStale
      <4>1. /\ spaceStage = "existing" /\ spaceStage' = "fetch" /\ cur' = cur
            /\ full' = full /\ tasks[cur].final # NoFile
            /\ free' = free + Volume!GivenBack(tasks[cur].final) + Held
        BY <3>4 DEF Volume!RemoveStale, Volume!Task, Held, Volume!histVars
      <4>2. Held = Leftover /\ Freed = Volume!GivenBack(tasks[cur].final)
        BY <4>1, Untouched DEF Freed
      <4>3. Held' = 0
        BY <2>6, <3>4, TaskStepCurrent
      <4>4. initial.free <= free + XmlSize + Sofar
        BY <2>0, <4>1 DEF SpentInv
      <4>5. initial.free + Leftover + Freed <= free' + XmlSize + Sofar + Held'
        <5>1. free' = free + Freed + Leftover
          BY <4>1, <4>2
        <5> QED
          BY <2>1, <3>0, <4>3, <4>4, <5>1
      <4> QED
        BY <2>7, <3>2, <4>1, <4>5
    <3>5. CASE Volume!WriteBlock
      <4>1. /\ spaceStage = "fetch" /\ spaceStage' = "fetch" /\ cur' = cur
            /\ full' = full /\ free > 0 /\ free' = free - 1
        BY <3>5 DEF Volume!WriteBlock, Volume!BodyGoesOn, Volume!Uses
      <4>2. Held' = Held + 1
        BY <2>6, <3>5, TaskStepCurrent
      <4>3. initial.free + Leftover + Freed <= free + XmlSize + Sofar + Held
        BY <2>0, <4>1 DEF SpentInv
      <4>4. initial.free + Leftover + Freed <= free' + XmlSize + Sofar + Held'
        BY <2>1, <3>0, <4>1, <4>2, <4>3
      <4> QED
        BY <2>7, <3>2, <4>1, <4>4
    <3>6. CASE Volume!ResetPart
      <4>1. /\ spaceStage = "fetch" /\ spaceStage' = "fetch" /\ cur' = cur
            /\ full' = full /\ free' = free + tasks[cur].part
        BY <3>6 DEF Volume!ResetPart, Volume!Task, Volume!histVars
      <4>2. Held' = 0 /\ Held = tasks[cur].part
        <5>1. Volume!Size(tasks[cur].part) > 0
          BY <3>6 DEF Volume!ResetPart, Volume!Task
        <5>2. tasks[cur].part # NoFile
          BY <5>1 DEF Volume!Size
        <5> QED
          BY <2>6, <3>6, <5>2, TaskStepCurrent DEF Held, Volume!Size
      <4>3. initial.free + Leftover + Freed <= free + XmlSize + Sofar + Held
        BY <2>0, <4>1 DEF SpentInv
      <4>4. initial.free + Leftover + Freed <= free' + XmlSize + Sofar + Held'
        <5>1. free' = free + Held /\ Held' = 0
          BY <4>1, <4>2
        <5> QED
          BY <2>1, <3>0, <4>3, <5>1
      <4> QED
        BY <2>7, <3>2, <4>1, <4>4
    <3>7. CASE Volume!DiskFull \/ Volume!Install \/ Volume!FileFails
      <4>1. /\ spaceStage = "fetch" /\ spaceStage' \in {"existing", "done"}
            /\ free' = free \/ free' = free + Held
            /\ Volume!NextTask
            /\ (full' = full) \/ (free = 0 /\ (overran' <=> (overran \/ Held >= tasks[cur].size)))
        BY <3>7
        DEF Volume!DiskFull, Volume!BodyGoesOn, Volume!Install, Volume!FileFails,
            Volume!NextTask, Volume!Task, Held, Volume!histVars
      <4>2. Sofar' = Sofar + Asked
        BY <1>2, <3>0, <4>1, PlanFixed
      <4>3. initial.free + Leftover + Freed <= free + XmlSize + Sofar + Held
        BY <2>0, <4>1 DEF SpentInv
      <4>4. /\ tasks[cur].size = Whole
            /\ Held <= Whole \/ Held <= Leftover
            /\ ~Volume!Keeps(initial.tasks[cur])
        BY <2>0, <4>1 DEF TasksInv
      <4>5. Whole <= Asked + Leftover + Freed
        <5>1. initial.tasks[cur] \in Volume!Tasks /\ initial.tasks[cur].known
          BY <3>1, Current DEF Volume!AllKnown
        <5> QED
          BY <4>4, <5>1, EstimateCovers DEF Whole, Asked, Leftover, Freed
      <4>6. initial.free <= free + XmlSize + Sofar + Asked
        BY <2>1, <3>0, <4>3, <4>4, <4>5
      <4>7. full => initial.free < Total + XmlSize
        BY <2>7
      <4>8. free = 0 /\ Held < Whole => initial.free < Total + XmlSize
        BY <2>1, <3>0, <4>3, <4>5
      <4>9. full' => initial.free < Total + XmlSize
        <5>1. full' => full \/ (free = 0 /\ ~(Held >= tasks[cur].size))
          BY <4>1, Zenon
        <5>2. ~(Held >= tasks[cur].size) => Held < Whole
          BY <3>0, <4>4
        <5> QED
          BY <4>7, <4>8, <5>1, <5>2, Zenon
      <4>10. initial.free <= free' + XmlSize + Sofar'
        BY <2>1, <3>0, <4>1, <4>2, <4>6
      <4> QED
        BY <4>1, <4>9, <4>10
    <3> QED
      BY <2>6, <3>3, <3>4, <3>5, <3>6, <3>7 DEF TaskStep
  <2> QED
    BY <1>2, <2>2, <2>3, <2>5, <2>6, Stages
<1> QED
  BY <1>1, <1>2
LEMMA ExactKept ==
    NoWrap /\ TasksInv /\ CountInv /\ ExactInv /\ [Volume!Next]_spaceVars => ExactInv'
<1> SUFFICES ASSUME NoWrap, TasksInv, CountInv, ExactInv, [Volume!Next]_spaceVars
             PROVE  ExactInv'
  OBVIOUS
<1>1. CASE UNCHANGED spaceVars
  BY <1>1
  DEF ExactInv, spaceVars, Held, Leftover, Asked, Sofar, Total, Whole, AllPartial
<1>2. CASE Volume!Next
  <2> SUFFICES
        ASSUME AllPartial, ~someFailed', ~overran'
        PROVE  /\ spaceStage' \in {"check", "save"} => initial.free = free' /\ lowest' = free'
               /\ spaceStage' = "existing" =>
                     initial.free = free' + XmlSize + Sofar' /\ lowest' = free'
               /\ spaceStage' = "fetch" =>
                     /\ initial.free + Leftover' = free' + XmlSize + Sofar' + Held'
                     /\ lowest' <= free'
                     /\ initial.free <= lowest' + XmlSize + Sofar' + Asked'
                     /\ Held' <= Whole'
               /\ spaceStage' = "done" => initial.free = lowest' + XmlSize + Total
    BY <1>2, PlanFixed DEF ExactInv
  <2>0. /\ free \in Nat /\ initial.free \in Nat /\ XmlSize \in Nat /\ lowest \in Nat
    BY SpaceAssumption DEF CountInv, Volume!InputsAssumption
  <2>1. /\ ~someFailed /\ ~overran
        /\ ~Volume!SaveFails /\ ~Volume!DiskFull /\ ~Volume!FileFails
    BY <1>2, PlanFixed
    DEF CountInv, Volume!Next, Volume!CheckDiskSpace, Volume!CheckSkipped, Volume!SaveXml,
        Volume!SaveFails, Volume!KeepExisting, Volume!RemoveStale, Volume!NothingThere,
        Volume!WriteBlock, Volume!BodyGoesOn, Volume!DiskFull, Volume!ResetPart,
        Volume!Install, Volume!FileFails, Volume!histVars
  <2>2. CASE Volume!CheckDiskSpace \/ Volume!CheckSkipped
    BY <2>1, <2>2
    DEF ExactInv, Volume!CheckDiskSpace, Volume!CheckSkipped, Volume!histVars
  <2>3. CASE Volume!SaveXml
    <3>1. Sofar' = 0
      <4>1. cur = 1 /\ cur' = cur
        BY <2>3 DEF TasksInv, Volume!SaveXml
      <4>2. Sofar = 0
        BY <4>1, SumsAdd DEF Sofar, TasksInv
      <4> QED
        BY <1>2, <4>1, <4>2, PlanFixed
    <3>2. /\ free' = free - XmlSize /\ initial.free = free /\ lowest = free
          /\ lowest' = (IF free' < lowest THEN free' ELSE lowest)
          /\ spaceStage' = "existing"
      BY <2>1, <2>3 DEF ExactInv, Volume!SaveXml, Volume!Uses
    <3>3. initial.free = free' + XmlSize + Sofar' /\ lowest' = free'
      BY <2>0, <3>1, <3>2
    <3> QED
      BY <3>2, <3>3
  <2>4. cur <= Len(tasks) =>
           /\ Leftover \in Nat /\ Asked \in Nat /\ Sofar \in Nat
           /\ Total \in Nat /\ Held \in Nat /\ Whole \in Nat
           /\ Volume!Sums(initial.tasks)[cur] = Sofar + Asked
           /\ cur = Len(tasks) => Sofar + Asked = Total
    BY Quantities
  \* A leftover is never a verified copy, nor a stale one.
  <2>5. cur <= Len(tasks) => /\ initial.tasks[cur].known
                             /\ initial.tasks[cur].final = NoFile
                             /\ Whole = Asked + Leftover /\ Leftover <= Whole
    <3> SUFFICES ASSUME cur <= Len(tasks)
                 PROVE  /\ initial.tasks[cur].known
                        /\ initial.tasks[cur].final = NoFile
                        /\ Whole = Asked + Leftover /\ Leftover <= Whole
      OBVIOUS
    <3>1. initial.tasks[cur] \in Volume!Tasks /\ cur \in DOMAIN tasks
      BY Current
    <3>2. /\ initial.tasks[cur].known /\ initial.tasks[cur].final = NoFile
          /\ Volume!Size(initial.tasks[cur].part) <= initial.tasks[cur].size
      BY <3>1 DEF AllPartial
    <3> QED
      BY <3>1, <3>2, EstimateIsExact DEF Whole, Asked, Leftover
  <2>6. CASE Volume!NothingThere
    <3>1. /\ spaceStage = "existing" /\ spaceStage' = "fetch" /\ cur' = cur
          /\ free' = free /\ lowest' = lowest /\ tasks' = tasks
      BY <2>6 DEF Volume!NothingThere, Volume!Task, Volume!histVars
    <3>2. Held' = Held /\ Held = Leftover
      BY <3>1, Untouched DEF Held, Volume!Size
    <3>3. cur <= Len(tasks)
      BY <3>1, Untouched
    <3>4. Leftover' = Leftover /\ Asked' = Asked /\ Sofar' = Sofar /\ Whole' = Whole
      BY <1>2, <3>1, PlanFixed
    <3>5. initial.free = free + XmlSize + Sofar /\ lowest = free
      BY <2>1, <3>1 DEF ExactInv
    <3>6. /\ initial.free + Leftover = free + XmlSize + Sofar + Leftover /\ lowest <= free
          /\ initial.free <= lowest + XmlSize + Sofar + Asked /\ Leftover <= Whole
      BY <2>0, <2>4, <2>5, <3>3, <3>5
    <3> QED
      BY <3>1, <3>2, <3>4, <3>6
  <2>7. CASE TaskStep
    <3>1. cur <= Len(tasks)
      BY <2>7, TaskStepLocal
    <3>2. /\ Leftover \in Nat /\ Asked \in Nat /\ Sofar \in Nat
          /\ Total \in Nat /\ Held \in Nat /\ Whole \in Nat
          /\ Volume!Sums(initial.tasks)[cur] = Sofar + Asked
          /\ cur = Len(tasks) => Sofar + Asked = Total
          /\ Whole = Asked + Leftover /\ Leftover <= Whole
      BY <2>4, <2>5, <3>1
    <3>3. cur' = cur => /\ Leftover' = Leftover /\ Asked' = Asked /\ Sofar' = Sofar
                        /\ Whole' = Whole
      BY <1>2, PlanFixed
    <3>4. ~Volume!KeepExisting /\ ~Volume!RemoveStale
      <4>1. spaceStage = "existing" => tasks[cur].final = NoFile
        BY <2>5, <3>1, Untouched
      <4> QED
        BY <4>1 DEF Volume!KeepExisting, Volume!RemoveStale, Volume!Keeps, Volume!Task
    <3>5. spaceStage = "fetch" =>
             /\ initial.free + Leftover = free + XmlSize + Sofar + Held
             /\ lowest <= free /\ initial.free <= lowest + XmlSize + Sofar + Asked
             /\ Held <= Whole
      BY <2>1 DEF ExactInv
    <3>6. CASE Volume!WriteBlock
      <4>1. /\ spaceStage = "fetch" /\ spaceStage' = "fetch" /\ cur' = cur
            /\ free > 0 /\ free' = free - 1
            /\ lowest' = (IF free' < lowest THEN free' ELSE lowest)
        BY <3>6 DEF Volume!WriteBlock, Volume!BodyGoesOn, Volume!Uses, Volume!Task, Held
      <4>2. Held' = Held + 1
        BY <2>7, <3>6, TaskStepCurrent
      <4>3. Held < Whole
        <5>1. ~(Held >= tasks[cur].size)
          BY <3>6, Zenon DEF Volume!WriteBlock, Volume!BodyGoesOn, Volume!Task, Held
        <5>2. tasks[cur].size = Whole
          BY <4>1 DEF TasksInv
        <5> QED
          BY <3>2, <5>1, <5>2
      <4>4. initial.free + Leftover = free + XmlSize + Sofar + Held
            /\ lowest <= free /\ initial.free <= lowest + XmlSize + Sofar + Asked
        BY <3>5, <4>1
      <4>5. initial.free + Leftover = free' + XmlSize + Sofar + Held'
        BY <2>0, <3>2, <4>1, <4>2, <4>4
      <4>6. initial.free <= free' + XmlSize + Sofar + Asked
        BY <2>0, <3>2, <4>1, <4>2, <4>3, <4>5
      <4>7. lowest' <= free' /\ initial.free <= lowest' + XmlSize + Sofar + Asked
        BY <2>0, <3>2, <4>1, <4>4, <4>6
      <4>8. Held' <= Whole
        BY <3>2, <4>2, <4>3
      <4> QED
        BY <3>3, <4>1, <4>5, <4>7, <4>8
    <3>7. CASE Volume!ResetPart
      <4>1. /\ spaceStage = "fetch" /\ spaceStage' = "fetch" /\ cur' = cur
            /\ free' = free + tasks[cur].part /\ lowest' = lowest
        BY <3>7 DEF Volume!ResetPart, Volume!Task, Volume!histVars
      <4>2. Held' = 0 /\ Held = tasks[cur].part
        <5>1. Volume!Size(tasks[cur].part) > 0
          BY <3>7 DEF Volume!ResetPart, Volume!Task
        <5>2. tasks[cur].part # NoFile
          BY <5>1 DEF Volume!Size
        <5> QED
          BY <2>7, <3>7, <5>2, TaskStepCurrent DEF Held, Volume!Size
      <4>3. initial.free + Leftover = free + XmlSize + Sofar + Held
            /\ lowest <= free /\ initial.free <= lowest + XmlSize + Sofar + Asked
        BY <3>5, <4>1
      <4>4. free' = free + Held
        BY <4>1, <4>2
      <4>5. /\ initial.free + Leftover = free' + XmlSize + Sofar + Held'
            /\ lowest <= free' /\ Held' <= Whole
        <5>1. initial.free + Leftover = free' + XmlSize + Sofar
          BY <2>0, <3>2, <4>3, <4>4
        <5>2. lowest <= free'
          BY <2>0, <3>2, <4>3, <4>4
        <5>3. free' \in Nat
          BY <2>0, <3>2, <4>4
        <5> QED
          BY <2>0, <3>2, <4>2, <5>1, <5>2, <5>3
      <4> QED
        BY <3>3, <4>1, <4>3, <4>5
    <3>8. CASE Volume!Install
      <4>1. /\ spaceStage = "fetch" /\ free' = free /\ lowest' = lowest
            /\ Volume!NextTask
        BY <3>8 DEF Volume!Install, Volume!histVars
      <4>2. Held = Whole
        BY <2>5, <3>1, <3>8, <4>1
        DEF TasksInv, Volume!Install, Volume!Verifies, Volume!Task, Held
      <4>3. initial.free + Leftover = free + XmlSize + Sofar + Held
            /\ lowest <= free /\ initial.free <= lowest + XmlSize + Sofar + Asked
        BY <3>5, <4>1
      <4>4. initial.free = free + XmlSize + Sofar + Asked /\ lowest = free
        BY <2>0, <3>2, <4>2, <4>3
      <4>5. Sofar' = Sofar + Asked
        BY <1>2, <3>2, <4>1, PlanFixed
      <4>6. initial.free = free' + XmlSize + Sofar' /\ lowest' = free'
        BY <2>0, <3>2, <4>1, <4>4, <4>5
      <4>7. cur = Len(tasks) => initial.free = lowest' + XmlSize + Total
        <5>1. cur = Len(tasks) => Sofar + Asked = Total
          BY <3>2
        <5>2. initial.free = lowest' + XmlSize + (Sofar + Asked)
          BY <2>0, <3>2, <4>1, <4>4
        <5> QED
          BY <5>1, <5>2
      <4>8. spaceStage' = IF cur = Len(tasks) THEN "done" ELSE "existing"
        BY <4>1 DEF Volume!NextTask
      <4> QED
        BY <4>6, <4>7, <4>8
    <3> QED
      BY <2>1, <2>7, <3>4, <3>6, <3>7, <3>8 DEF TaskStep
  <2> QED
    BY <1>2, <2>1, <2>2, <2>3, <2>6, <2>7, Stages
<1> QED
  BY <1>1, <1>2
-----------------------------------------------------------------------------
(* The space and the runs, side by side *)

SpaceInv == TasksInv /\ CountInv

AccountInv == SpaceInv /\ SpentInv /\ ExactInv

LEMMA VolumeInit == Volume!Init => AccountInv
<1> SUFFICES ASSUME Volume!Init PROVE AccountInv
  OBVIOUS
<1>1. /\ tasks \in Lists /\ free \in 0..MaxFree /\ spaceStage = "check" /\ cur = 1
      /\ initial.tasks = tasks /\ initial.free = free /\ lowest = free
      /\ checked = FALSE /\ someFailed = FALSE /\ full = FALSE /\ overran = FALSE
  BY DEF Volume!Init
<1>2. tasks \in Seq(Volume!Tasks) /\ Len(tasks) \in Nat \ {0}
  BY <1>1, ListTypes
<1>3. 1 \in 1..(Len(tasks) + 1) /\ 1 <= Len(tasks)
  BY <1>2
<1>4. TasksInv
  BY <1>1, <1>2, <1>3 DEF TasksInv
<1>5. free \in Nat
  BY <1>1, SpaceAssumption DEF Volume!InputsAssumption
<1>6. CountInv
  <2>1. lowest \in Nat /\ lowest <= initial.free /\ initial.free \in 0..MaxFree
    BY <1>1, <1>5
  <2> QED
    BY <1>1, <1>5, <2>1 DEF CountInv
<1>7. SpentInv /\ ExactInv
  BY <1>1, <1>5 DEF SpentInv, ExactInv
<1> QED
  BY <1>4, <1>6, <1>7 DEF AccountInv, SpaceInv

LEMMA SpaceTypes == SpaceInv => Volume!TypeOK
<1> SUFFICES ASSUME SpaceInv PROVE Volume!TypeOK
  OBVIOUS
<1>1. initial.tasks \in Seq(Volume!Tasks)
  BY ListTypes DEF SpaceInv, TasksInv
<1>2. lowest \in 0..initial.free
  BY DEF SpaceInv, CountInv
<1> QED
  BY <1>1, <1>2 DEF SpaceInv, TasksInv, CountInv, Volume!TypeOK

LEMMA AccountRight == NoWrap /\ AccountInv => Volume!NoSurprise /\ Volume!ExactForPartials
<1> SUFFICES ASSUME NoWrap, AccountInv PROVE Volume!NoSurprise /\ Volume!ExactForPartials
  OBVIOUS
<1>1. Volume!NoSurprise
  BY DEF AccountInv, SpentInv, Total, Volume!NoSurprise
<1>2. Volume!ExactForPartials
  <2>1. SUFFICES ASSUME spaceStage = "done", ~someFailed, ~overran, AllPartial
                 PROVE  initial.free - lowest = Total + XmlSize
    BY DEF Volume!ExactForPartials, AllPartial, Total
  <2>2. initial.free = lowest + XmlSize + Total
    BY <2>1 DEF AccountInv, ExactInv
  <2>3. lowest \in Nat /\ XmlSize \in Nat
    BY SpaceAssumption DEF AccountInv, SpaceInv, CountInv, Volume!InputsAssumption
  <2>4. Total \in Nat
    <3>1. initial.tasks \in Lists /\ Len(initial.tasks) \in 0..Len(initial.tasks)
      BY ListTypes DEF AccountInv, SpaceInv, TasksInv
    <3> QED
      BY <3>1, SumsAdd DEF Total, Volume!Required
  <2> QED
    BY <2>2, <2>3, <2>4
<1> QED
  BY <1>1, <1>2

-----------------------------------------------------------------------------
(* Both, side by side *)

PartsInv ==
    /\ focus \in {"run", "space"}
    /\ RunInv /\ ShapeInv /\ RunsInv
    /\ focus = "space" => SpaceInv

BooksInv == focus = "space" => AccountInv

LEMMA NotRunIsInit == NotRun => Init
BY DEF NotRun, Init

LEMMA PartsInvariant == PartsSpec => []PartsInv
<1>1. PartsInit => PartsInv
  <2>1. Init => RunInv /\ ShapeInv /\ RunsInv
    BY InitEstablishes, InitShape
  <2> QED
    BY <2>1, NotRunIsInit, VolumeInit DEF PartsInit, PartsInv, AccountInv
<1>2. PartsInv /\ [RunMoves \/ SpaceMoves]_allVars => PartsInv'
  <2> SUFFICES ASSUME PartsInv, [RunMoves \/ SpaceMoves]_allVars PROVE PartsInv'
    OBVIOUS
  <2>1. [Next]_vars /\ [Volume!Next]_spaceVars /\ focus' = focus
    BY DEF RunMoves, SpaceMoves, allVars
  <2>2. RunInv' /\ ShapeInv' /\ RunsInv'
    BY <2>1, ShapeKept, RunsKept, RunInvKept DEF PartsInv
  <2>3. focus = "space" => SpaceInv'
    BY <2>1, TasksKept, CountKept DEF PartsInv, SpaceInv
  <2> QED
    BY <2>1, <2>2, <2>3 DEF PartsInv
<1> QED
  BY <1>1, <1>2, PTL DEF PartsSpec

\* Every file, document, option and exit code is of its type, and the free space
\* and the plan stay what a volume and a plan can be: no write takes more than
\* there is, and the directory is there before anything is written into it.
THEOREM PartsTypeCorrect == PartsSpec => []PartsTypeOK
<1>1. PartsInv => PartsTypeOK
  BY TypesHold, SpaceTypes DEF PartsInv, PartsTypeOK
<1> QED
  BY PartsInvariant, <1>1, PTL

\* The estimate of required_download_space (src/src/plan.rs), if no sum of sizes
\* wraps and as long as no body is longer than was published (overran): with all
\* sizes known, a batch finds the disk full only for want of what the metadata
\* document took, and among leftovers the estimate is exact. The code does not
\* stop a longer body (assess_streamed_body in src/src/downloader/stream.rs), so
\* without the second condition neither is true.
THEOREM EstimateRight == PartsSpec /\ NoWrap => []EstimateIsRight
<1>1. NoWrap /\ PartsInit => BooksInv
  BY VolumeInit DEF PartsInit, BooksInv
<1>2. NoWrap /\ BooksInv /\ [RunMoves \/ SpaceMoves]_allVars => BooksInv'
  <2> SUFFICES ASSUME NoWrap, BooksInv, [RunMoves \/ SpaceMoves]_allVars PROVE BooksInv'
    OBVIOUS
  <2>1. [Volume!Next]_spaceVars /\ focus' = focus
    BY DEF RunMoves, SpaceMoves, allVars
  <2> QED
    BY <2>1, TasksKept, CountKept, SpentKept, ExactKept DEF BooksInv, AccountInv, SpaceInv
<1>3. NoWrap /\ BooksInv => EstimateIsRight
  BY AccountRight DEF BooksInv, EstimateIsRight
<1>4. CASE NoWrap
  <2>1. PartsInit => BooksInv
    BY <1>1, <1>4
  <2>2. BooksInv /\ [RunMoves \/ SpaceMoves]_allVars => BooksInv'
    BY <1>2, <1>4
  <2>3. BooksInv => EstimateIsRight
    BY <1>3, <1>4
  <2> QED
    BY <2>1, <2>2, <2>3, PTL DEF PartsSpec
<1> QED
  BY <1>4
=============================================================================
