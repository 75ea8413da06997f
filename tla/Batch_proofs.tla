---------------------------- MODULE Batch_proofs ----------------------------
(***************************************************************************)
(* Theorems about the batch loop, for every list of tasks, any number of   *)
(* runs and every content the disk may begin with. That the summary is     *)
(* right and that stopping is immediate needs nothing of the paths; that   *)
(* good files stay needs the ".part" paths to be apart from the other      *)
(* paths, which the planner does not promise (run meeting_parts).          *)
(***************************************************************************)
EXTENDS Batch, Paths_proofs, FiniteSetTheorems, TLAPS

-----------------------------------------------------------------------------
(* What a step of process_file does *)

Foreigners == {NoFile, Foreign}

\* A step of process_file, by what it does to the two files.
StepFrom(f, f1, p, p1, passesF, passesP) ==
    \/ phase = "start" /\ phase' \in {"check", "interrupted"} /\ f1 = f /\ p1 = p
       /\ (phase' = "check" => running)
    \/ phase = "check" /\ phase' \in {"failed", "interrupted"} /\ f1 = f /\ p1 = p
    \/ phase = "check" /\ phase' = "download" /\ f = NoFile /\ f1 = f /\ p1 = p
    \/ phase = "check" /\ f \notin Foreigners /\ f1 = f /\ p1 = p
       /\ phase' = IF passesF THEN "redundant" ELSE "stale"
    \/ phase = "stale" /\ phase' = "clean" /\ f1 = NoFile /\ p1 = p
    \/ phase = "stale" /\ phase' = "blocked" /\ f1 = f /\ p1 = p
    \/ phase = "clean" /\ phase' = "download" /\ f1 = f
    \/ phase = "blocked" /\ phase' = "failed" /\ f1 = f
    \/ phase = "redundant" /\ phase' = "succeeded" /\ f1 = f
    \/ phase = "download" /\ phase' \in {"download", "failed", "interrupted"} /\ f1 = f
    \/ phase = "download" /\ phase' = "install" /\ f1 = f /\ p1 = p
       /\ p \notin Foreigners /\ passesP
    \/ phase = "install" /\ phase' = "installed" /\ f1 = p
    \/ phase = "install" /\ phase' = "failed" /\ f1 = f
    \/ phase = "installed" /\ phase' = "succeeded" /\ f1 = f /\ p1 = p

LEMMA ProcessFileStep ==
    ASSUME ProcessFile
    PROVE  /\ verdict = "running" /\ cur \in Tasks
           /\ UNCHANGED <<fixedVars, running, loopVars, histVars>>
           /\ \E f1, p1 : disk' = [disk EXCEPT ![FinalPath(cur)] = f1, ![PartPath(cur)] = p1]
           /\ StepFrom(disk[FinalPath(cur)], disk'[FinalPath(cur)],
                       disk[PartPath(cur)], disk'[PartPath(cur)],
                       PassesAs(Meta(cur), disk[FinalPath(cur)]),
                       PassesAs(Meta(cur), disk[PartPath(cur)]))
<1>1. UNCHANGED <<fixedVars, loopVars>>
  BY DEF ProcessFile
<1>2. FinalPath(cur)' = FinalPath(cur) /\ PartPath(cur)' = PartPath(cur)
  BY <1>1 DEF FinalPath, PartPath, fixedVars, loopVars
<1>3. Job!OutlineStep
  BY DEF ProcessFile
<1>4. StepFrom(disk[FinalPath(cur)], disk'[FinalPath(cur)],
               disk[PartPath(cur)], disk'[PartPath(cur)],
               PassesAs(Meta(cur), disk[FinalPath(cur)]),
               PassesAs(Meta(cur), disk[PartPath(cur)]))
  BY <1>1, <1>2, <1>3
  DEF StepFrom, Foreigners, Job!OutlineStep, Job!Enter, Job!Obstructed, Job!Missing,
      Job!Judge, Job!RemoveStale, Job!Tidy, Job!Fetch, Job!FetchFails,
      Job!FetchInterrupted, Job!FetchVerified, Job!PutInPlace, Job!Report,
      Job!OutlineGoto
<1> QED
  BY <1>1, <1>4 DEF ProcessFile

LEMMA OnlyOwnPaths ==
    ASSUME ProcessFile, disk \in [AllPaths -> Contents],
           NEW q \in AllPaths, q # FinalPath(cur), q # PartPath(cur)
    PROVE  disk'[q] = disk[q]
<1> QED
  BY ProcessFileStep

LEMMA OwnPathsTyped ==
    ASSUME ProcessFile, disk \in [AllPaths -> Contents]
    PROVE  disk' \in [AllPaths -> Contents]
<1>1. cur \in Tasks /\ FinalPath(cur) \in AllPaths /\ PartPath(cur) \in AllPaths
  BY DEF ProcessFile, AllPaths
<1>2. {disk[FinalPath(cur)], disk[PartPath(cur)], NoFile, Broken, cur} \subseteq Contents
  BY <1>1 DEF Contents
<1> QED
  BY <1>2 DEF ProcessFile

\* Nothing about a list or its paths changes.
LEMMA ListFixed ==
    ASSUME UNCHANGED fixedVars
    PROVE  /\ Tasks' = Tasks /\ AllPaths' = AllPaths /\ Contents' = Contents
           /\ UNCHANGED disk => \A i : There(i)' <=> There(i)
<1> QED
  BY DEF fixedVars, Tasks, AllPaths, Contents, FinalPath, PartPath, There, PassesAs, Meta

LEMMA FixedForever == [Next]_vars => UNCHANGED fixedVars
<1> QED
  BY DEF Next, BatchStep, ProcessFile, FileSucceeded, FailureStops, FailurePasses,
         FileFails, BatchInterrupted, BatchEnds, Stop, Kill, RunAgain, vars

-----------------------------------------------------------------------------
(* The loop: its place, and what is counted *)

With(outcomes, o) == {i \in DOMAIN outcomes : outcomes[i] = o}
Settled(outcomes) == {i \in DOMAIN outcomes : outcomes[i] # "no"}

\* Up to cur every task has an outcome, and no other has one; one failure
\* stops the loop when it should.
PlaceInv ==
    /\ phase # "start" => cur \in Tasks
    /\ \A i \in Tasks : settled[i] # "no" => i <= cur
    /\ verdict = "running" => \A i \in Tasks : settled[i] # "no" <=> i < cur
    /\ verdict = "ok" => \A i \in Tasks : settled[i] = "ok"
    /\ verdict = "running" /\ stopOnError => failed = <<>>

CountInv == Len(failed) = Cardinality(With(settled, "failed"))

\* After Ctrl+C only the file it was pressed at is worked on.
StopInv == ~running /\ phase \notin {"start", "interrupted"} => cur = stoppedAt

LoopInv == TypeOK /\ PlaceInv /\ CountInv /\ SummaryIsTrue /\ StopInv

\* With tasks 1..n settled, the outcomes add up to n.
LEMMA OutcomesAddUp ==
    ASSUME NEW n \in Nat, NEW T, 1..n \subseteq T, NEW s \in [T -> {"no", "ok", "failed"}],
           \A i \in T : s[i] # "no" <=> i \in 1..n
    PROVE  /\ Cardinality(Settled(s)) = n
           /\ Cardinality(With(s, "ok")) = n - Cardinality(With(s, "failed"))
           /\ Cardinality(With(s, "failed")) \in 0..n
<1> DEFINE Failures == With(s, "failed")
<1>1. Settled(s) = 1..n
  BY DEF Settled
<1>2. IsFiniteSet(1..n) /\ Cardinality(1..n) = n
  BY FS_Interval
<1>3. Failures \in SUBSET (1..n) /\ (1..n) \cap Failures = Failures
  BY DEF With
<1>4. With(s, "ok") = (1..n) \ Failures
  BY DEF With
<1> HIDE DEF Failures
<1>5. Cardinality((1..n) \ Failures) = Cardinality(1..n) - Cardinality((1..n) \cap Failures)
  BY <1>2, FS_Difference
<1>6. Cardinality((1..n) \ Failures) = n - Cardinality(Failures)
  BY <1>2, <1>3, <1>5
<1>7. IsFiniteSet(Failures) /\ Cardinality(Failures) <= Cardinality(1..n)
  BY <1>2, <1>3, FS_Subset
<1>8. Cardinality(Failures) \in Nat
  BY <1>7, FS_CardinalityType
<1>9. Cardinality(Failures) \in 0..n
  BY <1>2, <1>7, <1>8
<1>10. Cardinality(Settled(s)) = n
  BY <1>1, <1>2
<1> QED
  BY <1>4, <1>6, <1>9, <1>10 DEF Failures

\* One more task gets an outcome.
LEMMA OneMoreFailure ==
    ASSUME NEW n \in Nat, NEW s \in [1..n -> {"no", "ok", "failed"}],
           NEW i \in 1..n, s[i] = "no"
    PROVE  /\ Cardinality(With([s EXCEPT ![i] = "failed"], "failed"))
                = Cardinality(With(s, "failed")) + 1
           /\ With([s EXCEPT ![i] = "ok"], "failed") = With(s, "failed")
<1>1. IsFiniteSet(With(s, "failed"))
  <2>1. With(s, "failed") \in SUBSET (1..n) /\ IsFiniteSet(1..n)
    BY FS_Interval DEF With
  <2> QED
    BY <2>1, FS_Subset
<1>2. With([s EXCEPT ![i] = "failed"], "failed") = With(s, "failed") \cup {i}
  BY DEF With
<1>3. i \notin With(s, "failed")
  BY DEF With
<1>4. Cardinality(With(s, "failed") \cup {i}) = Cardinality(With(s, "failed")) + 1
  BY <1>1, <1>3, FS_AddElement
<1>5. With([s EXCEPT ![i] = "ok"], "failed") = With(s, "failed")
  BY DEF With
<1> QED
  BY <1>2, <1>4, <1>5

\* No task has failed.
LEMMA NoneFailed ==
    ASSUME NEW n \in Nat, NEW s \in [1..n -> {"no", "ok", "failed"}]
    PROVE  Cardinality(With(s, "failed")) = 0 <=> \A i \in 1..n : s[i] # "failed"
<1>1. IsFiniteSet(With(s, "failed"))
  <2>1. With(s, "failed") \in SUBSET (1..n) /\ IsFiniteSet(1..n)
    BY FS_Interval DEF With
  <2> QED
    BY <2>1, FS_Subset
<1>2. Cardinality(With(s, "failed")) = 0 <=> With(s, "failed") = {}
  BY <1>1, FS_EmptySet
<1> QED
  BY <1>2 DEF With

LEMMA ListIsSeq == TypeOK => /\ list \in Seq(Paths) /\ Compatible(list)
                             /\ Len(list) \in Nat /\ Tasks = 1..Len(list)
<1> QED
  BY ListsAssumption DEF TypeOK, Tasks

LEMMA LoopInit == Init => LoopInv
<1> SUFFICES ASSUME Init PROVE LoopInv
  OBVIOUS
<1>1. Len(list) \in Nat /\ Tasks = 1..Len(list)
  BY ListsAssumption DEF Init, Tasks
<1>2. TypeOK
  BY <1>1, RunsAssumption DEF Init, TypeOK, Job!Phases, NothingCounted
<1>3. PlaceInv
  BY <1>1 DEF Init, PlaceInv
<1>4. CountInv
  <2>1. settled \in [1..Len(list) -> {"no", "ok", "failed"}]
    BY <1>1, <1>2 DEF TypeOK
  <2>2. Cardinality(With(settled, "failed")) = 0
    BY <1>1, <2>1, NoneFailed DEF Init
  <2> QED
    BY <2>2 DEF Init, CountInv
<1> QED
  BY <1>2, <1>3, <1>4 DEF Init, LoopInv, SummaryIsTrue, StopInv

\* The steps, by what they have in common.
UserStep == Stop \/ Kill \/ RunAgain

LEMMA SomeStep == [Next]_vars => \/ ProcessFile \/ FileSucceeded \/ FailureStops
                                 \/ FailurePasses \/ BatchInterrupted \/ BatchEnds
                                 \/ UserStep \/ UNCHANGED vars
<1> QED
  BY DEF Next, BatchStep, UserStep

\* A file gets its outcome: the next one's turn, or the end.
LEMMA SettleStep ==
    ASSUME LoopInv, FileSucceeded \/ FailurePasses \/ FailureStops
    PROVE  /\ cur \in Tasks /\ verdict = "running" /\ settled[cur] = "no"
           /\ UNCHANGED <<disk, running, histVars>>
           /\ \/ phase = "succeeded" /\ settled' = [settled EXCEPT ![cur] = "ok"]
                 /\ failed' = failed
              \/ phase = "failed" /\ settled' = [settled EXCEPT ![cur] = "failed"]
                 /\ failed' = Append(failed, cur)
           /\ \/ cur' = cur + 1 /\ phase' = "start" /\ UNCHANGED <<verdict, summary>>
                 /\ (stopOnError => failed' = failed)
              \/ FailureStops /\ cur' = cur /\ phase' = phase /\ verdict' = "failed"
           /\ settled' \in [Tasks -> {"no", "ok", "failed"}]
           /\ failed' \in Seq(Tasks) /\ CountInv'
<1>1. /\ cur \in Tasks /\ verdict = "running" /\ UNCHANGED <<disk, running, histVars>>
      /\ \/ phase = "succeeded" /\ settled' = [settled EXCEPT ![cur] = "ok"]
            /\ failed' = failed
         \/ phase = "failed" /\ settled' = [settled EXCEPT ![cur] = "failed"]
            /\ failed' = Append(failed, cur)
      /\ \/ cur' = cur + 1 /\ phase' = "start" /\ UNCHANGED <<verdict, summary>>
            /\ (stopOnError => failed' = failed)
         \/ FailureStops /\ cur' = cur /\ phase' = phase /\ verdict' = "failed"
  BY DEF FileSucceeded, FailurePasses, FailureStops, FileFails, NextFile, EndBatch
<1>2. Len(list) \in Nat /\ Tasks = 1..Len(list)
  BY ListIsSeq DEF LoopInv
<1>3. settled[cur] = "no"
  BY <1>1, <1>2 DEF LoopInv, PlaceInv
<1>4. /\ settled \in [1..Len(list) -> {"no", "ok", "failed"}] /\ cur \in 1..Len(list)
      /\ failed \in Seq(Tasks) /\ Len(failed) = Cardinality(With(settled, "failed"))
  BY <1>1, <1>2 DEF LoopInv, TypeOK, CountInv
<1>5. /\ Cardinality(With([settled EXCEPT ![cur] = "failed"], "failed"))
           = Cardinality(With(settled, "failed")) + 1
      /\ With([settled EXCEPT ![cur] = "ok"], "failed") = With(settled, "failed")
  BY <1>2, <1>3, <1>4, OneMoreFailure
<1>6. failed' = Append(failed, cur) => Len(failed') = Len(failed) + 1
  BY <1>1, <1>4
<1>7. Len(failed') = Cardinality(With(settled', "failed"))
  BY <1>1, <1>4, <1>5, <1>6
<1>8. settled' \in [Tasks -> {"no", "ok", "failed"}]
  BY <1>1, <1>2, <1>4
<1>9. failed' \in Seq(Tasks)
  <2>1. Append(failed, cur) \in Seq(Tasks)
    BY <1>1, <1>4
  <2> QED
    BY <1>1, <1>4, <2>1
<1> QED
  BY <1>1, <1>3, <1>7, <1>8, <1>9 DEF CountInv

\* The disk and the counters keep their types, and the summary is right.
LEMMA TypeStep == LoopInv /\ [Next]_vars => TypeOK' /\ SummaryIsTrue'
<1> SUFFICES ASSUME LoopInv, [Next]_vars PROVE TypeOK' /\ SummaryIsTrue'
  OBVIOUS
<1>0. /\ UNCHANGED fixedVars /\ Tasks' = Tasks /\ AllPaths' = AllPaths
      /\ Contents' = Contents /\ list' = list /\ md5' = md5 /\ stopOnError' = stopOnError
  BY FixedForever, ListFixed DEF fixedVars
<1>1. /\ Len(list) \in Nat /\ Tasks = 1..Len(list)
      /\ TypeOK /\ PlaceInv /\ CountInv /\ SummaryIsTrue
  BY ListIsSeq DEF LoopInv
<1>a. TypeOK' => (SummaryIsTrue' <=> (verdict' \in {"ok", "failed"} =>
        /\ summary'.processed = Cardinality(Settled(settled'))
        /\ summary'.ok = Cardinality(With(settled', "ok"))
        /\ summary'.failed = Cardinality(With(settled', "failed"))))
  <2> SUFFICES ASSUME TypeOK' PROVE DOMAIN settled' = Tasks
    BY <1>0 DEF SummaryIsTrue, Settled, With
  <2> QED
    BY <1>0 DEF TypeOK
<1> USE <1>0, <1>1
<1>2. CASE ProcessFile
  <2>1. disk' \in [AllPaths -> Contents]
    BY <1>2, OwnPathsTyped DEF TypeOK
  <2>2. UNCHANGED <<running, loopVars, histVars>> /\ phase' \in Job!Phases \ {"down"}
    BY <1>2, ProcessFileStep DEF StepFrom, Job!Phases, Job!OutlineEnded
  <2> QED
    BY <2>1, <2>2 DEF TypeOK, SummaryIsTrue, loopVars, histVars
<1>3. CASE FileSucceeded \/ FailurePasses \/ FailureStops
  <2>1. /\ settled' \in [1..Len(list) -> {"no", "ok", "failed"}] /\ failed' \in Seq(Tasks)
        /\ cur' \in 1..(Len(list) + 1) /\ UNCHANGED <<disk, running, histVars>>
        /\ phase' \in Job!Phases \ {"down"} /\ verdict' \in {"running", "failed"}
    BY <1>3, SettleStep DEF TypeOK, Job!Phases
  <2>2. CASE verdict' = "running" /\ summary' = summary
    <3>1. TypeOK'
      BY <2>1, <2>2 DEF TypeOK, histVars
    <3> QED
      BY <2>2, <3>1, <1>a
  <2>3. CASE FailureStops
    <3>1. \A i \in Tasks : settled'[i] # "no" <=> i \in 1..cur
      BY <1>3, <2>3, SettleStep DEF PlaceInv, FailureStops, FileFails, TypeOK
    <3>2. Len(failed') = Cardinality(With(settled', "failed")) /\ cur \in 1..Len(list)
      BY <1>3, SettleStep DEF CountInv
    <3>a. cur \in Nat /\ 1..cur \subseteq Tasks
      BY <3>2
    <3>b. /\ Cardinality(Settled(settled')) = cur
          /\ Cardinality(With(settled', "ok")) = cur - Cardinality(With(settled', "failed"))
          /\ Cardinality(With(settled', "failed")) \in 0..cur
      BY <2>1, <3>1, <3>a, OutcomesAddUp
    <3>3. /\ Cardinality(Settled(settled')) = cur
          /\ Cardinality(With(settled', "ok")) = cur - Len(failed')
          /\ Len(failed') \in 0..cur
      BY <3>2, <3>b
    <3>4. summary' = [processed |-> cur, ok |-> cur - Len(failed'), failed |-> Len(failed')]
      BY <2>3 DEF FailureStops, Summarize
    <3>5. summary' \in [processed: Nat, ok: Nat, failed: Nat]
      BY <3>2, <3>3, <3>4
    <3>6. TypeOK'
      BY <2>1, <3>5 DEF TypeOK, histVars
    <3> QED
      BY <1>a, <3>2, <3>3, <3>4, <3>6
  <2> QED
    BY <1>3, <2>2, <2>3, SettleStep
<1>4. CASE BatchEnds
  <2>1. cur = Len(list) + 1 /\ verdict = "running" /\ UNCHANGED <<settled, failed>>
    BY <1>4 DEF BatchEnds
  <2>2. /\ \A i \in Tasks : settled[i] # "no" <=> i \in 1..Len(list)
        /\ settled \in [1..Len(list) -> {"no", "ok", "failed"}]
    BY <2>1 DEF PlaceInv, TypeOK
  <2>3. /\ Cardinality(Settled(settled)) = Len(list)
        /\ Cardinality(With(settled, "ok")) = Len(list) - Cardinality(With(settled, "failed"))
        /\ Cardinality(With(settled, "failed")) \in 0..Len(list)
    BY <2>2, OutcomesAddUp
  <2>4. summary' = [processed |-> Len(list), ok |-> Len(list) - Len(failed),
                    failed |-> Len(failed)]
    BY <1>4 DEF BatchEnds, Summarize
  <2>5. Len(failed) = Cardinality(With(settled, "failed"))
    BY DEF CountInv
  <2>6. summary' \in [processed: Nat, ok: Nat, failed: Nat]
    BY <2>3, <2>4, <2>5
  <2>7. TypeOK'
    BY <1>4, <2>6 DEF TypeOK, BatchEnds, EndBatch, histVars
  <2> QED
    BY <1>a, <2>1, <2>3, <2>4, <2>5, <2>7
<1>5. CASE RunAgain
  <2>1. TypeOK' /\ verdict' = "running"
    BY <1>5, RunsAssumption DEF TypeOK, RunAgain, NothingCounted, Job!Phases
  <2> QED
    BY <1>a, <2>1
<1>6. CASE BatchInterrupted \/ Stop \/ Kill
  <2>1. TypeOK'
    <3>1. CASE Stop
      <4>1. cur \in 0..(Len(list) + 1)
        BY DEF TypeOK
      <4>2. /\ running' = FALSE /\ stoppedAt' = cur /\ verdict' = verdict
            /\ UNCHANGED <<disk, phase, loopVars, runs, wasComplete>>
        BY <3>1 DEF Stop, loopVars
      <4> QED
        BY <4>1, <4>2 DEF TypeOK, loopVars
    <3>2. CASE BatchInterrupted \/ Kill
      BY <3>2 DEF TypeOK, BatchInterrupted, Kill, EndBatch, histVars
    <3> QED
      BY <1>6, <3>1, <3>2
  <2>2. UNCHANGED <<settled, summary>> /\ (verdict' = verdict \/ verdict' \in {"interrupted", "killed"})
    BY <1>6 DEF BatchInterrupted, Stop, Kill, EndBatch, loopVars
  <2> QED
    BY <1>a, <2>1, <2>2 DEF SummaryIsTrue
<1>7. CASE UNCHANGED vars
  BY <1>7 DEF TypeOK, SummaryIsTrue, vars, loopVars, histVars
<1> QED
  BY <1>2, <1>3, <1>4, <1>5, <1>6, <1>7, SomeStep DEF UserStep

\* The loop's place, the count of failures, and the stop.
LEMMA PlaceStep == LoopInv /\ [Next]_vars => PlaceInv' /\ CountInv' /\ StopInv'
<1> SUFFICES ASSUME LoopInv, [Next]_vars PROVE PlaceInv' /\ CountInv' /\ StopInv'
  OBVIOUS
<1>0. Tasks' = Tasks /\ list' = list /\ stopOnError' = stopOnError
  BY FixedForever, ListFixed DEF fixedVars
<1>1. /\ Len(list) \in Nat /\ Tasks = 1..Len(list)
      /\ TypeOK /\ PlaceInv /\ CountInv /\ StopInv
  BY ListIsSeq DEF LoopInv
<1> USE <1>0, <1>1
<1>2. CASE ProcessFile
  <2>1. /\ UNCHANGED <<running, loopVars, histVars>> /\ cur \in Tasks
        /\ phase' \notin {"start", "interrupted"} => running \/ phase \notin {"start", "interrupted"}
    BY <1>2, ProcessFileStep DEF StepFrom
  <2> QED
    BY <2>1 DEF PlaceInv, CountInv, StopInv, loopVars, histVars
<1>3. CASE FileSucceeded \/ FailurePasses \/ FailureStops
  <2>1. /\ cur \in Tasks /\ verdict = "running" /\ UNCHANGED <<running, stoppedAt>>
        /\ \/ settled' = [settled EXCEPT ![cur] = "ok"]
           \/ settled' = [settled EXCEPT ![cur] = "failed"]
        /\ \/ cur' = cur + 1 /\ phase' = "start" /\ verdict' = "running"
              /\ (stopOnError => failed' = failed)
           \/ cur' = cur /\ phase' = phase /\ verdict' = "failed"
    BY <1>3, SettleStep DEF histVars
  <2>2. PlaceInv'
    BY <2>1 DEF TypeOK, PlaceInv
  <2>3. StopInv'
    BY <2>1 DEF StopInv
  <2> QED
    BY <1>3, <2>2, <2>3, SettleStep
<1>4. CASE BatchEnds
  <2>1. settled \in [1..Len(list) -> {"no", "ok", "failed"}] /\ UNCHANGED <<settled, failed>>
    BY <1>4 DEF TypeOK, BatchEnds
  <2>2. failed = <<>> => \A i \in Tasks : settled[i] # "failed"
    BY <2>1, NoneFailed DEF CountInv
  <2>3. verdict' = "ok" => \A i \in Tasks : settled[i] = "ok"
    BY <1>4, <2>1, <2>2 DEF BatchEnds, EndBatch, PlaceInv
  <2>4. PlaceInv'
    BY <1>4, <2>3 DEF TypeOK, PlaceInv, BatchEnds, EndBatch
  <2> QED
    BY <1>4, <2>4 DEF CountInv, StopInv, BatchEnds, EndBatch, histVars
<1>5. CASE RunAgain
  <2>1. /\ settled' \in [1..Len(list) -> {"no", "ok", "failed"}] /\ failed' = <<>>
        /\ \A i \in Tasks : settled'[i] # "failed"
    BY <1>5 DEF RunAgain
  <2>2. Cardinality(With(settled', "failed")) = 0
    BY <2>1, NoneFailed
  <2>3. CountInv'
    BY <2>1, <2>2 DEF CountInv
  <2> QED
    BY <1>5, <2>3 DEF RunAgain, PlaceInv, StopInv
<1>6. CASE BatchInterrupted \/ Stop \/ Kill \/ UNCHANGED vars
  BY <1>6
  DEF PlaceInv, CountInv, StopInv, BatchInterrupted, Stop, Kill, EndBatch, vars,
      loopVars, histVars
<1> QED
  BY <1>2, <1>3, <1>4, <1>5, <1>6, SomeStep DEF UserStep

LEMMA LoopInvariance == Spec => []LoopInv
<1>1. LoopInv /\ [Next]_vars => LoopInv'
  BY TypeStep, PlaceStep DEF LoopInv
<1> QED
  BY <1>1, LoopInit, PTL DEF Spec

-----------------------------------------------------------------------------
(* The files *)

\* What process_file knows of the current task's two files at each place; what
\* is reported as done, and what a run began with, is there.
FilesInv ==
    /\ PartsApart(list)
    /\ phase = "stale" => ~There(cur)
    /\ phase \in {"clean", "download", "install"} => disk[FinalPath(cur)] = NoFile
    /\ phase = "install" => /\ disk[PartPath(cur)] \notin {NoFile, Foreign}
                            /\ PassesAs(Meta(cur), disk[PartPath(cur)])
    /\ phase \in {"redundant", "installed", "succeeded"} => There(cur)
    /\ \A i \in Tasks : settled[i] = "ok" => There(i)
    /\ wasComplete => \A i \in Tasks : There(i)

BatchInv == LoopInv /\ FilesInv

\* What a step does to the current task's final file.
LEMMA OwnFiles ==
    ASSUME ProcessFile, FilesInv, TypeOK
    PROVE  /\ There(cur) => disk'[FinalPath(cur)] = disk[FinalPath(cur)]
           /\ There(cur)' <=> disk'[FinalPath(cur)] \notin {NoFile, Foreign}
                              /\ PassesAs(Meta(cur), disk'[FinalPath(cur)])
           /\ phase' = "stale" => ~There(cur)'
           /\ phase' \in {"clean", "download", "install"} => disk'[FinalPath(cur)] = NoFile
           /\ phase' = "install" => /\ disk'[PartPath(cur)] \notin {NoFile, Foreign}
                                    /\ PassesAs(Meta(cur), disk'[PartPath(cur)])
           /\ phase' \in {"redundant", "installed", "succeeded"} => There(cur)'
<1>1. UNCHANGED <<fixedVars, loopVars>>
  BY DEF ProcessFile
<1>2. There(cur)' <=> /\ disk'[FinalPath(cur)] \notin {NoFile, Foreign}
                      /\ PassesAs(Meta(cur), disk'[FinalPath(cur)])
  BY <1>1 DEF There, FinalPath, PassesAs, Meta, fixedVars, loopVars
<1> QED
  BY <1>2, ProcessFileStep DEF FilesInv, There, StepFrom, Foreigners

\* A verified final file is never touched.
LEMMA ThereKept ==
    ASSUME BatchInv, [Next]_vars, NEW i \in Tasks, There(i)
    PROVE  disk'[FinalPath(i)] = disk[FinalPath(i)] /\ There(i)'
<1>1. disk'[FinalPath(i)] = disk[FinalPath(i)]
  <2>1. CASE ProcessFile /\ i # cur
    <3>1. cur \in Tasks /\ Compatible(list) /\ PartsApart(list)
      BY <2>1, ListIsSeq DEF ProcessFile, BatchInv, LoopInv, FilesInv
    <3>2. FinalPath(i) # FinalPath(cur) /\ FinalPath(i) # PartPath(cur)
      BY <2>1, <3>1, PathsApart DEF FinalPath, PartPath, Tasks
    <3>3. FinalPath(i) \in AllPaths
      BY DEF AllPaths
    <3> QED
      BY <2>1, <3>2, <3>3, OnlyOwnPaths DEF BatchInv, LoopInv, TypeOK
  <2>2. CASE ProcessFile /\ i = cur
    BY <2>2, OwnFiles DEF BatchInv, LoopInv
  <2>3. CASE ~ProcessFile
    BY <2>3, SomeStep
    DEF FileSucceeded, FailureStops, FailurePasses, FileFails, BatchInterrupted, BatchEnds,
        UserStep, Stop, Kill, RunAgain, vars
  <2> QED
    BY <2>1, <2>2, <2>3
<1>2. UNCHANGED fixedVars
  BY FixedForever
<1> QED
  BY <1>1, <1>2 DEF There, FinalPath, PassesAs, Meta, fixedVars

LEMMA FilesStep == BatchInv /\ [Next]_vars => FilesInv'
<1> SUFFICES ASSUME BatchInv, [Next]_vars PROVE FilesInv'
  OBVIOUS
<1>0. /\ UNCHANGED fixedVars /\ Tasks' = Tasks /\ list' = list
      /\ \A i \in Tasks : There(i) => There(i)'
      /\ PartsApart(list)' /\ TypeOK /\ FilesInv
  BY FixedForever, ListFixed, ThereKept DEF fixedVars, BatchInv, LoopInv, FilesInv
<1>1. CASE ProcessFile
  <2>1. UNCHANGED loopVars /\ cur' = cur /\ settled' = settled /\ wasComplete' = wasComplete
    BY <1>1 DEF ProcessFile, loopVars, histVars
  <2>2. /\ FinalPath(cur)' = FinalPath(cur) /\ PartPath(cur)' = PartPath(cur)
        /\ \A x : PassesAs(Meta(cur), x)' <=> PassesAs(Meta(cur), x)
    BY <1>0, <2>1 DEF FinalPath, PartPath, PassesAs, Meta, fixedVars
  <2>3. /\ \A i \in Tasks' : settled'[i] = "ok" => There(i)'
        /\ wasComplete' => \A i \in Tasks' : There(i)'
    BY <1>0, <2>1 DEF FilesInv
  <2>4. phase' = "install" => PassesAs(Meta(cur), disk[PartPath(cur)])'
    BY <1>0, <1>1, <2>1, OwnFiles DEF PartPath, PassesAs, Meta, fixedVars
  <2> QED
    BY <1>0, <1>1, <2>1, <2>2, <2>3, <2>4, OwnFiles DEF FilesInv
<1>2. CASE FileSucceeded \/ FailurePasses \/ FailureStops
  <2>1. /\ UNCHANGED <<disk, wasComplete>> /\ cur \in Tasks
        /\ \A i \in Tasks : settled'[i] = "ok" => settled[i] = "ok" \/ There(i)
        /\ phase' = "start" \/ (phase' = phase /\ cur' = cur)
    <3>1. /\ UNCHANGED <<disk, wasComplete>> /\ cur \in Tasks
          /\ \/ phase = "succeeded" /\ settled' = [settled EXCEPT ![cur] = "ok"]
             \/ settled' = [settled EXCEPT ![cur] = "failed"]
          /\ phase' = "start" \/ (phase' = phase /\ cur' = cur)
      BY <1>2, SettleStep DEF BatchInv, histVars
    <3>2. settled \in [Tasks -> {"no", "ok", "failed"}]
      BY DEF BatchInv, LoopInv, TypeOK
    <3>3. phase = "succeeded" => There(cur)
      BY DEF BatchInv, FilesInv
    <3> QED
      BY <3>1, <3>2, <3>3
  <2>2. UNCHANGED disk => \A i : There(i)' <=> There(i)
    BY <1>0, ListFixed
  <2>3. /\ \A i \in Tasks' : settled'[i] = "ok" => There(i)'
        /\ wasComplete' => \A i \in Tasks' : There(i)'
    BY <1>0, <2>1 DEF FilesInv
  <2>4. CASE phase' = "start"
    BY <1>0, <2>3, <2>4 DEF FilesInv
  <2>5. CASE phase' = phase /\ cur' = cur
    BY <1>0, <2>1, <2>3, <2>5 DEF FilesInv, There, FinalPath, PartPath, PassesAs, Meta, fixedVars
  <2> QED
    BY <2>1, <2>4, <2>5
<1>3. CASE RunAgain
  <2>1. /\ \A i \in Tasks' : settled'[i] # "ok"
        /\ phase' = "start" /\ (wasComplete' => \A i \in Tasks : There(i))
    BY <1>0, <1>3 DEF RunAgain
  <2> QED
    BY <1>0, <2>1 DEF FilesInv
<1>4. CASE BatchInterrupted \/ BatchEnds \/ Stop \/ Kill \/ UNCHANGED vars
  <2>1. UNCHANGED <<disk, phase, cur, settled, wasComplete>>
    BY <1>4 DEF BatchInterrupted, BatchEnds, Stop, Kill, EndBatch, vars, loopVars, histVars
  <2> QED
    BY <1>0, <2>1 DEF FilesInv, There, FinalPath, PartPath, PassesAs, Meta, fixedVars
<1> QED
  BY <1>1, <1>2, <1>3, <1>4, SomeStep DEF UserStep

LEMMA BatchInvariance == Spec /\ PartsApart(list) => []BatchInv
<1>1. Init /\ PartsApart(list) => FilesInv
  BY DEF Init, FilesInv
<1>2. Init /\ PartsApart(list) => BatchInv
  BY <1>1, LoopInit DEF BatchInv
<1>3. BatchInv /\ [Next]_vars => BatchInv'
  BY FilesStep, TypeStep, PlaceStep DEF BatchInv, LoopInv
<1> QED
  BY <1>2, <1>3, PTL DEF Spec

-----------------------------------------------------------------------------
(* The theorems *)

\* Every variable of the batch loop keeps its type.
THEOREM BatchTypeCorrect == Spec => []TypeOK
<1>1. LoopInv => TypeOK
  BY DEF LoopInv
<1> QED
  BY <1>1, LoopInvariance, PTL

\* The summary counts every file once, under its outcome, and after a stop at
\* the first error none that was not looked at.
THEOREM SummaryTrue == Spec => []SummaryIsTrue
<1>1. LoopInv => SummaryIsTrue
  BY DEF LoopInv
<1> QED
  BY <1>1, LoopInvariance, PTL

\* After Ctrl+C no further file is looked at, and after a first failure under
\* --stop-on-error nothing on disk changes.
THEOREM StoppingIsImmediate == Spec => StopsAtOnce
<1> DEFINE StoppedHere == ~running /\ phase \notin {"start", "interrupted"} => cur = stoppedAt
           Unchanged == stopOnError /\ failed # <<>> => disk' = disk
<1>1. LoopInv => StoppedHere
  BY DEF LoopInv, StopInv
<1>2. LoopInv /\ [Next]_vars => [Unchanged]_vars
  <2> SUFFICES ASSUME LoopInv, [Next]_vars, stopOnError, failed # <<>>
               PROVE  disk' = disk
    OBVIOUS
  <2>1. verdict # "running"
    BY DEF LoopInv, PlaceInv
  <2> QED
    BY <2>1, SomeStep
    DEF ProcessFile, FileSucceeded, FailureStops, FailurePasses, FileFails,
        BatchInterrupted, BatchEnds, UserStep, Stop, Kill, RunAgain, vars
<1>3. Spec => [][Unchanged]_vars
  BY <1>2, LoopInvariance, PTL DEF Spec
<1>4. Spec => []StoppedHere
  BY <1>1, LoopInvariance, PTL
<1> QED
  BY <1>3, <1>4, PTL DEF StopsAtOnce, StopOnErrorStops

\* What the batch reports as done is on disk and verifies when it says so, also
\* after later files were processed, if no .part meets another path.
THEOREM ReportTrue == Spec /\ PartsApart(list) => []ReportIsTrue
<1>1. BatchInv => ReportIsTrue
  BY DEF BatchInv, LoopInv, FilesInv, PlaceInv, ReportIsTrue, DoneIsThere
<1> QED
  BY <1>1, BatchInvariance, PTL

\* A file that verifies is never touched again, by its own task or another, and
\* a run over a complete directory downloads nothing, on the same condition.
THEOREM GoodFilesKept == Spec /\ PartsApart(list) => GoodFilesStay
<1> DEFINE Kept == \A i \in Tasks : There(i) => disk'[FinalPath(i)] = disk[FinalPath(i)]
           Idle == wasComplete => phase \notin {"stale", "download", "install"}
<1>1. BatchInv /\ [Next]_vars => [Kept]_vars
  BY ThereKept
<1>2. BatchInv => Idle
  BY DEF BatchInv, LoopInv, FilesInv, PlaceInv, There
<1>3. Spec /\ PartsApart(list) => [][Kept]_vars
  BY <1>1, BatchInvariance, PTL DEF Spec
<1>4. Spec /\ PartsApart(list) => []Idle
  BY <1>2, BatchInvariance, PTL
<1> QED
  BY <1>3, <1>4, PTL DEF GoodFilesStay, VerifiedFilesKept

\* The condition holds of every plan in which no name ends in ".part".
THEOREM PlainNamesSuffice ==
    ASSUME \A l \in TaskLists : \A i \in DOMAIN l : Plain(l[i])
    PROVE  Spec => []ReportIsTrue /\ GoodFilesStay
<1>1. Init => PartsApart(list)
  BY ListsAssumption, PlainNamesAreApart DEF Init
<1> QED
  BY <1>1, ReportTrue, GoodFilesKept, PTL DEF Spec
=============================================================================
