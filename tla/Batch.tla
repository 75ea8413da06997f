------------------------------- MODULE Batch -------------------------------
(***************************************************************************)
(* The batch loop (download_files_with_signal, src/src/downloader/mod.rs)  *)
(* over the tasks of a plan, on one disk that all of them share. A file is *)
(* processed by the steps of JobOutline, which FileJob implements; here    *)
(* they read and write the disk at the task's path and at "{path}.part".   *)
(*                                                                         *)
(* A content is the number of the task whose published file it is, or      *)
(* Broken. A task has an MD5, or neither MD5 nor size.                     *)
(***************************************************************************)
EXTENDS Paths, FiniteSets

CONSTANTS
    TaskLists,    \* lists of local paths the planner may hand over
    MaxRuns,      \* bound: how many times the program is run
    NoFile,       \* nothing at a path
    Foreign       \* a symlink, a directory or a special file

ASSUME ListsAssumption == \A l \in TaskLists : l \in Seq(Paths) /\ Compatible(l)
ASSUME RunsAssumption  == MaxRuns \in Nat \ {0}

VARIABLES
    list,          \* the tasks' local paths
    md5,           \* which tasks have an MD5
    stopOnError,   \* --stop-on-error
    disk,          \* what lies at each path
    running,       \* the stop flag
    cur, phase,    \* the current task and where process_file is
    failed,        \* failed_files, as task numbers
    verdict,       \* "running", or how the batch ended
    summary,       \* what the summary line counts
    runs,          \* runs started
    settled,       \* history: outcome of each task in this run
    stoppedAt,     \* history: the task at which Ctrl+C was pressed
    wasComplete    \* history: the run began with nothing to do

fixedVars == <<list, md5, stopOnError>>
loopVars  == <<cur, failed, verdict, summary, settled>>
histVars  == <<runs, stoppedAt, wasComplete>>
vars      == <<fixedVars, disk, running, phase, loopVars, histVars>>

Broken == 0
Tasks  == DOMAIN list
Contents == {NoFile, Foreign, Broken} \cup Tasks

FinalPath(i) == Key(list[i])
PartPath(i)  == Key(PartOf(list[i]))
AllPaths     == {FinalPath(i) : i \in Tasks} \cup {PartPath(i) : i \in Tasks}

Meta(i) == [number |-> i, md5 |-> i \in md5]
PassesAs(meta, content) == meta.md5 => content = meta.number

\* The task's final file is there and verifies.
There(i) ==
    /\ disk[FinalPath(i)] \notin {NoFile, Foreign}
    /\ PassesAs(Meta(i), disk[FinalPath(i)])

-----------------------------------------------------------------------------
(* process_file on the current task *)

Job == INSTANCE JobOutline WITH
    task <- Meta(cur), final <- disk[FinalPath(cur)], part <- disk[PartPath(cur)],
    Passes <- PassesAs

\* A .part holds nothing but what was there and what is downloaded for it.
ProcessFile ==
    /\ verdict = "running" /\ cur \in Tasks
    /\ \E final \in {disk[FinalPath(cur)], disk[PartPath(cur)], NoFile},
          part \in {disk[PartPath(cur)], NoFile, Broken, cur} :
          disk' = [disk EXCEPT ![FinalPath(cur)] = final, ![PartPath(cur)] = part]
    /\ UNCHANGED <<fixedVars, running, loopVars, histVars>>
    /\ Job!OutlineStep

-----------------------------------------------------------------------------
(* The loop *)

\* Mutant: the loop stays at the same file.
SameFileAgain == cur' = cur /\ phase' = "start"

NextFile == cur' = cur + 1 /\ phase' = "start"

Summarize(processed, failures) ==
    summary' = [processed |-> processed, ok |-> processed - failures, failed |-> failures]

EndBatch(how) == verdict' = how /\ UNCHANGED <<cur, phase>>

FileSucceeded ==
    /\ verdict = "running" /\ cur \in Tasks /\ phase = "succeeded"
    /\ settled' = [settled EXCEPT ![cur] = "ok"]
    /\ NextFile
    /\ UNCHANGED <<fixedVars, disk, running, failed, verdict, summary, histVars>>

FileFails ==
    /\ verdict = "running" /\ cur \in Tasks /\ phase = "failed"
    /\ settled' = [settled EXCEPT ![cur] = "failed"]
    /\ failed' = Append(failed, cur)
    /\ UNCHANGED <<fixedVars, disk, running, histVars>>

\* Mutant: the summary counts the files never looked at.
FailureCountsAll ==
    /\ FileFails
    /\ stopOnError
    /\ Summarize(Len(list), Len(failed'))
    /\ EndBatch("failed")

\* Mutant: index for index + 1, which underflows at the first file.
FailureCountsIndex ==
    /\ FileFails
    /\ stopOnError
    /\ Summarize(cur - 1, Len(failed'))
    /\ EndBatch("failed")

\* Mutant: --stop-on-error is forgotten.
FailureForgiven ==
    /\ FileFails
    /\ stopOnError
    /\ NextFile
    /\ UNCHANGED <<verdict, summary>>

\* --stop-on-error: the summary counts the files processed so far.
FailureStops ==
    /\ FileFails
    /\ stopOnError
    /\ Summarize(cur, Len(failed'))
    /\ EndBatch("failed")

FailurePasses ==
    /\ FileFails
    /\ ~stopOnError
    /\ NextFile
    /\ UNCHANGED <<verdict, summary>>

BatchInterrupted ==
    /\ verdict = "running" /\ phase = "interrupted"
    /\ EndBatch("interrupted")
    /\ UNCHANGED <<fixedVars, disk, running, failed, settled, summary, histVars>>

BatchEnds ==
    /\ verdict = "running" /\ cur = Len(list) + 1
    /\ Summarize(Len(list), Len(failed))
    /\ EndBatch(IF failed = <<>> THEN "ok" ELSE "failed")
    /\ UNCHANGED <<fixedVars, disk, running, failed, settled, histVars>>

BatchStep ==
    \/ ProcessFile \/ FileSucceeded \/ FailureStops \/ FailurePasses
    \/ BatchInterrupted \/ BatchEnds

-----------------------------------------------------------------------------
(* The user and the machine *)

Stop ==
    /\ verdict = "running" /\ running
    /\ running' = FALSE
    /\ stoppedAt' = cur
    /\ UNCHANGED <<fixedVars, disk, phase, loopVars, runs, wasComplete>>

\* A kill, or the second Ctrl+C
Kill ==
    /\ verdict = "running"
    /\ EndBatch("killed")
    /\ UNCHANGED <<fixedVars, disk, running, failed, settled, summary, histVars>>

NothingCounted == [processed |-> 0, ok |-> 0, failed |-> 0]

RunAgain ==
    /\ verdict # "running" /\ runs < MaxRuns
    /\ runs' = runs + 1
    /\ running' = TRUE /\ cur' = 1 /\ phase' = "start"
    /\ failed' = <<>> /\ verdict' = "running" /\ summary' = NothingCounted
    /\ settled' = [i \in Tasks |-> "no"]
    /\ stoppedAt' = 0
    /\ wasComplete' = \A i \in Tasks : There(i)
    /\ UNCHANGED <<fixedVars, disk>>

Init ==
    /\ list \in TaskLists
    /\ md5 \in SUBSET Tasks
    /\ stopOnError \in BOOLEAN
    /\ disk \in [AllPaths -> Contents]
    /\ runs = 1
    /\ running = TRUE /\ cur = 1 /\ phase = "start"
    /\ failed = <<>> /\ verdict = "running" /\ summary = NothingCounted
    /\ settled = [i \in Tasks |-> "no"]
    /\ stoppedAt = 0
    /\ wasComplete = \A i \in Tasks : There(i)

Next == BatchStep \/ Stop \/ Kill \/ RunAgain

\* A step other than a download's own, which FileJob shows to end (RunEnds)
Progress == BatchStep /\ <<phase, loopVars>>' # <<phase, loopVars>>

Spec == Init /\ [][Next]_vars /\ WF_vars(Progress)

NoFailure == phase' \notin {"failed", "blocked"}

\* No local operation and no download fails, nothing foreign is in the way,
\* the last run is left alone, and the user runs the program until it is.
Smooth ==
    \/ BatchStep /\ NoFailure
    \/ runs < MaxRuns /\ (Stop \/ Kill)
    \/ RunAgain

SmoothInit == Init /\ \A p \in AllPaths : disk[p] # Foreign

Delivered  == ProcessFile /\ phase = "download" /\ phase' = "install"
Refetched  == ProcessFile /\ disk'[PartPath(cur)] = cur

SmoothSpec ==
    /\ SmoothInit
    /\ [][Smooth]_vars
    /\ WF_vars(Progress /\ NoFailure)
    /\ SF_vars(Delivered) /\ SF_vars(Refetched)
    /\ WF_vars(RunAgain)

-----------------------------------------------------------------------------
(* Properties *)

\* Type correctness of the batch's state.
TypeOK ==
    /\ list \in TaskLists
    /\ md5 \subseteq Tasks
    /\ stopOnError \in BOOLEAN /\ running \in BOOLEAN
    /\ disk \in [AllPaths -> Contents]
    /\ cur \in 1..(Len(list) + 1)
    /\ phase \in Job!Phases \ {"down"}
    /\ failed \in Seq(Tasks)
    /\ verdict \in {"running", "ok", "failed", "interrupted", "killed"}
    /\ summary \in [processed: Nat, ok: Nat, failed: Nat]
    /\ runs \in 1..MaxRuns
    /\ settled \in [Tasks -> {"no", "ok", "failed"}]
    /\ stoppedAt \in 0..(Len(list) + 1)
    /\ wasComplete \in BOOLEAN

\* What the batch reports as done is on disk and verifies when it says so,
\* also after later files were processed; with the verdict "ok" that is
\* every file.
DoneIsThere ==
    /\ verdict \in {"ok", "failed"} =>
         \A i \in Tasks : settled[i] = "ok" => There(i)
    /\ verdict = "ok" => \A i \in Tasks : There(i)

\* The summary counts each processed file once, under its outcome, and the
\* batch stopped early counts no file it never looked at.
SummaryIsTrue ==
    verdict \in {"ok", "failed"} =>
        /\ summary.processed = Cardinality({i \in Tasks : settled[i] # "no"})
        /\ summary.ok = Cardinality({i \in Tasks : settled[i] = "ok"})
        /\ summary.failed = Cardinality({i \in Tasks : settled[i] = "failed"})

\* What the batch says of its files is so.
ReportIsTrue == DoneIsThere /\ SummaryIsTrue

\* A final file that verifies is never touched, by its own task or another.
VerifiedFilesKept ==
    [][\A i \in Tasks : There(i) => disk'[FinalPath(i)] = disk[FinalPath(i)]]_vars

\* Doc of plan_download_tasks: "so one file never overwrites another". A step
\* changes no final file but the current task's.
NeverOverwritesAnother ==
    [][\A i \in Tasks \ {cur} : There(i) => disk'[FinalPath(i)] = disk[FinalPath(i)]]_vars

\* With --stop-on-error nothing is changed after the first failure.
StopOnErrorStops == [][stopOnError /\ failed # <<>> => disk' = disk]_vars

\* Either way to stop early takes effect at once: after Ctrl+C no further
\* file is looked at.
StopsAtOnce ==
    /\ [](~running /\ phase \notin {"start", "interrupted"} => cur = stoppedAt)
    /\ StopOnErrorStops

\* What is good stays, and a run over a complete directory downloads nothing.
GoodFilesStay ==
    /\ VerifiedFilesKept
    /\ [](wasComplete => phase \notin {"stale", "download", "install"})

\* Every run ends.
EveryRunEnds == verdict = "running" ~> verdict # "running"

\* With no failures, the run that is left alone ends with everything there,
\* whatever stopped and killed runs left behind.
EventuallyComplete == <>[](verdict = "ok" /\ \A i \in Tasks : There(i))
=============================================================================
