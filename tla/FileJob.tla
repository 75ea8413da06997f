------------------------------ MODULE FileJob ------------------------------
(***************************************************************************)
(* The whole treatment of one file by a batch of that file alone: check    *)
(* the existing copy, download into `<file>.part` with up to three         *)
(* attempts, verify, install (process_file, run_download_attempts and the  *)
(* batch loop's stop check in src/src/downloader/mod.rs; verify.rs;        *)
(* signal.rs), over any number of runs with Ctrl+C, kills and restarts.    *)
(*                                                                         *)
(* The transfer inside an attempt is module Transfer, step by step. What   *)
(* survives a run is task, final and part; the rest is process memory.     *)
(***************************************************************************)
EXTENDS Transfer

CONSTANTS
    MaxAttempts,   \* MAX_DOWNLOAD_ATTEMPTS
    MaxRuns        \* bound: how many times the program is run

ASSUME AttemptsAssumption == MaxAttempts \in Nat \ {0}
ASSUME RunsAssumption     == MaxRuns \in Nat \ {0}

VARIABLES
    final,     \* content of the file under its final name
    job,       \* where process_file is
    attempt,   \* attempt counter of run_download_attempts
    discard,   \* discard_part
    runs,      \* runs started
    tainted    \* history: this run's server rejected the .part now on disk

jobVars == <<final, job, attempt, discard, runs, tainted>>
vars    == <<envVars, transferVars, jobVars>>

Ended == {"succeeded", "failed", "interrupted", "down"}
Jobs  == {"start", "check", "removeFinal", "cleanPart", "blockedPart",
          "redundantPart", "prepare", "transfer", "verify", "verifyWhole",
          "install", "installed", "giveUp"} \cup Ended

\* check_existing_file and verify_downloaded_file: size first, then MD5
SizeMatches(content) == task.known => Len(content) = task.size
HashNeeded(content)  == task.md5 /\ SizeMatches(content)

\* Mutant: the size alone is trusted.
VerifiesSize(content) == SizeMatches(content)

Verifies(content) ==
    /\ SizeMatches(content)
    /\ task.md5 => content = Published

IsFile(content) == content \notin {NoFile, Foreign}

\* Verified, and a file at all
Good(content) == IsFile(content) /\ Verifies(content)

Goto(next) == job' = next

-----------------------------------------------------------------------------
(* The batch loop and the existing copy *)

\* The stop flag is checked before the file is looked at.
StartFile ==
    /\ job = "start"
    /\ Goto(IF running THEN "check" ELSE "interrupted")
    /\ UNCHANGED <<envVars, transferVars, final, attempt, discard, runs, tainted>>

\* ensure_parent_directories fails, before the check or before the attempts
DirectoryFails ==
    /\ job = "check" \/ (job = "prepare" /\ attempt = 0)
    /\ Goto("failed")
    /\ UNCHANGED <<envVars, transferVars, final, attempt, discard, runs, tainted>>

\* check_existing_file on the four things it can find. Something that is no
\* regular file, or a file that cannot be read, blocks the job and is kept.
ExistingUnreadable ==
    /\ job = "check"
    /\ final # NoFile
    /\ Goto("failed")
    /\ UNCHANGED <<envVars, transferVars, final, attempt, discard, runs, tainted>>

ExistingMissing ==
    /\ job = "check"
    /\ final = NoFile
    /\ Goto("prepare")
    /\ UNCHANGED <<envVars, transferVars, final, attempt, discard, runs, tainted>>

\* Mutant: a stale copy is left for the rename to replace.
StaleKept ==
    /\ job = "check"
    /\ IsFile(final)
    /\ IF HashNeeded(final) /\ ~running THEN Goto("interrupted")
       ELSE Goto(IF Verifies(final) THEN "redundantPart" ELSE "cleanPart")
    /\ UNCHANGED <<envVars, transferVars, final, attempt, discard, runs, tainted>>

\* The MD5 is computed only over a file of the right size, and a stop makes
\* the computation fail.
ExistingChecked ==
    /\ job = "check"
    /\ IsFile(final)
    /\ IF HashNeeded(final) /\ ~running THEN Goto("interrupted")
       ELSE Goto(IF Verifies(final) THEN "redundantPart" ELSE "removeFinal")
    /\ UNCHANGED <<envVars, transferVars, final, attempt, discard, runs, tainted>>

RemoveStaleFinal ==
    /\ job = "removeFinal"
    /\ \/ final' = NoFile /\ Goto("cleanPart")
       \/ final' = final /\ Goto("blockedPart")
    /\ UNCHANGED <<envVars, transferVars, attempt, discard, runs, tainted>>

\* remove_part_file is best effort: its failure goes unnoticed.
TryRemovePart ==
    \/ part' = NoFile /\ tainted' = FALSE
    \/ UNCHANGED <<part, tainted>>

\* Mutant: a stale file that cannot be removed is downloaded all the same.
BlockedGoesOn == [cleanPart |-> "prepare", blockedPart |-> "prepare",
                  redundantPart |-> "succeeded"]

AfterCleaning == [cleanPart |-> "prepare", blockedPart |-> "failed",
                  redundantPart |-> "succeeded"]

CleanPart ==
    /\ job \in DOMAIN AfterCleaning
    /\ TryRemovePart
    /\ Goto(AfterCleaning[job])
    /\ UNCHANGED <<envVars, pos, stage, retries, noDelay, asked, replyVars,
                   result, late, final, attempt, discard, runs>>

-----------------------------------------------------------------------------
(* The download attempts *)

idleVars == <<stage, pos, retries, noDelay, asked, replyVars, result>>

\* download_file_content is entered with a fresh RetryTracker.
StartTransfer(content) ==
    /\ part' = content
    /\ pos' = Len(content)
    /\ stage' = "request"
    /\ UNCHANGED <<retries, noDelay, asked, replyVars, result>>
    /\ Goto("transfer")

\* Memory of a transfer that is over
TransferForgotten ==
    /\ pos' = 0 /\ stage' = "idle" /\ retries' = 0 /\ noDelay' = FALSE
    /\ asked' = 0 /\ status' = "none" /\ off' = 0 /\ base' = 0 /\ got' = 0
    /\ result' = "none"

\* First attempt: the .part is opened as it is and resumed.
PrepareFirst ==
    /\ job = "prepare" /\ attempt = 0
    /\ attempt' = 1
    /\ part # Foreign
    /\ StartTransfer(IF part = NoFile THEN <<>> ELSE part)
    /\ UNCHANGED <<envVars, late, final, discard, runs, tainted>>

\* Mutant: the corrupt .part is resumed again.
PrepareAgainKept ==
    /\ job = "prepare" /\ attempt \in 1..(MaxAttempts - 1)
    /\ attempt' = attempt + 1
    /\ StartTransfer(part)
    /\ discard' = FALSE
    /\ UNCHANGED <<envVars, late, final, runs, tainted>>

\* Later attempts: the .part is removed and created anew.
PrepareAgain ==
    /\ job = "prepare" /\ attempt \in 1..(MaxAttempts - 1)
    /\ attempt' = attempt + 1
    /\ StartTransfer(<<>>)
    /\ discard' = FALSE
    /\ tainted' = FALSE
    /\ UNCHANGED <<envVars, late, final, runs>>

\* The .part cannot be opened, or cannot be removed or re-created; a failure
\* of the first open never discards it.
PrepareFails ==
    /\ job = "prepare" /\ attempt < MaxAttempts
    /\ attempt' = attempt + 1
    /\ IF attempt = 0 THEN discard' = FALSE /\ UNCHANGED <<part, tainted>>
       ELSE TryRemovePart /\ UNCHANGED discard
    /\ Goto("giveUp")
    /\ UNCHANGED <<envVars, idleVars, late, final, runs>>

NoAttemptLeft ==
    /\ job = "prepare" /\ attempt = MaxAttempts
    /\ attempt' = attempt + 1
    /\ Goto("giveUp")
    /\ UNCHANGED <<envVars, transferVars, final, discard, runs, tainted>>

TransferEnds(how, next) ==
    /\ job = "transfer" /\ stage = "returned" /\ result = how
    /\ TransferForgotten
    /\ Goto(next)
    /\ UNCHANGED <<envVars, part, late, final, attempt, runs>>

Downloaded == TransferEnds("complete", "verify") /\ UNCHANGED <<discard, tainted>>

DownloadInterrupted ==
    TransferEnds("interrupted", "interrupted") /\ UNCHANGED <<discard, tainted>>

DownloadFailed == TransferEnds("error", "giveUp") /\ UNCHANGED <<discard, tainted>>

\* Mutant: a rejected .part is never verified in place.
NeverWhole == FALSE

\* handle_rejected_offset: a .part of exactly the announced size is verified
\* in place, any other is to be downloaded again.
WholePart == task.known /\ Len(part) = task.size

WholePartRejected ==
    /\ TransferEnds("rejected", "verifyWhole")
    /\ WholePart
    /\ UNCHANGED <<discard, tainted>>

\* Mutant: discard_part is not raised.
OffsetRejectedKept ==
    /\ TransferEnds("rejected", "prepare")
    /\ ~WholePart
    /\ tainted' = TRUE
    /\ UNCHANGED discard

OffsetRejected ==
    /\ TransferEnds("rejected", "prepare")
    /\ ~WholePart
    /\ discard' = TRUE
    /\ tainted' = TRUE

\* verify_part, on a finished download or a rejected whole .part
Verifying == job \in {"verify", "verifyWhole"}

VerifyInterrupted ==
    /\ Verifying
    /\ HashNeeded(part) /\ ~running
    /\ Goto("interrupted")
    /\ UNCHANGED <<envVars, transferVars, final, attempt, discard, runs, tainted>>

PartUnreadable ==
    /\ Verifying
    /\ Goto("giveUp")
    /\ discard' = FALSE
    /\ UNCHANGED <<envVars, transferVars, final, attempt, runs, tainted>>

PartVerified ==
    /\ Verifying
    /\ HashNeeded(part) => running
    /\ Verifies(part)
    /\ Goto("install")
    /\ UNCHANGED <<envVars, transferVars, final, attempt, discard, runs, tainted>>

PartMismatch ==
    /\ Verifying
    /\ HashNeeded(part) => running
    /\ ~Verifies(part)
    /\ Goto("prepare")
    /\ discard' = (discard \/ job = "verifyWhole")
    /\ tainted' = (tainted \/ job = "verifyWhole")
    /\ UNCHANGED <<envVars, transferVars, final, attempt, runs>>

-----------------------------------------------------------------------------
(* The end of process_file *)

\* install_downloaded_file: an atomic rename, then the mtime (not modelled)
Install ==
    /\ job = "install"
    /\ final' = part
    /\ part' = NoFile
    /\ Goto("installed")
    /\ UNCHANGED <<envVars, idleVars, late, attempt, discard, runs, tainted>>

InstallFails ==
    /\ job = "install"
    /\ Goto("failed")
    /\ UNCHANGED <<envVars, transferVars, final, attempt, discard, runs, tainted>>

ReportInstalled ==
    /\ job = "installed"
    /\ Goto("succeeded")
    /\ UNCHANGED <<envVars, transferVars, final, attempt, discard, runs, tainted>>

GiveUp ==
    /\ job = "giveUp"
    /\ IF discard THEN TryRemovePart ELSE UNCHANGED <<part, tainted>>
    /\ Goto("failed")
    /\ UNCHANGED <<envVars, idleVars, late, final, attempt, discard, runs>>

-----------------------------------------------------------------------------
(* The user and the machine *)

\* handle_ctrl_c: the first press asks to stop, the second one quits.
CtrlC ==
    /\ job \notin Ended
    /\ \/ /\ running
          /\ running' = FALSE
          /\ UNCHANGED <<task, transferVars, jobVars>>
       \/ /\ ~running
          /\ Goto("down")
          /\ TransferForgotten
          /\ UNCHANGED <<envVars, part, late, final, attempt, discard, runs, tainted>>

\* The process is killed. (Data the kernel holds is not lost.)
Kill ==
    /\ job \notin Ended
    /\ Goto("down")
    /\ TransferForgotten
    /\ UNCHANGED <<envVars, part, late, final, attempt, discard, runs, tainted>>

\* The user runs the program again over what the last run left on disk.
RunAgain ==
    /\ job \in Ended
    /\ runs < MaxRuns
    /\ runs' = runs + 1
    /\ running' = TRUE
    /\ attempt' = 0
    /\ discard' = FALSE
    /\ late' = 0
    /\ tainted' = FALSE
    /\ Goto("start")
    /\ UNCHANGED <<task, part, idleVars, final>>

-----------------------------------------------------------------------------

ExistingStep ==
    \/ StartFile \/ DirectoryFails
    \/ ExistingUnreadable \/ ExistingMissing \/ ExistingChecked
    \/ RemoveStaleFinal \/ CleanPart

AttemptStep ==
    \/ PrepareFirst \/ PrepareAgain \/ PrepareFails \/ NoAttemptLeft
    \/ Downloaded \/ DownloadInterrupted \/ DownloadFailed
    \/ WholePartRejected \/ OffsetRejected

VerifyStep == VerifyInterrupted \/ PartUnreadable \/ PartVerified \/ PartMismatch

FinishStep == Install \/ InstallFails \/ ReportInstalled \/ GiveUp

JobStep == ExistingStep \/ AttemptStep \/ VerifyStep \/ FinishStep

\* Steps of the user and the machine
OutsideStep == CtrlC \/ Kill \/ RunAgain

ProgramStep == JobStep \/ (TransferStep /\ UNCHANGED jobVars)

Next == ProgramStep \/ OutsideStep

\* Anything may lie at both paths when the program is first run.
Init ==
    /\ task \in Tasks
    /\ running = TRUE
    /\ part \in {c \in Contents : Len(c) <= task.size + Overrun} \cup {NoFile, Foreign}
    /\ final \in {c \in Contents : Len(c) <= task.size + Overrun} \cup {NoFile, Foreign}
    /\ pos = 0 /\ stage = "idle" /\ retries = 0 /\ noDelay = FALSE
    /\ asked = 0 /\ status = "none" /\ off = 0 /\ base = 0 /\ got = 0
    /\ result = "none" /\ late = 0
    /\ job = "start"
    /\ attempt = 0
    /\ discard = FALSE
    /\ runs = 1
    /\ tainted = FALSE

\* A live process keeps taking steps: every wait it enters is bounded.
Spec == Init /\ [][Next]_vars /\ WF_vars(ProgramStep)

-----------------------------------------------------------------------------
(* Properties *)

\* Type correctness of the job's state.
TypeOK ==
    /\ TransferTypeOK
    /\ final \in Seq(BOOLEAN) \cup {NoFile, Foreign}
    /\ job \in Jobs
    /\ attempt \in 0..(MaxAttempts + 1)
    /\ discard \in BOOLEAN
    /\ runs \in 1..MaxRuns
    /\ tainted \in BOOLEAN

\* The rename never replaces a file: whatever was under the final name was
\* removed earlier in the same run (doc of install_downloaded_file).
InstallOverNothing == job = "install" => final = NoFile

\* A .part whose offset the server rejected, and that did not verify in
\* place, is never silently left for the next run to resume: a run that
\* fails over it goes through the discard.
RejectedPartIsDiscarded ==
    [][job' = "failed" /\ job \notin Ended /\ tainted
         => job = "giveUp" /\ discard]_vars

\* A complete .part of a file of known size is never destroyed by a re-download or
\* a discard: it is verified in place, even after a 416 or a kill between
\* download and rename.
CompletePartSurvives ==
    [][task.known /\ Good(part) /\ job \in {"prepare", "giveUp"}
         => part' = part]_vars

\* After Ctrl+C a job sends at most one request per attempt.
LateRequestsBounded == late <= MaxAttempts

\* The promise of FilePromise: this module implements it.
Promise == INSTANCE FilePromise WITH
    outcome <- IF job = "down" THEN "killed"
               ELSE IF job \in Ended THEN job ELSE "running"

KeepsPromise == Promise!PromiseSpec

\* process_file in outline, for the batch: this module implements it too.
AgreesWith(metadata, content) ==
    /\ metadata.known => Len(content) = metadata.size
    /\ metadata.md5 => content = [i \in 1..metadata.size |-> TRUE]

PhaseOf == [start |-> "start", check |-> "check", removeFinal |-> "stale",
            cleanPart |-> "clean", blockedPart |-> "blocked",
            redundantPart |-> "redundant", prepare |-> "download",
            transfer |-> "download", verify |-> "download",
            verifyWhole |-> "download", giveUp |-> "download",
            install |-> "install", installed |-> "installed",
            succeeded |-> "succeeded", failed |-> "failed",
            interrupted |-> "interrupted", down |-> "down"]

Outline == INSTANCE JobOutline WITH phase <- PhaseOf[job], Passes <- AgreesWith

\* A step of the job is a step of the outline: what survives each way to end
\* a file, and that only a verified .part is installed.
KeepsOutline == Outline!OutlineSpec

\* Every run ends, whatever the server does.
RunEnds == job = "start" ~> job \in Ended

\* Comments at mod.rs:642 ("An interrupted batch is not a successful one")
\* and verify.rs:58 (a stop "must not let the run report success"): a run
\* stopped while its file is being transferred does not report success.
\* (Meaningful in a single run.)
StoppedIsNotSuccess ==
    [](job = "transfer" /\ ~running => [](job # "succeeded"))
=============================================================================
