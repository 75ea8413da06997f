------------------------------ MODULE Recovery ------------------------------
(***************************************************************************)
(* FileJob on a working disk, against a server that holds the published    *)
(* file and is at worst flaky: in each run at most MaxRetries times a      *)
(* connection fails, a retryable status or a bad 206 is sent, or a body is *)
(* cut short. Runs are stopped and killed at any point, except the last.   *)
(***************************************************************************)
EXTENDS FileJob

VARIABLE faults   \* times the server failed in this run

recoveryVars == <<vars, faults>>

\* What a server that holds the file answers. It may ignore the Range.
HonestReply ==
    \/ FullBody
    \/ resuming /\ asked < task.size /\ PartialBody(asked, TRUE)
    \/ asked >= task.size /\ RangeRejected
    \/ off < task.size /\ ReceiveChunk(TRUE)
    \/ off = task.size /\ BodyComplete

\* With no size in the metadata a connection lost after the last unit
\* costs a whole attempt (the resume gets a 416 that nothing can explain),
\* so there it must be lost earlier.
CutShort == off < task.size \/ task.known

Fault ==
    \/ ConnectionError
    \/ \E zero \in BOOLEAN : RetryableStatus(zero)
    \/ \E start \in Offsets, wellFormed, zero \in BOOLEAN :
          BadPartialBody(start, wellFormed, zero)
    \/ \E zero \in BOOLEAN : off < task.size /\ BodyTruncated(zero)
    \/ CutShort /\ StreamError

HonestTransfer ==
    /\ UNCHANGED <<envVars, jobVars>>
    /\ \/ /\ HonestReply \/ SendRequest \/ BackoffOver \/ StopInStream
          /\ UNCHANGED faults
       \/ /\ faults < MaxRetries
          /\ Fault
          /\ faults' = faults + 1

\* No local operation fails, except that a leftover .part may be locked.
DiskWorks ==
    \/ StartFile \/ ExistingMissing \/ ExistingChecked
    \/ (RemoveStaleFinal /\ final' = NoFile)
    \/ CleanPart
    \/ PrepareFirst \/ PrepareAgain \/ NoAttemptLeft
    \/ Downloaded \/ DownloadInterrupted \/ DownloadFailed
    \/ WholePartRejected \/ OffsetRejected
    \/ VerifyInterrupted \/ PartVerified \/ PartMismatch
    \/ Install \/ ReportInstalled \/ GiveUp

Working == HonestTransfer \/ (DiskWorks /\ UNCHANGED faults)

Disturbance ==
    /\ runs < MaxRuns
    /\ CtrlC \/ Kill
    /\ UNCHANGED faults

TryAgain == RunAgain /\ faults' = 0

RecoveryInit ==
    /\ Init
    /\ part # Foreign /\ final # Foreign
    /\ faults = 0

\* The user runs the program again after every run.
RecoverySpec ==
    /\ RecoveryInit
    /\ [][Working \/ Disturbance \/ TryAgain]_recoveryVars
    /\ WF_recoveryVars(Working)
    /\ WF_recoveryVars(TryAgain)

-----------------------------------------------------------------------------
(* Properties *)

\* Whatever earlier runs left at the final name and in the .part, and
\* however often the program is stopped or killed, the run that is left
\* alone ends with the file verified, within its retries and attempts.
EventuallySucceeds == <>[](job = "succeeded" /\ Good(final))

\* An undisturbed run never fails on a server that is merely flaky.
FlakyServerNeverFails == job # "failed"

\* A .part that holds only published data keeps holding only published data
\* over resumes, resets, retries, kills and re-runs: no splice, no hole, no
\* duplicate.
Clean(content) == IsFile(content) => content = [i \in 1..Len(content) |-> TRUE]
CleanPartStaysClean == Clean(part) => []Clean(part)
=============================================================================
