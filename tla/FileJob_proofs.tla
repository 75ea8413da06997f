--------------------------- MODULE FileJob_proofs ---------------------------
(***************************************************************************)
(* Theorems about the treatment of one file, for every file size, every    *)
(* limit on retries, attempts and runs, and every server: FileJob          *)
(* implements FilePromise and JobOutline, the discipline of the .part      *)
(* file, and, against the servers of Recovery, that it is never spoilt and *)
(* that a run left alone does not fail.                                    *)
(***************************************************************************)
EXTENDS Recovery, Transfer_proofs

Before == {"start", "check", "removeFinal", "cleanPart", "blockedPart",
           "redundantPart"}

\* The transfer's memory is alive exactly during an attempt.
StageInv ==
    /\ job = "transfer" <=> stage # "idle"
    /\ stage = "idle" => retries = 0

\* What process_file knows of the two files at each place.
FilesInv ==
    /\ job \in {"cleanPart", "prepare", "transfer", "verify", "verifyWhole",
                "install", "giveUp"} => final = NoFile
    /\ job = "removeFinal" => final \in Seq(BOOLEAN) /\ ~Verifies(final)
    /\ job \in {"redundantPart", "installed", "succeeded"} =>
          final \in Seq(BOOLEAN) /\ Verifies(final)
    /\ job \in {"verify", "verifyWhole", "install"} => part \in Seq(BOOLEAN)
    /\ job = "install" => Verifies(part)

AttemptInv ==
    /\ job \in Before => attempt = 0
    /\ job = "prepare" => attempt \in 0..MaxAttempts
    /\ job \in {"transfer", "verify", "verifyWhole"} => attempt \in 1..MaxAttempts

\* discard_part is up, and the .part is known to be rejected, only between
\* the rejection and the next attempt or the end.
DiscardInv ==
    /\ discard => \/ job \in Ended \cup {"giveUp"}
                  \/ job = "prepare" /\ attempt > 0
    /\ tainted => \/ job \in Ended
                  \/ discard /\ job = "giveUp"
                  \/ discard /\ job = "prepare" /\ attempt > 0

\* A .part that is about to be re-created or discarded does not verify.
PartInv ==
    task.known => /\ job = "prepare" /\ attempt > 0 => ~Good(part)
                  /\ job = "giveUp" /\ discard => ~Good(part)

\* At most one late request for each attempt begun.
LateJobInv ==
    /\ late <= MaxAttempts
    /\ late > 0 => ~running
    /\ job \in Before => late = 0
    /\ job \in {"prepare", "transfer", "verify", "verifyWhole"} => late <= attempt
    /\ stage \in {"request", "backoff", "reopenBackoff"} => late < attempt

JobInv == /\ TypeOK /\ CallInv /\ StageInv /\ FilesInv /\ AttemptInv
          /\ DiscardInv /\ PartInv /\ LateJobInv

LEMMA JobInitEstablishes == Init => JobInv
<1> SUFFICES ASSUME Init PROVE JobInv
  OBVIOUS
<1>1. ASSUME NEW x \in {c \in Contents : Len(c) <= task.size + Overrun} \cup {NoFile, Foreign}
      PROVE  x \in Seq(BOOLEAN) \cup {NoFile, Foreign}
  <2>1. CASE x \in Contents
    <3>1. PICK n \in 0..(MaxSize + Overrun) : x \in [1..n -> BOOLEAN]
      BY <2>1 DEF Contents
    <3>2. n \in Nat
      BY SizesAssumption
    <3> QED
      BY <3>1, <3>2
  <2> QED
    BY <1>1, <2>1
<1>2. TransferTypeOK
  <2>1. running \in BOOLEAN /\ noDelay \in BOOLEAN
    BY DEF Init
  <2>2. part \in Seq(BOOLEAN) \cup {NoFile, Foreign}
    BY <1>1 DEF Init
  <2>3. retries \in 0..(MaxRetries + 1)
    BY RetriesAssumption DEF Init
  <2> QED
    BY <2>1, <2>2, <2>3 DEF Init, TransferTypeOK, Stages, Results
<1>3. TypeOK
  <2>1. discard \in BOOLEAN /\ tainted \in BOOLEAN
    BY DEF Init
  <2>2. final \in Seq(BOOLEAN) \cup {NoFile, Foreign}
    BY <1>1 DEF Init
  <2>3. attempt \in 0..(MaxAttempts + 1) /\ runs \in 1..MaxRuns
    BY AttemptsAssumption, RunsAssumption DEF Init
  <2> QED
    BY <1>2, <2>1, <2>2, <2>3 DEF Init, TypeOK, Jobs
<1>4. CallInv
  BY <1>2 DEF Init, CallInv, CursorInv, RetryInv, NoSplice, Live, resuming
<1>5. StageInv /\ FilesInv /\ AttemptInv /\ PartInv
  BY DEF Init, StageInv, FilesInv, AttemptInv, PartInv
<1>6. DiscardInv
  BY DEF Init, DiscardInv
<1>7. LateJobInv
  BY AttemptsAssumption DEF Init, LateJobInv
<1> QED
  BY <1>3, <1>4, <1>5, <1>6, <1>7 DEF JobInv

-----------------------------------------------------------------------------
(* Facts about contents and about the transfer's memory *)

\* What a content is worth depends on the metadata alone.
LEMMA WorthStable ==
    ASSUME UNCHANGED task
    PROVE  /\ UNCHANGED final => (Verifies(final)' <=> Verifies(final))
           /\ UNCHANGED part => (Good(part)' <=> Good(part))
           /\ UNCHANGED part => (Verifies(part)' <=> Verifies(part))
           /\ final' = part => (Verifies(final)' <=> Verifies(part))
           /\ part' = NoFile => ~Good(part)'
<1> QED
  BY DEF Good, IsFile, Verifies, SizeMatches, Published

\* The transfer is over, or has not begun: only the types matter.
LEMMA IdlePreserves ==
    ASSUME CallInv, UNCHANGED task,
           running' \in BOOLEAN, part' \in Seq(BOOLEAN) \cup {NoFile, Foreign},
           late' \in Nat,
           TransferForgotten \/ (stage = "idle" /\ UNCHANGED idleVars)
    PROVE  CallInv'
<1>1. stage' = "idle"
  BY DEF TransferForgotten, idleVars
<1>2. TransferTypeOK'
  <2>1. CASE TransferForgotten
    <3>1. noDelay' \in BOOLEAN
      BY <2>1 DEF TransferForgotten
    <3>2. retries' \in 0..(MaxRetries + 1)
      BY <2>1, RetriesAssumption DEF TransferForgotten
    <3> QED
      BY <1>1, <2>1, <3>1, <3>2
      DEF CallInv, TransferTypeOK, TransferForgotten, Stages, Results
  <2>2. CASE UNCHANGED idleVars
    BY <1>1, <2>2 DEF CallInv, TransferTypeOK, idleVars, replyVars
  <2> QED
    BY <2>1, <2>2
<1> QED
  BY <1>1, <1>2 DEF CallInv, CursorInv, RetryInv, NoSplice, Live

\* An attempt begins on the .part just opened.
LEMMA StartPreserves ==
    ASSUME CallInv, stage = "idle", retries = 0,
           NEW content \in Seq(BOOLEAN), StartTransfer(content),
           UNCHANGED <<envVars, late>>
    PROVE  CallInv'
<1>1. TransferTypeOK'
  BY DEF CallInv, TransferTypeOK, StartTransfer, Stages, envVars, replyVars
<1>2. CursorInv' /\ RetryInv' /\ NoSplice'
  BY RetriesAssumption DEF StartTransfer, CursorInv, RetryInv, NoSplice, Live
<1> QED
  BY <1>1, <1>2 DEF CallInv

-----------------------------------------------------------------------------
(* The steps outside the transfer, one part of the invariant at a time *)

\* The transfer's memory is dropped whenever the transfer is left.
LEMMA StageInvStep == JobInv /\ (JobStep \/ OutsideStep) => StageInv'
<1> SUFFICES ASSUME JobInv, JobStep \/ OutsideStep PROVE StageInv'
  OBVIOUS
<1>1. CASE ExistingStep
  BY <1>1
  DEF JobInv, StageInv, ExistingStep, StartFile, DirectoryFails,
      ExistingUnreadable, ExistingMissing, ExistingChecked,
      RemoveStaleFinal, CleanPart, Goto, TryRemovePart, AfterCleaning,
      replyVars, Ended, Before, envVars, transferVars
<1>2. CASE AttemptStep
  BY <1>2
  DEF JobInv, StageInv, AttemptStep, PrepareFirst, PrepareAgain,
      PrepareFails, NoAttemptLeft, Downloaded, DownloadInterrupted,
      DownloadFailed, WholePartRejected, OffsetRejected, Goto,
      TryRemovePart, idleVars, StartTransfer, TransferForgotten,
      TransferEnds, replyVars, Ended, Before, envVars, transferVars
<1>3. CASE VerifyStep
  BY <1>3
  DEF JobInv, StageInv, VerifyStep, VerifyInterrupted, PartUnreadable,
      PartVerified, PartMismatch, Goto, Verifying, Ended, Before, envVars,
      transferVars
<1>4. CASE FinishStep
  BY <1>4
  DEF JobInv, StageInv, FinishStep, Install, InstallFails, ReportInstalled,
      GiveUp, Goto, TryRemovePart, idleVars, replyVars, Ended, Before,
      envVars, transferVars
<1>5. CASE OutsideStep
  BY <1>5
  DEF JobInv, StageInv, OutsideStep, CtrlC, Kill, RunAgain, Goto,
      TransferForgotten, idleVars, jobVars, replyVars, Ended, Before,
      envVars, transferVars
<1> QED
  BY <1>1, <1>2, <1>3, <1>4, <1>5 DEF JobStep

\* The attempt counter.
LEMMA AttemptInvStep == JobInv /\ (JobStep \/ OutsideStep) => AttemptInv'
<1> SUFFICES ASSUME JobInv, JobStep \/ OutsideStep PROVE AttemptInv'
  OBVIOUS
<1>1. CASE ExistingStep
  BY <1>1, AttemptsAssumption
  DEF JobInv, AttemptInv, TypeOK, ExistingStep, StartFile, DirectoryFails,
      ExistingUnreadable, ExistingMissing, ExistingChecked,
      RemoveStaleFinal, CleanPart, Goto, TryRemovePart, AfterCleaning,
      replyVars, Ended, Before, envVars, transferVars
<1>2. CASE AttemptStep
  BY <1>2, AttemptsAssumption
  DEF JobInv, AttemptInv, TypeOK, AttemptStep, PrepareFirst, PrepareAgain,
      PrepareFails, NoAttemptLeft, Downloaded, DownloadInterrupted,
      DownloadFailed, WholePartRejected, OffsetRejected, Goto,
      TryRemovePart, idleVars, StartTransfer, TransferForgotten,
      TransferEnds, replyVars, Ended, Before, envVars, transferVars
<1>3. CASE VerifyStep
  BY <1>3, AttemptsAssumption
  DEF JobInv, AttemptInv, TypeOK, VerifyStep, VerifyInterrupted,
      PartUnreadable, PartVerified, PartMismatch, Goto, Verifying, Ended,
      Before, envVars, transferVars
<1>4. CASE FinishStep
  BY <1>4, AttemptsAssumption
  DEF JobInv, AttemptInv, TypeOK, FinishStep, Install, InstallFails,
      ReportInstalled, GiveUp, Goto, TryRemovePart, idleVars, replyVars,
      Ended, Before, envVars, transferVars
<1>5. CASE OutsideStep
  BY <1>5, AttemptsAssumption
  DEF JobInv, AttemptInv, TypeOK, OutsideStep, CtrlC, Kill, RunAgain, Goto,
      TransferForgotten, idleVars, jobVars, replyVars, Ended, Before,
      envVars, transferVars
<1> QED
  BY <1>1, <1>2, <1>3, <1>4, <1>5 DEF JobStep

\* discard_part.
LEMMA DiscardInvStep == JobInv /\ (JobStep \/ OutsideStep) => DiscardInv'
<1> SUFFICES ASSUME JobInv, JobStep \/ OutsideStep PROVE DiscardInv'
  OBVIOUS
<1>1. CASE ExistingStep
  BY <1>1
  DEF JobInv, DiscardInv, TypeOK, AttemptInv, ExistingStep, StartFile,
      DirectoryFails, ExistingUnreadable, ExistingMissing, ExistingChecked,
      RemoveStaleFinal, CleanPart, Goto, TryRemovePart, AfterCleaning,
      replyVars, Ended, Before, envVars, transferVars
<1>2. CASE AttemptStep
  BY <1>2
  DEF JobInv, DiscardInv, TypeOK, AttemptInv, AttemptStep, PrepareFirst,
      PrepareAgain, PrepareFails, NoAttemptLeft, Downloaded,
      DownloadInterrupted, DownloadFailed, WholePartRejected,
      OffsetRejected, Goto, TryRemovePart, idleVars, StartTransfer,
      TransferForgotten, TransferEnds, replyVars, Ended, Before, envVars,
      transferVars
<1>3. CASE VerifyStep
  BY <1>3
  DEF JobInv, DiscardInv, TypeOK, AttemptInv, VerifyStep, VerifyInterrupted,
      PartUnreadable, PartVerified, PartMismatch, Goto, Verifying, Ended,
      Before, envVars, transferVars
<1>4. CASE FinishStep
  BY <1>4
  DEF JobInv, DiscardInv, TypeOK, AttemptInv, FinishStep, Install,
      InstallFails, ReportInstalled, GiveUp, Goto, TryRemovePart, idleVars,
      replyVars, Ended, Before, envVars, transferVars
<1>5. CASE OutsideStep
  BY <1>5
  DEF JobInv, DiscardInv, TypeOK, AttemptInv, OutsideStep, CtrlC, Kill,
      RunAgain, Goto, TransferForgotten, idleVars, jobVars, replyVars,
      Ended, Before, envVars, transferVars
<1> QED
  BY <1>1, <1>2, <1>3, <1>4, <1>5 DEF JobStep

\* Late requests.
LEMMA LateJobInvStep == JobInv /\ (JobStep \/ OutsideStep) => LateJobInv'
<1> SUFFICES ASSUME JobInv, JobStep \/ OutsideStep PROVE LateJobInv'
  OBVIOUS
<1>1. CASE ExistingStep
  BY <1>1, AttemptsAssumption
  DEF JobInv, LateJobInv, TypeOK, TransferTypeOK, AttemptInv, StageInv,
      ExistingStep, StartFile, DirectoryFails, ExistingUnreadable,
      ExistingMissing, ExistingChecked, RemoveStaleFinal, CleanPart, Goto,
      TryRemovePart, AfterCleaning, replyVars, Ended, Before, envVars,
      transferVars
<1>2. CASE AttemptStep
  BY <1>2, AttemptsAssumption
  DEF JobInv, LateJobInv, TypeOK, TransferTypeOK, AttemptInv, StageInv,
      AttemptStep, PrepareFirst, PrepareAgain, PrepareFails, NoAttemptLeft,
      Downloaded, DownloadInterrupted, DownloadFailed, WholePartRejected,
      OffsetRejected, Goto, TryRemovePart, idleVars, StartTransfer,
      TransferForgotten, TransferEnds, replyVars, Ended, Before, envVars,
      transferVars
<1>3. CASE VerifyStep
  BY <1>3, AttemptsAssumption
  DEF JobInv, LateJobInv, TypeOK, TransferTypeOK, AttemptInv, StageInv,
      VerifyStep, VerifyInterrupted, PartUnreadable, PartVerified,
      PartMismatch, Goto, Verifying, Ended, Before, envVars, transferVars
<1>4. CASE FinishStep
  BY <1>4, AttemptsAssumption
  DEF JobInv, LateJobInv, TypeOK, TransferTypeOK, AttemptInv, StageInv,
      FinishStep, Install, InstallFails, ReportInstalled, GiveUp, Goto,
      TryRemovePart, idleVars, replyVars, Ended, Before, envVars,
      transferVars
<1>5. CASE OutsideStep
  BY <1>5, AttemptsAssumption
  DEF JobInv, LateJobInv, TypeOK, TransferTypeOK, AttemptInv, StageInv,
      OutsideStep, CtrlC, Kill, RunAgain, Goto, TransferForgotten, idleVars,
      jobVars, replyVars, Ended, Before, envVars, transferVars
<1> QED
  BY <1>1, <1>2, <1>3, <1>4, <1>5 DEF JobStep

\* The two files.
LEMMA FilesInvStep == JobInv /\ (JobStep \/ OutsideStep) => FilesInv'
<1> SUFFICES ASSUME JobInv, JobStep \/ OutsideStep PROVE FilesInv'
  OBVIOUS
<1>1. CASE ExistingStep
  BY <1>1, WorthStable
  DEF JobInv, FilesInv, TypeOK, TransferTypeOK, IsFile, StageInv,
      ExistingStep, StartFile, DirectoryFails, ExistingUnreadable,
      ExistingMissing, ExistingChecked, RemoveStaleFinal, CleanPart, Goto,
      TryRemovePart, AfterCleaning, replyVars, Ended, Before, envVars,
      transferVars
<1>2. CASE AttemptStep
  BY <1>2, WorthStable
  DEF JobInv, FilesInv, TypeOK, TransferTypeOK, IsFile, StageInv,
      AttemptStep, PrepareFirst, PrepareAgain, PrepareFails, NoAttemptLeft,
      Downloaded, DownloadInterrupted, DownloadFailed, WholePartRejected,
      OffsetRejected, Goto, TryRemovePart, idleVars, StartTransfer,
      TransferForgotten, TransferEnds, replyVars, Ended, Before, envVars,
      transferVars
<1>3. CASE VerifyStep
  BY <1>3, WorthStable
  DEF JobInv, FilesInv, TypeOK, TransferTypeOK, IsFile, StageInv,
      VerifyStep, VerifyInterrupted, PartUnreadable, PartVerified,
      PartMismatch, Goto, Verifying, Ended, Before, envVars, transferVars
<1>4. CASE FinishStep
  BY <1>4, WorthStable
  DEF JobInv, FilesInv, TypeOK, TransferTypeOK, IsFile, StageInv,
      FinishStep, Install, InstallFails, ReportInstalled, GiveUp, Goto,
      TryRemovePart, idleVars, replyVars, Ended, Before, envVars,
      transferVars
<1>5. CASE OutsideStep
  BY <1>5, WorthStable
  DEF JobInv, FilesInv, TypeOK, TransferTypeOK, IsFile, StageInv,
      OutsideStep, CtrlC, Kill, RunAgain, Goto, TransferForgotten, idleVars,
      jobVars, replyVars, Ended, Before, envVars, transferVars
<1> QED
  BY <1>1, <1>2, <1>3, <1>4, <1>5 DEF JobStep

\* The .part about to be dropped.
LEMMA PartInvStep == JobInv /\ (JobStep \/ OutsideStep) => PartInv'
<1> SUFFICES ASSUME JobInv, JobStep \/ OutsideStep PROVE PartInv'
  OBVIOUS
<1>1. CASE ExistingStep
  BY <1>1, WorthStable
  DEF JobInv, PartInv, TypeOK, Good, Verifies, SizeMatches, IsFile,
      WholePart, DiscardInv, AttemptInv, ExistingStep, StartFile,
      DirectoryFails, ExistingUnreadable, ExistingMissing, ExistingChecked,
      RemoveStaleFinal, CleanPart, Goto, TryRemovePart, AfterCleaning,
      replyVars, Ended, Before, envVars, transferVars
<1>2. CASE AttemptStep
  BY <1>2, WorthStable
  DEF JobInv, PartInv, TypeOK, Good, Verifies, SizeMatches, IsFile,
      WholePart, DiscardInv, AttemptInv, AttemptStep, PrepareFirst,
      PrepareAgain, PrepareFails, NoAttemptLeft, Downloaded,
      DownloadInterrupted, DownloadFailed, WholePartRejected,
      OffsetRejected, Goto, TryRemovePart, idleVars, StartTransfer,
      TransferForgotten, TransferEnds, replyVars, Ended, Before, envVars,
      transferVars
<1>3. CASE VerifyStep
  BY <1>3, WorthStable
  DEF JobInv, PartInv, TypeOK, Good, Verifies, SizeMatches, IsFile,
      WholePart, DiscardInv, AttemptInv, VerifyStep, VerifyInterrupted,
      PartUnreadable, PartVerified, PartMismatch, Goto, Verifying, Ended,
      Before, envVars, transferVars
<1>4. CASE FinishStep
  BY <1>4, WorthStable
  DEF JobInv, PartInv, TypeOK, Good, Verifies, SizeMatches, IsFile,
      WholePart, DiscardInv, AttemptInv, FinishStep, Install, InstallFails,
      ReportInstalled, GiveUp, Goto, TryRemovePart, idleVars, replyVars,
      Ended, Before, envVars, transferVars
<1>5. CASE OutsideStep
  BY <1>5, WorthStable
  DEF JobInv, PartInv, TypeOK, Good, Verifies, SizeMatches, IsFile,
      WholePart, DiscardInv, AttemptInv, OutsideStep, CtrlC, Kill, RunAgain,
      Goto, TransferForgotten, idleVars, jobVars, replyVars, Ended, Before,
      envVars, transferVars
<1> QED
  BY <1>1, <1>2, <1>3, <1>4, <1>5 DEF JobStep

\* The transfer's own invariant.
LEMMA CallInvStep == JobInv /\ (JobStep \/ OutsideStep) => CallInv'
<1> SUFFICES ASSUME JobInv, JobStep \/ OutsideStep PROVE CallInv'
  OBVIOUS
<1> USE DEF JobInv
<1>0. /\ running \in BOOLEAN /\ late \in Nat
      /\ part \in Seq(BOOLEAN) \cup {NoFile, Foreign}
      /\ stage # "idle" => part \in Seq(BOOLEAN)
  BY DEF TypeOK, TransferTypeOK
<1>1. CASE ExistingStep \/ VerifyStep \/ FinishStep
  <2>1. stage = "idle"
    BY <1>1
    DEF StageInv, ExistingStep, StartFile, DirectoryFails, ExistingUnreadable,
        ExistingMissing, ExistingChecked, RemoveStaleFinal, CleanPart,
        AfterCleaning, VerifyStep, VerifyInterrupted, PartUnreadable, PartVerified,
        PartMismatch, Verifying, FinishStep, Install, InstallFails,
        ReportInstalled, GiveUp
  <2>2. UNCHANGED <<envVars, late, idleVars>> /\ part' \in {part, NoFile}
    BY <1>1
    DEF ExistingStep, StartFile, DirectoryFails, ExistingUnreadable,
        ExistingMissing, ExistingChecked, RemoveStaleFinal, CleanPart,
        TryRemovePart, VerifyStep, VerifyInterrupted, PartUnreadable, PartVerified,
        PartMismatch, FinishStep, Install, InstallFails, ReportInstalled, GiveUp,
        transferVars, idleVars, replyVars
  <2> QED
    BY <1>0, <2>1, <2>2, IdlePreserves DEF envVars
<1>2. CASE PrepareFirst
  <2>1. stage = "idle" /\ retries = 0
    BY <1>2 DEF PrepareFirst, StageInv
  <2>2. (IF part = NoFile THEN <<>> ELSE part) \in Seq(BOOLEAN)
    <3>1. part = NoFile \/ part \in Seq(BOOLEAN)
      BY <1>0, <1>2 DEF PrepareFirst
    <3>2. <<>> \in Seq(BOOLEAN)
      OBVIOUS
    <3> QED
      BY <3>1, <3>2
  <2> QED
    BY <1>2, <2>1, <2>2, StartPreserves DEF PrepareFirst
<1>3. CASE PrepareAgain
  <2>1. stage = "idle" /\ retries = 0
    BY <1>3 DEF PrepareAgain, StageInv
  <2>2. <<>> \in Seq(BOOLEAN)
    OBVIOUS
  <2> QED
    BY <1>3, <2>1, <2>2, StartPreserves DEF PrepareAgain
<1>4. CASE PrepareFails \/ NoAttemptLeft
  <2>1. stage = "idle"
    BY <1>4 DEF PrepareFails, NoAttemptLeft, StageInv
  <2>2. UNCHANGED <<envVars, late, idleVars>> /\ part' \in {part, NoFile}
    BY <1>4
    DEF PrepareFails, NoAttemptLeft, TryRemovePart, transferVars, idleVars, replyVars
  <2> QED
    BY <1>0, <2>1, <2>2, IdlePreserves DEF envVars
<1>5. CASE \/ Downloaded \/ DownloadInterrupted \/ DownloadFailed
           \/ WholePartRejected \/ OffsetRejected
  <2>1. TransferForgotten /\ UNCHANGED <<envVars, part, late>>
    BY <1>5
    DEF Downloaded, DownloadInterrupted, DownloadFailed, WholePartRejected,
        OffsetRejected, TransferEnds
  <2> QED
    BY <1>0, <2>1, IdlePreserves DEF envVars
<1>6. CASE CtrlC
  <2>1. CASE running' = FALSE /\ UNCHANGED <<task, transferVars, jobVars>>
    BY <2>1
    DEF CallInv, TransferTypeOK, CursorInv, RetryInv, NoSplice, Live, resuming,
        transferVars, replyVars
  <2>2. CASE TransferForgotten /\ UNCHANGED <<envVars, part, late>>
    BY <1>0, <2>2, IdlePreserves DEF envVars
  <2> QED
    BY <1>6, <2>1, <2>2 DEF CtrlC
<1>7. CASE Kill
  <2>1. TransferForgotten /\ UNCHANGED <<envVars, part, late>>
    BY <1>7 DEF Kill
  <2> QED
    BY <1>0, <2>1, IdlePreserves DEF envVars
<1>8. CASE RunAgain
  <2>1. stage = "idle"
    BY <1>8 DEF RunAgain, StageInv, Ended
  <2>2. UNCHANGED <<task, part, idleVars>> /\ running' = TRUE /\ late' = 0
    BY <1>8 DEF RunAgain
  <2> QED
    BY <1>0, <2>1, <2>2, IdlePreserves
<1> QED
  BY <1>1, <1>2, <1>3, <1>4, <1>5, <1>6, <1>7, <1>8
  DEF JobStep, AttemptStep, OutsideStep

\* The types of the job's variables.
LEMMA TypeStep == JobInv /\ (JobStep \/ OutsideStep) => TypeOK'
<1> SUFFICES ASSUME JobInv, JobStep \/ OutsideStep PROVE TypeOK'
  OBVIOUS
<1>1. TransferTypeOK'
  BY CallInvStep DEF CallInv
<1>2. job' \in Jobs
  <2>1. CASE ExistingStep
    BY <2>1
    DEF JobInv, TypeOK, Jobs, Ended, ExistingStep, StartFile, DirectoryFails,
        ExistingUnreadable, ExistingMissing, ExistingChecked,
        RemoveStaleFinal, CleanPart, Goto, TryRemovePart, AfterCleaning,
        replyVars, envVars, transferVars
  <2>2. CASE AttemptStep
    BY <2>2
    DEF JobInv, TypeOK, Jobs, Ended, AttemptStep, PrepareFirst, PrepareAgain,
        PrepareFails, NoAttemptLeft, Downloaded, DownloadInterrupted,
        DownloadFailed, WholePartRejected, OffsetRejected, Goto,
        TryRemovePart, idleVars, StartTransfer, TransferForgotten,
        TransferEnds, replyVars, envVars, transferVars
  <2>3. CASE VerifyStep
    BY <2>3
    DEF JobInv, TypeOK, Jobs, Ended, VerifyStep, VerifyInterrupted,
        PartUnreadable, PartVerified, PartMismatch, Goto, Verifying, envVars,
        transferVars
  <2>4. CASE FinishStep
    BY <2>4
    DEF JobInv, TypeOK, Jobs, Ended, FinishStep, Install, InstallFails,
        ReportInstalled, GiveUp, Goto, TryRemovePart, idleVars, replyVars,
        envVars, transferVars
  <2>5. CASE OutsideStep
    BY <2>5
    DEF JobInv, TypeOK, Jobs, Ended, OutsideStep, CtrlC, Kill, RunAgain, Goto,
        TransferForgotten, idleVars, jobVars, replyVars, envVars, transferVars
  <2> QED
    BY <2>1, <2>2, <2>3, <2>4, <2>5 DEF JobStep
<1>3. attempt' \in 0..(MaxAttempts + 1) /\ runs' \in 1..MaxRuns
  <2>1. CASE ExistingStep
    BY <2>1, AttemptsAssumption, RunsAssumption
    DEF JobInv, TypeOK, AttemptInv, ExistingStep, StartFile, DirectoryFails,
        ExistingUnreadable, ExistingMissing, ExistingChecked,
        RemoveStaleFinal, CleanPart, Goto, TryRemovePart, AfterCleaning,
        replyVars, envVars, transferVars
  <2>2. CASE AttemptStep
    BY <2>2, AttemptsAssumption, RunsAssumption
    DEF JobInv, TypeOK, AttemptInv, AttemptStep, PrepareFirst, PrepareAgain,
        PrepareFails, NoAttemptLeft, Downloaded, DownloadInterrupted,
        DownloadFailed, WholePartRejected, OffsetRejected, Goto,
        TryRemovePart, idleVars, StartTransfer, TransferForgotten,
        TransferEnds, replyVars, envVars, transferVars
  <2>3. CASE VerifyStep
    BY <2>3, AttemptsAssumption, RunsAssumption
    DEF JobInv, TypeOK, AttemptInv, VerifyStep, VerifyInterrupted,
        PartUnreadable, PartVerified, PartMismatch, Goto, Verifying, envVars,
        transferVars
  <2>4. CASE FinishStep
    BY <2>4, AttemptsAssumption, RunsAssumption
    DEF JobInv, TypeOK, AttemptInv, FinishStep, Install, InstallFails,
        ReportInstalled, GiveUp, Goto, TryRemovePart, idleVars, replyVars,
        envVars, transferVars
  <2>5. CASE OutsideStep
    BY <2>5, AttemptsAssumption, RunsAssumption
    DEF JobInv, TypeOK, AttemptInv, OutsideStep, CtrlC, Kill, RunAgain, Goto,
        TransferForgotten, idleVars, jobVars, replyVars, envVars, transferVars
  <2> QED
    BY <2>1, <2>2, <2>3, <2>4, <2>5 DEF JobStep
<1>4. final' \in Seq(BOOLEAN) \cup {NoFile, Foreign}
  <2>1. CASE ExistingStep
    BY <2>1
    DEF JobInv, TypeOK, FilesInv, ExistingStep, StartFile, DirectoryFails,
        ExistingUnreadable, ExistingMissing, ExistingChecked,
        RemoveStaleFinal, CleanPart, Goto, TryRemovePart, AfterCleaning,
        replyVars, envVars, transferVars
  <2>2. CASE AttemptStep
    BY <2>2
    DEF JobInv, TypeOK, FilesInv, AttemptStep, PrepareFirst, PrepareAgain,
        PrepareFails, NoAttemptLeft, Downloaded, DownloadInterrupted,
        DownloadFailed, WholePartRejected, OffsetRejected, Goto,
        TryRemovePart, idleVars, StartTransfer, TransferForgotten,
        TransferEnds, replyVars, envVars, transferVars
  <2>3. CASE VerifyStep
    BY <2>3
    DEF JobInv, TypeOK, FilesInv, VerifyStep, VerifyInterrupted,
        PartUnreadable, PartVerified, PartMismatch, Goto, Verifying, envVars,
        transferVars
  <2>4. CASE FinishStep
    BY <2>4
    DEF JobInv, TypeOK, FilesInv, FinishStep, Install, InstallFails,
        ReportInstalled, GiveUp, Goto, TryRemovePart, idleVars, replyVars,
        envVars, transferVars
  <2>5. CASE OutsideStep
    BY <2>5
    DEF JobInv, TypeOK, FilesInv, OutsideStep, CtrlC, Kill, RunAgain, Goto,
        TransferForgotten, idleVars, jobVars, replyVars, envVars, transferVars
  <2> QED
    BY <2>1, <2>2, <2>3, <2>4, <2>5 DEF JobStep
<1>5. discard' \in BOOLEAN /\ tainted' \in BOOLEAN
  <2>1. CASE ExistingStep
    BY <2>1
    DEF JobInv, TypeOK, ExistingStep, StartFile, DirectoryFails,
        ExistingUnreadable, ExistingMissing, ExistingChecked,
        RemoveStaleFinal, CleanPart, Goto, TryRemovePart, AfterCleaning,
        replyVars, envVars, transferVars
  <2>2. CASE AttemptStep
    BY <2>2
    DEF JobInv, TypeOK, AttemptStep, PrepareFirst, PrepareAgain, PrepareFails,
        NoAttemptLeft, Downloaded, DownloadInterrupted, DownloadFailed,
        WholePartRejected, OffsetRejected, Goto, TryRemovePart, idleVars,
        StartTransfer, TransferForgotten, TransferEnds, replyVars, envVars,
        transferVars
  <2>3. CASE VerifyStep
    BY <2>3
    DEF JobInv, TypeOK, VerifyStep, VerifyInterrupted, PartUnreadable,
        PartVerified, PartMismatch, Goto, Verifying, envVars, transferVars
  <2>4. CASE FinishStep
    BY <2>4
    DEF JobInv, TypeOK, FinishStep, Install, InstallFails, ReportInstalled,
        GiveUp, Goto, TryRemovePart, idleVars, replyVars, envVars,
        transferVars
  <2>5. CASE OutsideStep
    BY <2>5
    DEF JobInv, TypeOK, OutsideStep, CtrlC, Kill, RunAgain, Goto,
        TransferForgotten, idleVars, jobVars, replyVars, envVars, transferVars
  <2> QED
    BY <2>1, <2>2, <2>3, <2>4, <2>5 DEF JobStep
<1> QED
  BY <1>1, <1>2, <1>3, <1>4, <1>5 DEF TypeOK

LEMMA OutsideTransferPreserves == JobInv /\ (JobStep \/ OutsideStep) => JobInv'
<1> QED
  BY StageInvStep, AttemptInvStep, DiscardInvStep, LateJobInvStep, FilesInvStep,
     PartInvStep, CallInvStep, TypeStep
  DEF JobInv

-----------------------------------------------------------------------------
(* The steps of the transfer *)

LEMMA TransferPreserves == JobInv /\ TransferStep /\ UNCHANGED jobVars => JobInv'
<1> SUFFICES ASSUME JobInv, TransferStep, UNCHANGED jobVars PROVE JobInv'
  OBVIOUS
<1> USE DEF JobInv
<1>1. stage # "idle" /\ stage # "returned"
  BY DEF TransferStep, ServerStep, LocalStep, SendRequest, BackoffOver, DiskFull,
         LocalIoError, StopInStream, ConnectionError, RangeRejected,
         RetryableStatus, FatalStatus, FullBody, PartialBody, BadPartialBody,
         ReceiveChunk, BodyComplete, BodyTruncated, StreamError
<1>2. job = "transfer" /\ job' = "transfer" /\ stage' # "idle"
  BY <1>1, NeverIdle DEF StageInv, jobVars
<1>3. CallInv'
  BY CallStepPreserves
<1>4. TypeOK'
  BY <1>3 DEF CallInv, TypeOK, jobVars
<1>5. StageInv' /\ FilesInv' /\ AttemptInv' /\ PartInv'
  BY <1>2 DEF StageInv, FilesInv, AttemptInv, PartInv, Before, jobVars
<1>6. DiscardInv'
  BY <1>2 DEF DiscardInv, Ended, jobVars
<1>7. LateJobInv'
  <2>1. /\ running' = running /\ attempt' = attempt
        /\ attempt \in 1..MaxAttempts /\ late \in Nat
    BY <1>2 DEF TransferStep, envVars, jobVars, AttemptInv, TypeOK, TransferTypeOK
  <2>2. CASE SendRequest
    BY <1>2, <2>1, <2>2, AttemptsAssumption DEF SendRequest, LateJobInv, Before
  <2>3. CASE BackoffOver \/ DiskFull \/ LocalIoError \/ StopInStream
    BY <1>2, <2>1, <2>3
    DEF BackoffOver, DiskFull, LocalIoError, StopInStream, Return, LateJobInv, Before
  <2>4. CASE ServerStep
    <3>1. late' = late
      BY <2>4
      DEF ServerStep, ConnectionError, RangeRejected, RetryableStatus, FatalStatus,
          FullBody, PartialBody, BadPartialBody, ReceiveChunk, BodyComplete,
          BodyTruncated, StreamError
    <3>2. stage' \in {"backoff", "reopenBackoff"} => running
      BY <1>1, <2>4
      DEF ServerStep, ConnectionError, RangeRejected, RetryableStatus, FatalStatus,
          FullBody, PartialBody, BadPartialBody, ReceiveChunk, BodyComplete,
          BodyTruncated, StreamError, Record, Return, StartStreaming
    <3>3. stage' # "request"
      BY <2>4
      DEF ServerStep, ConnectionError, RangeRejected, RetryableStatus, FatalStatus,
          FullBody, PartialBody, BadPartialBody, ReceiveChunk, BodyComplete,
          BodyTruncated, StreamError, Record, Return, StartStreaming
    <3> QED
      BY <1>2, <2>1, <3>1, <3>2, <3>3 DEF LateJobInv, Before
  <2> QED
    BY <2>2, <2>3, <2>4 DEF TransferStep, LocalStep
<1> QED
  BY <1>3, <1>4, <1>5, <1>6, <1>7

LEMMA JobStepPreserves == JobInv /\ [Next]_vars => JobInv'
<1> SUFFICES ASSUME JobInv, [Next]_vars PROVE JobInv'
  OBVIOUS
<1>1. CASE UNCHANGED vars
  BY <1>1
  DEF vars, envVars, transferVars, replyVars, jobVars, JobInv, TypeOK,
      TransferTypeOK, CallInv, CursorInv, RetryInv, NoSplice, Live, resuming,
      StageInv, FilesInv, AttemptInv, DiscardInv, PartInv, LateJobInv, Verifies,
      SizeMatches, Published, Good, IsFile
<1>2. CASE Next
  BY <1>2, OutsideTransferPreserves, TransferPreserves DEF Next, ProgramStep
<1> QED
  BY <1>1, <1>2

LEMMA JobInvariance == Spec => []JobInv
<1> QED
  BY JobInitEstablishes, JobStepPreserves, PTL DEF Spec

-----------------------------------------------------------------------------
(* The theorems *)

\* Every variable of the job keeps its type.
THEOREM TypeCorrect == Spec => []TypeOK
<1>1. JobInv => TypeOK
  BY DEF JobInv
<1> QED
  BY <1>1, JobInvariance, PTL

\* The rename that installs a download never replaces a file.
THEOREM InstallsOverNothing == Spec => []InstallOverNothing
<1>1. JobInv => InstallOverNothing
  BY DEF JobInv, FilesInv, InstallOverNothing
<1> QED
  BY <1>1, JobInvariance, PTL

\* After Ctrl+C a job sends at most one request for each attempt.
THEOREM LateRequestsOfJob == Spec => []LateRequestsBounded
<1>1. JobInv => LateRequestsBounded
  BY DEF JobInv, LateJobInv, LateRequestsBounded
<1> QED
  BY <1>1, JobInvariance, PTL

\* A .part the server rejected is discarded by the run that fails over it.
THEOREM RejectedPartDiscarded == Spec => RejectedPartIsDiscarded
<1> DEFINE Discarded == job' = "failed" /\ job \notin Ended /\ tainted
                          => job = "giveUp" /\ discard
<1>1. JobInv /\ [Next]_vars => [Discarded]_vars
  <2> SUFFICES ASSUME JobInv, Next, job' = "failed", job \notin Ended, tainted
               PROVE  job = "giveUp" /\ discard
    OBVIOUS
  <2>1. discard /\ \/ job = "giveUp"
                   \/ job = "prepare" /\ attempt > 0
    BY DEF JobInv, DiscardInv
  <2>2. ASSUME job = "prepare", attempt > 0 PROVE FALSE
    BY <2>2
    DEF Next, ProgramStep, JobStep, ExistingStep, StartFile, DirectoryFails,
        ExistingUnreadable, ExistingMissing, ExistingChecked, RemoveStaleFinal,
        CleanPart, AfterCleaning, AttemptStep, PrepareFirst, PrepareAgain,
        PrepareFails, NoAttemptLeft, Downloaded, DownloadInterrupted,
        DownloadFailed, WholePartRejected, OffsetRejected, TransferEnds,
        StartTransfer, VerifyStep, VerifyInterrupted, PartUnreadable, PartVerified,
        PartMismatch, Verifying, FinishStep, Install, InstallFails,
        ReportInstalled, GiveUp, OutsideStep, CtrlC, Kill, RunAgain, Goto, Ended,
        jobVars
  <2> QED
    BY <2>1, <2>2
<1> QED
  BY <1>1, JobInvariance, PTL DEF Spec, RejectedPartIsDiscarded

\* A complete .part of a file of known size is never lost to a re-download
\* or a discard.
THEOREM CompletePartKept == Spec => CompletePartSurvives
<1> DEFINE Survives == task.known /\ Good(part) /\ job \in {"prepare", "giveUp"}
                         => part' = part
<1>1. JobInv /\ [Next]_vars => [Survives]_vars
  <2> SUFFICES ASSUME JobInv, Next, task.known, Good(part),
                      job \in {"prepare", "giveUp"}
               PROVE  part' = part
    OBVIOUS
  <2>1. job = "prepare" => attempt = 0
    BY DEF JobInv, PartInv, AttemptInv
  <2>2. job = "giveUp" => ~discard
    BY DEF JobInv, PartInv
  <2>3. part # NoFile
    BY DEF Good, IsFile
  <2>4. stage = "idle"
    BY DEF JobInv, StageInv
  <2>5. ~TransferStep
    BY <2>4
    DEF TransferStep, ServerStep, LocalStep, SendRequest, BackoffOver, DiskFull,
        LocalIoError, StopInStream, ConnectionError, RangeRejected,
        RetryableStatus, FatalStatus, FullBody, PartialBody, BadPartialBody,
        ReceiveChunk, BodyComplete, BodyTruncated, StreamError
  <2>6. JobStep \/ OutsideStep
    BY <2>5 DEF Next, ProgramStep
  <2> QED
    BY <2>1, <2>2, <2>3, <2>6
    DEF JobStep, ExistingStep, StartFile, DirectoryFails, ExistingUnreadable,
        ExistingMissing, ExistingChecked, RemoveStaleFinal, CleanPart,
        AfterCleaning, AttemptStep, PrepareFirst, PrepareAgain, PrepareFails,
        NoAttemptLeft, Downloaded, DownloadInterrupted, DownloadFailed,
        WholePartRejected, OffsetRejected, TransferEnds, StartTransfer, VerifyStep,
        VerifyInterrupted, PartUnreadable, PartVerified, PartMismatch, Verifying,
        FinishStep, Install, InstallFails, ReportInstalled, GiveUp, OutsideStep,
        CtrlC, Kill, RunAgain, Ended, transferVars
<1> QED
  BY <1>1, JobInvariance, PTL DEF Spec, CompletePartSurvives

-----------------------------------------------------------------------------
(* FileJob implements FilePromise *)

Outcome == IF job = "down" THEN "killed"
           ELSE IF job \in Ended THEN job ELSE "running"

\* FilePromise says of a content what verify.rs checks of it.
LEMMA PassesIsVerified ==
    ASSUME NEW content \in Seq(BOOLEAN)
    PROVE  Promise!Passes(content) <=> Verifies(content)
<1> QED
  BY DEF Promise!Passes, Verifies, SizeMatches, Published

\* Whatever servers, disks, users and kills do, the final file is only
\* created verified, only removed unverified, never replaced, and success
\* is only reported over a verified file.
THEOREM ImplementsPromise == Spec => KeepsPromise
<1>1. Init => Promise!PromiseInit
  BY DEF Init, Promise!PromiseInit, Ended
<1>2. JobInv /\ [Next]_vars => [Promise!PromiseNext]_(Promise!promiseVars)
  <2> SUFFICES ASSUME JobInv, [Next]_vars
               PROVE  [Promise!PromiseNext]_(Promise!promiseVars)
    OBVIOUS
  <2>0. ASSUME task' = task, final' = final, Outcome = "running",
               Outcome' \in {"running", "succeeded", "failed", "interrupted", "killed"},
               Outcome' = "succeeded" => Promise!Passes(final)
        PROVE  [Promise!PromiseNext]_(Promise!promiseVars)
    BY <2>0
    DEF Outcome, Promise!PromiseNext, Promise!Finish, Promise!Outcomes,
        Promise!promiseVars
  <2>1. CASE UNCHANGED vars
    BY <2>1 DEF vars, envVars, jobVars, Promise!promiseVars
  <2>2. CASE TransferStep /\ UNCHANGED jobVars
    BY <2>2 DEF TransferStep, envVars, jobVars, Promise!promiseVars
  <2>3. CASE ExistingStep /\ ~RemoveStaleFinal
    <3>1. task' = task /\ final' = final
      BY <2>3
      DEF ExistingStep, StartFile, DirectoryFails, ExistingUnreadable,
          ExistingMissing, ExistingChecked, CleanPart, envVars
    <3>2. /\ Outcome = "running"
          /\ Outcome' \in {"running", "failed", "interrupted", "succeeded"}
          /\ Outcome' = "succeeded" => job = "redundantPart"
      BY <2>3
      DEF ExistingStep, StartFile, DirectoryFails, ExistingUnreadable,
          ExistingMissing, ExistingChecked, CleanPart, AfterCleaning, Goto,
          Outcome, Ended
    <3>3. job = "redundantPart" => Promise!Passes(final)
      BY PassesIsVerified DEF JobInv, FilesInv
    <3> QED
      BY <2>0, <3>1, <3>2, <3>3
  <2>4. CASE RemoveStaleFinal
    <3>1. final \in Seq(BOOLEAN) /\ ~Promise!Passes(final)
      BY <2>4, PassesIsVerified DEF RemoveStaleFinal, JobInv, FilesInv
    <3>2. final # Foreign
      BY <3>1, PathsAssumption
    <3>3. /\ Outcome = "running" /\ Outcome' = "running" /\ task' = task
          /\ final' = NoFile \/ final' = final
      BY <2>4 DEF RemoveStaleFinal, Goto, Outcome, Ended, envVars
    <3> QED
      BY <3>1, <3>2, <3>3
      DEF Outcome, Promise!PromiseNext, Promise!RemoveBad, Promise!promiseVars
  <2>5. CASE AttemptStep \/ VerifyStep
    <3>1. task' = task /\ final' = final
      BY <2>5
      DEF AttemptStep, PrepareFirst, PrepareAgain, PrepareFails, NoAttemptLeft,
          Downloaded, DownloadInterrupted, DownloadFailed, WholePartRejected,
          OffsetRejected, TransferEnds, VerifyStep, VerifyInterrupted,
          PartUnreadable, PartVerified, PartMismatch, envVars
    <3>2. Outcome = "running" /\ Outcome' \in {"running", "interrupted"}
      BY <2>5
      DEF AttemptStep, PrepareFirst, PrepareAgain, PrepareFails, NoAttemptLeft,
          Downloaded, DownloadInterrupted, DownloadFailed, WholePartRejected,
          OffsetRejected, TransferEnds, StartTransfer, VerifyStep,
          VerifyInterrupted, PartUnreadable, PartVerified, PartMismatch,
          Verifying, Goto, Outcome, Ended
    <3> QED
      BY <2>0, <3>1, <3>2
  <2>6. CASE Install
    <3>1. /\ part \in Seq(BOOLEAN) /\ Verifies(part) /\ final = NoFile
          /\ final' = part /\ task' = task
      BY <2>6 DEF Install, JobInv, FilesInv, envVars
    <3>2. final' \in Seq(BOOLEAN) /\ Promise!Passes(final)'
      BY <3>1 DEF Promise!Passes, Verifies, SizeMatches, Published
    <3>3. Outcome = "running" /\ Outcome' = "running"
      BY <2>6 DEF Install, Goto, Outcome, Ended
    <3> QED
      BY <3>1, <3>2, <3>3
      DEF Outcome, Promise!PromiseNext, Promise!Create, Promise!Passes
  <2>7. CASE InstallFails \/ ReportInstalled \/ GiveUp
    <3>1. task' = task /\ final' = final
      BY <2>7 DEF InstallFails, ReportInstalled, GiveUp, envVars
    <3>2. /\ Outcome = "running" /\ Outcome' \in {"failed", "succeeded"}
          /\ Outcome' = "succeeded" => job = "installed"
      BY <2>7 DEF InstallFails, ReportInstalled, GiveUp, Goto, Outcome, Ended
    <3>3. job = "installed" => Promise!Passes(final)
      BY PassesIsVerified DEF JobInv, FilesInv
    <3> QED
      BY <2>0, <3>1, <3>2, <3>3
  <2>8. CASE CtrlC \/ Kill
    <3>1. task' = task /\ final' = final
      BY <2>8 DEF CtrlC, Kill, envVars, jobVars
    <3>2. Outcome = "running" /\ Outcome' \in {"running", "killed"}
      BY <2>8 DEF CtrlC, Kill, Goto, jobVars, Outcome, Ended
    <3> QED
      BY <2>0, <3>1, <3>2
  <2>9. CASE RunAgain
    BY <2>9
    DEF RunAgain, Goto, Ended, Promise!PromiseNext, Promise!RunAgain
  <2> QED
    BY <2>1, <2>2, <2>3, <2>4, <2>5, <2>6, <2>7, <2>8, <2>9
    DEF Next, ProgramStep, JobStep, FinishStep, OutsideStep
<1> QED
  BY <1>1, <1>2, JobInvariance, PTL DEF Spec, KeepsPromise, Promise!PromiseSpec

-----------------------------------------------------------------------------
(* FileJob implements JobOutline *)

\* A transfer has a result when it is over, and that is forgotten with it; it
\* was interrupted only after a stop.
ResultInv ==
    /\ stage # "returned" => result = "none"
    /\ result = "interrupted" => ~running

LEMMA ResultStep == JobInv /\ ResultInv /\ [Next]_vars => ResultInv'
<1> SUFFICES ASSUME JobInv, ResultInv, [Next]_vars PROVE ResultInv'
  OBVIOUS
<1>1. CASE UNCHANGED vars
  BY <1>1 DEF ResultInv, vars, envVars, transferVars
<1>2. CASE TransferStep /\ UNCHANGED jobVars
  <2>1. running' = running
    BY <1>2 DEF TransferStep, envVars
  <2>2. CASE ServerStep
    BY <2>1, <2>2
    DEF ResultInv, ServerStep, ConnectionError, RangeRejected,
        RetryableStatus, FatalStatus, FullBody, PartialBody, BadPartialBody,
        ReceiveChunk, BodyComplete, BodyTruncated, StreamError, Record, Return,
        StartStreaming
  <2>3. CASE LocalStep
    BY <2>1, <2>3
    DEF ResultInv, LocalStep, SendRequest, BackoffOver, DiskFull,
        LocalIoError, StopInStream, Return
  <2> QED
    BY <1>2, <2>2, <2>3 DEF TransferStep
<1>3. CASE JobStep
  <2>1. \/ UNCHANGED <<running, stage, result>>
        \/ result' = "none"
        \/ stage = "idle" /\ result' = result
    BY <1>3
    DEF JobInv, StageInv, JobStep, ExistingStep, StartFile, DirectoryFails,
        ExistingUnreadable, ExistingMissing, ExistingChecked, RemoveStaleFinal,
        CleanPart, AttemptStep, PrepareFirst, PrepareAgain, PrepareFails,
        NoAttemptLeft, Downloaded, DownloadInterrupted, DownloadFailed,
        WholePartRejected, OffsetRejected, TransferEnds, TransferForgotten,
        StartTransfer, VerifyStep, VerifyInterrupted, PartUnreadable,
        PartVerified, PartMismatch, FinishStep, Install, InstallFails,
        ReportInstalled, GiveUp, idleVars, envVars, transferVars
  <2> QED
    BY <2>1 DEF ResultInv
<1>4. CASE OutsideStep
  BY <1>4
  DEF JobInv, StageInv, ResultInv, OutsideStep, CtrlC, Kill, RunAgain,
      TransferForgotten, idleVars, transferVars, envVars, Ended
<1> QED
  BY <1>1, <1>2, <1>3, <1>4 DEF Next, ProgramStep

LEMMA ResultInvariance == Spec => []ResultInv
<1>1. Init => ResultInv
  BY DEF Init, ResultInv
<1> QED
  BY <1>1, ResultStep, JobInvariance, PTL DEF Spec

\* The outline says of a content what verify.rs checks of it.
LEMMA AgreesIsVerified ==
    ASSUME NEW content PROVE AgreesWith(task, content) <=> Verifies(content)
<1> QED
  BY DEF AgreesWith, Verifies, SizeMatches, Published

\* What is done to the existing copy, step by step
LEMMA ExistingOutlined ==
    JobInv /\ ExistingStep => [Outline!OutlineNext]_(Outline!outlineVars)
<1> SUFFICES ASSUME JobInv, ExistingStep
             PROVE  Outline!OutlineStep
  BY DEF Outline!OutlineNext
<1>0. task' = task /\ running' = running
  BY DEF ExistingStep, StartFile, DirectoryFails, ExistingUnreadable,
         ExistingMissing, ExistingChecked, RemoveStaleFinal, CleanPart, envVars
<1>1. CASE StartFile
  <2>1. Outline!Enter
    BY <1>1 DEF StartFile, Goto, PhaseOf, transferVars, Outline!Enter,
                Outline!OutlineGoto
  <2> QED
    BY <1>0, <2>1 DEF Outline!OutlineStep
<1>2. CASE DirectoryFails \/ ExistingUnreadable
  <2>1. Outline!Obstructed \/ Outline!FetchFails
    BY <1>2 DEF DirectoryFails, ExistingUnreadable, Goto, PhaseOf, transferVars,
                Outline!Obstructed, Outline!FetchFails, Outline!OutlineGoto
  <2> QED
    BY <1>0, <2>1 DEF Outline!OutlineStep
<1>3. CASE ExistingMissing
  <2>1. Outline!Missing
    BY <1>3 DEF ExistingMissing, Goto, PhaseOf, transferVars, Outline!Missing,
                Outline!OutlineGoto
  <2> QED
    BY <1>0, <2>1 DEF Outline!OutlineStep
<1>4. CASE ExistingChecked
  <2>1. AgreesWith(task, final) <=> Verifies(final)
    BY AgreesIsVerified
  <2>2. Outline!Judge
    BY <1>4, <2>1
    DEF ExistingChecked, IsFile, HashNeeded, Goto, PhaseOf, transferVars,
        Outline!Judge, Outline!OutlineGoto
  <2> QED
    BY <1>0, <2>2 DEF Outline!OutlineStep
<1>5. CASE RemoveStaleFinal
  <2>1. Outline!RemoveStale
    BY <1>5 DEF RemoveStaleFinal, Goto, PhaseOf, transferVars,
                Outline!RemoveStale, Outline!OutlineGoto
  <2> QED
    BY <1>0, <2>1 DEF Outline!OutlineStep
<1>6. CASE CleanPart
  <2>1. Outline!Tidy
    BY <1>6 DEF CleanPart, AfterCleaning, TryRemovePart, Goto, PhaseOf,
                Outline!Tidy, Outline!OutlineGoto
  <2> QED
    BY <1>0, <2>1 DEF Outline!OutlineStep
<1> QED
  BY <1>1, <1>2, <1>3, <1>4, <1>5, <1>6 DEF ExistingStep

\* The attempts, the transfers in them and the verification
LEMMA FetchOutlined ==
    ASSUME JobInv, ResultInv,
           \/ AttemptStep
           \/ VerifyStep
           \/ TransferStep /\ UNCHANGED jobVars
           \/ GiveUp
    PROVE  Outline!OutlineStep
<1>0. /\ task' = task /\ running' = running /\ final' = final
  BY DEF AttemptStep, PrepareFirst, PrepareAgain, PrepareFails, NoAttemptLeft,
         Downloaded, DownloadInterrupted, DownloadFailed, WholePartRejected,
         OffsetRejected, TransferEnds, VerifyStep, VerifyInterrupted,
         PartUnreadable, PartVerified, PartMismatch, GiveUp, TransferStep,
         jobVars, envVars
<1>1. CASE \/ PrepareFirst \/ PrepareAgain \/ PrepareFails \/ NoAttemptLeft
           \/ Downloaded \/ DownloadFailed \/ WholePartRejected \/ OffsetRejected
           \/ PartUnreadable \/ PartMismatch
  <2>1. PhaseOf[job] = "download" /\ PhaseOf[job]' = "download"
    BY <1>1
    DEF PrepareFirst, PrepareAgain, PrepareFails, NoAttemptLeft, Downloaded,
        DownloadFailed, WholePartRejected, OffsetRejected, PartUnreadable,
        PartMismatch, Verifying, StartTransfer, TransferEnds, Goto, PhaseOf
  <2>2. part' \in {part, <<>>, NoFile}
    BY <1>1
    DEF PrepareFirst, PrepareAgain, PrepareFails, NoAttemptLeft, Downloaded,
        DownloadFailed, WholePartRejected, OffsetRejected, PartUnreadable,
        PartMismatch, StartTransfer, TransferEnds, TryRemovePart, transferVars
  <2>3. <<>> \in Seq(BOOLEAN)
    OBVIOUS
  <2>4. <<>> # Foreign /\ NoFile # Foreign
    BY <2>3, PathsAssumption
  <2>5. Outline!Fetch
    BY <1>0, <2>1, <2>2, <2>4 DEF Outline!Fetch
  <2> QED
    BY <1>0, <2>5 DEF Outline!OutlineStep
<1>2. CASE DownloadInterrupted \/ VerifyInterrupted
  <2>1. ~running
    BY <1>2
    DEF DownloadInterrupted, TransferEnds, VerifyInterrupted, ResultInv
  <2>2. Outline!FetchInterrupted
    BY <1>2, <2>1
    DEF DownloadInterrupted, TransferEnds, VerifyInterrupted, Verifying, Goto,
        PhaseOf, transferVars, Outline!FetchInterrupted, Outline!OutlineGoto
  <2> QED
    BY <1>0, <2>2 DEF Outline!OutlineStep
<1>3. CASE PartVerified
  <2>1. part \notin {NoFile, Foreign}
    BY <1>3, PathsAssumption DEF PartVerified, Verifying, JobInv, FilesInv
  <2>2. AgreesWith(task, part) /\ (task.md5 => running)
    BY <1>3, AgreesIsVerified DEF PartVerified, HashNeeded, Verifies
  <2>3. Outline!FetchVerified
    BY <1>3, <2>1, <2>2
    DEF PartVerified, Verifying, Goto, PhaseOf, transferVars,
        Outline!FetchVerified, Outline!OutlineGoto
  <2> QED
    BY <1>0, <2>3 DEF Outline!OutlineStep
<1>4. CASE TransferStep /\ UNCHANGED jobVars
  <2>1. stage # "idle"
    BY <1>4
    DEF TransferStep, ServerStep, LocalStep, SendRequest, BackoffOver, DiskFull,
        LocalIoError, StopInStream, ConnectionError, RangeRejected,
        RetryableStatus, FatalStatus, FullBody, PartialBody, BadPartialBody,
        ReceiveChunk, BodyComplete, BodyTruncated, StreamError
  <2>2. job = "transfer" /\ job' = job /\ stage' # "idle"
    BY <1>4, <2>1, NeverIdle DEF JobInv, StageInv, jobVars
  <2>3. part' \in Seq(BOOLEAN)
    BY <1>4, <2>2, TransferPreserves DEF JobInv, CallInv, TransferTypeOK
  <2>4. Outline!Fetch
    BY <1>0, <2>2, <2>3, PathsAssumption DEF PhaseOf, Outline!Fetch
  <2> QED
    BY <1>0, <2>4 DEF Outline!OutlineStep
<1>5. CASE GiveUp
  <2>1. Outline!FetchFails
    BY <1>5 DEF GiveUp, TryRemovePart, Goto, PhaseOf, Outline!FetchFails,
                Outline!OutlineGoto
  <2> QED
    BY <1>0, <2>1 DEF Outline!OutlineStep
<1> QED
  BY <1>1, <1>2, <1>3, <1>4, <1>5 DEF AttemptStep, VerifyStep

\* The rename, and what the user and the machine do
LEMMA EndOutlined ==
    ASSUME JobInv,
           \/ Install \/ InstallFails \/ ReportInstalled
           \/ OutsideStep
    PROVE  Outline!OutlineNext
<1>1. ASSUME Install \/ InstallFails \/ ReportInstalled
      PROVE  Outline!OutlineStep
  <2>1. task' = task /\ running' = running
    BY <1>1 DEF Install, InstallFails, ReportInstalled, envVars
  <2>2. Outline!PutInPlace \/ Outline!Report
    BY <1>1
    DEF Install, InstallFails, ReportInstalled, Goto, PhaseOf, transferVars,
        Outline!PutInPlace, Outline!Report, Outline!OutlineGoto
  <2> QED
    BY <2>1, <2>2 DEF Outline!OutlineStep
<1>2. ASSUME CtrlC \/ Kill
      PROVE  Outline!OutlineStop \/ Outline!OutlineKill
  <2>1. PhaseOf[job] \notin Outline!OutlineEnded
    BY <1>2 DEF CtrlC, Kill, Ended, PhaseOf, JobInv, TypeOK, Jobs,
                Outline!OutlineEnded
  <2> QED
    BY <1>2, <2>1
    DEF CtrlC, Kill, Goto, PhaseOf, transferVars, jobVars, envVars,
        Outline!OutlineStop, Outline!OutlineKill, Outline!OutlineGoto
<1>3. ASSUME RunAgain
      PROVE  Outline!OutlineAgain
  BY <1>3
  DEF RunAgain, Ended, Goto, PhaseOf, Outline!OutlineAgain,
      Outline!OutlineEnded, Outline!OutlineGoto
<1> QED
  BY <1>1, <1>2, <1>3 DEF OutsideStep, Outline!OutlineNext

\* A step of the treatment of one file, however many requests and attempts
\* stand behind it, is a step of the outline the batch is built from.
THEOREM ImplementsOutline == Spec => KeepsOutline
<1>1. Init => Outline!OutlineInit
  BY DEF Init, PhaseOf, Outline!OutlineInit
<1>2. JobInv /\ ResultInv /\ [Next]_vars
        => [Outline!OutlineNext]_(Outline!outlineVars)
  <2> SUFFICES ASSUME JobInv, ResultInv, [Next]_vars
               PROVE  [Outline!OutlineNext]_(Outline!outlineVars)
    OBVIOUS
  <2>1. CASE UNCHANGED vars
    BY <2>1 DEF vars, envVars, transferVars, jobVars, Outline!outlineVars
  <2>2. CASE ExistingStep
    BY <2>2, ExistingOutlined
  <2>3. CASE \/ AttemptStep
             \/ VerifyStep
             \/ TransferStep /\ UNCHANGED jobVars
             \/ GiveUp
    BY <2>3, FetchOutlined DEF Outline!OutlineNext
  <2>4. CASE \/ Install \/ InstallFails \/ ReportInstalled
             \/ OutsideStep
    BY <2>4, EndOutlined
  <2> QED
    BY <2>1, <2>2, <2>3, <2>4 DEF Next, ProgramStep, JobStep, FinishStep
<1> QED
  BY <1>1, <1>2, JobInvariance, ResultInvariance, PTL
  DEF Spec, KeepsOutline, Outline!OutlineSpec

-----------------------------------------------------------------------------
(* FileJob against a server that holds the file: Recovery *)

RecoveryStep == Working \/ Disturbance \/ TryAgain

\* Recovery takes steps of FileJob only.
LEMMA RecoveryIsFileJob ==
    JobInv /\ [RecoveryStep]_recoveryVars => [Next]_vars
<1> SUFFICES ASSUME JobInv, RecoveryStep PROVE Next
  BY DEF recoveryVars
<1>1. CASE HonestTransfer
  <2>1. asked < task.size => asked \in Offsets
    BY SizesAssumption DEF JobInv, TypeOK, TransferTypeOK, Tasks, Offsets
  <2>2. HonestReply => ServerStep
    BY <2>1 DEF HonestReply, ServerStep
  <2>3. Fault => ServerStep
    BY DEF Fault, ServerStep
  <2>4. TransferStep /\ UNCHANGED jobVars
    BY <1>1, <2>2, <2>3 DEF HonestTransfer, TransferStep, LocalStep
  <2> QED
    BY <2>4 DEF Next, ProgramStep
<1>2. CASE DiskWorks
  BY <1>2
  DEF DiskWorks, Next, ProgramStep, JobStep, ExistingStep, AttemptStep,
      VerifyStep, FinishStep
<1>3. CASE Disturbance \/ TryAgain
  BY <1>3 DEF Disturbance, TryAgain, Next, OutsideStep
<1> QED
  BY <1>1, <1>2, <1>3 DEF RecoveryStep, Working

\* The body of an honest server is at the place it is written to.
HonestInv == stage = "stream" => off = Len(part) /\ off <= task.size

LEMMA HonestWrite ==
    ASSUME JobInv, HonestInv, off < task.size, ReceiveChunk(TRUE)
    PROVE  /\ part \in Seq(BOOLEAN)
           /\ part' = WriteAt(part, Len(part), TRUE)
           /\ off' = Len(part') /\ off' <= task.size
<1>1. stage = "stream" /\ pos = Len(part) /\ off = Len(part)
  BY DEF ReceiveChunk, JobInv, CallInv, CursorInv, Live, HonestInv
<1>2. part \in Seq(BOOLEAN) /\ task.size \in Nat
  BY <1>1, SizesAssumption DEF JobInv, TypeOK, TransferTypeOK, Tasks
<1>3. part' = WriteAt(part, Len(part), TRUE) /\ off' = Len(part) + 1
  BY <1>1, <1>2 DEF ReceiveChunk
<1>4. Len(WriteAt(part, Len(part), TRUE)) = Len(part) + 1
  BY <1>2, WriteAtEnd
<1>5. Len(part') = Len(part) + 1
  BY <1>3, <1>4
<1>6. Len(part) \in Nat /\ Len(part) < task.size
  BY <1>1, <1>2
<1>7. off' = Len(part) + 1
  BY <1>3
<1>8. Len(part) + 1 <= task.size
  BY <1>2, <1>6
<1> QED
  BY <1>2, <1>3, <1>5, <1>7, <1>8

LEMMA HonestStep == JobInv /\ HonestInv /\ [RecoveryStep]_recoveryVars => HonestInv'
<1> SUFFICES ASSUME JobInv, HonestInv, [RecoveryStep]_recoveryVars,
                    stage' = "stream"
             PROVE  off' = Len(part') /\ off' <= task.size'
  BY DEF HonestInv
<1>0. task.size \in Nat /\ asked \in Nat /\ Len(<<>>) = 0
  BY SizesAssumption DEF JobInv, TypeOK, TransferTypeOK, Tasks
<1>1. CASE UNCHANGED recoveryVars
  BY <1>1 DEF HonestInv, recoveryVars, vars, envVars, transferVars
<1>2. CASE HonestTransfer
  <2>1. task' = task
    BY <1>2 DEF HonestTransfer, envVars
  <2>2. \/ FullBody
        \/ resuming /\ asked < task.size /\ PartialBody(asked, TRUE)
        \/ off < task.size /\ ReceiveChunk(TRUE)
    BY <1>2
    DEF HonestTransfer, HonestReply, SendRequest, BackoffOver, StopInStream,
        RangeRejected, BodyComplete, Fault, ConnectionError, RetryableStatus,
        BadPartialBody, BodyTruncated, StreamError, Record, Return
  <2>3. CASE FullBody
    BY <1>0, <2>1, <2>3
    DEF FullBody, StartStreaming, ResetLocalFile, resuming, JobInv, CallInv,
        CursorInv, Live
  <2>4. CASE asked < task.size /\ PartialBody(asked, TRUE)
    BY <1>0, <2>1, <2>4
    DEF PartialBody, StartStreaming, JobInv, CallInv, CursorInv
  <2>5. CASE off < task.size /\ ReceiveChunk(TRUE)
    BY <2>1, <2>5, HonestWrite
  <2> QED
    BY <2>2, <2>3, <2>4, <2>5
<1>3. CASE DiskWorks
  <2>1. stage \in {"idle", "returned"} /\ stage' \in {"idle", "request", stage}
    BY <1>3
    DEF DiskWorks, JobInv, StageInv, StartFile, ExistingMissing,
        ExistingChecked, RemoveStaleFinal, CleanPart, AfterCleaning,
        PrepareFirst, PrepareAgain, NoAttemptLeft, Downloaded,
        DownloadInterrupted, DownloadFailed, WholePartRejected, OffsetRejected,
        TransferEnds, TransferForgotten, StartTransfer, VerifyInterrupted,
        PartVerified, PartMismatch, Verifying, Install, ReportInstalled, GiveUp,
        idleVars, transferVars
  <2> QED
    BY <2>1
<1>4. CASE Disturbance \/ TryAgain
  BY <1>4
  DEF Disturbance, TryAgain, CtrlC, Kill, RunAgain, TransferForgotten, Ended,
      JobInv, StageInv, HonestInv, idleVars, transferVars, envVars
<1> QED
  BY <1>1, <1>2, <1>3, <1>4 DEF RecoveryStep, Working

LEMMA RecoveryInvariance == RecoverySpec => [](JobInv /\ ResultInv /\ HonestInv)
<1>1. RecoveryInit => JobInv /\ ResultInv /\ HonestInv
  BY JobInitEstablishes DEF RecoveryInit, Init, ResultInv, HonestInv
<1>2. JobInv /\ ResultInv /\ HonestInv /\ [RecoveryStep]_recoveryVars
        => (JobInv /\ ResultInv /\ HonestInv)'
  BY RecoveryIsFileJob, JobStepPreserves, ResultStep, HonestStep
<1> QED
  BY <1>1, <1>2, PTL DEF RecoverySpec, RecoveryStep

\* Published data put at its place keeps a content clean.
LEMMA CleanGrows ==
    ASSUME NEW content \in Seq(BOOLEAN), Clean(content)
    PROVE  Clean(WriteAt(content, Len(content), TRUE))
<1> DEFINE n == Len(content)
           written == WriteAt(content, n, TRUE)
<1>1. n \in Nat /\ Longer(n, n + 1) = n + 1
  BY DEF Longer
<1>2. content = [i \in 1..n |-> TRUE]
  BY PathsAssumption DEF Clean, IsFile
<1>3. \A i \in 1..n : content[i] = TRUE
  BY <1>2
<1>4. written = [i \in 1..(n + 1) |->
                   IF i = n + 1 THEN TRUE ELSE i <= n /\ content[i]]
  BY <1>1 DEF WriteAt
<1>5. \A i \in 1..(n + 1) : i # n + 1 => i \in 1..n /\ i <= n
  BY <1>1
<1>6. written = [i \in 1..(n + 1) |-> TRUE]
  BY <1>3, <1>4, <1>5
<1>7. Len(written) = n + 1
  BY WriteAtEnd
<1> QED
  BY <1>6, <1>7 DEF Clean

LEMMA CleanStep ==
    JobInv /\ HonestInv /\ Clean(part) /\ [RecoveryStep]_recoveryVars => Clean(part)'
<1> SUFFICES ASSUME JobInv, HonestInv, Clean(part), [RecoveryStep]_recoveryVars
             PROVE  Clean(part')
  BY DEF Clean, IsFile
<1>1. Clean(NoFile) /\ Clean(<<>>)
  BY DEF Clean, IsFile
<1>2. CASE UNCHANGED recoveryVars
  BY <1>2 DEF recoveryVars, vars, transferVars
<1>3. CASE HonestTransfer
  <2>1. CASE off < task.size /\ ReceiveChunk(TRUE)
    BY <2>1, HonestWrite, CleanGrows
  <2>2. CASE ~ReceiveChunk(TRUE)
    <3>1. part' = part \/ part' = <<>>
      BY <1>3, <2>2
      DEF HonestTransfer, HonestReply, FullBody, ResetLocalFile, PartialBody,
          RangeRejected, BodyComplete, SendRequest, BackoffOver, StopInStream,
          Fault, ConnectionError, RetryableStatus, BadPartialBody,
          BodyTruncated, StreamError
    <3> QED
      BY <1>1, <3>1
  <2>3. ~(off < task.size) => ~ReceiveChunk(TRUE) \/ part' = part
    BY <1>3
    DEF HonestTransfer, HonestReply, FullBody, PartialBody, RangeRejected,
        BodyComplete, SendRequest, BackoffOver, StopInStream, Fault,
        ConnectionError, RetryableStatus, BadPartialBody, BodyTruncated,
        StreamError, ReceiveChunk
  <2> QED
    BY <2>1, <2>2, <2>3
<1>4. CASE DiskWorks
  <2>1. part' \in {part, <<>>, NoFile}
    BY <1>4
    DEF DiskWorks, StartFile, ExistingMissing, ExistingChecked,
        RemoveStaleFinal, CleanPart, TryRemovePart, PrepareFirst, PrepareAgain,
        NoAttemptLeft, Downloaded, DownloadInterrupted, DownloadFailed,
        WholePartRejected, OffsetRejected, TransferEnds, StartTransfer,
        VerifyInterrupted, PartVerified, PartMismatch, Install,
        ReportInstalled, GiveUp, transferVars
  <2> QED
    BY <1>1, <2>1
<1>5. CASE Disturbance \/ TryAgain
  <2>1. part' = part
    BY <1>5 DEF Disturbance, TryAgain, CtrlC, Kill, RunAgain, transferVars
  <2> QED
    BY <2>1
<1> QED
  BY <1>2, <1>3, <1>4, <1>5 DEF RecoveryStep, Working

\* Published data in a .part is never spoilt: not by a resume, a reset or a
\* retry, and not by a kill or another run.
THEOREM CleanPartKept == RecoverySpec => CleanPartStaysClean
<1> QED
  BY RecoveryInvariance, CleanStep, PTL
  DEF RecoverySpec, RecoveryStep, CleanPartStaysClean

-----------------------------------------------------------------------------
(* The run that is left alone *)

Waiting == {"request", "awaiting", "backoff", "reopenBackoff"}

\* Each retry answers a fault of the server, so retries never run out.
FaultsInv ==
    /\ faults \in 0..MaxRetries
    /\ stage # "idle" => retries <= faults
    /\ result # "error"

\* From the second attempt on the .part was begun by this run: it holds
\* published data only, and a download that ends has all of it. Where the
\* size is unknown a complete .part is never resumed, for a 416 would then
\* be all there is to learn.
FreshInv ==
    attempt >= 2 =>
        /\ job \in {"transfer", "verify", "verifyWhole"} =>
              Clean(part) /\ Len(part) <= task.size
        /\ job \in {"verify", "verifyWhole"} => Len(part) = task.size
        /\ result = "complete" => Len(part) = task.size
        /\ result = "rejected" => task.known /\ Len(part) = task.size
        /\ stage \in Waiting /\ ~task.known => Len(part) < task.size \/ part = <<>>

\* So the second attempt is the last.
EndInv == /\ job \notin {"failed", "giveUp", "blockedPart"}
          /\ job = "prepare" => attempt <= 1

LEMMA FaultsStep ==
    JobInv /\ ResultInv /\ FaultsInv /\ [RecoveryStep]_recoveryVars => FaultsInv'
<1> SUFFICES ASSUME JobInv, ResultInv, FaultsInv, [RecoveryStep]_recoveryVars
             PROVE  FaultsInv'
  OBVIOUS
<1>0. /\ retries \in Nat /\ faults \in Nat /\ MaxRetries \in Nat
      /\ stage = "idle" => retries = 0
  BY RetriesAssumption DEF JobInv, TypeOK, TransferTypeOK, StageInv, FaultsInv
<1>1. CASE UNCHANGED recoveryVars
  BY <1>1 DEF FaultsInv, recoveryVars, vars, transferVars
<1>2. CASE HonestTransfer
  <2>1. CASE UNCHANGED faults /\ (HonestReply \/ SendRequest \/ BackoffOver \/ StopInStream)
    <3>1. stage # "idle" /\ retries' = retries
      BY <2>1
      DEF HonestReply, FullBody, PartialBody, RangeRejected, ReceiveChunk,
          BodyComplete, SendRequest, BackoffOver, StopInStream
    <3>2. result' \in {result, "complete", "rejected", "interrupted"}
      BY <2>1
      DEF HonestReply, FullBody, PartialBody, RangeRejected, ReceiveChunk,
          BodyComplete, SendRequest, BackoffOver, StopInStream, Return
    <3> QED
      BY <2>1, <3>1, <3>2 DEF FaultsInv
  <2>2. CASE faults < MaxRetries /\ Fault /\ faults' = faults + 1
    <3>1. stage # "idle" /\ retries' = retries + 1
      BY <2>2
      DEF Fault, ConnectionError, RetryableStatus, BadPartialBody, BodyTruncated,
          StreamError, Record
    <3>2. retries' <= faults' /\ faults' \in 0..MaxRetries
      BY <1>0, <2>2, <3>1 DEF FaultsInv
    <3>3. ~(retries' > MaxRetries)
      BY <1>0, <2>2, <3>1, <3>2
    <3>4. result' \in {result, "interrupted"}
      BY <2>2, <3>3
      DEF Fault, ConnectionError, RetryableStatus, BadPartialBody, BodyTruncated,
          StreamError, Record, Return
    <3> QED
      BY <3>2, <3>4 DEF FaultsInv
  <2> QED
    BY <1>2, <2>1, <2>2 DEF HonestTransfer
<1>3. CASE DiskWorks /\ UNCHANGED faults
  <2>1. \/ UNCHANGED <<stage, retries, result>>
        \/ stage' = "idle" /\ result' = "none"
        \/ stage = "idle" /\ UNCHANGED <<retries, result>>
    BY <1>3
    DEF DiskWorks, JobInv, StageInv, StartFile, ExistingMissing,
        ExistingChecked, RemoveStaleFinal, CleanPart, PrepareFirst,
        PrepareAgain, NoAttemptLeft, Downloaded, DownloadInterrupted,
        DownloadFailed, WholePartRejected, OffsetRejected, TransferEnds,
        TransferForgotten, StartTransfer, VerifyInterrupted, PartVerified,
        PartMismatch, Install, ReportInstalled, GiveUp, idleVars, transferVars
  <2> QED
    BY <1>0, <1>3, <2>1 DEF FaultsInv
<1>4. CASE Disturbance
  <2>1. \/ UNCHANGED <<stage, retries, result>>
        \/ stage' = "idle" /\ result' = "none"
    BY <1>4 DEF Disturbance, CtrlC, Kill, TransferForgotten, transferVars
  <2> QED
    BY <1>0, <1>4, <2>1 DEF Disturbance, FaultsInv
<1>5. CASE TryAgain
  <2>1. stage = "idle" /\ stage' = stage /\ result' = result /\ faults' = 0
    BY <1>5 DEF TryAgain, RunAgain, JobInv, StageInv, Ended, idleVars
  <2> QED
    BY <1>0, <2>1 DEF FaultsInv
<1> QED
  BY <1>1, <1>2, <1>3, <1>4, <1>5 DEF RecoveryStep, Working

LEMMA FreshStep ==
    JobInv /\ ResultInv /\ HonestInv /\ FreshInv /\ [RecoveryStep]_recoveryVars
      => FreshInv'
<1> SUFFICES ASSUME JobInv, ResultInv, HonestInv, FreshInv,
                    [RecoveryStep]_recoveryVars, attempt' >= 2
             PROVE  FreshInv'
  BY DEF FreshInv
<1>0. /\ attempt \in Nat /\ task.size \in Nat /\ asked \in Nat
      /\ Len(<<>>) = 0 /\ Clean(<<>>)
  BY SizesAssumption, AttemptsAssumption
  DEF JobInv, TypeOK, TransferTypeOK, Tasks, Clean, IsFile
<1>1. CASE UNCHANGED recoveryVars
  BY <1>1
  DEF FreshInv, Clean, IsFile, recoveryVars, vars, envVars, jobVars, transferVars
<1>2. CASE HonestTransfer
  <2>1. UNCHANGED <<task, job, attempt>> /\ attempt >= 2
    BY <1>2 DEF HonestTransfer, envVars, jobVars
  <2>2. stage \notin {"idle", "returned"}
    BY <1>2
    DEF HonestTransfer, HonestReply, FullBody, PartialBody, RangeRejected,
        ReceiveChunk, BodyComplete, SendRequest, BackoffOver, StopInStream,
        Fault, ConnectionError, RetryableStatus, BadPartialBody, BodyTruncated,
        StreamError
  <2>3. job = "transfer" /\ result = "none" /\ part \in Seq(BOOLEAN)
    BY <2>2 DEF JobInv, StageInv, ResultInv, TypeOK, TransferTypeOK
  <2>4. Clean(part) /\ Len(part) <= task.size /\ Len(part) \in Nat
    BY <2>1, <2>3 DEF FreshInv
  <2>5. Clean(part')
    BY <1>2, <2>4, CleanStep DEF Clean, IsFile
  <2>6. ASSUME part' \in {part, <<>>}, stage' \notin Waiting, result' \in {"none", "interrupted"}
        PROVE  FreshInv'
    BY <1>0, <2>1, <2>3, <2>4, <2>5, <2>6 DEF FreshInv, Clean, IsFile
  <2>7. ASSUME part' = part \/ part' = <<>>,
               result' \in {"none", "interrupted"},
               stage \in Waiting \/ Len(part) < task.size \/ task.known
        PROVE  FreshInv'
    BY <1>0, <2>1, <2>3, <2>4, <2>5, <2>7 DEF FreshInv, Clean, IsFile
  <2>8. CASE FullBody \/ PartialBody(asked, TRUE)
    BY <2>3, <2>6, <2>8
    DEF FullBody, PartialBody, ResetLocalFile, StartStreaming, Waiting
  <2>9. CASE off < task.size /\ ReceiveChunk(TRUE)
    <3>1. Len(part') <= task.size
      BY <2>9, HonestWrite
    <3>2. stage' = "stream" /\ result' = "none"
      BY <2>3, <2>9 DEF ReceiveChunk
    <3> QED
      BY <2>1, <2>3, <2>5, <3>1, <3>2 DEF FreshInv, Waiting, Clean, IsFile
  <2>10. CASE off = task.size /\ BodyComplete
    <3>1. Len(part) = task.size /\ part' = part /\ stage' = "returned" /\ result' = "complete"
      BY <2>10 DEF BodyComplete, Return, HonestInv
    <3> QED
      BY <2>1, <2>3, <2>4, <2>5, <3>1 DEF FreshInv, Waiting, Clean, IsFile
  <2>11. CASE asked >= task.size /\ RangeRejected
    <3>1. /\ Len(part) = asked /\ stage \in Waiting
          /\ part' = part /\ stage' = "returned" /\ result' = "rejected"
      BY <2>11 DEF RangeRejected, Return, Waiting, JobInv, CallInv, CursorInv
    <3>2. Len(part) = task.size /\ Len(part) # 0
      BY <1>0, <2>4, <2>11, <3>1 DEF RangeRejected, resuming
    <3>3. task.known
      BY <1>0, <2>1, <3>1, <3>2 DEF FreshInv
    <3> QED
      BY <2>1, <2>3, <2>4, <2>5, <3>1, <3>2, <3>3 DEF FreshInv, Waiting, Clean, IsFile
  <2>12. CASE SendRequest \/ BackoffOver
    BY <2>3, <2>7, <2>12 DEF SendRequest, BackoffOver, Return, Waiting
  <2>13. CASE StopInStream
    BY <2>3, <2>6, <2>13 DEF StopInStream, Return, Waiting
  <2>14. CASE faults < MaxRetries /\ Fault /\ faults' = faults + 1
    <3>1. part' \in {part, <<>>}
      BY <2>14
      DEF Fault, ConnectionError, RetryableStatus, BadPartialBody, BodyTruncated,
          StreamError, ResetLocalFile
    <3>2. result' \notin {"complete", "rejected"}
      BY <2>3, <2>14
      DEF Fault, ConnectionError, RetryableStatus, BadPartialBody, BodyTruncated,
          StreamError, Record, Return
    <3>3. stage \in Waiting \/ off < task.size \/ task.known
      BY <2>14
      DEF Fault, ConnectionError, RetryableStatus, BadPartialBody, BodyTruncated,
          StreamError, CutShort, Waiting
    <3>4. stage \notin Waiting => off = Len(part)
      BY <2>2 DEF HonestInv, Waiting, JobInv, TypeOK, TransferTypeOK, Stages
    <3> QED
      BY <1>0, <2>1, <2>3, <2>4, <2>5, <3>1, <3>2, <3>3, <3>4
      DEF FreshInv, Clean, IsFile
  <2> QED
    BY <1>2, <2>8, <2>9, <2>10, <2>11, <2>12, <2>13, <2>14
    DEF HonestTransfer, HonestReply
<1>3. CASE DiskWorks
  <2>0. task' = task
    BY <1>3
    DEF DiskWorks, StartFile, ExistingMissing, ExistingChecked,
        RemoveStaleFinal, CleanPart, PrepareFirst, PrepareAgain, NoAttemptLeft,
        Downloaded, DownloadInterrupted, DownloadFailed, WholePartRejected,
        OffsetRejected, TransferEnds, VerifyInterrupted, PartVerified,
        PartMismatch, Install, ReportInstalled, GiveUp, envVars
  <2>1. CASE PrepareFirst
    BY <1>0, <2>1 DEF PrepareFirst
  <2>2. CASE PrepareAgain
    <3>1. stage = "idle" /\ part' = <<>> /\ job' = "transfer" /\ result' = result
      BY <2>2 DEF PrepareAgain, StartTransfer, Goto, JobInv, StageInv
    <3>2. result' = "none"
      BY <3>1 DEF ResultInv
    <3> QED
      BY <1>0, <2>0, <3>1, <3>2 DEF FreshInv, Clean, IsFile
  <2>3. CASE Downloaded \/ WholePartRejected
    <3>1. /\ job = "transfer" /\ attempt' = attempt /\ part' = part
          /\ stage' = "idle" /\ result' = "none"
          /\ result = "complete" \/ Len(part) = task.size
      BY <2>3 DEF Downloaded, WholePartRejected, WholePart, TransferEnds, TransferForgotten
    <3> QED
      BY <2>0, <3>1 DEF FreshInv, Waiting, Clean, IsFile
  <2>4. CASE DiskWorks /\ ~PrepareFirst /\ ~PrepareAgain /\ ~Downloaded /\ ~WholePartRejected
    <3>1. /\ job' \notin {"transfer", "verify", "verifyWhole"}
          /\ stage' = "idle" /\ result' \in {result, "none"}
          /\ stage = "idle" \/ result' = "none"
      BY <2>4
      DEF DiskWorks, JobInv, StageInv, StartFile, ExistingMissing,
          ExistingChecked, RemoveStaleFinal, CleanPart, AfterCleaning,
          NoAttemptLeft, DownloadInterrupted, DownloadFailed, OffsetRejected,
          TransferEnds, TransferForgotten, VerifyInterrupted, PartVerified,
          PartMismatch, Verifying, Install, ReportInstalled, GiveUp, Goto,
          idleVars, transferVars
    <3>2. result' = "none"
      BY <3>1 DEF ResultInv
    <3> QED
      BY <3>1, <3>2 DEF FreshInv, Waiting
  <2> QED
    BY <1>3, <2>1, <2>2, <2>3, <2>4
<1>4. CASE Disturbance
  <2>1. \/ UNCHANGED <<task, part, stage, result, job, attempt>>
        \/ stage' = "idle" /\ result' = "none" /\ job' = "down"
    BY <1>4
    DEF Disturbance, CtrlC, Kill, TransferForgotten, Goto, jobVars, transferVars
  <2> QED
    BY <2>1 DEF FreshInv, Waiting, Clean, IsFile
<1>5. CASE TryAgain
  BY <1>5 DEF TryAgain, RunAgain
<1> QED
  BY <1>1, <1>2, <1>3, <1>4, <1>5 DEF RecoveryStep, Working

LEMMA EndStep ==
    ASSUME MaxAttempts >= 2, JobInv, FaultsInv, FreshInv, EndInv,
           [RecoveryStep]_recoveryVars
    PROVE  EndInv'
<1>0. attempt \in Nat /\ MaxAttempts \in Nat /\ (job \in Before => attempt = 0)
  BY AttemptsAssumption DEF JobInv, TypeOK, AttemptInv
<1>1. CASE UNCHANGED recoveryVars
  BY <1>1 DEF EndInv, recoveryVars, vars, jobVars
<1>2. CASE HonestTransfer
  BY <1>2 DEF EndInv, HonestTransfer, jobVars
<1>3. CASE OffsetRejected
  <2>1. result = "rejected" /\ ~WholePart /\ job' = "prepare" /\ attempt' = attempt
    BY <1>3 DEF OffsetRejected, TransferEnds, Goto
  <2>2. ~(attempt >= 2)
    BY <2>1 DEF FreshInv, WholePart
  <2> QED
    BY <1>0, <2>1, <2>2 DEF EndInv
<1>4. CASE PartMismatch
  <2>1. /\ job \in {"verify", "verifyWhole"} /\ ~Verifies(part)
        /\ job' = "prepare" /\ attempt' = attempt
    BY <1>4 DEF PartMismatch, Verifying, Goto
  <2>2. IsFile(part)
    BY <2>1, PathsAssumption DEF IsFile, JobInv, FilesInv
  <2>3. ASSUME attempt >= 2 PROVE FALSE
    <3>1. part = Published /\ Len(part) = task.size
      BY <2>1, <2>2, <2>3 DEF FreshInv, Clean, Published
    <3> QED
      BY <2>1, <3>1 DEF Verifies, SizeMatches
  <2> QED
    BY <1>0, <2>1, <2>3 DEF EndInv
<1>5. CASE RemoveStaleFinal /\ final' = NoFile
  <2>1. job = "removeFinal" /\ final # NoFile
    BY <1>5, PathsAssumption DEF RemoveStaleFinal, JobInv, FilesInv
  <2>2. job' = "cleanPart"
    BY <1>5, <2>1 DEF RemoveStaleFinal, Goto
  <2> QED
    BY <2>2 DEF EndInv
<1>6. CASE NoAttemptLeft \/ DownloadFailed \/ GiveUp
  BY <1>0, <1>6
  DEF NoAttemptLeft, DownloadFailed, GiveUp, TransferEnds, EndInv, FaultsInv
<1>7. CASE \/ StartFile \/ ExistingMissing \/ ExistingChecked \/ CleanPart
           \/ PrepareFirst \/ PrepareAgain \/ Downloaded \/ DownloadInterrupted
           \/ WholePartRejected \/ VerifyInterrupted \/ PartVerified
           \/ Install \/ ReportInstalled
  BY <1>0, <1>7
  DEF StartFile, ExistingMissing, ExistingChecked, CleanPart, AfterCleaning,
      PrepareFirst, PrepareAgain, Downloaded, DownloadInterrupted,
      WholePartRejected, TransferEnds, StartTransfer, VerifyInterrupted,
      PartVerified, Install, ReportInstalled, Goto, EndInv, Before
<1>8. CASE Disturbance \/ TryAgain
  BY <1>8 DEF Disturbance, TryAgain, CtrlC, Kill, RunAgain, Goto, EndInv, jobVars
<1> QED
  BY <1>1, <1>2, <1>3, <1>4, <1>5, <1>6, <1>7, <1>8
  DEF RecoveryStep, Working, DiskWorks

\* Given a second attempt (the code has three), a run that is left alone
\* does not fail on a server that holds the file and is merely flaky,
\* whatever earlier runs, or anyone, left in the .part and the final file.
THEOREM FlakyServerIsEnough ==
    ASSUME MaxAttempts >= 2 PROVE RecoverySpec => []FlakyServerNeverFails
<1>1. RecoveryInit => FaultsInv /\ FreshInv /\ EndInv
  <2> SUFFICES ASSUME RecoveryInit PROVE FaultsInv /\ FreshInv /\ EndInv
    OBVIOUS
  <2>1. stage = "idle" /\ result = "none" /\ job = "start" /\ attempt = 0 /\ faults = 0
    BY DEF RecoveryInit, Init
  <2> QED
    BY <2>1, RetriesAssumption DEF FaultsInv, FreshInv, EndInv
<1>2. /\ JobInv /\ ResultInv /\ HonestInv
      /\ FaultsInv /\ FreshInv /\ EndInv
      /\ [RecoveryStep]_recoveryVars
      => FaultsInv' /\ FreshInv' /\ EndInv'
  BY FaultsStep, FreshStep, EndStep
<1>3. EndInv => FlakyServerNeverFails
  BY DEF EndInv, FlakyServerNeverFails
<1> QED
  BY <1>1, <1>2, <1>3, RecoveryInvariance, PTL DEF RecoverySpec, RecoveryStep
=============================================================================
