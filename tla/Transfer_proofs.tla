--------------------------- MODULE Transfer_proofs ---------------------------
(***************************************************************************)
(* Theorems about one call of download_file_content, for every file size,  *)
(* retry limit and server.                                                 *)
(***************************************************************************)
EXTENDS Transfer, TLAPS

\* Where the call may still send a request or write to the file
Live == stage \in {"request", "awaiting", "stream", "backoff", "reopenBackoff"}

\* The cursor follows the file, the Range sent names its end, and what was
\* received since adds up.
CursorInv ==
    /\ Live => pos = Len(part)
    /\ stage = "awaiting" => asked = Len(part)
    /\ stage = "stream" => base + got = Len(part)

RetryInv == Live => retries <= MaxRetries

\* Once a request went out late, the next check of the flag ends the call.
LateInv == /\ late \in {0, 1}
           /\ late = 1 => ~running /\ stage \in {"awaiting", "stream", "returned"}

\* What every step of the call preserves, also inside a FileJob
CallInv == TransferTypeOK /\ CursorInv /\ RetryInv /\ NoSplice

\* A call that is complete is over, and has what was announced.
CompleteInv == /\ result = "complete" => stage = "returned"
               /\ CompleteIsLongEnough

IInv == CallInv /\ LateInv /\ CompleteInv /\ stage # "idle"

-----------------------------------------------------------------------------
(* Writing *)

\* A write at the end of a file keeps every unit and adds one.
LEMMA WriteAtEnd ==
    ASSUME NEW content \in Seq(BOOLEAN), NEW unit \in BOOLEAN
    PROVE  /\ WriteAt(content, Len(content), unit) \in Seq(BOOLEAN)
           /\ Len(WriteAt(content, Len(content), unit)) = Len(content) + 1
           /\ SubSeq(WriteAt(content, Len(content), unit), 1, Len(content)) = content
<1> DEFINE n == Len(content)
           written == WriteAt(content, n, unit)
<1>1. n \in Nat /\ Longer(n, n + 1) = n + 1
  BY DEF Longer
<1>2. written = [i \in 1..(n + 1) |->
                   IF i = n + 1 THEN unit ELSE i <= n /\ content[i]]
  BY <1>1 DEF WriteAt
<1>3. \A i \in 1..(n + 1) :
         (IF i = n + 1 THEN unit ELSE i <= n /\ content[i]) \in BOOLEAN
  OBVIOUS
<1>4. written \in Seq(BOOLEAN) /\ Len(written) = n + 1
  BY <1>1, <1>2, <1>3
<1>5. \A i \in 1..n : written[i] = content[i]
  <2> SUFFICES ASSUME NEW i \in 1..n
               PROVE  written[i] = content[i]
    OBVIOUS
  <2>1. i \in 1..(n + 1) /\ i # n + 1 /\ i <= n
    BY <1>1
  <2>2. content[i] \in BOOLEAN
    BY <2>1
  <2> QED
    BY <1>2, <2>1, <2>2
<1>6. SubSeq(written, 1, n) = [i \in 1..n |-> written[i]]
  BY <1>1, <1>4
<1>7. content = [i \in 1..n |-> content[i]]
  OBVIOUS
<1> QED
  BY <1>4, <1>5, <1>6, <1>7

-----------------------------------------------------------------------------
(* The inductive invariant *)

LEMMA InitEstablishes == TransferInit => IInv
<1> SUFFICES ASSUME TransferInit PROVE IInv
  OBVIOUS
<1>1. part \in Seq(BOOLEAN)
  <2>1. PICK n \in 0..(MaxSize + Overrun) : part \in [1..n -> BOOLEAN]
    BY DEF TransferInit, Contents
  <2>2. n \in Nat
    BY SizesAssumption
  <2> QED
    BY <2>1, <2>2
<1>2. TransferTypeOK
  <2>1. running \in BOOLEAN /\ noDelay \in BOOLEAN
    BY DEF TransferInit
  <2>2. pos \in Nat
    BY <1>1 DEF TransferInit
  <2>3. retries \in 0..(MaxRetries + 1)
    BY RetriesAssumption DEF TransferInit
  <2>4. asked \in Nat /\ off \in Nat /\ base \in Nat /\ got \in Nat /\ late \in Nat
    BY DEF TransferInit
  <2> QED
    BY <1>1, <2>1, <2>2, <2>3, <2>4 DEF TransferInit, TransferTypeOK, Stages, Results
<1>3. CursorInv /\ RetryInv /\ NoSplice /\ LateInv /\ CompleteInv /\ stage # "idle"
  BY RetriesAssumption
  DEF TransferInit, CursorInv, RetryInv, NoSplice, LateInv, CompleteInv,
      CompleteIsLongEnough, Live
<1> QED
  BY <1>2, <1>3 DEF IInv, CallInv

\* A recorded failure that leaves the file and its cursor in step keeps the
\* invariant, whatever wait follows.
LEMMA RecordPreserves ==
    ASSUME CallInv, stage \in {"awaiting", "stream"},
           NEW wait \in {"backoff", "reopenBackoff"}, NEW zero \in BOOLEAN,
           Record(wait, zero),
           part' \in Seq(BOOLEAN), pos' \in Nat, pos' = Len(part'),
           UNCHANGED <<envVars, asked, replyVars, late>>
    PROVE  CallInv'
<1>1. /\ stage' \in {"backoff", "reopenBackoff", "returned"}
      /\ stage' = "returned" \/ (running /\ retries' <= MaxRetries)
      /\ result' \in Results
      /\ retries' \in 0..(MaxRetries + 1)
      /\ noDelay' \in BOOLEAN
  BY RetriesAssumption
  DEF Record, Return, CallInv, TransferTypeOK, RetryInv, Live, Results
<1>2. TransferTypeOK'
  BY <1>1 DEF CallInv, TransferTypeOK, envVars, replyVars, Stages
<1>3. CursorInv' /\ RetryInv' /\ NoSplice'
  BY <1>1 DEF CursorInv, RetryInv, NoSplice, Live
<1> QED
  BY <1>2, <1>3 DEF CallInv

\* Returning from the call keeps the invariant when the file is left alone.
LEMMA ReturnPreserves ==
    ASSUME CallInv, NEW r \in Results, Return(r),
           stage # "idle",
           UNCHANGED <<envVars, part, pos, retries, noDelay, asked, replyVars, late>>
    PROVE  CallInv'
<1>1. stage' = "returned" /\ result' = r
  BY DEF Return
<1>2. TransferTypeOK'
  BY <1>1 DEF CallInv, TransferTypeOK, Stages, envVars, replyVars
<1>3. CursorInv' /\ RetryInv' /\ NoSplice'
  BY <1>1 DEF CursorInv, RetryInv, NoSplice, Live
<1> QED
  BY <1>2, <1>3 DEF CallInv

LEMMA ServerStepPreserves == CallInv /\ ServerStep /\ UNCHANGED envVars => CallInv'
<1> SUFFICES ASSUME CallInv, ServerStep, UNCHANGED envVars PROVE CallInv'
  OBVIOUS
<1> USE DEF CallInv
<1>0. stage \in {"awaiting", "stream"} =>
         part \in Seq(BOOLEAN) /\ pos \in Nat /\ pos = Len(part)
  BY DEF TransferTypeOK, CursorInv, Live
<1>1. CASE ConnectionError
  BY <1>0, <1>1, RecordPreserves DEF ConnectionError
<1>2. CASE RangeRejected
  BY <1>2, ReturnPreserves DEF RangeRejected, Results
<1>3. ASSUME NEW zero \in BOOLEAN, RetryableStatus(zero) PROVE CallInv'
  BY <1>0, <1>3, RecordPreserves DEF RetryableStatus
<1>4. CASE FatalStatus
  BY <1>4, ReturnPreserves DEF FatalStatus, Results
<1>5. CASE FullBody
  <2>1. part \in Seq(BOOLEAN) /\ asked = Len(part) /\ pos = Len(part)
    BY <1>0, <1>5 DEF FullBody, CursorInv
  <2>2. part' = <<>> /\ pos' = 0
    BY <1>5, <2>1 DEF FullBody, resuming, ResetLocalFile
  <2>3. /\ stage' = "stream" /\ status' = "200" /\ off' = 0
        /\ base' = 0 /\ got' = 0
    BY <1>5, <2>2 DEF FullBody, StartStreaming
  <2> QED
    BY <1>5, <2>2, <2>3
    DEF FullBody, TransferTypeOK, Stages, CursorInv, RetryInv, NoSplice,
        Live, envVars
<1>6. ASSUME NEW start \in Offsets, NEW wellFormed \in BOOLEAN,
             PartialBody(start, wellFormed)
      PROVE  CallInv'
  <2>1. start \in Nat
    BY SizesAssumption DEF Offsets
  <2>2. resuming => start = Len(part)
    BY <1>6 DEF PartialBody, PrefixTrusted
  <2> QED
    BY <1>0, <1>6, <2>1, <2>2
    DEF PartialBody, StartStreaming, TransferTypeOK, Stages, CursorInv, RetryInv,
        NoSplice, Live, envVars, resuming
<1>7. ASSUME NEW start \in Offsets, NEW wellFormed \in BOOLEAN, NEW zero \in BOOLEAN,
             BadPartialBody(start, wellFormed, zero)
      PROVE  CallInv'
  <2>1. part' = <<>> /\ pos' = 0
    BY <1>7 DEF BadPartialBody, ResetLocalFile
  <2> QED
    BY <1>7, <2>1, RecordPreserves DEF BadPartialBody
<1>8. ASSUME NEW intact \in BOOLEAN, ReceiveChunk(intact) PROVE CallInv'
  <2> DEFINE unit == intact /\ off = pos /\ off < task.size
  <2>1. part \in Seq(BOOLEAN) /\ pos = Len(part) /\ pos \in Nat
    BY <1>0, <1>8 DEF ReceiveChunk
  <2>2. unit \in BOOLEAN
    OBVIOUS
  <2>3. part' = WriteAt(part, Len(part), unit)
    BY <1>8, <2>1 DEF ReceiveChunk
  <2> HIDE DEF unit
  <2>4. part' \in Seq(BOOLEAN) /\ Len(part') = Len(part) + 1
    BY <2>1, <2>2, <2>3, WriteAtEnd
  <2> QED
    BY <1>8, <2>1, <2>4
    DEF ReceiveChunk, TransferTypeOK, CursorInv, RetryInv, NoSplice,
        Live, envVars, resuming
<1>9. CASE BodyComplete
  BY <1>9, ReturnPreserves DEF BodyComplete, Results
<1>10. ASSUME NEW zero \in BOOLEAN, BodyTruncated(zero) PROVE CallInv'
  BY <1>0, <1>10, RecordPreserves DEF BodyTruncated
<1>11. CASE StreamError
  BY <1>0, <1>11, RecordPreserves DEF StreamError
<1> QED
  BY <1>1, <1>2, <1>3, <1>4, <1>5, <1>6, <1>7, <1>8, <1>9, <1>10, <1>11
  DEF ServerStep

LEMMA LocalStepPreserves == CallInv /\ LocalStep /\ UNCHANGED envVars => CallInv'
<1> SUFFICES ASSUME CallInv, LocalStep, UNCHANGED envVars PROVE CallInv'
  OBVIOUS
<1>1. CASE SendRequest
  <2>1. stage = "request" /\ stage' = "awaiting" /\ asked' = Len(part)
    BY <1>1 DEF SendRequest
  <2>2. part \in Seq(BOOLEAN) /\ pos = Len(part) /\ Len(part) \in Nat
    BY <2>1 DEF CallInv, TransferTypeOK, CursorInv, Live
  <2> QED
    BY <1>1, <2>1, <2>2
    DEF SendRequest, CallInv, TransferTypeOK, Stages, CursorInv, RetryInv, NoSplice,
        Live, envVars, replyVars
<1>2. CASE BackoffOver
  <2>1. CASE stage' = "request"
    BY <1>2, <2>1
    DEF BackoffOver, CallInv, TransferTypeOK, Stages, CursorInv, RetryInv, NoSplice,
        Live, envVars, replyVars, Return
  <2>2. CASE stage' = "returned"
    BY <1>2, <2>2
    DEF BackoffOver, CallInv, TransferTypeOK, Stages, Results, CursorInv, RetryInv,
        NoSplice, Live, envVars, replyVars, Return
  <2> QED
    BY <1>2, <2>1, <2>2 DEF BackoffOver, Return
<1>3. CASE DiskFull
  BY <1>3, ReturnPreserves DEF DiskFull, Results
<1>4. CASE LocalIoError
  BY <1>4, ReturnPreserves DEF LocalIoError, Results
<1>5. CASE StopInStream
  BY <1>5, ReturnPreserves DEF StopInStream, Results
<1> QED
  BY <1>1, <1>2, <1>3, <1>4, <1>5 DEF LocalStep

LEMMA CallStepPreserves == CallInv /\ TransferStep => CallInv'
<1> QED
  BY ServerStepPreserves, LocalStepPreserves DEF TransferStep

LEMMA LateStepPreserves == CallInv /\ LateInv /\ TransferStep => LateInv'
<1> SUFFICES ASSUME CallInv, LateInv, TransferStep PROVE LateInv'
  OBVIOUS
<1>1. running' = running
  BY DEF TransferStep, envVars
<1>2. CASE SendRequest
  BY <1>1, <1>2 DEF SendRequest, LateInv
<1>3. CASE BackoffOver \/ DiskFull \/ LocalIoError \/ StopInStream
  BY <1>1, <1>3 DEF BackoffOver, DiskFull, LocalIoError, StopInStream, Return, LateInv
<1>4. CASE ServerStep
  <2>1. late' = late /\ stage \in {"awaiting", "stream"}
    BY <1>4
    DEF ServerStep, ConnectionError, RangeRejected, RetryableStatus, FatalStatus,
        FullBody, PartialBody, BadPartialBody, ReceiveChunk, BodyComplete,
        BodyTruncated, StreamError
  <2>2. ~running => stage' \in {"awaiting", "stream", "returned"}
    BY <1>4
    DEF ServerStep, ConnectionError, RangeRejected, RetryableStatus, FatalStatus,
        FullBody, PartialBody, BadPartialBody, ReceiveChunk, BodyComplete,
        BodyTruncated, StreamError, Record, Return, StartStreaming
  <2> QED
    BY <1>1, <2>1, <2>2 DEF LateInv
<1> QED
  BY <1>2, <1>3, <1>4 DEF TransferStep, LocalStep

\* The outcome of a body is judged by a count that is the file's length.
LEMMA CompleteStepPreserves == CallInv /\ CompleteInv /\ TransferStep => CompleteInv'
<1> SUFFICES ASSUME CallInv, CompleteInv, TransferStep PROVE CompleteInv'
  OBVIOUS
<1>1. task' = task
  BY DEF TransferStep, envVars
<1>2. stage # "returned" /\ result # "complete"
  BY DEF TransferStep, ServerStep, LocalStep, SendRequest, BackoffOver, DiskFull,
         LocalIoError, StopInStream, ConnectionError, RangeRejected,
         RetryableStatus, FatalStatus, FullBody, PartialBody, BadPartialBody,
         ReceiveChunk, BodyComplete, BodyTruncated, StreamError, CompleteInv
<1>3. CASE BodyComplete
  <2>1. task \in Tasks /\ part \in Seq(BOOLEAN) /\ base + got = Len(part)
    BY <1>3 DEF BodyComplete, CallInv, TransferTypeOK, CursorInv
  <2>2. task.known => base + got >= task.size
    BY <1>3, <2>1 DEF BodyComplete, Incomplete, Tasks, CallInv, TransferTypeOK
  <2> QED
    BY <1>1, <1>3, <2>1, <2>2
    DEF BodyComplete, Return, CompleteInv, CompleteIsLongEnough
<1>4. CASE ~BodyComplete
  <2>1. result' # "complete"
    BY <1>2, <1>4
    DEF TransferStep, ServerStep, LocalStep, SendRequest, BackoffOver, DiskFull,
        LocalIoError, StopInStream, ConnectionError, RangeRejected,
        RetryableStatus, FatalStatus, FullBody, PartialBody, BadPartialBody,
        ReceiveChunk, BodyTruncated, StreamError, Record, Return, StartStreaming
  <2> QED
    BY <2>1 DEF CompleteInv, CompleteIsLongEnough
<1> QED
  BY <1>3, <1>4

LEMMA NeverIdle == TransferStep => stage' # "idle"
<1> QED
  BY DEF TransferStep, ServerStep, LocalStep, SendRequest, BackoffOver, DiskFull,
         LocalIoError, StopInStream, ConnectionError, RangeRejected,
         RetryableStatus, FatalStatus, FullBody, PartialBody, BadPartialBody,
         ReceiveChunk, BodyComplete, BodyTruncated, StreamError, Record, Return,
         StartStreaming

LEMMA StepPreserves == IInv /\ [TransferNext]_callVars => IInv'
<1> SUFFICES ASSUME IInv, [TransferNext]_callVars PROVE IInv'
  OBVIOUS
<1>1. CASE TransferStep
  BY <1>1, CallStepPreserves, LateStepPreserves, CompleteStepPreserves, NeverIdle DEF IInv
<1>2. CASE Stop
  BY <1>2
  DEF Stop, IInv, CallInv, TransferTypeOK, CursorInv, RetryInv, NoSplice, LateInv,
      CompleteInv, CompleteIsLongEnough, Live, transferVars, replyVars, resuming
<1>3. CASE UNCHANGED callVars
  BY <1>3
  DEF callVars, IInv, CallInv, TransferTypeOK, CursorInv, RetryInv, NoSplice,
      LateInv, CompleteInv, CompleteIsLongEnough, Live, envVars, transferVars,
      replyVars, resuming
<1> QED
  BY <1>1, <1>2, <1>3 DEF TransferNext

LEMMA Invariance == TransferSpec => []IInv
<1> QED
  BY InitEstablishes, StepPreserves, PTL DEF TransferSpec

-----------------------------------------------------------------------------
(* The theorems *)

\* Every variable of the transfer keeps its type; in particular the retry
\* counter of RetryTracker never passes MAX_RETRIES + 1.
THEOREM TransferTypeCorrect == TransferSpec => []TransferTypeOK
<1>1. IInv => TransferTypeOK
  BY DEF IInv, CallInv
<1> QED
  BY <1>1, Invariance, PTL

\* The size download_file_content reckons with is the size on disk, and the
\* cursor is at the end, whenever a body is being written.
THEOREM AccountingCorrect == TransferSpec => []AccountingMatchesDisk
<1>1. IInv => AccountingMatchesDisk
  BY DEF IInv, CallInv, CursorInv, Live, AccountingMatchesDisk
<1> QED
  BY <1>1, Invariance, PTL

\* A resumed transfer never appends data of another offset.
THEOREM NeverSplices == TransferSpec => []NoSplice
<1>1. IInv => NoSplice
  BY DEF IInv, CallInv
<1> QED
  BY <1>1, Invariance, PTL

\* After Ctrl+C a transfer sends at most one more request.
THEOREM LateRequests == TransferSpec => []AtMostOneLateRequest
<1>1. IInv => AtMostOneLateRequest
  BY DEF IInv, CallInv, LateInv, AtMostOneLateRequest
<1> QED
  BY <1>1, Invariance, PTL

\* A transfer that reports completion (assess_streamed_body) leaves at least the
\* announced size on disk, whatever resets and resumes it went through.
THEOREM CompleteMeansEnough == TransferSpec => []CompleteIsLongEnough
<1>1. IInv => CompleteIsLongEnough
  BY DEF IInv, CompleteInv
<1> QED
  BY <1>1, Invariance, PTL

\* Downloaded data is dropped only on the response to a resume.
THEOREM DataKept == TransferSpec => DataDroppedOnlyOnReset
<1> DEFINE Kept == part' # part =>
               \/ /\ stage = "stream"
                  /\ Len(part) <= Len(part')
                  /\ SubSeq(part', 1, Len(part)) = part
               \/ stage = "awaiting" /\ resuming /\ part' = <<>>
<1>1. IInv /\ [TransferNext]_callVars => [Kept]_callVars
  <2> SUFFICES ASSUME IInv, TransferNext, part' # part PROVE Kept
    OBVIOUS
  <2>1. TransferStep
    BY DEF TransferNext, Stop, transferVars
  <2>2. ~LocalStep
    BY DEF LocalStep, SendRequest, BackoffOver, DiskFull, LocalIoError, StopInStream
  <2>3. CASE FullBody
    BY <2>3 DEF FullBody, ResetLocalFile
  <2>4. ASSUME NEW start \in Offsets, NEW wellFormed \in BOOLEAN, NEW zero \in BOOLEAN,
               BadPartialBody(start, wellFormed, zero)
        PROVE  Kept
    BY <2>4 DEF BadPartialBody, ResetLocalFile
  <2>5. ASSUME NEW intact \in BOOLEAN, ReceiveChunk(intact) PROVE Kept
    <3> DEFINE unit == intact /\ off = pos /\ off < task.size
    <3>1. part \in Seq(BOOLEAN) /\ pos = Len(part) /\ stage = "stream"
      BY <2>5 DEF ReceiveChunk, IInv, CallInv, TransferTypeOK, CursorInv, Live
    <3>2. unit \in BOOLEAN
      OBVIOUS
    <3>3. part' = WriteAt(part, Len(part), unit)
      BY <2>5, <3>1 DEF ReceiveChunk
    <3> HIDE DEF unit
    <3>4. Len(part') = Len(part) + 1 /\ SubSeq(part', 1, Len(part)) = part
      BY <3>1, <3>2, <3>3, WriteAtEnd
    <3>5. Len(part) <= Len(part')
      BY <3>1, <3>4
    <3> QED
      BY <3>1, <3>4, <3>5
  <2> QED
    BY <2>1, <2>2, <2>3, <2>4, <2>5
    DEF TransferStep, ServerStep, ConnectionError, RangeRejected, RetryableStatus,
        FatalStatus, PartialBody, BodyComplete, BodyTruncated, StreamError
<1> QED
  BY <1>1, Invariance, PTL DEF TransferSpec, DataDroppedOnlyOnReset
=============================================================================
