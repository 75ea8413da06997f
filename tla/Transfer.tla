------------------------------ MODULE Transfer ------------------------------
(***************************************************************************)
(* One call of download_file_content: stream one HTTP resource into the    *)
(* open `.part` file, resuming and retrying, while the user may press      *)
(* Ctrl+C (src/src/downloader/stream.rs and retry.rs).                     *)
(*                                                                         *)
(* Abstractions                                                            *)
(*  - A file's content is a sequence of BOOLEANs, one per unit of data:    *)
(*    TRUE where the byte is the one the published file has at that place. *)
(*  - A body arrives one unit per chunk.                                   *)
(*  - The server is arbitrary: any status, any body, any truncation.       *)
(*  - Delays are only told apart as none or some; time is not modelled.    *)
(***************************************************************************)
EXTENDS Naturals, Sequences

CONSTANTS
    MaxSize,     \* bound: published files have 0..MaxSize units
    Overrun,     \* bound: how far past the published size a body may run
    MaxRetries,  \* MAX_RETRIES of retry.rs
    NoFile,      \* nothing at the path
    Foreign      \* a symlink, a directory or a special file at the path

ASSUME SizesAssumption   == MaxSize \in Nat /\ Overrun \in Nat
ASSUME RetriesAssumption == MaxRetries \in Nat
ASSUME PathsAssumption   == /\ {NoFile, Foreign} \cap Seq(BOOLEAN) = {}
                            /\ NoFile # Foreign

VARIABLES
    task,      \* what the metadata says of the file (never changes)
    running,   \* the stop flag: FALSE once Ctrl+C was pressed
    part,      \* content of the .part file on disk
    pos,       \* write cursor of the open .part handle
    stage,     \* where download_file_content is
    retries,   \* RetryTracker.count
    noDelay,   \* the recorded retry asked for a zero wait (Retry-After: 0)
    asked,     \* first byte of the request's Range, 0 for a plain GET
    status,    \* status of the response being streamed
    off,       \* offset in the published file of the body's next unit
    base,      \* base_size: file length when streaming started
    got,       \* downloaded_bytes of this response
    result,    \* what download_file_content returned
    late       \* history: requests sent after the stop flag was set

envVars      == <<task, running>>
replyVars    == <<status, off, base, got>>
transferVars == <<part, pos, stage, retries, noDelay, asked, status, off,
                  base, got, result, late>>
callVars     == <<envVars, transferVars>>

Stages  == {"idle", "request", "awaiting", "stream", "backoff",
            "reopenBackoff", "returned"}
Results == {"none", "complete", "interrupted", "rejected", "error"}

\* size is the published length; the metadata may omit it (known = FALSE)
\* and may omit the MD5.
Tasks == [size: 0..MaxSize, known: BOOLEAN, md5: BOOLEAN]

Published == [i \in 1..task.size |-> TRUE]

\* Every content a file can have within the bounds
Contents == UNION {[1..n -> BOOLEAN] : n \in 0..(MaxSize + Overrun)}

-----------------------------------------------------------------------------
(* Local file operations *)

Longer(m, n) == IF m < n THEN n ELSE m

\* A one-unit write at cursor p: overwrites, appends, or leaves a hole.
WriteAt(content, p, unit) ==
    [i \in 1..Longer(Len(content), p + 1) |->
        IF i = p + 1 THEN unit ELSE i <= Len(content) /\ content[i]]

\* Mutant: the cursor stays where it was.
ResetWithoutSeek == part' = <<>> /\ UNCHANGED pos

ResetLocalFile == part' = <<>> /\ pos' = 0

-----------------------------------------------------------------------------
(* RetryTracker.record, and returning from the call *)

Return(r) == stage' = "returned" /\ result' = r

\* Mutants: one retry too many, one too few, none counted, a stop ignored.
RecordOneMore(wait, zero) ==
    /\ retries' = retries + 1
    /\ noDelay' = zero
    /\ \/ retries' > MaxRetries + 1 /\ Return("error")
       \/ retries' <= MaxRetries + 1 /\ ~running /\ Return("interrupted")
       \/ retries' <= MaxRetries + 1 /\ running /\ stage' = wait /\ UNCHANGED result

RecordOneLess(wait, zero) ==
    /\ retries' = retries + 1
    /\ noDelay' = zero
    /\ \/ retries' >= MaxRetries /\ Return("error")
       \/ retries' < MaxRetries /\ ~running /\ Return("interrupted")
       \/ retries' < MaxRetries /\ running /\ stage' = wait /\ UNCHANGED result

RecordUncounted(wait, zero) ==
    /\ noDelay' = zero
    /\ UNCHANGED retries
    /\ \/ ~running /\ Return("interrupted")
       \/ running /\ stage' = wait /\ UNCHANGED result

RecordDeaf(wait, zero) ==
    /\ retries' = retries + 1
    /\ noDelay' = zero
    /\ \/ retries' > MaxRetries /\ Return("error")
       \/ retries' <= MaxRetries /\ stage' = wait /\ UNCHANGED result

\* Counts the failure; gives up past the limit, honours a stop already
\* requested, otherwise waits (zero tells whether the wait is empty).
Record(wait, zero) ==
    /\ retries' = retries + 1
    /\ noDelay' = zero
    /\ \/ /\ retries' > MaxRetries
          /\ Return("error")
       \/ /\ retries' <= MaxRetries
          /\ ~running
          /\ Return("interrupted")
       \/ /\ retries' <= MaxRetries
          /\ running
          /\ stage' = wait
          /\ UNCHANGED result

\* The wait is over. A wait of some length re-checks the stop flag at its
\* last slice, an empty one does not. retry_open_file then seeks to the end.
BackoffOver ==
    /\ stage \in {"backoff", "reopenBackoff"}
    /\ \/ /\ running \/ noDelay
          /\ stage' = "request"
          /\ pos' = IF stage = "reopenBackoff" THEN Len(part) ELSE pos
          /\ UNCHANGED result
       \/ /\ ~running
          /\ ~noDelay
          /\ Return("interrupted")
          /\ UNCHANGED pos
    /\ UNCHANGED <<part, retries, noDelay, asked, replyVars, late>>

-----------------------------------------------------------------------------
(* The request and the responses the server can give to it *)

\* A non-empty local file is resumed with a Range request.
SendRequest ==
    /\ stage = "request"
    /\ asked' = Len(part)
    /\ stage' = "awaiting"
    /\ late' = IF running THEN late ELSE late + 1
    /\ UNCHANGED <<part, pos, retries, noDelay, replyVars, result>>

resuming == asked > 0

ConnectionError ==
    /\ stage = "awaiting"
    /\ Record("backoff", FALSE)
    /\ UNCHANGED <<part, pos, asked, replyVars, late>>

\* handle_failed_status: a 416 answering a resume
RangeRejected ==
    /\ stage = "awaiting"
    /\ resuming
    /\ Return("rejected")
    /\ UNCHANGED <<part, pos, retries, noDelay, asked, replyVars, late>>

\* handle_failed_status: 408, 425, 429, 500, 502, 503, 504
RetryableStatus(zero) ==
    /\ stage = "awaiting"
    /\ Record("backoff", zero)
    /\ UNCHANGED <<part, pos, asked, replyVars, late>>

\* Any other failed status, a 416 to a plain GET, or a 2xx without a body
FatalStatus ==
    /\ stage = "awaiting"
    /\ Return("error")
    /\ UNCHANGED <<part, pos, retries, noDelay, asked, replyVars, late>>

\* base_size is read back from the file after any reset.
StartStreaming(code, start, length) ==
    /\ stage' = "stream"
    /\ status' = code
    /\ off' = start
    /\ base' = length
    /\ got' = 0

\* Mutant: a 200 is appended to the prefix.
FullBodyAppended ==
    /\ stage = "awaiting"
    /\ StartStreaming("200", 0, Len(part))
    /\ UNCHANGED <<part, pos, retries, noDelay, asked, result, late>>

\* 200: the whole file follows; an existing prefix is dropped first.
FullBody ==
    /\ stage = "awaiting"
    /\ IF resuming THEN ResetLocalFile ELSE UNCHANGED <<part, pos>>
    /\ StartStreaming("200", 0, Len(part'))
    /\ UNCHANGED <<retries, noDelay, asked, result, late>>

\* Mutant: the start of the range is not compared.
PrefixTrustedAnywhere(start, wellFormed) == wellFormed

\* prefix_trusted and partial_content_offset: the Content-Range is well
\* formed and starts where the file ends.
PrefixTrusted(start, wellFormed) == wellFormed /\ start = Len(part)

\* 206 for the data from start on. Only a resumed transfer checks it.
PartialBody(start, wellFormed) ==
    /\ stage = "awaiting"
    /\ ~resuming \/ PrefixTrusted(start, wellFormed)
    /\ StartStreaming("206", start, Len(part))
    /\ UNCHANGED <<part, pos, retries, noDelay, asked, result, late>>

\* "Bad 206": the prefix is dropped and the request repeated from scratch.
BadPartialBody(start, wellFormed, zero) ==
    /\ stage = "awaiting"
    /\ resuming
    /\ ~PrefixTrusted(start, wellFormed)
    /\ ResetLocalFile
    /\ Record("backoff", zero)
    /\ UNCHANGED <<asked, replyVars, late>>

-----------------------------------------------------------------------------
(* stream_response_body and what is made of its outcome *)

\* One chunk is written. It is the published data only where the body is at
\* the place it is written to, and intact says it was not damaged.
ReceiveChunk(intact) ==
    /\ stage = "stream"
    /\ pos < task.size + Overrun
    /\ part' = WriteAt(part, pos, intact /\ off = pos /\ off < task.size)
    /\ pos' = pos + 1
    /\ off' = off + 1
    /\ got' = got + 1
    /\ UNCHANGED <<stage, retries, noDelay, asked, status, base, result, late>>

\* Mutant: off by one.
IncompleteByMore == task.known /\ base + got + 1 < task.size

\* assess_streamed_body
Empty      == task.known /\ task.size > 0 /\ base = 0 /\ got = 0
Incomplete == task.known /\ base + got < task.size

BodyComplete ==
    /\ stage = "stream"
    /\ ~Empty /\ ~Incomplete
    /\ Return("complete")
    /\ UNCHANGED <<part, pos, retries, noDelay, asked, replyVars, late>>

BodyTruncated(zero) ==
    /\ stage = "stream"
    /\ Empty \/ Incomplete
    /\ Record("reopenBackoff", zero)
    /\ UNCHANGED <<part, pos, asked, replyVars, late>>

\* Mutant: a broken stream starts the download over.
StreamErrorRestarts ==
    /\ stage = "stream"
    /\ ResetLocalFile
    /\ Record("reopenBackoff", FALSE)
    /\ UNCHANGED <<asked, replyVars, late>>

\* The connection broke, the read timed out, or a write failed for a reason
\* other than a full disk.
StreamError ==
    /\ stage = "stream"
    /\ Record("reopenBackoff", FALSE)
    /\ UNCHANGED <<part, pos, asked, replyVars, late>>

DiskFull ==
    /\ stage = "stream"
    /\ Return("error")
    /\ UNCHANGED <<part, pos, retries, noDelay, asked, replyVars, late>>

\* Reading the file's size, resetting it or seeking in it failed. (A reset
\* that fails after truncating is not told apart.)
LocalIoError ==
    /\ stage \in {"request", "awaiting", "reopenBackoff"}
    /\ Return("error")
    /\ UNCHANGED <<part, pos, retries, noDelay, asked, replyVars, late>>

\* The stop flag won a race against a chunk or a pacing sleep.
StopInStream ==
    /\ stage = "stream"
    /\ ~running
    /\ Return("interrupted")
    /\ UNCHANGED <<part, pos, retries, noDelay, asked, replyVars, late>>

-----------------------------------------------------------------------------
(* The server may answer anything; the program takes every other step. *)

Offsets == 0..(MaxSize + Overrun)

ServerStep ==
    \/ ConnectionError
    \/ RangeRejected
    \/ \E zero \in BOOLEAN : RetryableStatus(zero)
    \/ FatalStatus
    \/ FullBody
    \/ \E start \in Offsets, wellFormed \in BOOLEAN :
          PartialBody(start, wellFormed)
    \/ \E start \in Offsets, wellFormed, zero \in BOOLEAN :
          BadPartialBody(start, wellFormed, zero)
    \/ \E intact \in BOOLEAN : ReceiveChunk(intact)
    \/ BodyComplete
    \/ \E zero \in BOOLEAN : BodyTruncated(zero)
    \/ StreamError

LocalStep ==
    \/ SendRequest
    \/ BackoffOver
    \/ DiskFull
    \/ LocalIoError
    \/ StopInStream

TransferStep == (ServerStep \/ LocalStep) /\ UNCHANGED envVars

\* handle_ctrl_c, first press
Stop ==
    /\ running
    /\ stage # "returned"
    /\ running' = FALSE
    /\ UNCHANGED <<task, transferVars>>

TransferInit ==
    /\ task \in Tasks
    /\ running = TRUE
    /\ part \in Contents
    /\ Len(part) <= task.size + Overrun
    /\ pos = Len(part)
    /\ stage = "request"
    /\ retries = 0
    /\ result = "none"
    /\ noDelay = FALSE
    /\ asked = 0
    /\ status = "none"
    /\ off = 0 /\ base = 0 /\ got = 0
    /\ late = 0

TransferNext == TransferStep \/ Stop

\* Every network wait ends (connect and read timeouts, 500 ms slices), so
\* the call always takes another step.
TransferSpec ==
    TransferInit /\ [][TransferNext]_callVars /\ WF_callVars(TransferStep)

-----------------------------------------------------------------------------
(* Properties *)

\* Type correctness of the transfer's state.
TransferTypeOK ==
    /\ task \in Tasks
    /\ running \in BOOLEAN
    /\ part \in Seq(BOOLEAN) \cup {NoFile, Foreign}
    /\ stage # "idle" => part \in Seq(BOOLEAN)
    /\ pos \in Nat
    /\ stage \in Stages
    /\ retries \in 0..(MaxRetries + 1)
    /\ noDelay \in BOOLEAN
    /\ asked \in Nat
    /\ status \in {"none", "200", "206"}
    /\ off \in Nat /\ base \in Nat /\ got \in Nat
    /\ result \in Results
    /\ late \in Nat

\* While a body is streamed the cursor is at the end of the file, and the
\* size the transfer reckons with (base_size + downloaded_bytes, which
\* decides completeness) is the size the file has on disk -- whatever
\* resets, retries and failed requests came before.
AccountingMatchesDisk ==
    stage = "stream" => pos = Len(part) /\ base + got = Len(part)

\* A response to a resume never splices: the body's next unit is the one
\* the file lacks, also after the prefix was dropped for a 200.
NoSplice ==
    stage = "stream" /\ (resuming \/ status = "200") => off = Len(part)

\* A completed transfer holds at least the size the metadata announces.
CompleteIsLongEnough ==
    result = "complete" /\ task.known => Len(part) >= task.size

\* After Ctrl+C a transfer sends at most one more request: every way back to
\* the request passes a check of the stop flag (record).
AtMostOneLateRequest == late <= 1

\* Downloaded data is dropped only on the response to a resume. Truncated
\* bodies, broken streams, waits, requests and a stop keep every unit, and a
\* body only ever extends the file.
DataDroppedOnlyOnReset ==
    [][part' # part =>
         \/ /\ stage = "stream"
            /\ Len(part) <= Len(part')
            /\ SubSeq(part', 1, Len(part)) = part
         \/ stage = "awaiting" /\ resuming /\ part' = <<>>]_callVars

\* The call always returns: retries are bounded and every wait ends.
TransferReturns == <>(stage = "returned")

\* Comment at stream.rs:406: "Only a full body (200) or a verified partial
\* (206) may be streamed". A verified 206 continues the local file exactly.
OnlyVerifiedPartialStreamed ==
    stage = "stream" /\ status = "206" => off = base + got
=============================================================================
