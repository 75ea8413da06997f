# ia-get in TLA+

TLA+ models of `ia-get`, a command line program that downloads the files of an
archive.org item: TLC configurations that check them on small instances, and
TLAPS proofs of what matters most for every value of the constants. Paths below
are relative to the repository's root (`src/` is the Rust crate).

## The system

One process, one asynchronous task, and a signal handler on a thread of its own
that shares a single atomic flag with it. Nothing else runs concurrently inside
the program. The interesting environment is outside: an HTTP server that may
answer anything, a file system that outlives the process, a user who presses
Ctrl+C or runs the program again, and kills.

| Component | Code | State it keeps | Operations |
|---|---|---|---|
| transfer | `downloader/stream.rs`, `downloader/retry.rs` | open `.part` handle and cursor, `base_size`, bytes counted, retry count | one GET or ranged GET, stream, reset, retry, wait |
| file job | `downloader/mod.rs`, `downloader/verify.rs` | final file and `.part` on disk, attempt counter, `discard_part` | check existing copy, prepare, transfer, verify, install, discard |
| batch | `downloader/mod.rs` | list of failed files | loop over tasks, stop check, summary |
| stop handling | `downloader/signal.rs` | the `running` flag, presses | first press stops, second quits |
| plan | `plan.rs`, `filename.rs`, `file_filter.rs` | planned files and directories | select, filter, sanitize, detect collisions |
| disk space check | `plan.rs`, `main.rs` | none | estimate what the batch will write |
| check mode | `check.rs` | none (reads the directory) | walk, classify, count failures |
| redirects, cookies | `downloader/stream.rs`, `cookie.rs` | current URL, cookie source | load a cookies file, hop loop, cookie header per hop |
| rate limiter | `downloader/rate.rs` | deadline of the bytes let through so far | pace a chunk |
| retry delays | `downloader/retry.rs` | count of retries | backoff, Retry-After, the sliced sleep |
| file names | `filename.rs`, `archive_metadata.rs` | none | local path of a name, URL of a name and back |
| file filter | `file_filter.rs` | none | match a name against includes and excludes |
| mtime | `downloader/mtime.rs` | the file's time on disk | set it after an install, and for a file that is kept |
| metadata | `archive_metadata.rs` | the saved document | URL forms, fetch, parse, save |
| run | `main.rs` | spinner, exit code | options, metadata, plan, space check, save, batch or check |
| guards | `fs.rs` | none | refuse links, directories and special files |
| display, errors | `display.rs`, `verbose.rs`, `error.rs` | none | output, plain data |

How they meet: `run` fetches the metadata and hands a `Vec<DownloadTask>` from
`plan` to the batch. The batch calls a file job per task. A job calls a
transfer per attempt. All of them poll the flag the signal handler clears. The
only persistent state is the output directory, so what one run leaves there
(a final file, a `.part` of any content) is the input of the next.

What is hard, and for each component what makes it correct:

- **transfer**: cursor, file length and `base_size + downloaded_bytes` are kept
  in step by hand over resets and reopened handles; a server may answer a
  resume with anything. Correct when the count is the length on disk, no body
  is spliced, data is dropped only on the answer to a resume, a stop lets at
  most one more request out, and the call returns.
- **file job**: three attempts, a `.part` of unknown history, kills between any
  two steps. Correct when the final file is only ever removed if bad, only ever
  created verified, never replaced, and success means a verified file; when a
  complete `.part` is not thrown away and a rejected one is; when a run on a
  working server succeeds whatever came before it.
- **batch**: correct when every task ends in exactly one of the counts, and a
  file of one task is never touched by another.
- **plan**: correct when no two planned tasks use the same path on disk.
- **disk space check**: correct when a batch that passes it does not run out of
  space midway, as long as the server sends what the metadata says, and a batch of leftovers is refused only if it would.
- **check mode**: correct when it reports a file as good exactly when the
  downloader would keep it, on volumes of either case rule, and no date the
  program itself has set is a complaint.
- **redirects, cookies**: correct when the number of hops is bounded and every
  hop carries exactly the cookies that are in scope and valid at that time.
- **rate limiter, retry delays**: correct when the rate is kept from any moment
  on, no chunk or request is held longer than it should, and a stop waits for
  neither.
- **file names, filter**: correct when a name requested is the name found again,
  a local path fits every file system and is its own local path, and the
  filter's answer is what the patterns mean.
- **run**: correct when `--list` and `--check` change nothing, nothing is saved
  before it is known to fit, exit code 0 is true of the disk, and no failure is
  silent.

The hazards, each at its line with the properties that would catch it going
wrong, are in `PROJECT.json`.

## Modules

| Module | Models |
|---|---|
| `Transfer` | one call of `download_file_content`, with `RetryTracker` and the stop flag |
| `FileJob` | `process_file` and `run_download_attempts` around it, one file, many runs |
| `FilePromise` | the abstract specification `FileJob` implements |
| `Recovery` | `FileJob` against a flaky but honest server on a working disk |
| `JobOutline` | `process_file` in outline: a second abstraction `FileJob` implements, and the step `Batch` is built from |
| `Paths` | local paths, their `.part`, and when two of them meet |
| `Plan` | `build_plan` and `plan_download_tasks` |
| `Batch` | `download_files_with_signal` over the tasks of a plan, on one disk, over several runs |
| `Check` | `check_directory_with_signal`, with another run at work in the directory |
| `CaseProbe` | the same check's view of a volume's case rule, its keys, categories and extras |
| `Mtime` | `sync_file_mtime` over installs, later runs and checks |
| `Redirects` | `cookie_source`, `cookie_header_for`, `send_following_redirects` |
| `Pacing` | `RateLimiter::pace` and the two `select!`s of a body, against a clock |
| `Waits` | `backoff_delay`, `parse_retry_after`, the sleep of `RetryTracker::record` |
| `FileFilter` | `FileFilter::matches` and `glob_match` |
| `FileUrl` | `encode_download_path`, `parse_archive_url`, `percent_decode` |
| `Sanitize` | `sanitize_filename` |
| `DiskSpace` | `required_download_space`, `check_disk_space`, and the space a batch takes and gives back |
| `Run` | `main` and `run`, with the fetch and the saving of the metadata document, run after run |
| `MCTransfer`, `MCPlan`, `MCBatch`, `MCCheck`, `MCRun` | the instances TLC checks |
| `Transfer_proofs`, `MCTransfer_proofs` | theorems about a transfer, and about hops, pacing and waits |
| `FileJob_proofs` | theorems about `FileJob`, its two abstractions, and `Recovery` |
| `Paths_proofs`, `Plan_proofs` | lemmas about paths; theorems about the planner, the name filter, names in URLs and local paths |
| `Batch_proofs` | theorems about the batch loop |
| `Check_proofs` | theorems about `Check`, `CaseProbe` and `Mtime` |
| `Run_proofs` | theorems about `Run` and `DiskSpace` |

`FileJob` EXTENDS `Transfer`: an attempt's transfer is not one step of the job
but all of `Transfer`'s steps. `Recovery` EXTENDS `FileJob` and restricts what
the server and the disk do. `FileJob` instantiates `FilePromise` with
`outcome <- ...`, computed from where the job is.

### Transfer

A file's content is a sequence of BOOLEANs, TRUE where the byte is the
published one. A body arrives one unit per chunk; a unit is TRUE only where the
body is at the place it is written to (`off = pos`). So splices, holes and
duplicates show up as FALSE units instead of having to be described. Sizes,
names, times and headers are not otherwise represented; a wait is empty
(`Retry-After: 0`) or not.

| Action | Code in `stream.rs` / `retry.rs` |
|---|---|
| `SendRequest` | head of the loop: read the length, `Range` when it is not 0 |
| `ConnectionError` | the `Err` of `send_following_redirects` |
| `RangeRejected`, `RetryableStatus`, `FatalStatus` | `handle_failed_status`, and a 2xx that is neither 200 nor 206 |
| `FullBody` | 200, with `reset_local_file` when resuming |
| `PartialBody`, `BadPartialBody` | 206, trusted or not (`prefix_trusted`) |
| `ReceiveChunk`, `StopInStream` | the two arms of the `select!` |
| `BodyComplete`, `BodyTruncated` | `assess_streamed_body` and what follows it |
| `StreamError`, `DiskFull`, `LocalIoError` | the error paths |
| `BackoffOver` | end of the wait in `RetryTracker::record`, then `retry_open_file`'s seek |
| `Stop` | `handle_ctrl_c`, first press, at any point |

`Record` is `RetryTracker::record`: count, limit, stop flag, wait, in that
order. `late` is a history variable: the requests sent after the flag was set.

### FileJob and FilePromise

`job` is the program counter of `process_file`. `attempt` and `discard` are the
variables of `run_download_attempts`. `final` and `part` are on disk and
survive `Kill`, the second `CtrlC` and `RunAgain`; everything else is reset. A
symlink, directory or special file at either path is the value `Foreign`, which
blocks the job. `tainted` is a history variable: this run's server rejected
the `.part` that is on disk. Local operations (directories, removals, opens,
reads, the rename) may each fail where the code handles the failure.

`FilePromise` has three variables (the metadata, the final file, how the run
stands) and four actions: remove a bad file, create a verified one where there
is none, finish, run again. The download is invisible in it.

### Recovery

The server holds the published file and may ignore a `Range`. In each run it
fails at most `MaxRetries` times: a refused connection, a retryable status, a
bad 206, a body cut short. Runs are stopped and killed at any point except the
last allowed run. One case is excluded (`CutShort`): when the metadata
omits the size and the connection breaks after the last byte, the resume gets a
416 that the program cannot explain, which costs a whole attempt.

### JobOutline and Batch

`JobOutline` keeps the phases of `process_file` and what each may do to the two
files; how a download comes to fail or succeed is left open. In `Batch` a file's
content is the number of the task whose published file it is, or `Broken`;
`ProcessFile` allows a `.part` to hold what it held, nothing, rubbish, or the
task's own file.

| Action of `Batch` | Code |
|---|---|
| `ProcessFile` | one step of `process_file` on the current task |
| `FileSucceeded`, `FailurePasses` | the loop goes on; a failure is listed |
| `FailureStops` | `--stop-on-error`: the summary counts what was processed |
| `BatchInterrupted`, `BatchEnds` | the two other ways out of the loop |
| `Stop`, `Kill`, `RunAgain` | the user |

### Paths and Plan

A path is a sequence of components; of a component the model keeps its stem,
whether it has a capital, and how many `.part` are appended. A name in the
metadata may besides have segments that vanish (`Empty`, `Dot`) and a character
that sanitizing replaces (`odd`). `Select` is the URL's selection and the
filter, which may let any set of names pass; then one action per turn of the
loop, by what becomes of the entry.

### Check, CaseProbe and Mtime

A path holds nothing, a directory, a link or special file, or a regular file
that is short, rotten (right size, wrong data), locked or good. `WalkEntry` reads
one directory entry; `ClassifyAbsent`, `ClassifyVanished` and `ClassifyPresent` are
the branches for a planned file, `HashEnds` and `HashInterrupted` the `--md5` pass,
which looks at the file a second time; `ClassifyExtras` the rest and the
verdict. When the directory is `disturbed`, another run does between any two of
these what `FilePromise` allows it: remove a bad file, install a verified one,
change a `.part`.

`CaseProbe` has the same walk and classification over names instead of
contents: the walk meets the files in any order, the probe flips the first
letter of the first one that has one and looks it up, and what follows compares
keys. What a path really opens is the volume's business (`Answering`).

`Mtime` has one good file, the server's header, the metadata's time, and a
volume that rounds. A download sets the first, a later run the second, a check
compares; a write of a time may fail, and a user may touch the file.

### Redirects

`Load` reads the cookies once: which lines count, what is dropped, and whether
the warning is due. `Request`, `Redirect`, `LimitExceeded`, `Answer` and
`RequestFails` are the hop loop; the header is computed anew for every hop, with
the clock (`Tick`) running in between. A host is a sequence of labels, a path a
sequence of pieces, so "below" is a prefix. `Again` is the retry loop or the next
file, which look at the flag; the hop loop does not.

### Pacing and Waits

`Pacing` is `stream_response_body` with time instead of contents; the unit of
time is what a byte takes at the limit. A `select!` that is entered polls its
branches in any order, without time passing (`nextPoll = Unpolled`); afterwards
timers fire when due or up to `MaxLate` later. `mark` is any moment picked to
count bytes from.

`Waits` is `record` with the code's own constants in milliseconds: a failed
request chooses a jitter or a Retry-After, `SleepSlice` sleeps one slice and looks
at the flag.

### FileFilter, FileUrl and Sanitize

`FileFilter` runs `glob_match` one turn of its loop per step, with the one star
it remembers. `FileUrl` encodes a name, and decodes a path one byte or escape
per step, on bytes of four digits instead of sixteen and characters of one or
two bytes. `Sanitize` takes a name component by component, `rest` being what is
left with a slash behind each component; characters are represented by kind.

### DiskSpace and Run

`DiskSpace` counts blocks. The check compares the estimate with the free space;
then the document is saved and the batch goes through its tasks as `FileJob`
does (keep, remove, reset, write, find the disk full, install, fail), each action
taking or returning blocks, where a hard link returns none. A body is written to
its end, also where that is past the published size (`Overrun`, as in `Transfer`):
an item edited after its metadata was fetched may send more, fill a disk that
passed the check, and leave an oversized `.part` that takes space from later
files. `plan.rs` calls its estimate a lower bound, and no estimate from the
metadata could see this, so `NoSurprise` and `ExactForPartials` carry it as a
condition, `~overran`: no body of the batch went on past the published size.

In `Run` a stage is one step of `run`; `options.fault` names the step that the
environment makes fail. The item may be edited or withdrawn between any two
steps, a process killed at any, and the document torn in the middle of its
write. A file's content is the version of the item it belongs to, at a path of
its own: `SuccessMeansAll` and `CheckAgrees` are about plans whose `.part` paths meet
no other path (`PartsApart`), since otherwise a later task may overwrite an earlier
file, as `meeting_parts` shows. `FailureIsSaid` takes the spinner's last message as a
line on the screen, which it is on a terminal; elsewhere indicatif draws nothing.

### The instances

Parts of one component are checked side by side in one run. The MC module
EXTENDS one module and instantiates the others, with a variable `focus` that
says, from the initial state on, which of them moves; the variables of those
that do not are `Idle`, or, for the module that is extended, those of a call
that is over. So the behaviours are exactly those of the parts, and a property
`focus = "hops" => Hop!P` is `P` of `Redirects`. The actions and the fairness are
those of the parts. In `MCBatch`, `rough` likewise chooses between runs in which
anything may go wrong and runs that are left alone in the end.

## Runs

| Run | Module, cfg | Shows |
|---|---|---|
| `transfer` | `MCTransfer`, `Transfer.cfg` | `Transfer`: bookkeeping equals the disk, no splice, a complete result is long enough, at most one late request, data dropped only on the answer to a resume, the call returns. `Redirects`: each hop carries the cookies it should, and no others. `Pacing`: the rate is kept and nothing held too long. `Waits`: requests are repeated in time, waits end. All three: a stop takes effect soon |
| `filejob` | `FileJob`, `FileJob.cfg` | the job implements `FilePromise` and `JobOutline`; a rejected `.part` is discarded, a complete one survives; late requests are bounded; every run ends |
| `recovery` | `Recovery`, `Recovery.cfg` | after any history, the undisturbed run ends with a verified file and never fails; clean data stays clean |
| `plan` | `MCPlan`, `Plan.cfg` | `Plan`: no two planned paths clash, nor with the metadata document; a collision is always with something that is kept. `FileFilter`: an answer, and the right one. `FileUrl`, `Sanitize`: a name survives its URL, and fits every file system |
| `batch` | `MCBatch`, `Batch.cfg` | what is reported is on disk, the summary counts each processed file once, verified files are never touched, a stop and `--stop-on-error` end the loop, a complete directory is left alone, every run ends, and one that is left alone completes the directory |
| `check` | `MCCheck`, `Check.cfg` | `Check`: `--check --md5` says clean exactly when a download would keep everything, with `--strict` exactly when nothing else is there; a file reported ok stays ok, whatever a concurrent run does. `CaseProbe`: categories and extras are what the volume itself would say. `Mtime`: dates are not made up, settle, and are compared |
| `run` | `MCRun`, `Run.cfg` | `Run`: the disk is left alone by every mode and before it is known that the plan fits, the exit code is true, the document is never older than a file, a check agrees with a download. `DiskSpace`: a checked batch does not run out of space, unless a body is longer than published |
| `unranged206` | `Transfer`, `Unranged206.cfg` | finding: a 206 to a plain GET is streamed unchecked |
| `stop_ignored` | `FileJob`, `StopIgnored.cfg` | finding: a stopped run can report success |
| `meeting_parts` | `MCBatch`, `MeetingParts.cfg` | finding: a task's `.part` can be another task's file |
| `meeting_extras` | `MCCheck`, `MeetingExtras.cfg` | finding: a planned file can be reported as unexpected |
| `split_character` | `MCPlan`, `SplitCharacter.cfg` | finding: a '%' before a multi-byte character ends the program |

A property that is a conjunction of named parts has a mutant for each of them in
`PROJECT.json`.

Bounds. `MaxSize = 2` gives files that are empty, one chunk and two chunks long,
so a prefix can be empty, partial and complete; `Overrun = 1` lets a body or a
leftover run past the published size. `MaxRetries` (10 in the code) is 1 or 2: a
retry that is allowed and one that is not. `MaxAttempts` is the code's 3.
`MaxRuns = 2` is one run that leaves something behind and one that finds it;
the initial states already hold every content of both paths, so a longer
history reaches nothing new. The server's offsets, statuses and the point where
a body ends are chosen freely.

`Plan` runs over all lists of up to three of thirteen names: each way two
entries can meet needs two, and the third shows that a skipped entry does not
block a later one. The file system ignores case there, so every clash it can
miss is a clash; where case counts, `Key` is the identity. `Batch` has two tasks
at `a` and `b/a`, every content of all four places, each with and without an
MD5, and two runs. `Check` has one planned file in every state, its `.part`, the
metadata document, and a stray directory with a file `stray/a.part`;
`meeting_extras` has two planned files that are absent or good. `CHECK_DEADLOCK FALSE` because a returned
transfer, an answer and the last run really stop.

`Redirects`: up to two lines of ten kinds (one per way a line can differ from an
ordinary cookie), five targets (another path, host, subdomain, scheme), two
redirects of the code's ten and two calls, a clock of three seconds. Two lines
show both orders and that one does not cost the other; a chain one longer than
the limit is tried; the clock starts anywhere, so that a cookie may have expired
before the run. `Pacing`: chunks of up to 3, a poll every 2, timers up to 1
late, a clock of 9, which is several chunks and several polls. `Waits` has the
code's constants, the least, the greatest and a middle jitter, and all ten
retries. `FileFilter`: names of up to three and patterns of up to four
characters, alone; lists of patterns are short ones. Two stars with text behind
each, the least case that goes back twice, fit. `FileUrl`: paths of up to five of
eight bytes, names of up to two segments of up to two characters. `Sanitize`:
names of up to four characters of nine kinds. `CaseProbe`: up to three entries out of
ten names, one or two planned ones, on volumes that fold case and that do not.
`Mtime`: times from -1 to 3, the last one a SystemTime holds at 4, volumes of 1
and 2 s. `DiskSpace`: files of up to two blocks, up to five free, each situation
of a file beside a fresh, an unknown and a stale one, before and after, bodies up
to one block too long. `Run`: two
files, two versions, three runs: a download, an edit and a download, and a
check of what they leave.

### Fairness

`WF(TransferStep)` and `WF(ProgramStep)` say that a live process takes another
step. The code justifies it: the client has connect and read timeouts
(`main.rs`), so a request or a chunk ends with an answer or an error; the waits
are finite and cut into 500 ms slices; a body of unbounded length is bounded in
the model by `Overrun`. Nothing is assumed of the server, of `Stop` or of
`Kill`. In `Batch`, `WF(Progress)` is the same for the
loop; a download's own steps are left out of `Progress`, so that a download
goes on for a while and then ends is what `RunEnds` shows in `filejob`.
Its other course (`Smooth`) assumes that local operations work and that a
download that is tried often enough delivers the file (`SF`); `recovery` shows the
latter of an honest server. In `Recovery`, `WF(Working)` is the same assumption and `WF(TryAgain)`
is the user running the program again. In `Waits`, `WF(TimerStep)`: a timer fires.
In `FileFilter`, `WF(Next)`: the loop runs. The other modules need none; their
properties are safety.

### Findings

- `stream.rs` says only a *verified* partial (206) may be streamed; the check
  runs only when resuming. A 206 to a plain GET is streamed from whatever
  offset it has. With an MD5 the damage is caught later; without one, a file of
  the right length is accepted.
- `downloader/mod.rs` says an interrupted batch is not a successful one. The
  stop flag is read before each file and inside waits; a Ctrl+C that loses the
  race against the end of the last body of a file without MD5 is never seen, so
  the run reports success (over a file that did download completely).
- `plan.rs` says that one file never overwrites another. Collisions are
  looked for among final paths only; an item that lists `a` and `a.part` gets
  two tasks, and downloading `a` goes through the file of `a.part`.
- `check.rs` says extras are files no metadata entry accounts for. With the
  same item, `a.part` is reported as extra beside a present `a`, so `--strict`
  rejects a directory that is exactly the item.
- `archive_metadata.rs` says an escape without two hex digits passes through
  literally. `percent_decode` cuts the two characters out of the string by byte
  positions, so a '%' before a character of several bytes ends the program.

Other disagreements with the documentation met while modelling. They have no run
of their own; the properties that would show them say in a precondition that
they leave them out:

- '%+5' is decoded as the byte 5, because `from_str_radix` takes a sign
  (`archive_metadata.rs:313`).
- A '*' in a pattern that meets a '*' in the name is matched literally and is
  then no star: `*` does not match `*x` (`file_filter.rs:24`).
- A directory or link beside a file whose name differs by case only makes a
  case-sensitive volume count as insensitive (`check.rs:486`), and an empty
  ancestor directory spelled otherwise than planned is reported as extra on an
  insensitive one (`check.rs:406`).
- The disk-space estimate, documented as a lower bound, counts the download of a
  file whose existing copy may verify (`plan.rs:345`); and sizes that add up to
  2^64 wrap in a release build (`plan.rs:321`).
- The warning that no cookie applies is about the host of the first URL; a
  redirect to a subdomain may carry one all the same (`cookie.rs:98`).
- A positive rate below half a byte per second is rounded to no limit
  (`rate.rs:65`).

## Proofs

Every safety invariant and every action property of the runs is stated by a
theorem; so are the two refinements. The theorems hold for every value of the constants that satisfies
the named assumptions of the modules: numbers of sizes, retries, attempts and
runs, lists of tasks, volumes, plans, times and patterns of any number and
length. The bounds of the runs are definitions `MC...` that the cfg files give to
constants, and no proof uses one.

Assumptions. Bounds are naturals, positive where the code's constant is;
markers (`NoFile`, `Foreign`, `Star`, `Empty`, `Dot`, a document that is absent, torn
or a link) are no data and differ from each other. `Batch` and `Check` take any
list with what `CollisionsRight` proves of a plan (`Compatible`); in `Check` the
document lies in the output directory itself and is no `.part`, and the stray
file lies in the stray directory. `CaseProbe`: directories are finite. `Waits`:
what the code's constants are (a first delay that is a multiple of 5 ms for the
jitter's fifth). `DiskSpace`: a plan has a task (`run` returns before the check
otherwise). `Redirects`: ten kinds of lines, which `MCTransfer` lists, in files of any
length. `FileUrl`: a path or a name is a sequence of bytes of any length, a name's
segments are UTF-8 without slashes, and what a user writes is UTF-8 (a Rust
string); the encoding of bytes by four digits is the module's, not a constant.

Three hypotheses are the theorems' own:

- `PartsApart(list)`, that no `.part` path meets another path of the list, in
  `ReportTrue`, `GoodFilesKept`, `OkKept`, `StrictCleanMeansExact` and `ReportExact`. The
  planner does not promise it, and without it the statements are false: that is
  what `meeting_parts` and `meeting_extras` show. `PlainNamesSuffice` derives it for
  lists of plain names none of which ends in `.part`.
- `MaxAttempts >= 2` in `FlakyServerIsEnough`: the first attempt may be spent on
  what an earlier run left. The code has three.
- `NoWrap` in `EstimateRight`: no sum of sizes reaches 2^64. The sum is not checked
  in a release build (hazard `plan.rs:321`). That no body is longer than published
  is no hypothesis but part of the property: such bodies are among the behaviours
  the theorem is about (`Overrun` may be any number), and what it says of them ends
  where the first one passes its size.

| Module | Proved |
|---|---|
| `Transfer_proofs` | types, `AccountingMatchesDisk`, `NoSplice`, `AtMostOneLateRequest`, `CompleteIsLongEnough`, the action property `DataDroppedOnlyOnReset` |
| `FileJob_proofs` | types, `InstallOverNothing`, `LateRequestsBounded`, the action properties `RejectedPartIsDiscarded` and `CompletePartSurvives`; the refinements `KeepsPromise` and `KeepsOutline`; of `Recovery`, `CleanPartStaysClean` and `FlakyServerNeverFails` |
| `MCTransfer_proofs` | types, `CookiesAreRight`, `RateIsRight`, `RepeatedInTime`, `StopIsSoon` |
| `Paths_proofs` | when paths clash, and what follows from `PartsApart` |
| `Plan_proofs` | `CollisionsAreRight`; `NamesAreRight` (of `FileUrl`: `UrlNamesTheFile`, `ReferenceIsRelative`, `DecodesAsDocumented`; of `Sanitize`: `FitsEveryFileSystem`, `StaysAsItIs`, `ModifiedIsTrue`); that `FileFilter` answers what the patterns mean; types of all four parts |
| `Batch_proofs` | types, `SummaryIsTrue`, `ReportIsTrue`, the action properties `StopsAtOnce` and `GoodFilesStay` |
| `Check_proofs` | types, `OkIsKept`, `ReportIsExact` (with `CleanIsComplete`, `StrictCleanIsExact`, and the categories and extras of `CaseProbe`), `DatesAreRight` |
| `Run_proofs` | types, `DiskLeftAlone`, `ExitIsTrue`, `DocumentIsNotBehind`, `CheckAgrees`, `EstimateIsRight` |

**Transfer.** One inductive invariant: the cursor is at the end of the file
wherever a request can still be sent or a body is streamed, `asked` is the file's
length while a reply is awaited, the count agrees with the length, and a late
request is only possible where no check of the flag lies between. None of the
stated properties is inductive alone: that a 200 starts at offset 0 of an empty
file needs the reset before it, which needs `asked`. A transfer is complete only
where the body's end was compared with the size announced, which was kept since
the request (`CompleteMeansEnough`).

**File job.** The lemmas of the transfer are reused for every transfer step.
`JobInv` adds: a transfer's memory is blank unless the job is in "transfer"
(`StageInv`); where the final file is known to be absent or bad (`FilesInv`); the
attempt counter is positive once attempts run (`AttemptInv`); a tainted `.part`
implies `discard` except on the way to being replaced (`DiscardInv`); a `.part` to
be installed verifies (`PartInv`); one late request per attempt (`LateJobInv`). The
refinements map every job step to a step of the abstraction or a stutter;
`JobOutline` also needs that a transfer that ended well leaves a `.part` in place
(`ResultInv`).

**Recovery.** A server that holds the file sends at the offset it was asked for, so
a clean part only grows by published bytes (`HonestInv`). Each retry answers one of
the server's faults, so the retries never run out (`FaultsInv`). From the second
attempt on the `.part` is this run's own, hence clean, and a download that ends has
all of it (`FreshInv`); so the second attempt is the last and the job fails
nowhere (`EndInv`).

**Hops, pacing, waits.** The cookies a hop carries fit its URL and had not expired
when it was built, while the clock goes on (`HeaderInv`); a warning stays true
because cookies only expire (`SourceInv`). The schedule of the rate limiter is
never ahead of the clock while bytes are let through (`ScheduleInv`); counted from
any mark, only the first chunk may find it behind (`BurstInv`), which makes the
rate hold from any moment on. The timer that looks at the flag was set before
the stop (`PollInv`). A wait is the delay `record` chose, minus whole slices
(`WaitInv`).

**Plan.** The two sets the loop keeps hold the keys of the planned files and of the
directories they need (`SetsInv`), so `clashing_entry` is exact; that every skipped
entry clashes with a planned one stays true because plans only grow (`PlanInv`).

**Filter.** That going back to the last star is enough is the point of
`glob_match`, and of the proof. `Open(p, n, x, y)` says that the rest of the name
can match the rest of the pattern, by a set of places each of which leads to
another. `GlobAt` keeps: the name matches exactly if the rest can from where the
loop is, or from a later place of the last star. When a new star is met, every
match of the older one is one of the new one (`StarKeeps`), so forgetting loses
nothing. `Matches`, which is defined by the sets of ends of the pattern's
prefixes, is the same as `Open` from the start (`MatchIsOpen`).

**Names in URLs.** The encoded name is the name's bytes, each as itself or as an
escape (`Encoded`: places where the codes start, one for each byte). While
`percent_decode` runs on it, it is always at such a place and has read the bytes
before it (`Progress`, `NameInv`), so neither a '%' of the name nor one that an
escape begins with is mistaken for the other; no code is cut, so there is no panic
either. That nothing is trimmed off in the end needs that a segment is
never empty and never a slash (`Readable`). For any path at all, `ReadInv`:
what was decoded is the documented reading of the bytes behind, and no escape
straddles the place where the decoder is; the doc is wrong about "%+" and a
digit, and the invariant excludes exactly that (`NoSign`).

**Local paths.** Each operator of `Sanitize` is described by a lemma; a component
that fits every file system is left as it is by each of them (`FittingStays`), and
the loop only emits ones that fit (`LocalInv`). `was_modified` compares component
by component and never the whole; that this is the same is `ModifiedInv`: once what
was written differs from what was read it differs for good, since a
component has no slash (`LongerInjective`), and after a component was dropped
there are fewer slashes (`CountLonger`).

**Recursions.** What encodes, joins and filters in these modules is defined by
recursive functions over a sequence's positions. Induction being out of reach, the
proofs take the least position where something fails (`Least`): a recursion
has a solution (`Iterates`) and only one (`IteratesOnce`), so the function that the
definition chooses has the values its clauses say.

**Batch.** `LoopInv`: where the loop is says which tasks are settled, the list of
failures has one entry per failed task, after a stop only the current file is
worked on. `FilesInv`: what `process_file` knows of the current task's files, and
that whatever is reported as done is there; a step of another task does not
touch it if the paths are apart.

**Check.** Of a directory nobody changes: what the walk has seen is what is there
(`WalkInv`), what has been classified as ok is what a download keeps (`ClassInv`).
While another run works there, a file that is ok is one no step of `FilePromise`
changes. In `CaseProbe` the probe finds the volume's rule whichever file it flips
(`VerdictInv`), so equal keys are equal files (`KeysRight`). In `Mtime` a time on disk
is always one somebody gave (`DateInv`), and after a run that set it the
published one as the volume keeps it.

**Run.** `RunInv`: each stage belongs to one mode, and a stage that is behind a
step has not failed in it (`ControlInv`); from this follows what a run has not
written yet. The spinner turns until something is printed (`SpinnerInv`), so a
failure is always said. No file is newer than the version a run knows of once
it has the metadata (`VersionInv`); this makes the document that is saved before
the batch at least as new as all files. What the batch has behind it has that
version, and so has the document of a whole item (`BatchInv`), which is what exit
code 0 says. What a whole-item run leaves stays as it is until the next download
gets past its output directory (`GoodInv`), so a check of the same version agrees
with it.

**Disk space.** The books of a batch, file by file: the space that was free at the
start is at most what is free now, the document, the estimates of the tasks
behind, and what the current one has taken beyond its leftover and its stale
copy (`SpentInv`); for leftovers alone this is an equality (`ExactInv`). Both hold
while no body has gone on past its published size, since only then is what lies in
the current `.part` bounded by that size or by the leftover (`TasksInv`). With `NoWrap`
the running sums of the estimate add up (`SumsAdd`, `SumsGrow`).

Only model-checked: liveness (`EveryCallEnds`, `RunEnds`, `RunsComplete`,
`EventuallySucceeds` and that the filter answers, in `FilterIsRight`), which is out of the
prover's reach.

## Not modelled, and the plan

Theorems worth proving next: that a plan made of `Sanitize`'s paths is one `Plan`
makes, which would join the two views of a name (`odd` segments there, characters
here); variants for each loop under which the liveness properties become
action properties.

Not modelled: display, progress bars and verbose log (output only), the error
types (plain data; the results of `Transfer` stand for the variants the control
flow tells apart), which option texts are valid and how the client is built
(`Run` has the step and its failure), XML decoding (a library's), and power loss
(the code does not sync; a kill in the models keeps what the kernel holds).

Partly: the guards of `fs.rs` appear as what they refuse, not as what they protect
outside the output directory; of the metadata document only its version and
whether it is whole.
