-------------------------------- MODULE Run --------------------------------
(***************************************************************************)
(* The program as a whole: main and run (src/src/main.rs), with the fetch  *)
(* and the saving of the metadata document (src/src/archive_metadata.rs),  *)
(* run after run in one output directory, while the item is edited and     *)
(* processes are killed.                                                   *)
(*                                                                         *)
(* The pipeline is here; what its stages do inside is the other modules'   *)
(* matter, and only what they promise is kept: a file of the batch ends up *)
(* as the metadata describes it, or as it was. A file's content is the     *)
(* version of the item it belongs to, 0 for none; two versions of a file   *)
(* differ in size and MD5.                                                 *)
(***************************************************************************)
EXTENDS Naturals, FiniteSets

CONSTANTS
    Files,        \* the item's files
    Single,       \* the one a single-file URL names
    MaxVersion,   \* bound: versions of the item
    MaxRuns,      \* bound: runs of the program
    Absent, Link, Torn   \* the metadata document: none, a symlink at its place,
                         \* or cut short

ASSUME SingleAssumption == Single \in Files
ASSUME BoundsAssumption == MaxVersion \in Nat \ {0} /\ MaxRuns \in Nat \ {0}
ASSUME DocumentAssumption ==
    {Absent, Link, Torn} \cap Nat = {} /\ Absent \notin {Link, Torn} /\ Link # Torn

VARIABLES
    server,     \* the item: its version, or 0 when archive.org has none
    latest,     \* the newest version there was
    dir,        \* whether the output directory exists
    xml,        \* the metadata document in it
    data,       \* the content of each file in it
    options,    \* of this run: [mode, whole, fault]
    stage,      \* the step that is next, or "idle"
    fetched,    \* the version the run knows of
    spinner,    \* whether the spinner is still to be finished
    running,    \* the stop flag, once a handler is installed
    failed,     \* failed_files
    todo,       \* the files the batch has still to reach
    printed,    \* a line says why the run fails, or what it found
    exit,       \* how the last run ended: "none", "ok", "error" or "killed"
    runs,       \* runs begun
    before,     \* history: directory, document and files when the run began
    good,       \* history: the version a whole-item run has downloaded, until
                \* another download begins
    mixed       \* history: a single-file run has downloaded

diskVars == <<dir, xml, data>>
runVars  == <<options, fetched, spinner, failed, todo, printed, exit>>
histVars == <<runs, before, good, mixed>>
vars == <<server, latest, diskVars, stage, running, runVars, histVars>>

Versions == 1..MaxVersion
Modes == {"list", "check", "download"}
Planned == IF options.whole THEN Files ELSE {Single}

\* Where user input, the environment or the volume may make a run fail; "none"
\* for a run in which they do not. Missing items fail at "head" and "get".
Faults == {"none", "settings", "output", "plan", "space", "save"}

OnDisk == [dir |-> dir, xml |-> xml, data |-> data]

-----------------------------------------------------------------------------
(* How a step of run ends *)

\* init_step and report_spinner_error: the error is on screen if the spinner was
\* still turning.
Fails ==
    /\ stage' = "idle" /\ exit' = "error"
    /\ printed' = (printed \/ spinner)
    /\ spinner' = FALSE
    /\ UNCHANGED <<options, fetched, failed, todo>>

Goes(next) ==
    /\ stage' = next
    /\ UNCHANGED runVars

Quiet == UNCHANGED <<server, latest, diskVars, running, histVars>>

\* --list wins over --check.
Begin ==
    /\ stage = "idle" /\ runs < MaxRuns
    /\ options' \in [mode : Modes, whole : BOOLEAN, fault : Faults]
    /\ stage' = "settings" /\ exit' = "none"
    /\ spinner' = TRUE /\ running' = TRUE
    /\ printed' = FALSE
    /\ fetched' = 0 /\ failed' = {} /\ todo' = {}
    /\ runs' = runs + 1
    /\ before' = OnDisk
    /\ UNCHANGED <<server, latest, diskVars, good, mixed>>

\* resolve_proxy, parse_rate_limit, build_client, parse_archive_url, get_xml_url,
\* cookie_source: all before the first request
Settings ==
    /\ stage = "settings"
    /\ IF options.fault = "settings" THEN Fails ELSE Goes("head")
    /\ Quiet

\* is_url_accessible: a 404 or 410 is final; a proxy that rejects HEAD, a server
\* error, a lost connection are not.
HeadRequest ==
    /\ stage = "head"
    /\ IF server = 0 THEN Fails \/ Goes("get") ELSE Goes("get")
    /\ Quiet

\* The GET fails when there is no item, and may fail when there is one.
GetFails == stage = "get" /\ Fails /\ Quiet

\* Where run goes once it has the metadata
Branch == [list |-> "list", check |-> "probe", download |-> "output"]

Get ==
    /\ stage = "get" /\ server # 0
    /\ fetched' = server
    /\ stage' = Branch[options.mode]
    /\ UNCHANGED <<options, spinner, failed, todo, printed, exit>>
    /\ Quiet

Ends(result) ==
    /\ stage' = "idle" /\ exit' = result
    /\ spinner' = FALSE /\ printed' = TRUE
    /\ UNCHANGED <<options, fetched, failed, todo>>

List == stage = "list" /\ Ends("ok") /\ Quiet

-----------------------------------------------------------------------------
(* --check: run_check *)

\* Mutant: the directory is prepared as a download would.
ProbeCreates ==
    /\ stage = "probe"
    /\ \/ options.fault = "output" /\ Fails /\ UNCHANGED dir
       \/ options.fault # "output" /\ Goes("plan") /\ dir' = TRUE
    /\ UNCHANGED <<server, latest, xml, data, running, histVars>>

\* The directory is not created: one that is missing is an error.
Probe ==
    /\ stage = "probe"
    /\ IF options.fault = "output" \/ ~dir THEN Fails ELSE Goes("plan")
    /\ Quiet

Conforms ==
    /\ \A f \in Planned : data[f] = fetched
    /\ options.whole => xml \notin {Absent, Link}

\* The report is printed whatever it says.
Verify ==
    /\ stage = "verify"
    /\ Ends(IF Conforms THEN "ok" ELSE "error")
    /\ Quiet

\* Ctrl+C during the hashes, after the spinner: the caller says so.
VerifyStopped == stage = "verify" /\ ~running /\ Ends("error") /\ Quiet

-----------------------------------------------------------------------------
(* A download *)

BeginsDownload ==
    /\ good' = 0
    /\ UNCHANGED <<runs, before, mixed>>

\* normalize_output_dir, then ensure_output_dir
Output ==
    /\ stage = "output"
    /\ \/ options.fault = "output" /\ Fails /\ UNCHANGED dir
       \/ options.fault # "output" /\ Goes("plan") /\ dir' = TRUE
    /\ BeginsDownload
    /\ UNCHANGED <<server, latest, xml, data, running>>

\* Mutant: the metadata is saved as soon as the plan is known.
PlanThenSave ==
    /\ stage = "plan"
    /\ \/ options.fault = "plan" /\ Fails
       \/ /\ options.fault # "plan" /\ options.mode = "check"
          /\ stage' = "verify" /\ spinner' = FALSE
          /\ UNCHANGED <<options, fetched, failed, todo, printed, exit>>
       \/ options.fault # "plan" /\ options.mode = "download" /\ Goes("save")
    /\ Quiet

\* build_plan, shared by the two modes; --check then finishes the spinner and
\* installs the handler.
Plan ==
    /\ stage = "plan"
    /\ \/ options.fault = "plan" /\ Fails
       \/ /\ options.fault # "plan" /\ options.mode = "check"
          /\ stage' = "verify" /\ spinner' = FALSE
          /\ UNCHANGED <<options, fetched, failed, todo, printed, exit>>
       \/ options.fault # "plan" /\ options.mode = "download" /\ Goes("space")
    /\ Quiet

\* Mutant: "Ready" is announced as soon as the plan is known to fit.
SpaceThenReady ==
    /\ stage = "space"
    /\ \/ options.fault = "space" /\ Fails
       \/ /\ options.fault # "space"
          /\ stage' = (IF options.whole THEN "save" ELSE "ready") /\ spinner' = FALSE
          /\ UNCHANGED <<options, fetched, failed, todo, printed, exit>>
    /\ Quiet

\* Mutant: the document is not saved.
SpaceThenBatch ==
    /\ stage = "space"
    /\ \/ options.fault = "space" /\ Fails
       \/ options.fault # "space" /\ Goes("ready")
    /\ Quiet

\* check_disk_space; the document is saved for whole-item runs only.
Space ==
    /\ stage = "space"
    /\ \/ options.fault = "space" /\ Fails
       \/ options.fault # "space" /\ Goes(IF options.whole THEN "save" ELSE "ready")
    /\ Quiet

\* save_xml_metadata: a symlink is refused; fs::write truncates the document, then
\* writes it, and may fail in between.
SaveTruncates ==
    /\ stage = "save" /\ xml # Link
    /\ xml' = Torn
    /\ Goes("write")
    /\ UNCHANGED <<server, latest, dir, data, running, histVars>>

SaveFails ==
    /\ \/ stage = "save" /\ (xml = Link \/ options.fault = "save")
       \/ stage = "write" /\ options.fault = "save"
    /\ Fails
    /\ Quiet

\* Mutant: a document that is there is kept.
SaveKeepsOld ==
    /\ stage = "write" /\ options.fault # "save"
    /\ xml' = IF before.xml = Absent THEN fetched ELSE before.xml
    /\ Goes("ready")
    /\ UNCHANGED <<server, latest, dir, data, running, histVars>>

SaveWrites ==
    /\ stage = "write" /\ options.fault # "save"
    /\ xml' = fetched
    /\ Goes("ready")
    /\ UNCHANGED <<server, latest, dir, data, running, histVars>>

\* Mutant: the batch is the whole item's, whatever the URL names.
ReadyForAll ==
    /\ stage = "ready"
    /\ stage' = "batch" /\ spinner' = FALSE
    /\ todo' = Files
    /\ UNCHANGED <<options, fetched, failed, printed, exit>>
    /\ mixed' = (mixed \/ ~options.whole)
    /\ UNCHANGED <<server, latest, diskVars, running, runs, before, good>>

\* The spinner is finished, the handler installed and the batch begun.
Ready ==
    /\ stage = "ready"
    /\ stage' = "batch" /\ spinner' = FALSE
    /\ todo' = Planned
    /\ UNCHANGED <<options, fetched, failed, printed, exit>>
    /\ mixed' = (mixed \/ ~options.whole)
    /\ UNCHANGED <<server, latest, diskVars, running, runs, before, good>>

\* process_file: a copy that is not as described is removed first.
RemoveStale(f) ==
    /\ stage = "batch" /\ f \in todo
    /\ data[f] \notin {0, fetched}
    /\ data' = [data EXCEPT ![f] = 0]
    /\ UNCHANGED <<server, latest, dir, xml, stage, running, runVars, histVars>>

\* process_file: a good copy is kept; otherwise what the server has now is
\* downloaded, and installed if it is what the metadata describes.
BatchFile(f) ==
    /\ stage = "batch" /\ f \in todo
    /\ todo' = todo \ {f}
    /\ \/ data[f] = fetched /\ UNCHANGED <<data, failed>>
       \/ /\ data[f] # fetched /\ server = fetched
          /\ data' = [data EXCEPT ![f] = fetched] /\ UNCHANGED failed
       \/ data[f] # fetched /\ failed' = failed \cup {f} /\ UNCHANGED data
    /\ UNCHANGED <<server, latest, dir, xml, stage, running, options, fetched, spinner,
                   printed, exit, histVars>>

\* Mutant: the failures are printed, and nothing else.
BatchIgnoresFailed ==
    /\ stage = "batch" /\ todo = {}
    /\ Ends("ok")
    /\ good' = IF options.whole THEN fetched ELSE 0
    /\ UNCHANGED <<server, latest, diskVars, running, runs, before, mixed>>

\* The summary is printed; the result is an error if a file has failed.
BatchEnds ==
    /\ stage = "batch" /\ todo = {}
    /\ Ends(IF failed = {} THEN "ok" ELSE "error")
    /\ good' = IF failed = {} /\ options.whole THEN fetched ELSE 0
    /\ UNCHANGED <<server, latest, diskVars, running, runs, before, mixed>>

\* --stop-on-error, or Ctrl+C: the rest is not reached, and a line says so.
BatchStops ==
    /\ stage = "batch"
    /\ failed # {} \/ ~running
    /\ Ends("error")
    /\ Quiet

-----------------------------------------------------------------------------
(* Around the program *)

HandlerInstalled == stage \in {"verify", "batch"}

\* Ctrl+C, once there is a handler for it
Press ==
    /\ HandlerInstalled /\ running
    /\ running' = FALSE
    /\ UNCHANGED <<server, latest, diskVars, stage, runVars, histVars>>

\* Ctrl+C before there is a handler, a second press, a kill
Kill ==
    /\ stage # "idle"
    /\ stage' = "idle" /\ exit' = "killed"
    /\ UNCHANGED <<server, latest, diskVars, running, options, fetched, spinner, failed,
                   todo, printed, histVars>>

\* The item is edited, taken away, or put back.
Edit ==
    /\ latest < MaxVersion
    /\ latest' = latest + 1 /\ server' = latest + 1
    /\ UNCHANGED <<diskVars, stage, running, runVars, histVars>>

Withdraw ==
    /\ server # 0
    /\ server' = 0
    /\ UNCHANGED <<latest, diskVars, stage, running, runVars, histVars>>

Init ==
    /\ server = 1 /\ latest = 1
    /\ dir \in BOOLEAN
    /\ xml \in IF dir THEN {Absent, Link} ELSE {Absent}
    /\ data = [f \in Files |-> 0]
    /\ options = [mode |-> "list", whole |-> TRUE, fault |-> "none"]
    /\ stage = "idle" /\ exit = "none"
    /\ fetched = 0 /\ spinner = FALSE /\ running = TRUE
    /\ failed = {} /\ todo = {} /\ printed = FALSE
    /\ runs = 0 /\ before = OnDisk /\ good = 0 /\ mixed = FALSE

Next ==
    \/ Begin \/ Settings \/ HeadRequest \/ GetFails \/ Get \/ List
    \/ Probe \/ Verify \/ VerifyStopped
    \/ Output \/ Plan \/ Space \/ SaveTruncates \/ SaveFails \/ SaveWrites \/ Ready
    \/ \E f \in Files : RemoveStale(f) \/ BatchFile(f)
    \/ BatchEnds \/ BatchStops
    \/ Press \/ Kill \/ Edit \/ Withdraw

Spec == Init /\ [][Next]_vars

-----------------------------------------------------------------------------
(* Correctness *)

\* Type correctness; a run works on what its URL names, and the directory is
\* there before anything is written into it.
TypeOK ==
    /\ server \in 0..latest /\ latest \in Versions
    /\ dir \in BOOLEAN /\ xml \in {Absent, Link, Torn} \cup Versions
    /\ data \in [Files -> {0} \cup Versions]
    /\ stage \in {"idle", "settings", "head", "get", "list", "probe", "verify", "output",
                  "plan", "space", "save", "write", "ready", "batch"}
    /\ exit \in {"none", "ok", "error", "killed"} /\ runs \in 0..MaxRuns
    /\ {spinner, running, printed, mixed} \subseteq BOOLEAN
    /\ fetched \in 0..latest /\ good \in 0..latest
    /\ todo \cup failed \subseteq Planned
    /\ xml \in {Torn} \cup Versions \/ (\E f \in Files : data[f] # 0) => dir

\* A --list or a --check changes nothing on disk, at whatever step it ends, and
\* although --check shares the plan with a download (main.rs, comments on
\* run_check and in run).
ReadOnly == options.mode # "download" => OnDisk = before

\* When the plan cannot be built or does not fit, nothing has been saved or
\* downloaded: of what the run did, only the output directory remains.
NothingBeforeItFits ==
    options.fault \in {"settings", "output", "plan", "space"} =>
        xml = before.xml /\ data = before.data

\* Exit code 0 of a download: every planned file is there as the metadata of
\* this run describes it, and so is the document of a whole item, whatever was
\* in the directory and however the item was edited meanwhile. Here a file's
\* paths are its own: true of plans whose .part paths meet no other path
\* (PartsApart in Paths; a later task may otherwise overwrite an earlier file).
SuccessMeansAll ==
    stage = "idle" /\ exit = "ok" /\ options.mode = "download" =>
        /\ \A f \in Planned : data[f] = fetched
        /\ options.whole => xml = fetched

\* The document in the directory is never older than a file in it, over all
\* crashes and failures, if every download was of the whole item.
DocumentIsNotBehind ==
    ~mixed => \A f \in Files :
        data[f] # 0 => xml = Torn \/ (xml \in Versions /\ xml >= data[f])

\* After a whole-item download that succeeded, and until the next download, a
\* --check against the same version of the item finds nothing wrong; again of
\* plans with PartsApart.
CheckAgrees ==
    stage = "idle" /\ options.mode = "check" /\ good # 0 /\ fetched = good
        /\ exit = "error"
        => options.fault \in {"output", "plan"} \/ ~running

\* Exit code 1 never comes without a line on the screen (main.rs, comment on
\* main). The spinner's last message counts as one: the screen is a terminal,
\* elsewhere indicatif draws nothing.
FailureIsSaid == exit = "error" => printed

\* A run writes nothing its mode does not call for, nor before it is known to
\* fit (main.rs, comments on run_check and check_disk_space).
DiskLeftAlone == ReadOnly /\ NothingBeforeItFits

\* The exit code is true of the disk, and of the screen.
ExitIsTrue == SuccessMeansAll /\ FailureIsSaid
=============================================================================
