----------------------------- MODULE JobOutline -----------------------------
(***************************************************************************)
(* process_file in outline (src/src/downloader/mod.rs): which steps it     *)
(* takes, and what each may do to the final file and the `.part`. How a    *)
(* download comes to succeed or fail is left open; FileJob, which models   *)
(* it, implements this specification, and Batch is built from it.          *)
(***************************************************************************)
EXTENDS Naturals

CONSTANTS
    NoFile, Foreign,       \* as in module Transfer
    Passes(_, _)           \* Passes(task, content): the metadata agree

VARIABLES
    task,      \* metadata of the file: at least [md5: BOOLEAN]
    running,   \* the stop flag
    final,     \* content under the final name
    part,      \* content of the .part
    phase      \* where process_file is

outlineVars == <<task, running, final, part, phase>>

OutlineEnded == {"succeeded", "failed", "interrupted", "down"}
Phases == {"start", "check", "stale", "clean", "blocked", "redundant",
           "download", "install", "installed"} \cup OutlineEnded

OutlineGoto(p) == phase' = p

\* Mutant: the stop flag is not looked at before the file.
EnterDeaf ==
    /\ phase = "start"
    /\ OutlineGoto("check")
    /\ UNCHANGED <<final, part>>

\* The stop flag is looked at before the file is.
Enter ==
    /\ phase = "start"
    /\ OutlineGoto(IF running THEN "check" ELSE "interrupted")
    /\ UNCHANGED <<final, part>>

\* Directories, or a final file that is unreadable or no file
Obstructed ==
    /\ phase = "check"
    /\ OutlineGoto("failed")
    /\ UNCHANGED <<final, part>>

Missing ==
    /\ phase = "check"
    /\ final = NoFile
    /\ OutlineGoto("download")
    /\ UNCHANGED <<final, part>>

\* Mutant: a final file without MD5 is never good.
JudgeNeedsMd5 ==
    /\ phase = "check"
    /\ final \notin {NoFile, Foreign}
    /\ \/ task.md5 /\ ~running /\ OutlineGoto("interrupted")
       \/ OutlineGoto(IF task.md5 /\ Passes(task, final) THEN "redundant" ELSE "stale")
    /\ UNCHANGED <<final, part>>

\* check_existing_file on a regular file; the hash sees the stop flag.
Judge ==
    /\ phase = "check"
    /\ final \notin {NoFile, Foreign}
    /\ \/ task.md5 /\ ~running /\ OutlineGoto("interrupted")
       \/ OutlineGoto(IF Passes(task, final) THEN "redundant" ELSE "stale")
    /\ UNCHANGED <<final, part>>

RemoveStale ==
    /\ phase = "stale"
    /\ \/ final' = NoFile /\ OutlineGoto("clean")
       \/ final' = final /\ OutlineGoto("blocked")
    /\ UNCHANGED part

\* The leftover .part is removed, best effort.
Tidy ==
    /\ \/ phase = "clean" /\ OutlineGoto("download")
       \/ phase = "blocked" /\ OutlineGoto("failed")
       \/ phase = "redundant" /\ OutlineGoto("succeeded")
    /\ part' \in {NoFile, part}
    /\ UNCHANGED final

\* Any step of run_download_attempts that goes on: it writes the .part.
Fetch ==
    /\ phase = "download"
    /\ part' # Foreign \/ part' = part
    /\ UNCHANGED <<final, phase>>

FetchFails ==
    /\ phase = "download"
    /\ OutlineGoto("failed")
    /\ part' \in {NoFile, part}
    /\ UNCHANGED final

FetchInterrupted ==
    /\ phase = "download"
    /\ ~running
    /\ OutlineGoto("interrupted")
    /\ UNCHANGED <<final, part>>

\* Mutant: the .part is renamed without being verified.
FetchTrusted ==
    /\ phase = "download"
    /\ part \notin {NoFile, Foreign}
    /\ OutlineGoto("install")
    /\ UNCHANGED <<final, part>>

FetchVerified ==
    /\ phase = "download"
    /\ part \notin {NoFile, Foreign}
    /\ Passes(task, part)
    /\ task.md5 => running
    /\ OutlineGoto("install")
    /\ UNCHANGED <<final, part>>

\* The rename
PutInPlace ==
    /\ phase = "install"
    /\ \/ final' = part /\ part' = NoFile /\ OutlineGoto("installed")
       \/ UNCHANGED <<final, part>> /\ OutlineGoto("failed")

Report ==
    /\ phase = "installed"
    /\ OutlineGoto("succeeded")
    /\ UNCHANGED <<final, part>>

\* One step of process_file
OutlineStep ==
    /\ \/ Enter \/ Obstructed \/ Missing \/ Judge \/ RemoveStale \/ Tidy
       \/ Fetch \/ FetchFails \/ FetchInterrupted \/ FetchVerified
       \/ PutInPlace \/ Report
    /\ UNCHANGED <<task, running>>

\* What is done to it: a stop, a kill, another run
OutlineStop  == phase \notin OutlineEnded /\ running /\ running' = FALSE
                /\ UNCHANGED <<task, final, part, phase>>
OutlineKill  == phase \notin OutlineEnded /\ OutlineGoto("down")
                /\ UNCHANGED <<task, running, final, part>>
OutlineAgain == phase \in OutlineEnded /\ OutlineGoto("start") /\ running' = TRUE
                /\ UNCHANGED <<task, final, part>>

OutlineInit == phase = "start" /\ running = TRUE
OutlineNext == OutlineStep \/ OutlineStop \/ OutlineKill \/ OutlineAgain
OutlineSpec == OutlineInit /\ [][OutlineNext]_outlineVars
=============================================================================
