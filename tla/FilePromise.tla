---------------------------- MODULE FilePromise ----------------------------
(***************************************************************************)
(* What ia-get promises about one file of an item, whatever the server,    *)
(* the disk, the user and crashes do (doc of download_files,               *)
(* src/src/downloader/mod.rs: "a failed download never corrupts the final  *)
(* file").                                                                 *)
(*                                                                         *)
(* The final file is only ever removed when it does not pass verification, *)
(* only ever created with content that passes it, never replaced, and a    *)
(* run reports success only over a file that passes it.                    *)
(***************************************************************************)
EXTENDS Naturals, Sequences

CONSTANTS NoFile, Foreign

VARIABLES
    task,     \* [size, known, md5] of the metadata
    final,    \* content of the file under its final name
    outcome   \* "running", or how the last run over this file ended

promiseVars == <<task, final, outcome>>

Outcomes == {"running", "succeeded", "failed", "interrupted", "killed"}

\* A known size and a known MD5 must match; with neither, anything passes.
Passes(content) ==
    /\ content \in Seq(BOOLEAN)
    /\ task.known => Len(content) = task.size
    /\ task.md5 => content = [i \in 1..task.size |-> TRUE]

PromiseInit == outcome = "running"

RemoveBad ==
    /\ outcome = "running"
    /\ final # Foreign /\ ~Passes(final)
    /\ final' = NoFile
    /\ UNCHANGED <<task, outcome>>

Create ==
    /\ outcome = "running"
    /\ final = NoFile
    /\ Passes(final')
    /\ UNCHANGED <<task, outcome>>

Finish ==
    /\ outcome = "running"
    /\ outcome' \in Outcomes \ {"running"}
    /\ outcome' = "succeeded" => Passes(final)
    /\ UNCHANGED <<task, final>>

RunAgain ==
    /\ outcome # "running"
    /\ outcome' = "running"
    /\ UNCHANGED <<task, final>>

PromiseNext == RemoveBad \/ Create \/ Finish \/ RunAgain

PromiseSpec == PromiseInit /\ [][PromiseNext]_promiseVars
=============================================================================
