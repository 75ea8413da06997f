----------------------------- MODULE DiskSpace -----------------------------
(***************************************************************************)
(* The disk-space check before a batch (required_download_space in         *)
(* src/src/plan.rs, check_disk_space in src/src/main.rs), and what the     *)
(* batch then takes from the volume and gives back to it: removals of      *)
(* stale files and leftovers, resets and bytes written, as in FileJob. A   *)
(* body is streamed to its end, past the published size too: its item may  *)
(* have changed since the metadata was fetched.                            *)
(*                                                                         *)
(* Space is counted in blocks of the size of a chunk. Nobody else writes   *)
(* to the volume. The blocks of a file are those a Unix system reports.    *)
(***************************************************************************)
EXTENDS Naturals, Sequences

CONSTANTS
    Lists,     \* lists of tasks with what lies at their paths
    NoFile,    \* nothing at a path
    MaxFree,   \* bound: free space of the volume at the start
    XmlSize,   \* what saving the metadata document takes
    Overrun,   \* bound: how far past the published size a body may go
    Limit      \* sums wrap at this number (2^64 in a release build)

OnDisk == [len: Nat, blocks: Nat, linked: BOOLEAN, good: BOOLEAN]
Tasks  == [size: Nat, known: BOOLEAN, md5: BOOLEAN,
           final: {NoFile} \cup OnDisk, part: {NoFile} \cup Nat]

\* What is assumed of the constants (an empty plan is refused before)
InputsAssumption ==
    /\ Lists \subseteq Seq(Tasks) \ {<<>>}
    /\ \A l \in Lists : \A i \in DOMAIN l :
         l[i].final # NoFile => /\ l[i].final.blocks <= l[i].final.len
                                /\ l[i].final.good => l[i].final.len = l[i].size
    /\ MaxFree \in Nat /\ XmlSize \in Nat /\ Overrun \in Nat /\ Limit \in Nat \ {0}
    /\ NoFile \notin Nat /\ NoFile \notin OnDisk

VARIABLES
    tasks,       \* the plan, with the files as they lie on disk now
    free,        \* free space
    stage,       \* "check", "save", "existing", "fetch", "done" or "refused"
    cur,         \* the current task
    initial,     \* history: the plan and the free space at the check
    checked,     \* history: the check compared them
    failed,      \* history: some task was not completed
    full,        \* history: a write found no space
    overran,     \* history: a body went on past the published size
    lowest       \* history: the least free space since the check

histVars == <<initial, checked, failed, full, overran, lowest>>
vars == <<tasks, free, stage, cur, histVars>>

-----------------------------------------------------------------------------
(* The estimate *)

\* saturating_sub
Shortfall(need, have) == IF have >= need THEN 0 ELSE need - have

\* Mutant: a hard link counts as space that a removal gives back.
FreedIgnoringLinks(file) == file.blocks

FreedByRemoval(file) == IF file.linked THEN 0 ELSE file.blocks

\* Mutant: a leftover .part saves nothing.
RemainingWithoutPart(t) ==
    IF ~t.known THEN 0
    ELSE IF t.final # NoFile /\ t.final.len = t.size
    THEN IF t.md5 THEN Shortfall(t.size, FreedByRemoval(t.final)) ELSE 0
    ELSE t.size

\* remaining_bytes_for: a final file of the expected size, a .part, nothing
RemainingBytesFor(t) ==
    IF ~t.known THEN 0
    ELSE IF t.final # NoFile /\ t.final.len = t.size
    THEN IF t.md5 THEN Shortfall(t.size, FreedByRemoval(t.final)) ELSE 0
    ELSE IF t.part # NoFile THEN Shortfall(t.size, t.part)
    ELSE t.size

\* required_download_space: the sum after each file; only a build without
\* overflow checks wraps.
Sums(list) ==
    LET sum[n \in 0..Len(list)] ==
          IF n = 0 THEN 0 ELSE (sum[n - 1] + RemainingBytesFor(list[n])) % Limit
    IN  sum

Required(list) == Sums(list)[Len(list)]

\* check_disk_space
CheckDiskSpace ==
    /\ stage = "check"
    /\ stage' = IF free < Required(tasks) THEN "refused" ELSE "save"
    /\ checked' = TRUE
    /\ UNCHANGED <<tasks, free, cur, initial, failed, full, overran, lowest>>

\* The free space cannot be read: never fatal.
CheckSkipped ==
    /\ stage = "check"
    /\ Required(tasks) > 0
    /\ stage' = "save"
    /\ UNCHANGED <<tasks, free, cur, histVars>>

-----------------------------------------------------------------------------
(* What the run writes and removes *)

Uses(space) == /\ free' = free - space
               /\ lowest' = IF free' < lowest THEN free' ELSE lowest

Task == tasks[cur]
Size(part) == IF part = NoFile THEN 0 ELSE part
Becomes(final, part) ==
    tasks' = [tasks EXCEPT ![cur].final = final, ![cur].part = part]

NextTask ==
    /\ cur' = cur + 1
    /\ stage' = IF cur = Len(tasks) THEN "done" ELSE "existing"

SaveXml ==
    /\ stage = "save"
    /\ XmlSize <= free
    /\ Uses(XmlSize)
    /\ stage' = "existing"
    /\ UNCHANGED <<tasks, cur, initial, checked, failed, full, overran>>

SaveFails ==
    /\ stage = "save"
    /\ stage' = "done"
    /\ failed' = TRUE
    /\ UNCHANGED <<tasks, free, cur, initial, checked, full, overran, lowest>>

\* The file system: blocks are given back with the last link.
GivenBack(file) == IF file.linked THEN 0 ELSE file.blocks

Keeps(t) ==
    /\ t.final # NoFile
    /\ t.known => t.final.len = t.size
    /\ t.md5 => t.final.good

\* handle_existing_file: a verified copy; the leftover .part goes.
KeepExisting ==
    /\ stage = "existing" /\ Keeps(Task)
    /\ Becomes(Task.final, NoFile)
    /\ free' = free + Size(Task.part)
    /\ NextTask
    /\ UNCHANGED histVars

\* A stale copy goes, with the leftover .part.
RemoveStale ==
    /\ stage = "existing" /\ Task.final # NoFile /\ ~Keeps(Task)
    /\ Becomes(NoFile, NoFile)
    /\ free' = free + GivenBack(Task.final) + Size(Task.part)
    /\ stage' = "fetch"
    /\ UNCHANGED <<cur, histVars>>

NothingThere ==
    /\ stage = "existing" /\ Task.final = NoFile
    /\ stage' = "fetch"
    /\ UNCHANGED <<tasks, free, cur, histVars>>

\* The body goes on: stream_response_body writes whatever comes.
BodyGoesOn ==
    /\ stage = "fetch" /\ Size(Task.part) < Task.size + Overrun
    /\ overran' = (overran \/ Size(Task.part) >= Task.size)

WriteBlock ==
    /\ BodyGoesOn
    /\ free > 0
    /\ Becomes(NoFile, Size(Task.part) + 1)
    /\ Uses(1)
    /\ UNCHANGED <<stage, cur, initial, checked, failed, full>>

\* A write finds no space: the file is given up, its .part stays.
DiskFull ==
    /\ BodyGoesOn
    /\ free = 0
    /\ full' = TRUE /\ failed' = TRUE
    /\ NextTask
    /\ UNCHANGED <<tasks, free, initial, checked, lowest>>

\* The server restarts the file, or what it sent fails verification.
ResetPart ==
    /\ stage = "fetch" /\ Size(Task.part) > 0
    /\ Becomes(NoFile, 0)
    /\ free' = free + Task.part
    /\ UNCHANGED <<stage, cur, histVars>>

\* verify_downloaded_file: only a known size or an MD5 rejects another length.
Verifies(t) == t.known \/ t.md5 => Size(t.part) = t.size

Install ==
    /\ stage = "fetch" /\ Verifies(Task)
    /\ LET size == Size(Task.part)
       IN  Becomes([len |-> size, blocks |-> size, linked |-> FALSE, good |-> TRUE], NoFile)
    /\ NextTask
    /\ UNCHANGED <<free, histVars>>

\* The file is given up for another reason, with or without its .part.
FileFails ==
    /\ stage = "fetch"
    /\ \/ UNCHANGED <<tasks, free>>
       \/ Becomes(NoFile, NoFile) /\ free' = free + Size(Task.part)
    /\ failed' = TRUE
    /\ NextTask
    /\ UNCHANGED <<initial, checked, full, overran, lowest>>

Init ==
    /\ tasks \in Lists
    /\ free \in 0..MaxFree
    /\ stage = "check"
    /\ cur = 1
    /\ initial = [tasks |-> tasks, free |-> free]
    /\ checked = FALSE /\ failed = FALSE /\ full = FALSE /\ overran = FALSE
    /\ lowest = free

Next ==
    \/ CheckDiskSpace \/ CheckSkipped
    \/ SaveXml \/ SaveFails
    \/ KeepExisting \/ RemoveStale \/ NothingThere
    \/ WriteBlock \/ DiskFull \/ ResetPart \/ Install \/ FileFails

Spec == Init /\ [][Next]_vars

-----------------------------------------------------------------------------
(* Properties *)

\* Type correctness; the volume never holds more than it can.
TypeOK ==
    /\ tasks \in Seq(Tasks)
    /\ free \in Nat
    /\ stage \in {"check", "save", "existing", "fetch", "done", "refused"}
    /\ cur \in 1..(Len(tasks) + 1)
    /\ initial.tasks \in Seq(Tasks) /\ initial.free \in 0..MaxFree
    /\ checked \in BOOLEAN /\ failed \in BOOLEAN
    /\ full \in BOOLEAN /\ overran \in BOOLEAN
    /\ lowest \in 0..initial.free

\* Every file's size is known.
AllKnown == \A i \in DOMAIN initial.tasks : initial.tasks[i].known

\* README: a volume that clearly cannot hold the files stops the run rather
\* than failing mid-transfer. With all sizes known, and as long as no body is
\* longer than was published (plan.rs calls its sum a lower bound, and nothing
\* in stream.rs stops such a body), a batch that passed the check finds the
\* disk full only for want of what the metadata document took.
NoSurprise ==
    full /\ checked /\ AllKnown /\ ~overran =>
        initial.free < Required(initial.tasks) + XmlSize

\* Into a directory without final copies, what is required is exactly what
\* the batch comes to need at its worst, however often the server restarts,
\* if again no body is longer than was published.
ExactForPartials ==
    LET partial(t) == t.known /\ t.final = NoFile /\ Size(t.part) <= t.size
    IN  /\ stage = "done" /\ ~failed /\ ~overran
        /\ \A i \in DOMAIN tasks : partial(initial.tasks[i])
        => initial.free - lowest = Required(initial.tasks) + XmlSize
=============================================================================
