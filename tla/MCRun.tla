------------------------------- MODULE MCRun -------------------------------
(* The program run after run (Run), and the space one run needs, with      *)
(* every situation of a file beside a few other files (DiskSpace), side by *)
(* side. focus says which of them moves; the program is not run, and the   *)
(* variables of DiskSpace are Idle, while they do not.                     *)
EXTENDS Run

CONSTANTS
    Lists, NoFile, XmlSize, Overrun, Limit,   \* of DiskSpace
    MaxFree,   \* bound: free blocks at the start
    MaxSize,   \* bound: blocks of a file of MCLists
    Idle

VARIABLES
    focus,
    tasks, free, spaceStage, cur, initial, checked, someFailed, full, overran, lowest

spaceVars == <<tasks, free, spaceStage, cur, initial, checked, someFailed, full,
               overran, lowest>>
allVars   == <<focus, vars, spaceVars>>

-----------------------------------------------------------------------------
(* DiskSpace *)

file(len, blocks, linked, isGood) ==
    [len |-> len, blocks |-> blocks, linked |-> linked, good |-> isGood]

\* Good, corrupt, hard-linked, sparse, too short, too long
Finals(size) ==
    {NoFile, file(size, size, FALSE, TRUE), file(size, size, TRUE, TRUE),
     file(size, size, FALSE, FALSE), file(size, size, TRUE, FALSE),
     file(size, size - 1, FALSE, FALSE),
     file(size - 1, size - 1, FALSE, FALSE), file(size + 1, size + 1, FALSE, FALSE)}

Situations ==
    UNION {[size: {size}, known: BOOLEAN, md5: BOOLEAN, final: Finals(size),
            part: {NoFile} \cup 0..(size + 1)] : size \in 1..MaxSize}

fresh(known) == [size |-> MaxSize, known |-> known, md5 |-> TRUE,
                 final |-> NoFile, part |-> NoFile]
stale == [size |-> 1, known |-> TRUE, md5 |-> TRUE,
          final |-> file(1, 1, FALSE, FALSE), part |-> NoFile]

MCLists == {<<s, t>> : s \in Situations, t \in {fresh(TRUE), fresh(FALSE), stale}}
               \cup {<<t, s>> : s \in Situations, t \in {fresh(TRUE)}}

Volume == INSTANCE DiskSpace WITH stage <- spaceStage, failed <- someFailed

SpaceIdle == /\ tasks = Idle /\ free = Idle /\ spaceStage = Idle /\ cur = Idle
             /\ initial = Idle /\ checked = Idle /\ someFailed = Idle
             /\ full = Idle /\ overran = Idle /\ lowest = Idle

ASSUME SpaceAssumption == Volume!InputsAssumption

-----------------------------------------------------------------------------
(* One part moves *)

NotRun ==
    /\ server = 1 /\ latest = 1
    /\ dir = FALSE /\ xml = Absent /\ data = [f \in Files |-> 0]
    /\ options = [mode |-> "list", whole |-> TRUE, fault |-> "none"]
    /\ stage = "idle" /\ exit = "none"
    /\ fetched = 0 /\ spinner = FALSE /\ running = TRUE
    /\ failed = {} /\ todo = {} /\ printed = FALSE
    /\ runs = 0 /\ before = OnDisk /\ good = 0 /\ mixed = FALSE

PartsInit ==
    \/ focus = "run" /\ Init /\ SpaceIdle
    \/ focus = "space" /\ Volume!Init /\ NotRun

RunMoves   == focus = "run" /\ Next /\ UNCHANGED <<focus, spaceVars>>
SpaceMoves == focus = "space" /\ Volume!Next /\ UNCHANGED <<focus, vars>>

PartsSpec == PartsInit /\ [][RunMoves \/ SpaceMoves]_allVars

-----------------------------------------------------------------------------
(* The properties of both *)

\* Type correctness of both.
PartsTypeOK == TypeOK /\ (focus = "space" => Volume!TypeOK)

\* See DiskSpace: a batch that passed the check finds the disk full only for
\* the metadata document, and for leftovers the estimate is exact, as long as
\* no body is longer than the metadata says.
EstimateIsRight == focus = "space" => Volume!NoSurprise /\ Volume!ExactForPartials
=============================================================================
