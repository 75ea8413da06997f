------------------------------- MODULE Mtime -------------------------------
(***************************************************************************)
(* The last-modified time of one file of the item (sync_file_mtime,        *)
(* src/src/downloader/mtime.rs): set from the server's header when the     *)
(* file is installed, from the metadata when a later run finds it there,   *)
(* and compared with the metadata by --check. The content is always good.  *)
(*                                                                         *)
(* Times are in seconds, before 1970 below 0. A volume keeps a time        *)
(* rounded down to its resolution (2 s on FAT). Writing a time may fail.   *)
(***************************************************************************)
EXTENDS Integers

CONSTANTS
    Times,        \* the seconds looked at
    Top,          \* the last second a SystemTime holds
    Resolutions,  \* of the volumes looked at
    None          \* no header, no <mtime>, no file

\* What is assumed of the constants
InputsAssumption ==
    /\ Times \subseteq Int /\ Top \in Nat /\ None \notin Int
    /\ Resolutions \subseteq Nat \ {0}

VARIABLES
    expected,     \* <mtime> of the metadata: u64 seconds, or None
    server,       \* Last-Modified of the next response, or None if it has none
                  \* that can be parsed
    resolution,   \* of the volume
    mtime,        \* the file's time on disk, None without a file
    last,         \* what happened to the file last: "nothing", "installed",
                  \* "kept" by a run that found it, or "touched"
    warned,       \* the last run could not set the time
    finding,      \* what the last --check says of the date
    origins       \* history: the times somebody gave to the file

vars == <<expected, server, resolution, mtime, last, warned, finding, origins>>

Rounded(time) == time - (time % resolution)

\* mtime_from_xml
FromXml == IF expected # None /\ expected <= Top THEN expected ELSE None

\* SystemTime in whole seconds since 1970, if there is such a number
AsSeconds(time) == IF time # None /\ time >= 0 THEN time ELSE None

-----------------------------------------------------------------------------

\* Mutant: a time before 1970 becomes 1970.
SetsClamped(current, target) ==
    LET secs == IF target < 0 THEN 0 ELSE target
    IN  mtime' = Rounded(secs) /\ warned' = FALSE

\* The time is set if it differs from the current one.
Sets(current, target) ==
    \/ /\ AsSeconds(target) = None \/ AsSeconds(target) = AsSeconds(current)
       /\ mtime' = current /\ warned' = FALSE
    \/ /\ AsSeconds(target) # None /\ AsSeconds(target) # AsSeconds(current)
       /\ \/ mtime' = Rounded(target) /\ warned' = FALSE
          \/ mtime' = current /\ warned' = TRUE

\* No target, no change. Whatever happens, the file's job goes on.
Synced(current, target) ==
    IF target = None THEN mtime' = current /\ warned' = FALSE
    ELSE Sets(current, target)

\* install_downloaded_file: the .part carries the time it was written at.
Install ==
    /\ mtime = None
    /\ \E written \in Times :
        /\ Synced(Rounded(written), IF server # None THEN server ELSE FromXml)
        /\ origins' = {written}
    /\ last' = "installed" /\ finding' = "unknown"
    /\ UNCHANGED <<expected, server, resolution>>

\* Mutant: the header of an earlier response would do as well.
KeepServer ==
    /\ mtime # None
    /\ Synced(mtime, IF server # None THEN server ELSE FromXml)
    /\ last' = "kept" /\ finding' = "unknown"
    /\ UNCHANGED <<expected, server, resolution, origins>>

\* Mutant: a file without a published time gets that of its verification.
KeepStamps ==
    /\ mtime # None
    /\ \E now \in Times : Synced(mtime, IF FromXml = None THEN now ELSE FromXml)
    /\ last' = "kept" /\ finding' = "unknown"
    /\ UNCHANGED <<expected, server, resolution, origins>>

\* handle_existing_file: no request is made, so there is no header.
Keep ==
    /\ mtime # None
    /\ Synced(mtime, FromXml)
    /\ last' = "kept" /\ finding' = "unknown"
    /\ UNCHANGED <<expected, server, resolution, origins>>

\* Mutant: an hour's (here: a second's) difference is let pass.
CheckDateLoosely ==
    /\ mtime # None
    /\ finding' = IF /\ expected # None /\ AsSeconds(mtime) # None
                     /\ AsSeconds(mtime) > expected + 1
                  THEN "date" ELSE "fine"
    /\ UNCHANGED <<expected, server, resolution, mtime, last, warned, origins>>

\* check_directory compares what can be compared.
CheckDate ==
    /\ mtime # None
    /\ finding' = IF /\ expected # None /\ AsSeconds(mtime) # None
                     /\ AsSeconds(mtime) # expected
                  THEN "date" ELSE "fine"
    /\ UNCHANGED <<expected, server, resolution, mtime, last, warned, origins>>

\* External: somebody sets the time, or removes the file; the server's header
\* changes.
Touch ==
    /\ mtime # None
    /\ \E time \in Times : mtime' = Rounded(time) /\ origins' = origins \cup {time}
    /\ last' = "touched" /\ finding' = "unknown"
    /\ UNCHANGED <<expected, server, resolution, warned>>

Remove ==
    /\ mtime # None
    /\ mtime' = None /\ last' = "nothing" /\ finding' = "unknown"
    /\ \E header \in Times \cup {None} : server' = header
    /\ UNCHANGED <<expected, resolution, warned, origins>>

Init ==
    /\ expected \in {t \in Times : t >= 0} \cup {Top + 1, None}
    /\ server \in Times \cup {None}
    /\ resolution \in Resolutions
    /\ mtime = None /\ last = "nothing" /\ warned = FALSE /\ finding = "unknown"
    /\ origins = {}

Next == Install \/ Keep \/ CheckDate \/ Touch \/ Remove

Spec == Init /\ [][Next]_vars

-----------------------------------------------------------------------------
(* Correctness *)

\* Type correctness
TypeOK ==
    /\ expected \in Nat \cup {None} /\ server \in Times \cup {None}
    /\ mtime \in Int \cup {None} /\ resolution \in Resolutions
    /\ last \in {"nothing", "installed", "kept", "touched"}
    /\ warned \in BOOLEAN /\ finding \in {"unknown", "fine", "date"}
    /\ mtime = None <=> last = "nothing"
    /\ mtime # None => mtime % resolution = 0

\* No time is made up: the file carries one that was written, or published by
\* the server or the metadata, rounded as the volume does (mtime.rs, comment on
\* times before 1970).
NothingIsMadeUp ==
    mtime # None => \E time \in origins \cup ({server, FromXml} \ {None}) :
        mtime = Rounded(time)

\* A run over a file that is there makes the next --strict check content with
\* its date, whatever the server said when it was downloaded, if the time could
\* be set and the volume can keep it.
KeptHasTheDate ==
    last = "kept" /\ ~warned /\ expected # None /\ expected <= Top
        /\ expected % resolution = 0
    => finding # "date"

\* If it cannot have the date, a check says so.
DateIsCompared ==
    finding = "fine" /\ expected # None /\ mtime >= 0 => mtime = expected

\* Further runs leave the time alone, on every volume.
Settled == last = "kept" /\ ~warned /\ last' = "kept" => mtime' = mtime
Settles == [][Settled]_vars
=============================================================================
