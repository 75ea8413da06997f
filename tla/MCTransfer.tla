----------------------------- MODULE MCTransfer -----------------------------
(* What happens between the first request for a file and its last byte, in *)
(* four parts side by side: the transfer (Transfer), the hops of a request *)
(* and their cookies (Redirects), the clock while a body is received       *)
(* (Pacing), and the waits between requests (Waits). focus says which of   *)
(* them moves; the transfer is over, and the variables of the others are   *)
(* Idle, while they do not.                                                *)
EXTENDS Transfer, Integers

CONSTANTS
    Hops, Calls, Clock,        \* Redirects: its limit and bounds
    MaxLines,                  \* lines of a cookies.txt
    MaxChunk, Poll, MaxLate, Horizon,              \* Pacing
    Tries, InitialDelay, MaxDelay, MaxRetryAfter, Slice,   \* Waits, in ms
    Factors, Seconds, NoHeader, Overlong,
    Idle

VARIABLES
    focus,
    \* those of Redirects
    input, origin, source, cookies, warned, hopTime, hopPlace, url, redirects,
    header, calls, since, requests, afterStop,
    \* those of Pacing
    limited, now, deadline, where, wake, nextPoll, sent, stoppedAt, mark,
    \* those of Waits
    count, waitStage, retryAfter, delay, remaining, slept, sleptAtStop

hopVars  == <<input, origin, source, cookies, warned, hopTime, hopPlace, url,
              redirects, header, calls, since, requests, afterStop>>
paceVars == <<limited, now, deadline, where, wake, nextPoll, sent, stoppedAt, mark>>
waitVars == <<count, waitStage, retryAfter, delay, remaining, slept, sleptAtStop>>
allVars  == <<focus, callVars, hopVars, paceVars, waitVars>>

-----------------------------------------------------------------------------
(* Redirects over small cookie files and redirect targets *)

Archive   == <<"org", "archive">>
Www       == <<"org", "archive", "www">>
Elsewhere == <<"org", "elsewhere">>

Url(host, path, https) == [host |-> host, path |-> path, https |-> https]

Targets == {Url(Archive, <<"/", "d", "/", "i">>, TRUE),
            Url(Archive, <<"/", "d", "x">>, TRUE),
            Url(Www, <<"/", "d">>, TRUE),
            Url(Elsewhere, <<"/", "d">>, TRUE),
            Url(Archive, <<"/", "d">>, FALSE)}

\* An ordinary cookie, and what may be otherwise about one
Plain == [mark |-> "", fields |-> TRUE, domain |-> Archive, subdomains |-> FALSE,
          path |-> <<"/", "d">>, secure |-> FALSE, expires |-> 0, encodable |-> TRUE]

Lines == {Plain,
          [Plain EXCEPT !.mark = "#"],
          [Plain EXCEPT !.fields = FALSE],
          [Plain EXCEPT !.mark = "#HttpOnly_", !.path = <<"/", "d", "/">>],
          [Plain EXCEPT !.encodable = FALSE],
          [Plain EXCEPT !.domain = Www, !.path = <<>>],
          [Plain EXCEPT !.subdomains = TRUE, !.expires = 2],
          [Plain EXCEPT !.domain = <<"org">>, !.subdomains = TRUE],
          [Plain EXCEPT !.secure = TRUE, !.expires = -1, !.path = <<"/">>],
          [Plain EXCEPT !.expires = 1]}

Hop == INSTANCE Redirects WITH
    CookieFiles <- UNION {[1..n -> Lines] : n \in 0..MaxLines},
    Origins <- {Url(Archive, <<"/", "d">>, TRUE)},
    MaxRedirects <- Hops, MaxCalls <- Calls, MaxTime <- Clock,
    now <- hopTime, where <- hopPlace

HopIdle == /\ input = Idle /\ origin = Idle /\ source = Idle /\ cookies = Idle
           /\ warned = Idle /\ hopTime = Idle /\ hopPlace = Idle /\ url = Idle
           /\ redirects = Idle /\ header = Idle /\ calls = Idle /\ since = Idle
           /\ requests = Idle /\ afterStop = Idle

-----------------------------------------------------------------------------
(* Pacing and Waits *)

Pace == INSTANCE Pacing WITH Interval <- Poll, MaxTime <- Horizon

PaceIdle == /\ limited = Idle /\ now = Idle /\ deadline = Idle /\ where = Idle
            /\ wake = Idle /\ nextPoll = Idle /\ sent = Idle /\ stoppedAt = Idle
            /\ mark = Idle

Wait == INSTANCE Waits WITH
    MaxRetries <- Tries, Interval <- Slice,
    stage <- waitStage, header <- retryAfter, stoppedAt <- sleptAtStop

WaitIdle == /\ count = Idle /\ waitStage = Idle /\ retryAfter = Idle /\ delay = Idle
            /\ remaining = Idle /\ slept = Idle /\ sleptAtStop = Idle

ASSUME PartsAssumption ==
    /\ Hop!InputsAssumption
    /\ Pace!TimesAssumption
    /\ Wait!DelaysAssumption /\ Wait!InputsAssumption

-----------------------------------------------------------------------------
(* One part moves *)

\* The stop flag is the moving part's.
streamVars == <<task, transferVars>>

TransferOver ==
    /\ task = [size |-> 0, known |-> FALSE, md5 |-> FALSE]
    /\ part = <<>> /\ pos = 0
    /\ stage = "returned" /\ result = "complete"
    /\ retries = 0 /\ noDelay = FALSE /\ asked = 0
    /\ status = "200" /\ off = 0 /\ base = 0 /\ got = 0 /\ late = 0

PartsInit ==
    \/ focus = "transfer" /\ TransferInit /\ HopIdle /\ PaceIdle /\ WaitIdle
    \/ focus = "hops"  /\ Hop!Init  /\ TransferOver /\ PaceIdle /\ WaitIdle
    \/ focus = "pace"  /\ Pace!Init /\ TransferOver /\ HopIdle  /\ WaitIdle
    \/ focus = "waits" /\ Wait!Init /\ TransferOver /\ HopIdle  /\ PaceIdle

TransferMoves(step) ==
    focus = "transfer" /\ step /\ UNCHANGED <<focus, hopVars, paceVars, waitVars>>
HopMoves ==
    focus = "hops" /\ Hop!Next /\ UNCHANGED <<focus, streamVars, paceVars, waitVars>>
PaceMoves ==
    focus = "pace" /\ Pace!Next /\ UNCHANGED <<focus, streamVars, hopVars, waitVars>>
WaitMoves(step) ==
    focus = "waits" /\ step /\ UNCHANGED <<focus, streamVars, hopVars, paceVars>>

PartsNext ==
    \/ TransferMoves(TransferNext)
    \/ HopMoves
    \/ PaceMoves
    \/ WaitMoves(Wait!Next)

\* The fairness of TransferSpec and of Waits
PartsSpec ==
    /\ PartsInit
    /\ [][PartsNext]_allVars
    /\ WF_allVars(TransferMoves(TransferStep) \/ WaitMoves(Wait!TimerStep))

-----------------------------------------------------------------------------
(* The properties of Redirects, Pacing and Waits *)

\* Type correctness of every part.
TransferPartsTypeOK ==
    /\ TransferTypeOK
    /\ focus = "hops"  => Hop!TypeOK
    /\ focus = "pace"  => Pace!TypeOK
    /\ focus = "waits" => Wait!TypeOK

\* See Redirects: each hop carries what is in scope and still valid, and all of
\* it; the warning is true of the host asked for.
CookiesAreRight ==
    focus = "hops" => /\ Hop!CookiesInScope /\ Hop!StaleIsDropped
                      /\ Hop!NothingForgotten /\ Hop!WarningIsKept

\* See Pacing: the rate is kept from any moment on, nothing is banked, and no
\* chunk is held longer than its budget.
RateIsRight ==
    focus = "pace" => Pace!RateKept /\ Pace!NoBurst /\ Pace!HeldForItsBudget

\* See Waits: a request is repeated neither too soon nor too late.
RepeatedInTime == focus = "waits" => Wait!RepeatedInTime

\* After Ctrl+C a chain of redirects, a paced or stalled body and a wait go on
\* for so long and no longer (see StopIsBounded, StopIsSoon, StopWithinSlice).
StopIsSoon ==
    /\ focus = "hops"  => Hop!StopIsBounded
    /\ focus = "pace"  => Pace!StopIsSoon
    /\ focus = "waits" => Wait!StopWithinSlice

\* A transfer returns, whatever the server does, and every wait in it ends.
EveryCallEnds == TransferReturns /\ (focus = "waits" => Wait!WaitEnds)
=============================================================================
