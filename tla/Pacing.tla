------------------------------- MODULE Pacing -------------------------------
(***************************************************************************)
(* The clock while a body is received: --limit-rate (RateLimiter,          *)
(* src/src/downloader/rate.rs) and the two places where                    *)
(* stream_response_body (src/src/downloader/stream.rs) waits with one eye  *)
(* on the stop flag. Transfer has the same loop without time.              *)
(*                                                                         *)
(* The unit of time is what one byte takes at the limit, so that a chunk's *)
(* budget is its length; rounding to nanoseconds is left out. A timer      *)
(* fires when it is due or up to MaxLate later. A select that has not been *)
(* polled yet has nextPoll = Unpolled: its branches are looked at in any   *)
(* order, the first one that is ready wins, and time passes only when none *)
(* is.                                                                     *)
(***************************************************************************)
EXTENDS Integers

CONSTANTS
    MaxChunk,   \* bound: bytes of a chunk
    Interval,   \* INTERRUPT_CHECK_INTERVAL
    MaxLate,    \* bound: how late a timer fires
    MaxTime     \* bound: how long the clock is looked at

\* What is assumed of the constants
TimesAssumption ==
    /\ MaxChunk \in Nat \ {0} /\ Interval \in Nat \ {0}
    /\ MaxLate \in Nat /\ MaxTime \in Nat

VARIABLES
    limited,     \* whether there is a limit above 0
    now,         \* the clock
    deadline,    \* RateLimiter::deadline
    where,       \* "receive", "enter" (pace's first poll), "pace" or "done"
    wake,        \* when the pacing sleep is over
    nextPoll,    \* when the flag is looked at next
    running,     \* the stop flag
    sent,        \* history: bytes received so far
    stoppedAt,   \* history: when the flag was cleared
    mark         \* history: some moment, and the bytes received until then

timers == <<wake, nextPoll>>
vars == <<limited, now, deadline, where, timers, running, sent, stoppedAt, mark>>

Unpolled == -1

\* What --limit-rate may be given: nothing, zero, text that is no rate, a
\* rate, and a rate of less than half a byte per second.
Options == {"absent", "zero", "invalid", "rate", "tiny"}

\* parse_rate_limit and the filter in pace: a tiny rate is rounded to zero,
\* and zero is no limit. An invalid one ends the program before any transfer.
Limits(option) == option = "rate"

-----------------------------------------------------------------------------
(* The loop of stream_response_body *)

Select(place) == where' = place /\ nextPoll' = Unpolled

\* A chunk is written, then paced; an unlimited pace is over at once.
ReceiveChunk ==
    /\ where = "receive"
    /\ sent < MaxTime + MaxChunk
    /\ \E bytes \in 1..MaxChunk :
        /\ sent' = sent + bytes
        /\ wake' = deadline + bytes
    /\ Select("enter")
    /\ UNCHANGED <<limited, now, deadline, running, stoppedAt, mark>>

\* Mutant: the schedule keeps what a slow server did not use.
PaceBanks ==
    /\ where = "enter"
    /\ ~limited \/ wake <= now
    /\ deadline' = IF limited THEN wake ELSE deadline
    /\ Select("receive")
    /\ UNCHANGED <<limited, now, wake, running, sent, stoppedAt, mark>>

\* Mutant: the chunk that already took its time is charged again.
PaceChargesTwice ==
    /\ where = "enter"
    /\ ~limited \/ wake <= now
    /\ deadline' = IF limited THEN now + (wake - deadline) ELSE deadline
    /\ Select("receive")
    /\ UNCHANGED <<limited, now, wake, running, sent, stoppedAt, mark>>

\* The chunk took its time already: the baseline is now.
PaceIsOver ==
    /\ where = "enter"
    /\ ~limited \/ wake <= now
    /\ deadline' = IF limited THEN now ELSE deadline
    /\ Select("receive")
    /\ UNCHANGED <<limited, now, wake, running, sent, stoppedAt, mark>>

\* Mutant: the flag is not looked at before the sleep is over.
PaceSleepsDeaf ==
    /\ where = "enter"
    /\ limited /\ wake > now
    /\ running
    /\ where' = "pace"
    /\ nextPoll' = wake
    /\ UNCHANGED <<limited, now, deadline, wake, running, sent, stoppedAt, mark>>

\* The schedule is ahead of the clock: the other branch is polled too.
PaceSleeps ==
    /\ where = "enter"
    /\ limited /\ wake > now
    /\ running
    /\ where' = "pace"
    /\ nextPoll' = now + Interval
    /\ UNCHANGED <<limited, now, deadline, wake, running, sent, stoppedAt, mark>>

\* Mutant: the baseline is the time the sleep began.
PaceWakesEarly ==
    /\ where = "pace" /\ now >= wake
    /\ deadline' = deadline
    /\ Select("receive")
    /\ UNCHANGED <<limited, now, wake, running, sent, stoppedAt, mark>>

PaceWakes ==
    /\ where = "pace" /\ now >= wake
    /\ deadline' = wake
    /\ Select("receive")
    /\ UNCHANGED <<limited, now, wake, running, sent, stoppedAt, mark>>

\* No chunk is there: the flag is looked at before time passes.
ReceiveWaits ==
    /\ where = "receive" /\ nextPoll = Unpolled
    /\ running
    /\ nextPoll' = now + Interval
    /\ UNCHANGED <<limited, now, deadline, where, wake, running, sent, stoppedAt, mark>>

\* wait_for_stop wakes up in one of the two selects.
PollAgain ==
    /\ where \in {"receive", "pace"} /\ nextPoll # Unpolled /\ now >= nextPoll
    /\ running
    /\ nextPoll' = now + Interval
    /\ UNCHANGED <<limited, now, deadline, where, wake, running, sent, stoppedAt, mark>>

StopSeen ==
    /\ where # "done"
    /\ nextPoll = Unpolled \/ now >= nextPoll
    /\ ~running
    /\ where' = "done"
    /\ UNCHANGED <<limited, now, deadline, timers, running, sent, stoppedAt, mark>>

BodyEnds ==
    /\ where = "receive"
    /\ where' = "done"
    /\ UNCHANGED <<limited, now, deadline, timers, running, sent, stoppedAt, mark>>

-----------------------------------------------------------------------------
(* The clock and the user *)

Due(timer) == now >= timer + MaxLate

Tick ==
    /\ now < MaxTime
    /\ where \in {"receive", "pace"} /\ nextPoll # Unpolled
    /\ ~Due(nextPoll)
    /\ where = "pace" => ~Due(wake)
    /\ now' = now + 1
    /\ UNCHANGED <<limited, deadline, where, timers, running, sent, stoppedAt, mark>>

Stop ==
    /\ running /\ where # "done"
    /\ running' = FALSE
    /\ stoppedAt' = now
    /\ UNCHANGED <<limited, now, deadline, where, timers, sent, mark>>

\* Pick the moment from which the bytes are counted.
Mark ==
    /\ where = "receive"
    /\ mark' = [time |-> now, sent |-> sent]
    /\ UNCHANGED <<limited, now, deadline, where, timers, running, sent, stoppedAt>>

Init ==
    /\ \E option \in Options \ {"invalid"} : limited = Limits(option)
    /\ now = 0
    /\ deadline = 0
    /\ where = "receive"
    /\ wake = 0
    /\ nextPoll = Unpolled
    /\ running = TRUE
    /\ sent = 0
    /\ stoppedAt = 0
    /\ mark = [time |-> 0, sent |-> 0]

StreamStep ==
    \/ ReceiveChunk \/ ReceiveWaits \/ BodyEnds
    \/ PaceIsOver \/ PaceSleeps \/ PaceWakes
    \/ PollAgain \/ StopSeen

Next == StreamStep \/ Tick \/ Stop \/ Mark

Spec == Init /\ [][Next]_vars

-----------------------------------------------------------------------------
(* Properties *)

\* Type correctness.
TypeOK ==
    /\ limited \in BOOLEAN /\ running \in BOOLEAN
    /\ now \in Nat /\ deadline \in Nat /\ sent \in Nat /\ stoppedAt \in Nat /\ wake \in Nat
    /\ where \in {"receive", "enter", "pace", "done"}
    /\ nextPoll \in Nat \cup {Unpolled}
    /\ mark \in [time: Nat, sent: Nat]

\* Doc of pace: when it has returned, the bytes delivered stay at or below
\* the limit, counted from the start of the transfer.
RateKept == limited /\ where = "receive" => sent <= now

\* Doc of pace: surplus is not banked. From any moment on, however slow the
\* server was before and however late the timers, no more than the rate
\* allows is let through, but for the chunk that is under way.
NoBurst ==
    limited /\ where = "receive" =>
        sent - mark.sent <= (now - mark.time) + MaxChunk

\* Pacing does not starve: a chunk is held for its own budget and no longer.
HeldForItsBudget == where = "pace" => wake - now <= MaxChunk

\* Comment on the pacing select: Ctrl+C does not wait out a chunk's budget,
\* however long it is, nor a stalled body.
StopIsSoon == ~running /\ where # "done" => now - stoppedAt <= Interval + MaxLate
=============================================================================
