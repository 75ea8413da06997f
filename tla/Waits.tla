------------------------------- MODULE Waits -------------------------------
(***************************************************************************)
(* How long the program waits between two requests for a file:             *)
(* backoff_delay, parse_retry_after and RetryTracker::record               *)
(* (src/src/downloader/retry.rs). Transfer has the same calls of record    *)
(* without time. Times are in milliseconds, with the constants of the      *)
(* code; a slice that is slept takes exactly its length.                   *)
(***************************************************************************)
EXTENDS Naturals

CONSTANTS
    MaxRetries,    \* MAX_RETRIES
    InitialDelay,  \* INITIAL_RETRY_DELAY_MS
    MaxDelay,      \* MAX_RETRY_DELAY_MS
    MaxRetryAfter, \* MAX_RETRY_AFTER_SECS, in milliseconds
    Interval,      \* INTERRUPT_CHECK_INTERVAL
    Factors,       \* bound: the jitter factors, of 80..120 percent
    Seconds,       \* bound: the numbers a Retry-After gives, in milliseconds
    NoHeader,      \* no Retry-After
    Overlong       \* one of more digits than fit into 64 bits

\* What is assumed of the constants (20 percent of the shortest delay are
\* whole milliseconds)
DelaysAssumption ==
    /\ MaxRetries \in Nat \ {0} /\ Interval \in Nat \ {0}
    /\ InitialDelay \in Nat \ {0} /\ MaxDelay \in Nat /\ InitialDelay <= MaxDelay
    /\ InitialDelay % 5 = 0
    /\ MaxRetryAfter \in Nat
InputsAssumption ==
    /\ Factors \subseteq 80..120 /\ Seconds \subseteq Nat
    /\ NoHeader \notin Nat /\ Overlong \notin Nat /\ NoHeader # Overlong

VARIABLES
    count,       \* RetryTracker::count
    stage,       \* "request", "waiting", or the end: "given_up", "stopped"
    header,      \* the Retry-After of the failure waited for
    delay,       \* the wait
    remaining,   \* what is left of it
    running,     \* the stop flag
    slept,       \* history: how long this wait has been
    stoppedAt    \* history: how long it had been when the flag was cleared

vars == <<count, stage, header, delay, remaining, running, slept, stoppedAt>>

Least(a, b) == IF a <= b THEN a ELSE b

\* Mutant: the doubling is not capped.
BackoffUncapped(attempt, factor) ==
    (InitialDelay * 2 ^ Least(attempt - 1, 20) * factor) \div 100

\* backoff_delay: doubled per attempt, capped, then up to 20 percent off
BackoffDelay(attempt, factor) ==
    (Least(InitialDelay * 2 ^ Least(attempt - 1, 20), MaxDelay) * factor) \div 100

\* parse_retry_after: seconds, or a date as what it is away, capped
RetryAfter(value) ==
    IF value = Overlong THEN MaxRetryAfter ELSE Least(value, MaxRetryAfter)

-----------------------------------------------------------------------------

\* A request fails; record counts it and decides.
RequestFails(value) ==
    /\ stage = "request"
    /\ count' = count + 1
    /\ header' = value
    /\ IF count' > MaxRetries
       THEN stage' = "given_up" /\ UNCHANGED <<delay, remaining, slept>>
       ELSE /\ \E factor \in Factors :
                 delay' = IF value = NoHeader THEN BackoffDelay(count', factor)
                          ELSE RetryAfter(value)
            /\ remaining' = delay'
            /\ slept' = 0
            /\ stage' = IF running THEN "waiting" ELSE "stopped"
    /\ UNCHANGED <<running, stoppedAt>>

\* Mutant: the flag is looked at when the wait is over.
SleepThrough ==
    /\ stage = "waiting" /\ remaining > 0
    /\ LET slice == Least(remaining, Interval)
       IN  remaining' = remaining - slice /\ slept' = slept + slice
    /\ stage' = IF running \/ remaining' > 0 THEN stage ELSE "stopped"
    /\ UNCHANGED <<count, header, delay, running, stoppedAt>>

\* Mutant: a slice is forgotten to be taken off.
SleepForgets ==
    /\ stage = "waiting" /\ remaining > 0
    /\ slept' = slept
    /\ stage' = IF running THEN stage ELSE "stopped"
    /\ UNCHANGED <<count, header, delay, remaining, running, stoppedAt>>

\* One slice of the sleep, and a look at the flag
SleepSlice ==
    /\ stage = "waiting" /\ remaining > 0
    /\ LET slice == Least(remaining, Interval)
       IN  remaining' = remaining - slice /\ slept' = slept + slice
    /\ stage' = IF running THEN stage ELSE "stopped"
    /\ UNCHANGED <<count, header, delay, running, stoppedAt>>

WaitOver ==
    /\ stage = "waiting" /\ remaining = 0
    /\ stage' = "request"
    /\ UNCHANGED <<count, header, delay, remaining, running, slept, stoppedAt>>

\* Ctrl+C, at any time
Stop ==
    /\ running /\ stage \in {"request", "waiting"}
    /\ running' = FALSE
    /\ stoppedAt' = slept
    /\ UNCHANGED <<count, stage, header, delay, remaining, slept>>

Init ==
    /\ count = 0
    /\ stage = "request"
    /\ header = NoHeader
    /\ delay = 0 /\ remaining = 0 /\ slept = 0
    /\ running = TRUE
    /\ stoppedAt = 0

Next ==
    \/ \E value \in Seconds \cup {NoHeader, Overlong} : RequestFails(value)
    \/ SleepSlice
    \/ WaitOver
    \/ Stop

\* The timer fires.
TimerStep == SleepSlice \/ WaitOver

Spec == Init /\ [][Next]_vars /\ WF_vars(TimerStep)

-----------------------------------------------------------------------------
(* Properties *)

\* Type correctness.
TypeOK ==
    /\ count \in 0..(MaxRetries + 1)
    /\ stage \in {"request", "waiting", "given_up", "stopped"}
    /\ header \in Seconds \cup {NoHeader, Overlong}
    /\ delay \in Nat /\ remaining \in 0..delay
    /\ running \in BOOLEAN
    /\ slept \in Nat /\ stoppedAt \in Nat

\* Comment in record: Ctrl+C during a long wait does not sleep the whole
\* delay out: at most one slice is slept after it.
StopWithinSlice ==
    stage \in {"waiting", "stopped"} /\ ~running => slept <= stoppedAt + Interval

\* A failed request is not repeated too soon, and not put off for ever:
\* without a Retry-After the wait is within 20 percent of 5 to 60 seconds;
\* with one it is what the server asks for, up to 15 minutes, also when the
\* number is beyond what can be read.
RepeatedInTime ==
    stage = "request" /\ count > 0 =>
        IF header = NoHeader
        THEN InitialDelay * 80 <= slept * 100 /\ slept * 100 <= MaxDelay * 120
        ELSE slept = IF header = Overlong THEN MaxRetryAfter ELSE Least(header, MaxRetryAfter)

\* Every wait comes to its end.
WaitEnds == stage = "waiting" ~> stage # "waiting"
=============================================================================
