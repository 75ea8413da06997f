-------------------------- MODULE MCTransfer_proofs --------------------------
(***************************************************************************)
(* Theorems about what surrounds a transfer: the clock while a body is     *)
(* received (Pacing), for every rate, chunk size, polling interval and     *)
(* lateness of the timers; the waits between requests (Waits), for every   *)
(* delay and limit; the hops of a request and their cookies (Redirects),   *)
(* for cookie files of any length. No bound of a run is used.              *)
(***************************************************************************)
EXTENDS MCTransfer, Transfer_proofs

-----------------------------------------------------------------------------
(* Pacing *)

Paced == {"enter", "pace"}

\* The schedule is never ahead of the clock while bytes are let through, and
\* what is let through is within the schedule.
ScheduleInv ==
    /\ deadline <= now
    /\ where \in Paced => wake <= deadline + MaxChunk
    /\ limited => /\ where = "receive" => sent <= deadline
                  /\ where \in Paced => sent <= wake

\* From the mark on the schedule grows with the bytes: only the first chunk
\* may find it behind.
BurstInv ==
    /\ mark.time <= now /\ mark.sent <= sent
    /\ limited =>
          /\ where = "receive" =>
                \/ sent = mark.sent
                \/ sent - mark.sent <= (deadline - mark.time) + MaxChunk
          /\ where = "enter" =>
                \/ sent - mark.sent <= MaxChunk
                \/ sent - mark.sent <= (wake - mark.time) + MaxChunk
          /\ where = "pace" => sent - mark.sent <= (wake - mark.time) + MaxChunk

\* The timer that looks at the flag was set before the stop.
PollInv ==
    /\ nextPoll # Pace!Unpolled => nextPoll <= now + Poll
    /\ ~running => nextPoll = Pace!Unpolled \/ nextPoll <= stoppedAt + Poll
    /\ Pace!StopIsSoon

PaceInv == Pace!TypeOK /\ ScheduleInv /\ BurstInv /\ PollInv

LEMMA PaceConstants ==
    MaxChunk \in Nat \ {0} /\ Poll \in Nat \ {0} /\ MaxLate \in Nat /\ Horizon \in Nat
BY PartsAssumption DEF Pace!TimesAssumption

LEMMA PaceInit == Pace!Init => PaceInv
<1> SUFFICES ASSUME Pace!Init PROVE PaceInv
  OBVIOUS
<1>1. limited \in BOOLEAN
  BY DEF Pace!Init, Pace!Limits, Pace!Options
<1>2. Pace!TypeOK
  BY <1>1 DEF Pace!Init, Pace!TypeOK, Pace!Unpolled
<1>3. ScheduleInv /\ BurstInv /\ PollInv
  BY PaceConstants
  DEF Pace!Init, ScheduleInv, BurstInv, PollInv, Paced, Pace!StopIsSoon, Pace!Unpolled
<1> QED
  BY <1>2, <1>3 DEF PaceInv

LEMMA PaceTypes == PaceInv /\ Pace!Next => Pace!TypeOK'
<1> SUFFICES ASSUME PaceInv, Pace!Next PROVE Pace!TypeOK'
  OBVIOUS
<1> USE PaceConstants DEF PaceInv, Pace!TypeOK, Pace!Unpolled
<1>1. CASE Pace!ReceiveChunk
  BY <1>1 DEF Pace!ReceiveChunk, Pace!Select
<1>2. CASE Pace!PaceIsOver \/ Pace!PaceWakes
  BY <1>2 DEF Pace!PaceIsOver, Pace!PaceWakes, Pace!Select
<1>3. CASE Pace!ReceiveWaits \/ Pace!PaceSleeps \/ Pace!PollAgain
  BY <1>3 DEF Pace!ReceiveWaits, Pace!PaceSleeps, Pace!PollAgain, Pace!timers
<1>4. CASE Pace!StopSeen \/ Pace!BodyEnds
  BY <1>4 DEF Pace!StopSeen, Pace!BodyEnds, Pace!timers
<1>5. CASE Pace!Tick \/ Pace!Stop
  <2>1. mark' = mark /\ UNCHANGED <<limited, deadline, where, wake, nextPoll, sent>>
    BY <1>5 DEF Pace!Tick, Pace!Stop, Pace!timers
  <2>2. now' \in Nat /\ stoppedAt' \in Nat
    BY <1>5 DEF Pace!Tick, Pace!Stop
  <2>3. running' \in BOOLEAN
    BY <1>5 DEF Pace!Tick, Pace!Stop
  <2>4. where' = where
    BY <1>5 DEF Pace!Tick, Pace!Stop
  <2> QED
    BY <2>1, <2>2, <2>3, <2>4
<1>6. CASE Pace!Mark
  <2>1. mark' \in [time: Nat, sent: Nat]
    BY <1>6 DEF Pace!Mark
  <2> QED
    BY <1>6, <2>1 DEF Pace!Mark, Pace!timers
<1> QED
  BY <1>1, <1>2, <1>3, <1>4, <1>5, <1>6 DEF Pace!Next, Pace!StreamStep

LEMMA PaceStep == PaceInv /\ Pace!Next => PaceInv'
<1> SUFFICES ASSUME PaceInv, Pace!Next PROVE PaceInv'
  OBVIOUS
<1>0. /\ now \in Nat /\ deadline \in Nat /\ sent \in Nat /\ stoppedAt \in Nat
      /\ wake \in Nat /\ nextPoll \in Int /\ mark.time \in Nat /\ mark.sent \in Nat
      /\ limited \in BOOLEAN /\ running \in BOOLEAN
  BY DEF PaceInv, Pace!TypeOK, Pace!Unpolled
<1> USE <1>0, PaceConstants
    DEF PaceInv, ScheduleInv, BurstInv, PollInv, Paced, Pace!Unpolled,
        Pace!StopIsSoon
<1>1. CASE Pace!ReceiveChunk
  <2>1. PICK bytes \in 1..MaxChunk : sent' = sent + bytes /\ wake' = deadline + bytes
    BY <1>1 DEF Pace!ReceiveChunk
  <2>2. /\ where = "receive" /\ where' = "enter" /\ nextPoll' = -1
        /\ UNCHANGED <<limited, now, deadline, running, stoppedAt, mark>>
    BY <1>1 DEF Pace!ReceiveChunk, Pace!Select
  <2>3. ScheduleInv'
    BY <2>1, <2>2
  <2>4. BurstInv'
    BY <2>1, <2>2
  <2>5. PollInv'
    BY <2>2
  <2> QED
    BY <2>3, <2>4, <2>5, PaceTypes
<1>2. CASE Pace!PaceIsOver
  <2>1. ScheduleInv' /\ BurstInv' /\ PollInv'
    BY <1>2 DEF Pace!PaceIsOver, Pace!Select
  <2> QED
    BY <2>1, PaceTypes
<1>3. CASE Pace!PaceWakes
  <2>1. ScheduleInv' /\ BurstInv' /\ PollInv'
    BY <1>3 DEF Pace!PaceWakes, Pace!Select
  <2> QED
    BY <2>1, PaceTypes
<1>4. CASE Pace!ReceiveWaits \/ Pace!PaceSleeps \/ Pace!PollAgain
  <2>1. ScheduleInv' /\ BurstInv' /\ PollInv'
    BY <1>4 DEF Pace!ReceiveWaits, Pace!PaceSleeps, Pace!PollAgain, Pace!timers
  <2> QED
    BY <2>1, PaceTypes
<1>5. CASE Pace!StopSeen \/ Pace!BodyEnds
  <2>1. ScheduleInv' /\ BurstInv' /\ PollInv'
    BY <1>5 DEF Pace!StopSeen, Pace!BodyEnds, Pace!timers
  <2> QED
    BY <2>1, PaceTypes
<1>6. CASE Pace!Tick
  <2>1. ScheduleInv' /\ BurstInv' /\ PollInv'
    BY <1>6 DEF Pace!Tick, Pace!Due, Pace!timers
  <2> QED
    BY <2>1, PaceTypes
<1>7. CASE Pace!Stop
  <2>1. ScheduleInv' /\ BurstInv' /\ PollInv'
    BY <1>7 DEF Pace!Stop, Pace!timers
  <2> QED
    BY <2>1, PaceTypes
<1>8. CASE Pace!Mark
  <2>1. mark'.time = now /\ mark'.sent = sent
    BY <1>8 DEF Pace!Mark
  <2>2. ScheduleInv' /\ BurstInv' /\ PollInv'
    BY <1>8, <2>1 DEF Pace!Mark, Pace!timers
  <2> QED
    BY <2>2, PaceTypes
<1> QED
  BY <1>1, <1>2, <1>3, <1>4, <1>5, <1>6, <1>7, <1>8 DEF Pace!Next, Pace!StreamStep

LEMMA PaceFollows == PaceInv => Pace!RateKept /\ Pace!NoBurst /\ Pace!HeldForItsBudget
<1> SUFFICES ASSUME PaceInv PROVE Pace!RateKept /\ Pace!NoBurst /\ Pace!HeldForItsBudget
  OBVIOUS
<1> USE PaceConstants
    DEF PaceInv, Pace!TypeOK, ScheduleInv, BurstInv, Paced, Pace!Unpolled
<1>1. Pace!RateKept
  BY DEF Pace!RateKept
<1>2. Pace!NoBurst
  BY DEF Pace!NoBurst
<1>3. Pace!HeldForItsBudget
  BY DEF Pace!HeldForItsBudget
<1> QED
  BY <1>1, <1>2, <1>3

-----------------------------------------------------------------------------
(* Waits *)

LEMMA WaitConstants ==
    /\ Tries \in Nat \ {0} /\ Slice \in Nat \ {0}
    /\ InitialDelay \in Nat \ {0} /\ MaxDelay \in Nat /\ InitialDelay <= MaxDelay
    /\ InitialDelay % 5 = 0
    /\ MaxRetryAfter \in Nat
    /\ Factors \subseteq 80..120 /\ Seconds \subseteq Nat
    /\ NoHeader \notin Nat /\ Overlong \notin Nat /\ NoHeader # Overlong
BY PartsAssumption DEF Wait!DelaysAssumption, Wait!InputsAssumption

\* The powers the doubling can reach, one by one: the shift is capped at 20.
Positive == Nat \ {0}

LEMMA Powers == ASSUME NEW n \in 0..20 PROVE 2 ^ n \in Positive
<1>1. /\ 2 ^ 0 \in Positive /\ 2 ^ 1 \in Positive /\ 2 ^ 2 \in Positive
      /\ 2 ^ 3 \in Positive /\ 2 ^ 4 \in Positive /\ 2 ^ 5 \in Positive
      /\ 2 ^ 6 \in Positive /\ 2 ^ 7 \in Positive /\ 2 ^ 8 \in Positive
      /\ 2 ^ 9 \in Positive /\ 2 ^ 10 \in Positive /\ 2 ^ 11 \in Positive
      /\ 2 ^ 12 \in Positive /\ 2 ^ 13 \in Positive /\ 2 ^ 14 \in Positive
      /\ 2 ^ 15 \in Positive /\ 2 ^ 16 \in Positive /\ 2 ^ 17 \in Positive
      /\ 2 ^ 18 \in Positive /\ 2 ^ 19 \in Positive /\ 2 ^ 20 \in Positive
  BY DEF Positive
<1>2. \/ n = 0 \/ n = 1 \/ n = 2 \/ n = 3 \/ n = 4 \/ n = 5 \/ n = 6
      \/ n = 7 \/ n = 8 \/ n = 9 \/ n = 10 \/ n = 11 \/ n = 12 \/ n = 13
      \/ n = 14 \/ n = 15 \/ n = 16 \/ n = 17 \/ n = 18 \/ n = 19 \/ n = 20
  OBVIOUS
<1> QED
  BY <1>1, <1>2, Zenon

LEMMA JitteredBounds ==
    ASSUME NEW low \in Nat, low % 5 = 0, NEW high \in Nat, NEW base100 \in low..high,
           NEW factor \in 80..120
    PROVE  /\ (base100 * factor) \div 100 \in Nat
           /\ low * 80 <= ((base100 * factor) \div 100) * 100
           /\ ((base100 * factor) \div 100) * 100 <= high * 120
OBVIOUS

LEMMA BackoffBounds ==
    ASSUME NEW attempt \in Nat \ {0}, NEW factor \in Factors
    PROVE  /\ Wait!BackoffDelay(attempt, factor) \in Nat
           /\ InitialDelay * 80 <= Wait!BackoffDelay(attempt, factor) * 100
           /\ Wait!BackoffDelay(attempt, factor) * 100 <= MaxDelay * 120
<1> DEFINE n == Wait!Least(attempt - 1, 20)
           doubled == InitialDelay * 2 ^ n
           capped == Wait!Least(doubled, MaxDelay)
<1>1. n \in 0..20
  BY DEF Wait!Least
<1>2. 2 ^ n \in Positive
  BY <1>1, Powers
<1>3. ASSUME NEW p \in Positive
      PROVE  InitialDelay * p \in Nat /\ InitialDelay * p >= InitialDelay
  BY WaitConstants DEF Positive
<1>4. doubled \in Nat /\ doubled >= InitialDelay
  BY <1>2, <1>3, Zenon
<1> HIDE DEF n, doubled
<1>5. capped \in InitialDelay..MaxDelay
  BY <1>4, WaitConstants DEF Wait!Least
<1> HIDE DEF capped
<1>6. factor \in 80..120
  BY WaitConstants
<1>7. Wait!BackoffDelay(attempt, factor) = (capped * factor) \div 100
  BY DEF Wait!BackoffDelay, capped, doubled, n
<1> QED
  BY <1>5, <1>6, <1>7, JitteredBounds, WaitConstants

\* What a wait is to be, by what the failed answer said
DelayRight ==
    IF retryAfter = NoHeader
    THEN InitialDelay * 80 <= delay * 100 /\ delay * 100 <= MaxDelay * 120
    ELSE delay = IF retryAfter = Overlong THEN MaxRetryAfter
                 ELSE Wait!Least(retryAfter, MaxRetryAfter)

\* A wait that is not over yet is what was slept and what remains; it goes on
\* after a stop only if it had begun before.
WaitInv ==
    /\ Wait!TypeOK
    /\ waitStage \in {"request", "waiting"} => count <= Tries
    /\ waitStage = "request" => remaining = 0
    /\ waitStage = "waiting" \/ (waitStage = "request" /\ count > 0) =>
          slept + remaining = delay /\ DelayRight
    /\ waitStage = "waiting" /\ ~running => slept <= sleptAtStop
    /\ Wait!StopWithinSlice

LEMMA WaitInit == Wait!Init => WaitInv
<1> SUFFICES ASSUME Wait!Init PROVE WaitInv
  OBVIOUS
<1>1. running \in BOOLEAN
  BY DEF Wait!Init
<1>2. Wait!TypeOK
  BY <1>1, WaitConstants DEF Wait!Init, Wait!TypeOK
<1> QED
  BY <1>2, WaitConstants DEF Wait!Init, WaitInv, Wait!StopWithinSlice

LEMMA WaitStep == WaitInv /\ Wait!Next => WaitInv'
<1> SUFFICES ASSUME WaitInv, Wait!Next PROVE WaitInv'
  OBVIOUS
<1>0. /\ count \in Nat /\ delay \in Nat /\ remaining \in 0..delay
      /\ slept \in Nat /\ sleptAtStop \in Nat /\ Tries \in Nat /\ Slice \in Nat \ {0}
      /\ count \in 0..(Tries + 1)
      /\ retryAfter \in Seconds \cup {NoHeader, Overlong}
  BY WaitConstants DEF WaitInv, Wait!TypeOK
<1>1. ASSUME NEW value \in Seconds \cup {NoHeader, Overlong}, Wait!RequestFails(value)
      PROVE  WaitInv'
  <2>1. /\ waitStage = "request" /\ count <= Tries
        /\ count' = count + 1 /\ retryAfter' = value
        /\ running' = running /\ sleptAtStop' = sleptAtStop
    BY <1>1 DEF Wait!RequestFails, WaitInv
  <2>2. CASE count' > Tries
    <3>1. waitStage' = "given_up" /\ UNCHANGED <<delay, remaining, slept>>
      BY <1>1, <2>2 DEF Wait!RequestFails
    <3>2. running' \in BOOLEAN
      BY <2>1 DEF WaitInv, Wait!TypeOK
    <3>3. Wait!TypeOK'
      BY <1>0, <2>1, <3>1, <3>2 DEF Wait!TypeOK
    <3> QED
      BY <3>1, <3>3 DEF WaitInv, Wait!StopWithinSlice
  <2>3. CASE ~(count' > Tries)
    <3>1. PICK factor \in Factors :
             delay' = IF value = NoHeader THEN Wait!BackoffDelay(count', factor)
                      ELSE Wait!RetryAfter(value)
      BY <1>1, <2>3 DEF Wait!RequestFails
    <3>2. /\ remaining' = delay' /\ slept' = 0
          /\ waitStage' = IF running THEN "waiting" ELSE "stopped"
      BY <1>1, <2>3 DEF Wait!RequestFails
    <3>3. delay' \in Nat /\ DelayRight'
      <4>1. CASE value = NoHeader
        <5>1. count' \in Nat \ {0}
          BY <1>0, <2>1
        <5>2. delay' = Wait!BackoffDelay(count', factor)
          BY <3>1, <4>1
        <5> QED
          BY <2>1, <4>1, <5>1, <5>2, BackoffBounds DEF DelayRight
      <4>2. CASE value = Overlong
        BY <2>1, <3>1, <4>2, WaitConstants DEF DelayRight, Wait!RetryAfter
      <4>3. CASE value \in Seconds
        <5>1. value \in Nat /\ value # NoHeader /\ value # Overlong
          BY <4>3, WaitConstants
        <5>2. Wait!Least(value, MaxRetryAfter) \in Nat
          BY <5>1, WaitConstants DEF Wait!Least
        <5> QED
          BY <2>1, <3>1, <5>1, <5>2 DEF DelayRight, Wait!RetryAfter, Wait!Least
      <4> QED
        BY <1>1, <4>1, <4>2, <4>3
    <3>4. running' \in BOOLEAN
      BY <2>1 DEF WaitInv, Wait!TypeOK
    <3>5. waitStage' \in {"waiting", "stopped"}
      BY <3>2
    <3>6. count' \in 0..(Tries + 1) /\ count' <= Tries /\ remaining' \in 0..delay'
      BY <1>0, <2>1, <2>3, <3>2, <3>3
    <3>7. Wait!TypeOK'
      BY <1>0, <2>1, <3>2, <3>3, <3>4, <3>5, <3>6 DEF Wait!TypeOK
    <3>8. slept' + remaining' = delay'
      <4>1. delay' \in Nat
        BY <3>3
      <4>2. remaining' = delay' /\ slept' = 0
        BY <3>2
      <4>3. \A n \in Nat : 0 + n = n
        OBVIOUS
      <4> QED
        BY <4>1, <4>2, <4>3, Zenon
    <3>9. Wait!StopWithinSlice'
      BY <1>0, <2>1, <3>2 DEF Wait!StopWithinSlice
    <3>10. waitStage' = "waiting" => running'
      BY <2>1, <3>2
    <3> QED
      BY <3>3, <3>5, <3>6, <3>7, <3>8, <3>9, <3>10 DEF WaitInv
  <2> QED
    BY <2>2, <2>3
<1>2. CASE Wait!SleepSlice
  <2>1. /\ waitStage = "waiting" /\ remaining > 0
        /\ waitStage' = IF running THEN waitStage ELSE "stopped"
        /\ UNCHANGED <<count, retryAfter, delay, running, sleptAtStop>>
    BY <1>2 DEF Wait!SleepSlice
  <2>2. PICK slice \in 0..remaining :
           slice <= Slice /\ remaining' = remaining - slice /\ slept' = slept + slice
    <3>1. Wait!Least(remaining, Slice) \in 0..remaining /\ Wait!Least(remaining, Slice) <= Slice
      BY <1>0 DEF Wait!Least
    <3> QED
      BY <1>2, <3>1 DEF Wait!SleepSlice
  <2>3. remaining' \in 0..delay' /\ slept' \in Nat /\ slept' + remaining' = slept + remaining
    BY <1>0, <2>1, <2>2
  <2>4. running' \in BOOLEAN /\ waitStage' \in {"waiting", "stopped"}
    BY <2>1 DEF WaitInv, Wait!TypeOK
  <2>5. Wait!TypeOK'
    BY <1>0, <2>1, <2>3, <2>4 DEF Wait!TypeOK
  <2>6. DelayRight' <=> DelayRight
    BY <2>1 DEF DelayRight
  <2>7. Wait!StopWithinSlice'
    <3>1. ~running => slept <= sleptAtStop
      BY <2>1 DEF WaitInv
    <3>2. ~running => slept' <= sleptAtStop + Slice
      BY <1>0, <2>2, <3>1
    <3> QED
      BY <2>1, <3>2 DEF Wait!StopWithinSlice
  <2> QED
    BY <2>1, <2>3, <2>4, <2>5, <2>6, <2>7 DEF WaitInv
<1>3. CASE Wait!WaitOver
  <2>1. /\ waitStage = "waiting" /\ remaining = 0 /\ waitStage' = "request"
        /\ UNCHANGED <<count, retryAfter, delay, remaining, running, slept, sleptAtStop>>
    BY <1>3 DEF Wait!WaitOver
  <2>2. Wait!TypeOK'
    BY <2>1 DEF WaitInv, Wait!TypeOK
  <2> QED
    BY <2>1, <2>2 DEF WaitInv, DelayRight, Wait!StopWithinSlice
<1>4. CASE Wait!Stop
  <2>1. /\ running' = FALSE /\ sleptAtStop' = slept
        /\ UNCHANGED <<count, waitStage, retryAfter, delay, remaining, slept>>
    BY <1>4 DEF Wait!Stop
  <2>2. running' \in BOOLEAN
    BY <2>1
  <2>3. Wait!TypeOK'
    BY <1>0, <2>1, <2>2 DEF WaitInv, Wait!TypeOK
  <2>4. Wait!StopWithinSlice'
    BY <1>0, <2>1 DEF Wait!StopWithinSlice
  <2> QED
    BY <1>0, <2>1, <2>3, <2>4 DEF WaitInv, DelayRight
<1> QED
  BY <1>1, <1>2, <1>3, <1>4 DEF Wait!Next

LEMMA WaitFollows == WaitInv => Wait!RepeatedInTime
<1> SUFFICES ASSUME WaitInv, waitStage = "request", count > 0
             PROVE  slept = delay /\ DelayRight
  BY DEF Wait!RepeatedInTime, DelayRight
<1> QED
  BY DEF WaitInv, Wait!TypeOK

-----------------------------------------------------------------------------
(* Prefixes *)

\* What it is for a path to lie in another one: the two ways of saying it,
\* cookie_path_matches and its meaning, agree.
LEMMA PrefixFacts ==
    ASSUME NEW S, NEW a \in Seq(S), NEW b \in Seq(S)
    PROVE  /\ Hop!IsPrefix(a, a)
           /\ Hop!IsPrefix(a, b) <=> /\ Len(a) <= Len(b)
                                     /\ \A i \in 1..Len(a) : a[i] = b[i]
<1>1. Len(a) \in Nat /\ Len(b) \in Nat /\ SubSeq(a, 1, Len(a)) = a
  OBVIOUS
<1>2. ASSUME Len(a) <= Len(b)
      PROVE  a = SubSeq(b, 1, Len(a)) <=> \A i \in 1..Len(a) : a[i] = b[i]
  <2>1. /\ SubSeq(b, 1, Len(a)) \in Seq(S)
        /\ Len(SubSeq(b, 1, Len(a))) = Len(a)
        /\ \A i \in 1..Len(a) : SubSeq(b, 1, Len(a))[i] = b[i]
    BY <1>1, <1>2
  <2>2. a = SubSeq(b, 1, Len(a)) => \A i \in 1..Len(a) : a[i] = b[i]
    BY <2>1
  <2>3. ASSUME \A i \in 1..Len(a) : a[i] = b[i]
        PROVE  a = SubSeq(b, 1, Len(a))
    BY <1>1, <2>1, <2>3
  <2> QED
    BY <2>2, <2>3
<1> QED
  BY <1>1, <1>2 DEF Hop!IsPrefix

LEMMA PrefixTransitive ==
    ASSUME NEW S, NEW a \in Seq(S), NEW b \in Seq(S), NEW c \in Seq(S),
           Hop!IsPrefix(a, b), Hop!IsPrefix(b, c)
    PROVE  Hop!IsPrefix(a, c)
<1>1. Len(a) <= Len(b) /\ \A i \in 1..Len(a) : a[i] = b[i]
  BY PrefixFacts
<1>2. Len(b) <= Len(c) /\ \A i \in 1..Len(b) : b[i] = c[i]
  BY PrefixFacts
<1>3. Len(a) \in Nat /\ Len(b) \in Nat /\ Len(c) \in Nat
  OBVIOUS
<1>4. Len(a) <= Len(c) /\ \A i \in 1..Len(a) : i \in 1..Len(b) /\ a[i] = c[i]
  BY <1>1, <1>2, <1>3
<1> QED
  BY <1>4, PrefixFacts

LEMMA PathScope ==
    ASSUME NEW own \in Seq(STRING), NEW path \in Seq(STRING), own # <<>>
    PROVE  own \in Hop!Enclosing(path) <=>
              \/ path = own
              \/ /\ Hop!IsStrictPrefix(own, path)
                 /\ Hop!Last(own) = "/" \/ path[Len(own) + 1] = "/"
<1>1. Len(own) \in Nat \ {0} /\ Len(path) \in Nat
  OBVIOUS
<1>2. \A n \in 1..Len(path) : /\ SubSeq(path, 1, n) \in Seq(STRING)
                              /\ Len(SubSeq(path, 1, n)) = n
  OBVIOUS
<1>3. Hop!IsPrefix(own, path) <=> \E n \in 1..Len(path) : own = SubSeq(path, 1, n)
  <2>1. SubSeq(own, 1, Len(own)) = own
    OBVIOUS
  <2>2. ASSUME Hop!IsPrefix(own, path)
        PROVE  Len(own) \in 1..Len(path) /\ own = SubSeq(path, 1, Len(own))
    BY <1>1, <2>1, <2>2 DEF Hop!IsPrefix
  <2>3. ASSUME NEW n \in 1..Len(path), own = SubSeq(path, 1, n)
        PROVE  Hop!IsPrefix(own, path)
    <3>1. Len(own) = n
      BY <1>2, <2>3
    <3> QED
      BY <1>1, <2>1, <2>3, <3>1 DEF Hop!IsPrefix
  <2> QED
    BY <2>2, <2>3
<1>4. path = own => Hop!IsPrefix(own, path)
  BY PrefixFacts
<1>5. own \in Hop!Enclosing(path) <=>
         /\ \E n \in 1..Len(path) : own = SubSeq(path, 1, n)
         /\ own = path \/ Hop!Last(own) = "/" \/ path[Len(own) + 1] = "/"
  BY DEF Hop!Enclosing
<1> QED
  BY <1>3, <1>4, <1>5 DEF Hop!IsStrictPrefix

-----------------------------------------------------------------------------
(* Redirects *)

UrlOk(u) == u.host \in Seq(STRING) /\ u.path \in Seq(STRING) /\ u.https \in BOOLEAN

HopTypes ==
    /\ DOMAIN input.lines \subseteq Nat \ {0}
    /\ \A i \in DOMAIN input.lines : Hop!LineOk(input.lines[i])
    /\ UrlOk(origin) /\ UrlOk(url)
    /\ source \in {"none", "raw", "netscape"} /\ warned \in BOOLEAN
    /\ hopPlace \in {"load", "build", "asked", "answered", "failed", "over"}
    /\ hopTime \in 0..Clock /\ since \in 0..hopTime /\ running \in BOOLEAN
    /\ redirects \in 0..Hops /\ calls \in 1..Calls

\* Requests are counted along with the redirects; before a stop none is late.
CountInv ==
    /\ requests \in Nat /\ afterStop \in Nat
    /\ requests <= redirects + 1
    /\ hopPlace \in {"load", "build"} => requests <= redirects
    /\ running => afterStop = 0
    /\ afterStop <= requests

\* What was loaded, and that a warning stays true: it already held when the
\* hop under way began.
SourceInv ==
    /\ cookies = IF source = "netscape" THEN Hop!Encodable(input.lines) ELSE <<>>
    /\ hopPlace = "load" => source = "none" /\ ~warned /\ header = <<>>
    /\ warned => /\ source = "netscape"
                 /\ \A i \in DOMAIN cookies :
                       \/ Hop!Expired(cookies[i], since)
                       \/ ~Hop!DomainMatches(cookies[i], origin.host)

\* A cookie is for the place a request goes to, apart from its expiry.
Fits(cookie) ==
    /\ cookie.secure => url.https
    /\ Hop!DomainMatches(cookie, url.host)
    /\ Hop!PathMatches(cookie, url.path)

\* The header of the request under way: what fits it and had not expired
\* when it was sent, so at least what has not expired now.
HeaderInv ==
    /\ Hop!ToSet(header) \subseteq IF source = "raw" THEN {0} ELSE DOMAIN cookies
    /\ hopPlace = "asked" /\ source = "netscape" =>
          \A i \in DOMAIN cookies :
             /\ i \in Hop!ToSet(header) =>
                   Fits(cookies[i]) /\ ~Hop!Expired(cookies[i], since)
             /\ Fits(cookies[i]) /\ ~Hop!Expired(cookies[i], hopTime) =>
                   i \in Hop!ToSet(header)

HopInv == HopTypes /\ CountInv /\ SourceInv /\ HeaderInv

LEMMA HopConstants ==
    /\ Hops \in Nat /\ Clock \in Nat /\ Calls \in Nat \ {0}
    /\ \A target \in Targets : UrlOk(target)
BY PartsAssumption DEF Hop!InputsAssumption, UrlOk

\* What is in the source comes from the lines of the file.
LEMMA EntriesAreLines ==
    ASSUME HopInv, NEW i \in DOMAIN cookies
    PROVE  /\ source = "netscape" /\ i \in DOMAIN input.lines
           /\ cookies[i] = Hop!Entry(input.lines[i])
           /\ Hop!LineOk(input.lines[i])
           /\ Hop!IsCookie(input.lines[i]) /\ input.lines[i].encodable
<1>1. source = "netscape"
  BY DEF HopInv, SourceInv
<1>2. cookies = Hop!Encodable(input.lines)
  BY <1>1 DEF HopInv, SourceInv
<1> QED
  BY <1>1, <1>2 DEF Hop!Encodable, Hop!Parsed, HopInv, HopTypes

LEMMA HopInit == Hop!Init => HopInv
<1> SUFFICES ASSUME Hop!Init PROVE HopInv
  OBVIOUS
<1>1. \A i \in DOMAIN input.lines : Hop!LineOk(input.lines[i])
  BY PartsAssumption DEF Hop!Init, Hop!InputsAssumption
<1>2. UrlOk(origin) /\ UrlOk(url)
  BY PartsAssumption DEF Hop!Init, Hop!InputsAssumption, UrlOk
<1>3. warned \in BOOLEAN /\ running \in BOOLEAN
  BY DEF Hop!Init
<1>8. DOMAIN input.lines \subseteq Nat \ {0}
  <2>1. input.lines \in UNION {[1..n -> Lines] : n \in 0..MaxLines}
    BY DEF Hop!Init
  <2> QED
    BY <2>1
<1>4. HopTypes
  BY <1>8, <1>1, <1>2, <1>3, HopConstants DEF Hop!Init, HopTypes
<1>5. CountInv
  BY DEF Hop!Init, CountInv
<1>6. SourceInv
  BY DEF Hop!Init, SourceInv
<1>7. HeaderInv
  BY DEF Hop!Init, HeaderInv, Hop!ToSet
<1> QED
  BY <1>4, <1>5, <1>6, <1>7 DEF HopInv

\* Time only expires cookies.
LEMMA ExpiryIsKept ==
    ASSUME HopInv, NEW i \in DOMAIN cookies,
           NEW t1 \in Nat, NEW t2 \in Nat, t1 <= t2,
           Hop!Expired(cookies[i], t1)
    PROVE  Hop!Expired(cookies[i], t2)
<1>1. cookies[i] = Hop!Entry(input.lines[i])
  BY EntriesAreLines
<1>2. input.lines[i].expires \in Nat \cup {-1}
  BY EntriesAreLines DEF Hop!LineOk, Hop!Garbled
<1>3. cookies[i].expires = IF input.lines[i].expires = -1 THEN 0 ELSE input.lines[i].expires
  BY <1>1 DEF Hop!Entry, Hop!Garbled
<1>4. cookies[i].expires \in Nat
  BY <1>2, <1>3
<1> QED
  BY <1>4 DEF Hop!Expired

LEMMA HopTypesStep == HopTypes /\ Hop!Next => HopTypes'
<1> SUFFICES ASSUME HopTypes, Hop!Next PROVE HopTypes'
  OBVIOUS
<1> USE HopConstants DEF HopTypes
<1>1. CASE Hop!Load
  <2>1. /\ UNCHANGED <<input, origin, url, hopTime, running, redirects, calls>>
        /\ hopPlace' = "build" /\ since' = hopTime
    BY <1>1 DEF Hop!Load, Hop!callVars
  <2>2. source' \in {"none", "raw", "netscape"} /\ warned' \in BOOLEAN
    BY <1>1 DEF Hop!Load, Hop!LoadNothing, Hop!LoadRaw, Hop!LoadFile, Hop!Warns
  <2> QED
    BY <2>1, <2>2
<1>2. CASE \/ Hop!LoadFails \/ Hop!Request \/ Hop!Answer \/ Hop!RequestFails
           \/ Hop!LimitExceeded \/ Hop!StopSeen
  <2>1. UNCHANGED <<input, origin, url, source, warned, hopTime, since, running,
                    redirects, calls>>
    BY <1>2
    DEF Hop!LoadFails, Hop!Request, Hop!Answer, Hop!RequestFails,
        Hop!LimitExceeded, Hop!StopSeen, Hop!Ends, Hop!loadVars, Hop!callVars
  <2>2. hopPlace' \in {"asked", "answered", "failed", "over"}
    BY <1>2
    DEF Hop!LoadFails, Hop!Request, Hop!Answer, Hop!RequestFails,
        Hop!LimitExceeded, Hop!StopSeen, Hop!Ends
  <2> QED
    BY <2>1, <2>2
<1>3. CASE Hop!Redirect
  <2>1. /\ UNCHANGED <<input, origin, source, warned, hopTime, running, calls>>
        /\ url' \in Targets /\ hopPlace' = "build" /\ since' = hopTime
        /\ redirects < Hops /\ redirects' = redirects + 1
    BY <1>3 DEF Hop!Redirect, Hop!loadVars
  <2> QED
    BY <2>1
<1>4. CASE Hop!Again
  <2>1. /\ UNCHANGED <<input, origin, source, warned, hopTime, running>>
        /\ url' = origin /\ hopPlace' = "build" /\ since' = hopTime
        /\ redirects' = 0 /\ calls < Calls /\ calls' = calls + 1
    BY <1>4 DEF Hop!Again, Hop!loadVars
  <2> QED
    BY <2>1
<1>5. CASE Hop!Tick
  <2>1. /\ UNCHANGED <<input, origin, url, source, warned, since, running,
                       redirects, calls, hopPlace>>
        /\ hopTime < Clock /\ hopTime' = hopTime + 1
    BY <1>5 DEF Hop!Tick, Hop!loadVars, Hop!callVars
  <2> QED
    BY <2>1
<1>6. CASE Hop!Stop
  <2>1. UNCHANGED <<input, origin, url, source, warned, hopTime, since,
                    redirects, calls, hopPlace>>
    BY <1>6 DEF Hop!Stop, Hop!loadVars, Hop!callVars
  <2>2. running' \in BOOLEAN
    BY <1>6 DEF Hop!Stop
  <2> QED
    BY <2>1, <2>2
<1> QED
  BY <1>1, <1>2, <1>3, <1>4, <1>5, <1>6 DEF Hop!Next

LEMMA CountStep == HopTypes /\ CountInv /\ Hop!Next => CountInv'
<1> SUFFICES ASSUME HopTypes, CountInv, Hop!Next PROVE CountInv'
  OBVIOUS
<1>0. redirects \in Nat /\ requests \in Nat /\ afterStop \in Nat
  BY HopConstants DEF HopTypes, CountInv
<1>1. CASE Hop!Load
  BY <1>0, <1>1 DEF CountInv, Hop!Load, Hop!callVars
<1>2. CASE Hop!LoadFails \/ Hop!Answer \/ Hop!RequestFails \/ Hop!LimitExceeded \/ Hop!StopSeen
  BY <1>0, <1>2
  DEF CountInv, Hop!LoadFails, Hop!Answer, Hop!RequestFails, Hop!LimitExceeded,
      Hop!StopSeen, Hop!Ends, Hop!callVars
<1>3. CASE Hop!Request
  <2>1. /\ requests <= redirects /\ requests' = requests + 1 /\ hopPlace' = "asked"
        /\ running' = running /\ redirects' = redirects
        /\ afterStop' = IF running THEN 0 ELSE afterStop + 1
    BY <1>3 DEF CountInv, Hop!Request
  <2> QED
    BY <1>0, <2>1 DEF CountInv
<1>4. CASE Hop!Redirect
  BY <1>0, <1>4 DEF CountInv, Hop!Redirect
<1>5. CASE Hop!Again
  BY <1>0, <1>5 DEF CountInv, Hop!Again
<1>6. CASE Hop!Tick
  BY <1>0, <1>6 DEF CountInv, Hop!Tick, Hop!callVars
<1>7. CASE Hop!Stop
  BY <1>0, <1>7 DEF CountInv, Hop!Stop, Hop!callVars
<1> QED
  BY <1>1, <1>2, <1>3, <1>4, <1>5, <1>6, <1>7 DEF Hop!Next

LEMMA SourceStep == HopInv /\ Hop!Next => SourceInv'
<1> SUFFICES ASSUME HopInv, Hop!Next PROVE SourceInv'
  OBVIOUS
<1>0. hopTime \in Nat /\ since \in Nat /\ since <= hopTime
  BY HopConstants DEF HopInv, HopTypes
<1>1. CASE Hop!Load
  <2>1. /\ source = "none" /\ ~warned /\ cookies = <<>>
        /\ UNCHANGED <<input, origin, hopTime>> /\ hopPlace' = "build"
        /\ since' = hopTime
    BY <1>1 DEF Hop!Load, HopInv, SourceInv
  <2>2. CASE Hop!LoadNothing
    BY <2>1, <2>2 DEF Hop!LoadNothing, SourceInv
  <2>3. CASE Hop!LoadRaw
    BY <2>1, <2>3 DEF Hop!LoadRaw, SourceInv
  <2>4. CASE Hop!LoadFile
    <3>1. /\ source' = "netscape" /\ cookies' = Hop!Encodable(input.lines)
          /\ warned' = Hop!Warns(cookies')
      BY <2>4 DEF Hop!LoadFile
    <3>2. warned' => \A i \in DOMAIN cookies' :
                        \/ Hop!Expired(cookies'[i], since')
                        \/ ~Hop!DomainMatches(cookies'[i], origin.host)
      BY <2>1, <3>1 DEF Hop!Warns
    <3> QED
      BY <2>1, <3>1, <3>2 DEF SourceInv, Hop!Expired, Hop!DomainMatches, Hop!Encodable,
                              Hop!Parsed
  <2> QED
    BY <1>1, <2>2, <2>3, <2>4 DEF Hop!Load
<1>2. CASE \/ Hop!LoadFails \/ Hop!Request \/ Hop!Answer \/ Hop!RequestFails
           \/ Hop!Redirect \/ Hop!LimitExceeded \/ Hop!Again \/ Hop!StopSeen
           \/ Hop!Tick \/ Hop!Stop
  <2>1. UNCHANGED <<input, origin, source, cookies, warned>>
    BY <1>2
    DEF Hop!LoadFails, Hop!Request, Hop!Answer, Hop!RequestFails, Hop!Redirect,
        Hop!LimitExceeded, Hop!Again, Hop!StopSeen, Hop!Tick, Hop!Stop, Hop!Ends,
        Hop!loadVars
  <2>2. hopPlace' = "load" => hopPlace = "load" /\ header' = header
    BY <1>2
    DEF Hop!LoadFails, Hop!Request, Hop!Answer, Hop!RequestFails, Hop!Redirect,
        Hop!LimitExceeded, Hop!Again, Hop!StopSeen, Hop!Tick, Hop!Stop, Hop!Ends,
        Hop!callVars
  <2>3. since' = since \/ since' = hopTime
    BY <1>2
    DEF Hop!LoadFails, Hop!Request, Hop!Answer, Hop!RequestFails, Hop!Redirect,
        Hop!LimitExceeded, Hop!Again, Hop!StopSeen, Hop!Tick, Hop!Stop, Hop!Ends
  <2>4. ASSUME NEW i \in DOMAIN cookies, Hop!Expired(cookies[i], since)
        PROVE  Hop!Expired(cookies[i], since')
    BY <1>0, <2>3, <2>4, ExpiryIsKept
  <2> QED
    BY <2>1, <2>2, <2>4
    DEF HopInv, SourceInv, Hop!DomainMatches, Hop!Encodable, Hop!Parsed, Hop!Expired
<1> QED
  BY <1>1, <1>2 DEF Hop!Next

LEMMA HeaderStep == HopInv /\ Hop!Next => HeaderInv'
<1> SUFFICES ASSUME HopInv, Hop!Next PROVE HeaderInv'
  OBVIOUS
<1>0. hopTime \in Nat /\ since \in Nat /\ since <= hopTime
  BY HopConstants DEF HopInv, HopTypes
<1>1. CASE Hop!Load
  <2>1. header' = <<>> /\ hopPlace' = "build"
    BY <1>1 DEF Hop!Load, Hop!callVars, HopInv, SourceInv
  <2> QED
    BY <2>1 DEF HeaderInv, Hop!ToSet
<1>2. CASE Hop!Request
  <2>1. UNCHANGED <<input, origin, source, cookies, hopTime, url, since>>
    BY <1>2 DEF Hop!Request, Hop!loadVars
  <2>2. CASE source = "none"
    <3>1. header' = <<>>
      BY <1>2, <2>2 DEF Hop!Request, Hop!CookieHeader
    <3> QED
      BY <2>1, <2>2, <3>1 DEF HeaderInv, Hop!ToSet
  <2>3. CASE source = "raw"
    <3>1. header' = <<0>>
      BY <1>2, <2>3 DEF Hop!Request, Hop!CookieHeader
    <3> QED
      BY <2>1, <2>3, <3>1 DEF HeaderInv, Hop!ToSet
  <2>4. CASE source = "netscape"
    <3>1. Hop!ToSet(header') = {i \in DOMAIN cookies : Hop!Applies(cookies[i], url)}
      BY <1>2, <2>4 DEF Hop!Request, Hop!CookieHeader, Hop!Ordered
    <3>2. \A i \in DOMAIN cookies :
             Hop!Applies(cookies[i], url) <=> Fits(cookies[i]) /\ ~Hop!Expired(cookies[i], hopTime)
      BY DEF Hop!Applies, Fits
    <3>3. ASSUME NEW i \in DOMAIN cookies, Hop!Expired(cookies[i], since)
          PROVE  Hop!Expired(cookies[i], hopTime)
      BY <1>0, <3>3, ExpiryIsKept
    <3>4. \A i \in DOMAIN cookies : Fits(cookies[i])' <=> Fits(cookies[i])
      BY <2>1 DEF Fits, Hop!DomainMatches, Hop!PathMatches, Hop!EffectivePath
    <3> QED
      BY <2>1, <2>4, <3>1, <3>2, <3>3, <3>4 DEF HeaderInv, Hop!Expired, Hop!ToSet
  <2> QED
    BY <2>2, <2>3, <2>4 DEF HopInv, HopTypes
<1>3. CASE Hop!Tick
  <2>1. UNCHANGED <<source, cookies, hopPlace, header, url, since>> /\ hopTime' = hopTime + 1
    BY <1>3 DEF Hop!Tick, Hop!loadVars, Hop!callVars
  <2>2. ASSUME NEW i \in DOMAIN cookies, Hop!Expired(cookies[i], hopTime)
        PROVE  Hop!Expired(cookies[i], hopTime')
    BY <1>0, <2>1, <2>2, ExpiryIsKept
  <2> QED
    BY <2>1, <2>2
    DEF HopInv, HeaderInv, Hop!ToSet, Hop!Expired, Fits, Hop!DomainMatches,
        Hop!PathMatches, Hop!EffectivePath
<1>4. CASE Hop!Stop
  <2>1. UNCHANGED <<source, cookies, hopPlace, header, url, since, hopTime>>
    BY <1>4 DEF Hop!Stop, Hop!loadVars, Hop!callVars
  <2> QED
    BY <2>1
    DEF HopInv, HeaderInv, Hop!ToSet, Hop!Expired, Fits, Hop!DomainMatches,
        Hop!PathMatches, Hop!EffectivePath
<1>5. CASE \/ Hop!LoadFails \/ Hop!Answer \/ Hop!RequestFails \/ Hop!Redirect
           \/ Hop!LimitExceeded \/ Hop!Again \/ Hop!StopSeen
  <2>1. UNCHANGED <<source, cookies>> /\ hopPlace' # "asked"
    BY <1>5
    DEF Hop!LoadFails, Hop!Answer, Hop!RequestFails, Hop!Redirect,
        Hop!LimitExceeded, Hop!Again, Hop!StopSeen, Hop!Ends, Hop!loadVars
  <2>2. header' = header \/ header' = <<>>
    BY <1>5
    DEF Hop!LoadFails, Hop!Answer, Hop!RequestFails, Hop!Redirect,
        Hop!LimitExceeded, Hop!Again, Hop!StopSeen, Hop!Ends, Hop!callVars
  <2> QED
    BY <2>1, <2>2 DEF HopInv, HeaderInv, Hop!ToSet
<1> QED
  BY <1>1, <1>2, <1>3, <1>4, <1>5 DEF Hop!Next

LEMMA HopStep == HopInv /\ Hop!Next => HopInv'
<1> QED
  BY HopTypesStep, CountStep, SourceStep, HeaderStep DEF HopInv
\* The cookie of a line, and the line, tell the same of a host and a path.
LEMMA EntryScope ==
    ASSUME HopInv, NEW i \in DOMAIN cookies
    PROVE  /\ Hop!DomainMatches(cookies[i], url.host) <=>
                 /\ Hop!IsPrefix(Hop!ArchiveOrg, input.lines[i].domain)
                 /\ \/ url.host = input.lines[i].domain
                    \/ /\ input.lines[i].subdomains
                       /\ Hop!IsStrictPrefix(input.lines[i].domain, url.host)
           /\ Hop!PathMatches(cookies[i], url.path) =>
                 input.lines[i].path \in {<<>>} \cup Hop!Enclosing(url.path)
           /\ input.lines[i].path \in Hop!Enclosing(url.path) =>
                 Hop!PathMatches(cookies[i], url.path)
<1> DEFINE line == input.lines[i]
<1>1. cookies[i] = Hop!Entry(line)
  BY EntriesAreLines
<1>2. /\ cookies[i].domain = line.domain /\ cookies[i].subdomains = line.subdomains
      /\ cookies[i].path = line.path
  BY <1>1 DEF Hop!Entry
<1>3. line.path \in Seq(STRING) /\ url.path \in Seq(STRING)
  BY EntriesAreLines DEF Hop!LineOk, HopInv, HopTypes, UrlOk
<1>4. Hop!DomainMatches(cookies[i], url.host) <=>
         /\ Hop!IsPrefix(Hop!ArchiveOrg, line.domain)
         /\ \/ url.host = line.domain
            \/ line.subdomains /\ Hop!IsStrictPrefix(line.domain, url.host)
  BY <1>2 DEF Hop!DomainMatches
<1>5. line.path # <<>> =>
         (line.path \in Hop!Enclosing(url.path) <=> Hop!PathMatches(cookies[i], url.path))
  BY <1>2, <1>3, PathScope DEF Hop!PathMatches, Hop!EffectivePath
<1>6. <<>> \notin Hop!Enclosing(url.path)
  <2>1. \A n \in 1..Len(url.path) : Len(SubSeq(url.path, 1, n)) = n
    BY <1>3
  <2>2. \A n \in 1..Len(url.path) : SubSeq(url.path, 1, n) # <<>>
    BY <2>1
  <2> QED
    BY <2>2 DEF Hop!Enclosing
<1> QED
  BY <1>4, <1>5, <1>6

\* What a request under way carries
LEMMA CarriedFits ==
    ASSUME HopInv, NEW i \in Hop!Carried
    PROVE  /\ hopPlace = "asked" /\ i \in DOMAIN cookies
           /\ Fits(cookies[i]) /\ ~Hop!Expired(cookies[i], since)
<1>1. hopPlace = "asked" /\ i \in Hop!ToSet(header) /\ i # 0
  BY DEF Hop!Carried
<1>2. i \in DOMAIN cookies
  BY <1>1 DEF HopInv, HeaderInv
<1>3. source = "netscape"
  BY <1>2, EntriesAreLines
<1> QED
  BY <1>1, <1>2, <1>3 DEF HopInv, HeaderInv

LEMMA HopFollows ==
    HopInv => /\ Hop!CookiesInScope /\ Hop!StaleIsDropped
              /\ Hop!NothingForgotten /\ Hop!WarningIsKept /\ Hop!StopIsBounded
<1> SUFFICES ASSUME HopInv
             PROVE  /\ Hop!CookiesInScope /\ Hop!StaleIsDropped
                    /\ Hop!NothingForgotten /\ Hop!WarningIsKept /\ Hop!StopIsBounded
  OBVIOUS
<1>0. /\ url.host \in Seq(STRING) /\ url.path \in Seq(STRING)
      /\ hopTime \in Nat /\ since \in Nat
  BY HopConstants DEF HopInv, HopTypes, UrlOk
<1>1. Hop!CookiesInScope
  <2> SUFFICES ASSUME NEW i \in Hop!Carried
               PROVE  /\ Hop!IsPrefix(Hop!ArchiveOrg, url.host)
                      /\ IF input.lines[i].subdomains
                           THEN Hop!IsPrefix(input.lines[i].domain, url.host)
                           ELSE input.lines[i].domain = url.host
                      /\ input.lines[i].path \in {<<>>} \cup Hop!Enclosing(url.path)
                      /\ input.lines[i].secure => url.https
    BY DEF Hop!CookiesInScope, Hop!Line
  <2> DEFINE line == input.lines[i]
  <2>1. i \in DOMAIN cookies /\ Fits(cookies[i])
    BY CarriedFits
  <2>2. line.domain \in Seq(STRING)
    BY <2>1, EntriesAreLines DEF Hop!LineOk
  <2>3. /\ Hop!IsPrefix(Hop!ArchiveOrg, line.domain)
        /\ \/ url.host = line.domain
           \/ line.subdomains /\ Hop!IsStrictPrefix(line.domain, url.host)
    BY <2>1, EntryScope DEF Fits
  <2>4. Hop!IsPrefix(line.domain, url.host)
    BY <1>0, <2>2, <2>3, PrefixFacts DEF Hop!IsStrictPrefix
  <2>5. Hop!IsPrefix(Hop!ArchiveOrg, url.host)
    <3> DEFINE Text == STRING \cup {"org", "archive"}
    <3>1. Hop!ArchiveOrg \in Seq(Text)
      BY DEF Hop!ArchiveOrg
    <3>2. line.domain \in Seq(Text) /\ url.host \in Seq(Text)
      BY <1>0, <2>2
    <3> QED
      BY <2>3, <2>4, <3>1, <3>2, PrefixTransitive
  <2>6. line.path \in {<<>>} \cup Hop!Enclosing(url.path)
    BY <2>1, EntryScope DEF Fits
  <2>7. line.secure => url.https
    <3>1. cookies[i].secure = line.secure
      BY <2>1, EntriesAreLines DEF Hop!Entry
    <3> QED
      BY <2>1, <3>1 DEF Fits
  <2> QED
    BY <2>3, <2>4, <2>5, <2>6, <2>7
<1>2. Hop!StaleIsDropped
  <2> SUFFICES ASSUME NEW i \in Hop!Carried, input.lines[i].expires > 0
               PROVE  input.lines[i].expires > since
    BY DEF Hop!StaleIsDropped, Hop!Line
  <2>1. i \in DOMAIN cookies /\ ~Hop!Expired(cookies[i], since)
    BY CarriedFits
  <2>2. input.lines[i].expires \in Nat \cup {-1}
    BY <2>1, EntriesAreLines DEF Hop!LineOk, Hop!Garbled
  <2>3. input.lines[i].expires \in Nat /\ input.lines[i].expires # -1
    BY <2>2
  <2>5. cookies[i] = Hop!Entry(input.lines[i])
    BY <2>1, EntriesAreLines
  <2>4. cookies[i].expires = input.lines[i].expires
    BY <2>3, <2>5 DEF Hop!Entry, Hop!Garbled
  <2> QED
    BY <1>0, <2>1, <2>3, <2>4 DEF Hop!Expired
<1>3. Hop!NothingForgotten
  <2> SUFFICES ASSUME hopPlace = "asked", source = "netscape",
                      NEW i \in DOMAIN input.lines,
                      input.lines[i].mark # "#", input.lines[i].fields,
                      input.lines[i].encodable,
                      input.lines[i].expires > 0 => input.lines[i].expires > hopTime,
                      input.lines[i].domain = url.host,
                      Hop!IsPrefix(Hop!ArchiveOrg, url.host),
                      input.lines[i].path \in Hop!Enclosing(url.path),
                      input.lines[i].secure => url.https
               PROVE  i \in Hop!Carried
    BY DEF Hop!NothingForgotten, Hop!Line
  <2> DEFINE line == input.lines[i]
  <2>1. i \in DOMAIN cookies /\ cookies[i] = Hop!Entry(line)
    BY DEF HopInv, SourceInv, Hop!Encodable, Hop!Parsed, Hop!IsCookie
  <2>2. Hop!DomainMatches(cookies[i], url.host) /\ Hop!PathMatches(cookies[i], url.path)
    BY <2>1, EntryScope
  <2>3. cookies[i].secure => url.https
    BY <2>1 DEF Hop!Entry
  <2>4. line.expires \in Nat \cup {-1}
    BY <2>1, EntriesAreLines DEF Hop!LineOk, Hop!Garbled
  <2>5. cookies[i].expires = IF line.expires = -1 THEN 0 ELSE line.expires
    BY <2>1 DEF Hop!Entry, Hop!Garbled
  <2>6. ~Hop!Expired(cookies[i], hopTime)
    BY <1>0, <2>4, <2>5 DEF Hop!Expired
  <2>7. i \in Hop!ToSet(header)
    BY <2>1, <2>2, <2>3, <2>6 DEF HopInv, HeaderInv, Fits
  <2>8. i # 0
    <3>1. DOMAIN input.lines \subseteq Nat \ {0}
      BY DEF HopInv, HopTypes
    <3> QED
      BY <3>1
  <2> QED
    BY <2>7, <2>8 DEF Hop!Carried
<1>4. Hop!WarningIsKept
  <2> SUFFICES ASSUME warned, url.host = origin.host, NEW i \in Hop!Carried
               PROVE  FALSE
    BY DEF Hop!WarningIsKept
  <2>1. /\ i \in DOMAIN cookies /\ ~Hop!Expired(cookies[i], since)
        /\ Hop!DomainMatches(cookies[i], origin.host)
    BY CarriedFits DEF Fits
  <2> QED
    BY <2>1 DEF HopInv, SourceInv
<1>5. Hop!StopIsBounded
  <2>1. redirects \in 0..Hops /\ Hops \in Nat
    BY HopConstants DEF HopInv, HopTypes
  <2> QED
    BY <2>1 DEF HopInv, CountInv, Hop!StopIsBounded
<1> QED
  BY <1>1, <1>2, <1>3, <1>4, <1>5

LEMMA HopTypesFollow == HopInv => Hop!TypeOK
<1> SUFFICES ASSUME HopInv PROVE Hop!TypeOK
  OBVIOUS
<1>1. DOMAIN cookies \subseteq DOMAIN input.lines
  BY EntriesAreLines
<1>2. Hop!ToSet(header) \subseteq IF source = "raw" THEN {0} ELSE DOMAIN cookies
  BY DEF HopInv, HeaderInv
<1> QED
  BY <1>1, <1>2 DEF HopInv, HopTypes, Hop!TypeOK

-----------------------------------------------------------------------------
(* The parts side by side *)

PartsInv ==
    /\ focus \in {"transfer", "hops", "pace", "waits"}
    /\ IF focus = "transfer" THEN IInv ELSE TransferOver
    /\ focus = "hops"  => HopInv
    /\ focus = "pace"  => PaceInv
    /\ focus = "waits" => WaitInv

LEMMA PartsStart == PartsInit => PartsInv
<1> QED
  BY InitEstablishes, HopInit, PaceInit, WaitInit DEF PartsInit, PartsInv

LEMMA PartsStutter == PartsInv /\ UNCHANGED allVars => PartsInv'
<1> SUFFICES ASSUME PartsInv, UNCHANGED allVars PROVE PartsInv'
  OBVIOUS
<1>1. UNCHANGED <<focus, callVars, hopVars, paceVars, waitVars>>
  BY DEF allVars
<1>2. UNCHANGED running
  BY <1>1 DEF callVars, envVars
<1>3. CASE focus = "transfer"
  BY <1>1, <1>3, StepPreserves DEF PartsInv
<1>4. focus # "transfer" => TransferOver'
  BY <1>1 DEF callVars, envVars, transferVars, TransferOver, PartsInv
<1>5. CASE focus = "hops"
  <2>1. HopTypes' /\ CountInv'
    BY <1>1, <1>2, <1>5 DEF hopVars, PartsInv, HopInv, HopTypes, CountInv, Hop!LineOk, UrlOk
  <2>2. SourceInv'
    BY <1>1, <1>5
    DEF hopVars, PartsInv, HopInv, SourceInv, Hop!DomainMatches, Hop!Encodable,
        Hop!Parsed, Hop!Expired
  <2>3. HeaderInv'
    BY <1>1, <1>5
    DEF hopVars, PartsInv, HopInv, HeaderInv, Hop!ToSet, Hop!Expired, Fits,
        Hop!DomainMatches, Hop!PathMatches, Hop!EffectivePath
  <2> QED
    BY <1>1, <1>4, <1>5, <2>1, <2>2, <2>3 DEF PartsInv, HopInv
<1>6. CASE focus = "pace"
  <2>1. PaceInv'
    BY <1>1, <1>2, <1>6
    DEF paceVars, PartsInv, PaceInv, Pace!TypeOK, ScheduleInv, BurstInv, PollInv,
        Paced, Pace!StopIsSoon, Pace!Unpolled
  <2> QED
    BY <1>1, <1>4, <1>6, <2>1 DEF PartsInv
<1>7. CASE focus = "waits"
  <2>1. WaitInv'
    BY <1>1, <1>2, <1>7
    DEF waitVars, PartsInv, WaitInv, DelayRight, Wait!TypeOK, Wait!StopWithinSlice
  <2> QED
    BY <1>1, <1>4, <1>7, <2>1 DEF PartsInv
<1> QED
  BY <1>3, <1>5, <1>6, <1>7 DEF PartsInv

LEMMA PartsStep == PartsInv /\ [PartsNext]_allVars => PartsInv'
<1> SUFFICES ASSUME PartsInv, [PartsNext]_allVars PROVE PartsInv'
  OBVIOUS
<1>0. UNCHANGED streamVars => (TransferOver' <=> TransferOver)
  BY DEF streamVars, transferVars, TransferOver
<1>1. CASE TransferMoves(TransferNext)
  BY <1>1, StepPreserves DEF TransferMoves, PartsInv
<1>2. CASE HopMoves
  BY <1>0, <1>2, HopStep DEF HopMoves, PartsInv
<1>3. CASE PaceMoves
  BY <1>0, <1>3, PaceStep DEF PaceMoves, PartsInv
<1>4. CASE WaitMoves(Wait!Next)
  BY <1>0, <1>4, WaitStep DEF WaitMoves, PartsInv
<1>5. CASE UNCHANGED allVars
  BY <1>5, PartsStutter
<1> QED
  BY <1>1, <1>2, <1>3, <1>4, <1>5 DEF PartsNext

LEMMA PartsInvariance == PartsSpec => []PartsInv
<1> QED
  BY PartsStart, PartsStep, PTL DEF PartsSpec

-----------------------------------------------------------------------------
(* The theorems *)

\* The variables of the moving part keep their types.
THEOREM PartsTypeCorrect == PartsSpec => []TransferPartsTypeOK
<1>1. PartsInv => TransferPartsTypeOK
  <2> SUFFICES ASSUME PartsInv PROVE TransferPartsTypeOK
    OBVIOUS
  <2>1. CASE focus = "transfer"
    BY <2>1 DEF PartsInv, TransferPartsTypeOK, IInv, CallInv
  <2>2. CASE focus # "transfer"
    <3>1. running \in BOOLEAN
      BY <2>2
      DEF PartsInv, HopInv, HopTypes, PaceInv, Pace!TypeOK, WaitInv, Wait!TypeOK
    <3>2. TransferOver
      BY <2>2 DEF PartsInv
    <3>3. task \in Tasks /\ part \in Seq(BOOLEAN)
      BY <3>2, SizesAssumption DEF TransferOver, Tasks
    <3>4. TransferTypeOK
      <4>1. retries \in 0..(MaxRetries + 1)
        BY <3>2, RetriesAssumption DEF TransferOver
      <4> QED
        BY <3>1, <3>2, <3>3, <4>1 DEF TransferOver, TransferTypeOK, Stages, Results
    <3> QED
      BY <2>2, <3>4, HopTypesFollow DEF PartsInv, TransferPartsTypeOK, PaceInv, WaitInv
  <2> QED
    BY <2>1, <2>2
<1> QED
  BY <1>1, PartsInvariance, PTL

\* No hop of a chain of redirects (send_following_redirects) carries a cookie of
\* another site, host, path or scheme, or one that had expired when it was sent;
\* none that applies is left out (cookie_header_for), and the warning of
\* cookie_source is true of the host asked for.
THEOREM CookiesScoped == PartsSpec => []CookiesAreRight
<1>1. PartsInv => CookiesAreRight
  BY HopFollows DEF PartsInv, CookiesAreRight
<1> QED
  BY <1>1, PartsInvariance, PTL

\* RateLimiter::pace keeps the rate from any moment on, whatever the chunks
\* and however late the timers, and holds no chunk longer than its budget.
THEOREM RateRight == PartsSpec => []RateIsRight
<1>1. PartsInv => RateIsRight
  BY PaceFollows DEF PartsInv, RateIsRight
<1> QED
  BY <1>1, PartsInvariance, PTL

\* Between two requests passes what backoff_delay or the Retry-After says.
THEOREM WaitsRight == PartsSpec => []RepeatedInTime
<1>1. PartsInv => RepeatedInTime
  BY WaitFollows DEF PartsInv, RepeatedInTime
<1> QED
  BY <1>1, PartsInvariance, PTL

\* After Ctrl+C a chain of redirects sends no more requests than its limit
\* allows, a body stops at the next poll or chunk, and a wait at the next slice.
THEOREM StopsSoon == PartsSpec => []StopIsSoon
<1>1. PartsInv => StopIsSoon
  BY HopFollows DEF PartsInv, StopIsSoon, PaceInv, PollInv, WaitInv
<1> QED
  BY <1>1, PartsInvariance, PTL

=============================================================================
