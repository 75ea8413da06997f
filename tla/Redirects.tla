----------------------------- MODULE Redirects -----------------------------
(***************************************************************************)
(* The session's cookies (src/src/cookie.rs) and the one place that sends  *)
(* a request: send_following_redirects (src/src/downloader/stream.rs),     *)
(* which follows redirects by hand and scopes the cookies anew at every    *)
(* hop, while the clock runs and the stop flag may be cleared.             *)
(*                                                                         *)
(* A host is its labels, the last one first: <<"org", "archive", "www">>.  *)
(* A path is a sequence of "/" and pieces of text. What a server answers   *)
(* apart from its redirects is Transfer's matter.                          *)
(***************************************************************************)
EXTENDS Integers, FiniteSets, SequencesExt

CONSTANTS
    CookieFiles,    \* what a cookies.txt may hold: sequences of lines
    Origins,        \* the URLs the program asks for
    Targets,        \* where a redirect may lead: [host, path, https]
    MaxRedirects,   \* MAX_REDIRECTS
    MaxCalls,       \* bound: calls of send_following_redirects
    MaxTime         \* bound: how long the clock is looked at

ArchiveOrg == <<"org", "archive">>
Garbled == -1     \* an expiry that is no number

\* A line of a cookies.txt: what it starts with, its fields, and whether name
\* and value can stand in an HTTP header.
LineOk(line) ==
    /\ line.mark \in {"", "#HttpOnly_", "#"}
    /\ line.fields \in BOOLEAN     \* whether it has all seven of them
    /\ line.domain \in Seq(STRING) /\ line.path \in Seq(STRING)
    /\ line.subdomains \in BOOLEAN /\ line.secure \in BOOLEAN
    /\ line.expires \in Nat \cup {Garbled}
    /\ line.encodable \in BOOLEAN

\* What is assumed of the constants
InputsAssumption ==
    /\ \A file \in CookieFiles : \A i \in DOMAIN file : LineOk(file[i])
    /\ \A target \in Origins \cup Targets :
          /\ target.host \in Seq(STRING) /\ target.path \in Seq(STRING)
          /\ target.https \in BOOLEAN
    /\ {MaxRedirects, MaxTime} \subseteq Nat /\ MaxCalls \in Nat \ {0}

VARIABLES
    input,       \* the --cookies option: [kind, lines]
    origin,      \* the URL asked for
    source,      \* the CookieSource: "none", "raw" or "netscape"
    cookies,     \* its entries: line numbers, and what was read from the line
    warned,      \* "No applicable cookies" was printed
    now,         \* the clock, in seconds
    running,     \* the stop flag
    where,       \* "load", "build", "asked", "answered", "failed" or "over"
    url,         \* the URL of the current hop
    redirects,   \* redirects followed in this call
    header,      \* the request's cookies: line numbers in order, 0 for a raw one
    calls,       \* calls begun
    since,       \* history: when the hop before ended, or the call began
    requests,    \* history: requests of this call
    afterStop    \* history: requests sent after the flag was cleared

loadVars == <<input, origin, source, cookies, warned>>
callVars == <<url, redirects, header, calls, requests>>
vars == <<loadVars, now, running, where, callVars, since, afterStop>>

\* What --cookies may name: nothing; text that is no file; a file with an "=" in
\* its name, or without one; a file that cannot be read or is too large.
InputKinds == {"absent", "text", "file=", "file", "unreadable"}

-----------------------------------------------------------------------------
(* Loading: cookie_source, once per session *)

\* Mutant: a line that starts with "#" is a comment.
IsCookieUnmarked(line) == line.mark = "" /\ line.fields

\* parse_netscape_cookie
IsCookie(line) == line.mark # "#" /\ line.fields

Parsed(file) == {i \in DOMAIN file : IsCookie(file[i])}

\* filter_encodable drops an entry and keeps the others.
Entry(line) ==
    [domain |-> line.domain, subdomains |-> line.subdomains, path |-> line.path,
     secure |-> line.secure, expires |-> IF line.expires = Garbled THEN 0 ELSE line.expires]
Encodable(file) ==
    LET kept == {i \in Parsed(file) : file[i].encodable}
    IN  [i \in kept |-> Entry(file[i])]

\* Expiry 0 is none: a session cookie.
Expired(cookie, time) == cookie.expires # 0 /\ cookie.expires <= time

DomainMatches(cookie, host) ==
    /\ IsPrefix(ArchiveOrg, cookie.domain)
    /\ host = cookie.domain \/ (cookie.subdomains /\ IsStrictPrefix(cookie.domain, host))

\* Mutant: one entry that cannot apply is enough for the warning.
WarnsOfOne(entries) ==
    \E i \in DOMAIN entries : Expired(entries[i], now) \/ ~DomainMatches(entries[i], origin.host)

Warns(entries) ==
    \A i \in DOMAIN entries : Expired(entries[i], now) \/ ~DomainMatches(entries[i], origin.host)

\* A file is one if a line of it is a cookie, or its name cannot be a raw pair.
NamesCookieFile == \/ input.kind = "file"
                   \/ input.kind = "file=" /\ Parsed(input.lines) # {}

LoadNothing == input.kind = "absent" /\ UNCHANGED <<source, cookies, warned>>

LoadRaw ==
    /\ input.kind \in {"text", "file="} /\ ~NamesCookieFile
    /\ source' = "raw"
    /\ UNCHANGED <<cookies, warned>>

LoadFile ==
    /\ NamesCookieFile
    /\ source' = "netscape"
    /\ cookies' = Encodable(input.lines)
    /\ warned' = Warns(Encodable(input.lines))

Load ==
    /\ where = "load"
    /\ LoadNothing \/ LoadRaw \/ LoadFile
    /\ where' = "build"
    /\ since' = now
    /\ UNCHANGED <<input, origin, now, running, callVars, afterStop>>

\* A file that cannot be read, or text that can be no header, ends the session
\* before any request.
LoadFails ==
    /\ where = "load" /\ input.kind = "unreadable"
    /\ where' = "over"
    /\ UNCHANGED <<loadVars, now, running, callVars, since, afterStop>>

-----------------------------------------------------------------------------
(* A request: cookie_header_for, then send *)

EffectivePath(cookie) == IF cookie.path = <<>> THEN <<"/">> ELSE cookie.path

\* Mutant: the cookie's path is any prefix of the request's.
PathMatchesPrefix(cookie, path) == IsPrefix(EffectivePath(cookie), path)

\* cookie_path_matches
PathMatches(cookie, path) ==
    LET own == EffectivePath(cookie)
    IN  \/ path = own
        \/ /\ IsStrictPrefix(own, path)
           /\ Last(own) = "/" \/ path[Len(own) + 1] = "/"

Applies(cookie, target) ==
    /\ ~Expired(cookie, now)
    /\ cookie.secure => target.https
    /\ DomainMatches(cookie, target.host)
    /\ PathMatches(cookie, target.path)

\* Longest path first; ties keep the file's order.
Leads(i, j) ==
    LET length(k) == Len(cookies[k].path)
    IN  length(i) > length(j) \/ (length(i) = length(j) /\ i < j)

\* A set of lines in that order (one sequence)
Ordered(lines) ==
    {h \in [1..Cardinality(lines) -> lines] :
        /\ ToSet(h) = lines
        /\ \A i, j \in DOMAIN h : i < j => Leads(h[i], h[j])}

\* The header, as the one element of a set
CookieHeader(target) ==
    CASE source = "none" -> {<<>>}
      [] source = "raw"  -> {<<0>>}
      [] OTHER -> Ordered({i \in DOMAIN cookies : Applies(cookies[i], target)})

\* Mutant: the header of the first hop is kept for the whole chain.
RequestKeepsHeader ==
    /\ where = "build"
    /\ header' \in IF redirects = 0 THEN CookieHeader(url) ELSE {header}
    /\ where' = "asked"
    /\ requests' = requests + 1
    /\ afterStop' = IF running THEN 0 ELSE afterStop + 1
    /\ UNCHANGED <<loadVars, now, running, url, redirects, calls, since>>

\* One turn of the hop loop up to the answer; the flag is not looked at.
Request ==
    /\ where = "build"
    /\ header' \in CookieHeader(url)
    /\ where' = "asked"
    /\ requests' = requests + 1
    /\ afterStop' = IF running THEN 0 ELSE afterStop + 1
    /\ UNCHANGED <<loadVars, now, running, url, redirects, calls, since>>

Ends(place) ==
    /\ where' = place
    /\ UNCHANGED <<loadVars, now, running, callVars, since, afterStop>>

\* No redirect: the response is the caller's.
Answer == where = "asked" /\ Ends("answered")

\* The connection fails, or the answer is a redirect without a usable Location,
\* or to something that is no URL.
RequestFails == where = "asked" /\ Ends("failed")

\* Mutant: the limit is compared before the redirect is counted.
RedirectLate ==
    /\ where = "asked" /\ redirects <= MaxRedirects
    /\ \E target \in Targets : url' = target
    /\ redirects' = redirects + 1
    /\ where' = "build"
    /\ since' = now
    /\ UNCHANGED <<loadVars, now, running, header, calls, requests, afterStop>>

Redirect ==
    /\ where = "asked" /\ redirects < MaxRedirects
    /\ \E target \in Targets : url' = target
    /\ redirects' = redirects + 1
    /\ where' = "build"
    /\ since' = now
    /\ UNCHANGED <<loadVars, now, running, header, calls, requests, afterStop>>

\* One redirect too many fails the call.
LimitExceeded == where = "asked" /\ redirects = MaxRedirects /\ Ends("failed")

-----------------------------------------------------------------------------
(* Around the call *)

\* RetryTracker::record looks at the flag before another call; so does the next
\* file of the batch.
Again ==
    /\ where \in {"answered", "failed"} /\ running /\ calls < MaxCalls
    /\ where' = "build"
    /\ url' = origin
    /\ redirects' = 0 /\ requests' = 0 /\ header' = <<>>
    /\ calls' = calls + 1
    /\ since' = now
    /\ UNCHANGED <<loadVars, now, running, afterStop>>

StopSeen == where \in {"answered", "failed"} /\ ~running /\ Ends("over")

Tick ==
    /\ now < MaxTime /\ where \notin {"load", "over"}
    /\ now' = now + 1
    /\ UNCHANGED <<loadVars, running, where, callVars, since, afterStop>>

Stop ==
    /\ running /\ where # "over"
    /\ running' = FALSE
    /\ UNCHANGED <<loadVars, now, where, callVars, since, afterStop>>

Init ==
    /\ input \in [kind : InputKinds, lines : CookieFiles]
    /\ input.kind \in {"absent", "text", "unreadable"} => input.lines = <<>>
    /\ origin \in Origins
    /\ source = "none" /\ cookies = <<>> /\ warned = FALSE
    /\ now \in 0..MaxTime   \* a cookie may have expired before the run
    /\ running = TRUE
    /\ where = "load"
    /\ url = origin /\ redirects = 0 /\ header = <<>> /\ calls = 1
    /\ since = 0 /\ requests = 0 /\ afterStop = 0

Next == \/ Load \/ LoadFails
        \/ Request \/ Answer \/ RequestFails \/ Redirect \/ LimitExceeded
        \/ Again \/ StopSeen
        \/ Tick \/ Stop

Spec == Init /\ [][Next]_vars

-----------------------------------------------------------------------------
(* Correctness *)

\* Type correctness
TypeOK ==
    /\ source \in {"none", "raw", "netscape"} /\ warned \in BOOLEAN
    /\ where \in {"load", "build", "asked", "answered", "failed", "over"}
    /\ now \in 0..MaxTime /\ since \in 0..now /\ running \in BOOLEAN
    /\ DOMAIN cookies \subseteq DOMAIN input.lines
    /\ ToSet(header) \subseteq IF source = "raw" THEN {0} ELSE DOMAIN cookies
    /\ redirects \in 0..MaxRedirects /\ calls \in 1..MaxCalls

Carried == IF where = "asked" THEN ToSet(header) \ {0} ELSE {}
Line(i) == input.lines[i]

\* The directories a path lies in, and the path itself
Enclosing(path) ==
    {q \in {SubSeq(path, 1, n) : n \in 1..Len(path)} :
        q = path \/ Last(q) = "/" \/ path[Len(q) + 1] = "/"}

\* No hop carries a cookie of another site, of a host that is not the cookie's
\* own or below it, or of another part of the site; and none in clear text that
\* is for https only (cookie.rs, comment on CookieSource; stream.rs, comment on
\* send_following_redirects: nothing leaks to a foreign host).
CookiesInScope ==
    \A i \in Carried :
        /\ IsPrefix(ArchiveOrg, url.host)
        /\ IF Line(i).subdomains THEN IsPrefix(Line(i).domain, url.host)
                                 ELSE Line(i).domain = url.host
        /\ Line(i).path \in {<<>>} \cup Enclosing(url.path)
        /\ Line(i).secure => url.https

\* A cookie that had expired when the hop before was answered is not sent again,
\* however long the chain of redirects takes (stream.rs, comment in
\* download_file_content).
StaleIsDropped ==
    \A i \in Carried : Line(i).expires > 0 => Line(i).expires > since

\* What the file says of a host, a path and a time is in every request to them:
\* a bad line costs only itself, and a #HttpOnly_ line counts.
NothingForgotten ==
    where = "asked" /\ source = "netscape" =>
        \A i \in DOMAIN input.lines :
            /\ Line(i).mark # "#" /\ Line(i).fields /\ Line(i).encodable
            /\ Line(i).expires > 0 => Line(i).expires > now
            /\ Line(i).domain = url.host /\ IsPrefix(ArchiveOrg, url.host)
            /\ Line(i).path \in Enclosing(url.path)
            /\ Line(i).secure => url.https
            => i \in Carried

\* After a warning no request to the host asked for carries a cookie of the
\* file, at any later time; a redirect may lead to another host.
WarningIsKept == warned /\ url.host = origin.host => Carried = {}

\* A call makes at most one request more than it follows redirects, so that many
\* requests at most are sent after a stop.
StopIsBounded ==
    /\ requests <= MaxRedirects + 1
    /\ afterStop <= MaxRedirects + 1
=============================================================================
