------------------------------ MODULE FileUrl ------------------------------
(***************************************************************************)
(* File names in URLs (src/src/archive_metadata.rs): encode_download_path, *)
(* which makes a name from the metadata a reference that is requested, and *)
(* parse_archive_url with percent_decode, which makes the path of a        *)
(* single-file URL a name to look for in the metadata.                     *)
(*                                                                         *)
(* Bytes are those of an encoding as small as possible: four hex digits    *)
(* instead of sixteen, so a byte is below 16 and an escape is '%' and two  *)
(* digits. Characters are one byte, or two (Lead, Cont).                   *)
(***************************************************************************)
EXTENDS Integers, Sequences

CONSTANTS
    RawPaths,   \* what a user may write after "/download/<id>/"
    FileNames   \* names in the metadata, as sequences of segments

Digits == 0..3
Pct    == 4
Slash  == 5
Period == 6
Plus   == 7
Query  == 8     \* '?' or '#'
Lead   == 9
Cont   == 10
Plain  == 11
Bytes  == 0..15

\* from_utf8: no stray and no missing continuation byte
IsUtf8(s) ==
    \A n \in DOMAIN s :
        /\ s[n] <= Plain
        /\ s[n] = Lead => n < Len(s) /\ s[n + 1] = Cont
        /\ s[n] = Cont => n > 1 /\ s[n - 1] = Lead

\* What is assumed of the constants
InputsAssumption ==
    /\ \A path \in RawPaths : path \in Seq(Bytes)
    /\ \A segments \in FileNames :
           /\ segments \in Seq(Seq(Bytes \ {Slash})) /\ segments # <<>>
           /\ \A n \in DOMAIN segments : IsUtf8(segments[n])

VARIABLES
    name,      \* the metadata's name the path was made of, or <<>>
    raw,       \* the URL after "/download/<id>/"
    stage,     \* "url", "decode", or the answer: "item", "file", "refused"; or "panic"
    i,         \* percent_decode: bytes behind
    out        \* percent_decode: what they decode to; then the file_path

vars == <<name, raw, stage, i, out>>

-----------------------------------------------------------------------------
(* encode_download_path *)

Unreserved == Digits \cup {Period, Plain}

Escape(byte) ==
    IF byte \in Unreserved THEN <<byte>> ELSE <<Pct, byte \div 4, byte % 4>>

EncodeSegment(segment) ==
    LET code[n \in 0..Len(segment)] ==
          IF n = 0 THEN <<>> ELSE code[n - 1] \o Escape(segment[n])
    IN  code[Len(segment)]

IsDotSegment(segment) == segment \in {<<Period>>, <<Period, Period>>}

\* Mutant: every segment but the first listed is preceded by a slash.
JoinAlways(path, segment) ==
    IF IsDotSegment(segment) THEN path ELSE path \o <<Slash>> \o EncodeSegment(segment)

\* Period segments are dropped; a slash only follows something.
JoinSegment(path, segment) ==
    IF IsDotSegment(segment) THEN path
    ELSE (IF path = <<>> THEN path ELSE Append(path, Slash)) \o EncodeSegment(segment)

EncodePath(segments) ==
    LET path[n \in 0..Len(segments)] ==
          IF n = 0 THEN <<>> ELSE JoinSegment(path[n - 1], segments[n])
    IN  path[Len(segments)]

-----------------------------------------------------------------------------
(* parse_archive_url and percent_decode *)

\* The name with its slashes
Joined(segments) ==
    LET path[n \in 0..Len(segments)] ==
          IF n = 0 THEN <<>>
          ELSE (IF n = 1 THEN <<>> ELSE Append(path[n - 1], Slash)) \o segments[n]
    IN  path[Len(segments)]

Trimmed(s) ==
    LET kept == {n \in DOMAIN s : s[n] # Slash}
    IN  {SubSeq(s, first, last) :
            first \in {n \in kept : \A k \in kept : n <= k},
            last  \in {n \in kept : \A k \in kept : n >= k}}

\* Query and fragment are cut off; with nothing left the URL names the item.
CutQuery ==
    /\ stage = "url"
    /\ raw' = LET cut == {n \in DOMAIN raw : raw[n] = Query}
              IN  IF cut = {} THEN raw
                  ELSE SubSeq(raw, 1, (CHOOSE n \in cut : \A k \in cut : n <= k) - 1)
    /\ stage' = IF raw' = <<>> THEN "item" ELSE "decode"
    /\ UNCHANGED <<name, i, out>>

Decoding == stage = "decode" /\ i < Len(raw)
AtPct    == raw[i + 1] = Pct /\ i + 3 <= Len(raw)

\* The two bytes after '%' are cut out of a string: not in a character.
OffBoundary == AtPct /\ i + 3 < Len(raw) /\ raw[i + 4] = Cont

\* Mutant: an escape that ends the path is overlooked.
IsEscapeInside == AtPct /\ i + 3 < Len(raw) /\ raw[i + 2] \in Digits /\ raw[i + 3] \in Digits

\* u8::from_str_radix takes two digits, or a plus sign and one.
IsEscape ==
    /\ AtPct /\ ~OffBoundary
    /\ raw[i + 2] \in Digits \cup {Plus} /\ raw[i + 3] \in Digits

EscapedByte ==
    (IF raw[i + 2] = Plus THEN 0 ELSE 4 * raw[i + 2]) + raw[i + 3]

DecodeEscape ==
    /\ Decoding /\ IsEscape
    /\ out' = Append(out, EscapedByte)
    /\ i' = i + 3
    /\ UNCHANGED <<name, raw, stage>>

DecodeByte ==
    /\ Decoding /\ ~OffBoundary /\ ~IsEscape
    /\ out' = Append(out, raw[i + 1])
    /\ i' = i + 1
    /\ UNCHANGED <<name, raw, stage>>

DecodePanics ==
    /\ Decoding /\ OffBoundary
    /\ stage' = "panic"
    /\ UNCHANGED <<name, raw, i, out>>

\* Not UTF-8, or nothing but slashes: refused.
RefusePath ==
    /\ stage = "decode" /\ i >= Len(raw)
    /\ ~IsUtf8(out) \/ Trimmed(out) = {}
    /\ stage' = "refused"
    /\ UNCHANGED <<name, raw, i, out>>

NameFile ==
    /\ stage = "decode" /\ i >= Len(raw)
    /\ IsUtf8(out)
    /\ out' \in Trimmed(out)
    /\ stage' = "file"
    /\ UNCHANGED <<name, raw, i>>

Init ==
    /\ \/ name = <<>> /\ raw \in RawPaths /\ IsUtf8(raw)
       \/ name \in FileNames /\ raw = EncodePath(name)
    /\ stage = "url"
    /\ i = 0
    /\ out = <<>>

Next == CutQuery \/ DecodeEscape \/ DecodeByte \/ DecodePanics \/ RefusePath \/ NameFile

Spec == Init /\ [][Next]_vars

-----------------------------------------------------------------------------
(* Properties *)

\* Type correctness; decoding reads only bytes of the path.
TypeOK ==
    /\ name \in FileNames \cup {<<>>}
    /\ raw \in Seq(Bytes) /\ out \in Seq(Bytes)
    /\ stage \in {"url", "decode", "item", "file", "refused", "panic"}
    /\ i \in 0..Len(raw)

\* A name whose segments say something, as the plan requires
Ordinary(segments) ==
    \A n \in DOMAIN segments : segments[n] # <<>> /\ ~IsDotSegment(segments[n])

\* Asking for a file by the URL that the program itself requests for it
\* finds exactly that file: what encode_download_path writes is read back
\* by parse_archive_url, whatever the name holds.
UrlNamesTheFile ==
    name # <<>> /\ Ordinary(name) /\ stage \notin {"url", "decode"} =>
        stage = "file" /\ out = Joined(name)

\* Doc of encode_download_path: special characters cannot be misread as a
\* query, and the result always stays a relative reference.
ReferenceIsRelative ==
    name # <<>> /\ stage = "url" =>
        /\ raw # <<>> => Head(raw) # Slash
        /\ \A n \in DOMAIN raw : raw[n] \in Unreserved \cup {Slash, Pct}

\* The documented reading of the first n bytes of s, if no escape is cut:
\* two digits after '%' are a byte, everything else is literal.
Readings(s) ==
    LET read[n \in 0..Len(s)] ==
          IF n >= 3 /\ s[n - 2] = Pct /\ s[n - 1] \in Digits /\ s[n] \in Digits
          THEN Append(read[n - 3], 4 * s[n - 1] + s[n])
          ELSE IF n = 0 THEN <<>> ELSE Append(read[n - 1], s[n])
    IN  read

Reading(s) == Readings(s)[Len(s)]

\* Doc of percent_decode: an escape without two hex digits after the '%'
\* passes through literally. (Not so "%+" and one digit: the plus is taken for a
\* sign.)
DecodesAsDocumented ==
    /\ stage = "decode" /\ i >= Len(raw)
    /\ \A n \in 2..Len(raw) : raw[n] = Plus => raw[n - 1] # Pct
    => out = Reading(raw)

\* The same doc: whatever follows a '%', the path is read, not a crash.
EveryPathIsRead == stage # "panic"
=============================================================================
