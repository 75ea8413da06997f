------------------------------ MODULE Sanitize ------------------------------
(***************************************************************************)
(* sanitize_filename (src/src/filename.rs): a name from the metadata made  *)
(* into a local path, component by component. Plan takes only from it that *)
(* odd characters have one replacement.                                    *)
(*                                                                         *)
(* Characters are taken by kind: "x" any ordinary one, "?" any that is     *)
(* invalid on some file system, " " whitespace; "com" with a digit, plain  *)
(* or raised, stands for the reserved device names.                        *)
(***************************************************************************)
EXTENDS SequencesExt, Integers

CONSTANT FileNames   \* the names looked at

Chars == {"x", ".", " ", "?", "com", "1", "^1", "/", "_"}
Invalid == {"?"}

\* What is assumed of the constant
InputsAssumption == FileNames \subseteq Seq(Chars)

VARIABLES
    filename,   \* the original name
    rest,       \* its components still to be looked at, a slash behind each
    emitted,    \* the components of the result
    modified,   \* was_modified
    done

vars == <<filename, rest, emitted, modified, done>>

-----------------------------------------------------------------------------
(* One component: an operator gives the new spelling *)

\* A device name, raised digits folded
Reserved(base) == base \in {<<"com", "1">>, <<"com", "^1">>}

ReplaceInvalid(component) ==
    [i \in DOMAIN component |-> IF component[i] \in Invalid THEN "_" ELSE component[i]]

Places(s, chars) == {i \in DOMAIN s : s[i] \in chars}

\* What lies before the first such character, or everything
Before(s, char) ==
    LET at == Places(s, {char})
    IN  IF at = {} THEN s ELSE SubSeq(s, 1, Min(at) - 1)

\* Mutant: dots are trimmed, then spaces, and what is uncovered stays.
TrimOnce(component) ==
    LET ink  == Places(component, Chars \ {" "})
        dark == Places(component, Chars \ {"."})
        last == ink \cap 1..Max(dark)
    IN  IF dark = {} \/ last = {} THEN <<>> ELSE SubSeq(component, Min(ink), Max(last))

\* Whitespace around; then dots and the whitespace before them
Trim(component) ==
    LET ink  == Places(component, Chars \ {" "})
        last == Places(component, Chars \ {" ", "."})
    IN  IF last = {} THEN <<>> ELSE SubSeq(component, Min(ink), Max(last))

OrPlaceholder(component) == IF component = <<>> THEN <<"_">> ELSE component

\* Mutant: a name with an extension is taken to be none of a device.
MarkBareReserved(component) ==
    IF Reserved(component) THEN Append(component, "_") ELSE component

\* mark_reserved_name: an underscore after the part before the first dot
MarkReserved(component) ==
    LET base == Before(component, ".")
    IN  IF Reserved(base) THEN base \o <<"_">> \o SubSeq(component, Len(base) + 1, Len(component))
                          ELSE component

\* sanitize_component
SanitizeComponent(component) ==
    MarkReserved(OrPlaceholder(Trim(ReplaceInvalid(component))))

-----------------------------------------------------------------------------
(* sanitize_filename *)

\* str::split: what lies before each slash of the name and one behind it
Split(name) == Append(name, "/")
Component   == Before(rest, "/")
TakeComponent ==
    rest # <<>> /\ rest' = SubSeq(rest, Len(Component) + 2, Len(rest))

Dropped(component) == component \in {<<>>, <<".">>, <<".", ".">>}

\* Mutant: what is dropped does not count as a change.
DropSilently ==
    /\ TakeComponent /\ Dropped(Component)
    /\ UNCHANGED <<filename, emitted, modified, done>>

\* The empty name has one empty component, and is not modified.
Drop ==
    /\ TakeComponent /\ Dropped(Component)
    /\ modified' = (modified \/ filename # <<>>)
    /\ UNCHANGED <<filename, emitted, done>>

Emit ==
    /\ TakeComponent /\ ~Dropped(Component)
    /\ emitted' = Append(emitted, SanitizeComponent(Component))
    /\ modified' = (modified \/ SanitizeComponent(Component) # Component)
    /\ UNCHANGED <<filename, done>>

Finish ==
    /\ rest = <<>> /\ ~done
    /\ done' = TRUE
    /\ UNCHANGED <<filename, rest, emitted, modified>>

Init ==
    /\ filename \in FileNames
    /\ rest = Split(filename)
    /\ emitted = <<>> /\ modified = FALSE /\ done = FALSE

Next == Drop \/ Emit \/ Finish

Spec == Init /\ [][Next]_vars

-----------------------------------------------------------------------------
(* Correctness *)

\* The parts joined with slashes
Joined(parts) ==
    LET path[n \in 0..Len(parts)] ==
          IF n = 0 THEN <<>>
          ELSE (IF n = 1 THEN <<>> ELSE Append(path[n - 1], "/")) \o parts[n]
    IN  path[Len(parts)]

\* Type correctness; nothing is longer than it was, but for the placeholder and
\* the underscore of a device name.
TypeOK ==
    /\ filename \in Seq(Chars)
    /\ \A i \in DOMAIN emitted : emitted[i] \in Seq(Chars)
    /\ modified \in BOOLEAN /\ done \in BOOLEAN
    /\ \A i \in DOMAIN emitted : Len(emitted[i]) <= Len(filename) + 1

\* What every file system takes: no component is empty, has an invalid
\* character, a space around it or a dot or space at its end, or is a device
\* name, with or without an extension; none leads to another directory.
FitsEveryFileSystem ==
    \A i \in DOMAIN emitted :
        LET c == emitted[i]
        IN  /\ c \notin {<<>>, <<".">>, <<".", ".">>}
            /\ ToSet(c) \cap (Invalid \cup {"/"}) = {}
            /\ Head(c) # " " /\ Last(c) \notin {" ", "."}
            /\ \A n \in 1..Len(c) :
                   Reserved(SubSeq(c, 1, n)) => n < Len(c) /\ c[n + 1] # "."

\* A local path is its own local path: a name that was sanitized once, and is
\* listed again under its new spelling, is not changed.
StaysAsItIs == \A i \in DOMAIN emitted : SanitizeComponent(emitted[i]) = emitted[i]

\* The user is told of a changed name exactly when it has changed.
ModifiedIsTrue == done => (modified <=> Joined(emitted) # filename)
=============================================================================
