----------------------------- MODULE FileFilter -----------------------------
(***************************************************************************)
(* --include and --exclude (src/src/file_filter.rs): whether a name        *)
(* survives the filter, and glob_match, which matches one pattern with a   *)
(* single remembered star to go back to.                                   *)
(*                                                                         *)
(* A pattern and a name are sequences of characters. Positions count from  *)
(* 0 as in the code: i characters of the pattern and j of the name are     *)
(* behind. Where the code has usize::MAX for no star yet, starI is NoStar. *)
(* A name has no '*': one that meets a '*' of the pattern would be taken   *)
(* for the character itself (glob_match looks for a literal first).        *)
(***************************************************************************)
EXTENDS Naturals, Sequences

CONSTANTS
    Star, Any,    \* the characters '*' and '?'
    NoStar,       \* usize::MAX
    NameChars,    \* the characters of names; '?' may be one
    Names,        \* names to be filtered
    Filters       \* records of includes and excludes, sequences of patterns

PatternChars == NameChars \cup {Star, Any}

\* What is assumed of the constants
InputsAssumption ==
    /\ Star # Any /\ Star \notin NameChars /\ NoStar \notin Nat
    /\ Names \subseteq Seq(NameChars)
    /\ Filters \subseteq [includes: Seq(Seq(PatternChars)), excludes: Seq(Seq(PatternChars))]

VARIABLES
    filter, name,   \* the inputs
    stage,          \* "include", "exclude", or the answer "passes" or "dropped"
    k,              \* which of the stage's patterns is tried
    i, j,           \* glob_match: positions in pattern and name
    starI, starJ    \* the last star, and where it began to consume

globVars == <<i, j, starI, starJ>>
vars == <<filter, name, stage, k, globVars>>

Patterns == IF stage = "include" THEN filter.includes ELSE filter.excludes
Trying   == stage \in {"include", "exclude"} /\ k <= Len(Patterns)
pattern  == Patterns[k]
Loop     == Trying /\ j < Len(name)

-----------------------------------------------------------------------------
(* glob_match *)

GlobStart == i' = 0 /\ j' = 0 /\ starI' = NoStar /\ starJ' = 0

Literal == i < Len(pattern) /\ pattern[i + 1] \in {Any, name[j + 1]}
AtStar  == i < Len(pattern) /\ pattern[i + 1] = Star

StepLiteral ==
    /\ Loop /\ Literal
    /\ i' = i + 1 /\ j' = j + 1
    /\ UNCHANGED <<filter, name, stage, k, starI, starJ>>

\* Mutant: the star's position is taken after the increment.
StepStarLate ==
    /\ Loop /\ ~Literal /\ AtStar
    /\ starI' = i + 1 /\ starJ' = j
    /\ i' = i + 1
    /\ UNCHANGED <<filter, name, stage, k, j>>

\* Commit to this star: for now it consumes nothing.
StepStar ==
    /\ Loop /\ ~Literal /\ AtStar
    /\ starI' = i /\ starJ' = j
    /\ i' = i + 1
    /\ UNCHANGED <<filter, name, stage, k, j>>

\* Mutant: the star never consumes more.
BacktrackForgets ==
    /\ Loop /\ ~Literal /\ ~AtStar /\ starI # NoStar
    /\ j' = starJ
    /\ i' = starI + 1
    /\ UNCHANGED <<filter, name, stage, k, starI, starJ>>

\* Mutant: the name position is not taken back.
BacktrackKeepsPlace ==
    /\ Loop /\ ~Literal /\ ~AtStar /\ starI # NoStar
    /\ starJ' = j + 1
    /\ j' = j + 1
    /\ i' = starI + 1
    /\ UNCHANGED <<filter, name, stage, k, starI>>

\* The last star consumes one character more.
StepBacktrack ==
    /\ Loop /\ ~Literal /\ ~AtStar /\ starI # NoStar
    /\ starJ' = starJ + 1
    /\ j' = starJ'
    /\ i' = starI + 1
    /\ UNCHANGED <<filter, name, stage, k, starI>>

StepTrailingStar ==
    /\ Trying /\ j = Len(name) /\ AtStar
    /\ i' = i + 1
    /\ UNCHANGED <<filter, name, stage, k, j, starI, starJ>>

GlobFails ==
    \/ Loop /\ ~Literal /\ ~AtStar /\ starI = NoStar
    \/ Trying /\ j = Len(name) /\ i < Len(pattern) /\ ~AtStar

GlobMatches == Trying /\ j = Len(name) /\ i = Len(pattern)

-----------------------------------------------------------------------------
(* FileFilter::matches *)

\* An include decides the first half, an exclude the answer.
Decided ==
    IF stage = "include" THEN stage' = "exclude" ELSE stage' = "dropped"

PatternMatches ==
    /\ GlobMatches
    /\ Decided
    /\ k' = 1
    /\ GlobStart
    /\ UNCHANGED <<filter, name>>

PatternFails ==
    /\ GlobFails
    /\ k' = k + 1
    /\ GlobStart
    /\ UNCHANGED <<filter, name, stage>>

\* No pattern of the stage matched: that drops the name unless there are no
\* includes, and passes it after the excludes.
PatternsExhausted ==
    /\ stage \in {"include", "exclude"} /\ k > Len(Patterns)
    /\ stage' = IF stage = "exclude" THEN "passes"
                ELSE IF filter.includes = <<>> THEN "exclude" ELSE "dropped"
    /\ k' = 1
    /\ UNCHANGED <<filter, name, globVars>>

Init ==
    /\ filter \in Filters
    /\ name \in Names
    /\ stage = "include"
    /\ k = 1
    /\ i = 0 /\ j = 0 /\ starI = NoStar /\ starJ = 0

Next ==
    \/ StepLiteral \/ StepStar \/ StepBacktrack \/ StepTrailingStar
    \/ PatternMatches \/ PatternFails \/ PatternsExhausted

Spec == Init /\ [][Next]_vars /\ WF_vars(Next)

-----------------------------------------------------------------------------
(* What the doc of glob_match promises, and the properties *)

\* ends[x]: where the prefixes of n end that the first x characters of p match.
\* '*' is any run, '?' one character, any other character itself.
Matches(p, n) ==
    LET ends[x \in 0..Len(p)] ==
          IF x = 0 THEN {0}
          ELSE {y \in 0..Len(n) :
                   IF p[x] = Star THEN \E z \in ends[x - 1] : z <= y
                   ELSE y > 0 /\ p[x] \in {Any, n[y]} /\ y - 1 \in ends[x - 1]}
    IN  Len(n) \in ends[Len(p)]

\* Type correctness; the positions stay inside pattern and name (the code
\* would panic), and the star is one the pattern has.
TypeOK ==
    /\ filter \in Filters /\ name \in Names
    /\ stage \in {"include", "exclude", "passes", "dropped"}
    /\ k \in Nat \ {0}
    /\ Trying => i <= Len(pattern)
    /\ starJ <= j /\ j <= Len(name)
    /\ starI # NoStar => starI < i /\ pattern[starI + 1] = Star

\* Docs of glob_match and FileFilter::matches: the answer is the one of the
\* patterns' meaning, although glob_match only ever goes back to the last
\* star: some include matches, if there are any, and no exclude does.
FilterIsRight ==
    stage \in {"passes", "dropped"} =>
        (stage = "passes" <=>
            /\ \/ filter.includes = <<>>
               \/ \E p \in DOMAIN filter.includes : Matches(filter.includes[p], name)
            /\ ~\E p \in DOMAIN filter.excludes : Matches(filter.excludes[p], name))

\* Matching always ends: a star that goes back makes progress.
Answers == <>(stage \in {"passes", "dropped"})
=============================================================================
