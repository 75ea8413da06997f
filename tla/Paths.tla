------------------------------- MODULE Paths -------------------------------
(***************************************************************************)
(* Local paths, as the planner, the downloader and check mode compare them *)
(* (src/src/plan.rs, src/src/check.rs).                                    *)
(*                                                                         *)
(* A path is a sequence of components. Of a component only what the        *)
(* comparisons tell apart is kept: its stem, whether it is spelled with a  *)
(* capital, and how many times ".part" was appended to it.                 *)
(***************************************************************************)
EXTENDS Naturals, Sequences

CONSTANTS
    Stems,       \* names without ".part" suffixes, lower case
    CaseFolds    \* the file system ignores case (not Linux)

ASSUME CaseAssumption == CaseFolds \in BOOLEAN

Components == [stem: Stems, upper: BOOLEAN, parts: Nat]
Paths      == Seq(Components) \ {<<>>}

\* "{path}.part"
PartOf(path) == [path EXCEPT ![Len(path)].parts = @ + 1]

\* local_path_key
Key(path) ==
    IF CaseFolds
    THEN [i \in DOMAIN path |-> [path[i] EXCEPT !.upper = FALSE]]
    ELSE path

\* The directories a path implies
Ancestors(path) == {SubSeq(path, 1, n) : n \in 1..(Len(path) - 1)}

Keys(paths) == {Key(path) : path \in paths}

\* Two files that cannot both exist: the same path, or one of them where the
\* other needs a directory.
Clash(p, q) ==
    \/ Key(p) = Key(q)
    \/ Key(p) \in Keys(Ancestors(q))
    \/ Key(q) \in Keys(Ancestors(p))

\* No two entries of a list of paths clash.
Compatible(list) ==
    \A i, j \in DOMAIN list : i # j => ~Clash(list[i], list[j])

\* No ".part" of an entry clashes with an entry of the list, or with another
\* ".part". The planner does not ask for this.
PartsApart(list) ==
    \A i, j \in DOMAIN list :
        /\ ~Clash(PartOf(list[i]), list[j])
        /\ i # j => ~Clash(PartOf(list[i]), PartOf(list[j]))
=============================================================================
