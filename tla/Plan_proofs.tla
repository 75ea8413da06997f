---------------------------- MODULE Plan_proofs ----------------------------
(***************************************************************************)
(* Theorems about what makes a plan of the metadata's names.               *)
(*                                                                         *)
(* The planner, for every list of names the metadata may have, of any      *)
(* length: no two planned paths meet, none meets the metadata document,    *)
(* and nothing is left out without a reason. It is the promise that Batch  *)
(* and Check assume of their lists.                                        *)
(*                                                                         *)
(* The name filter, for every name and every pattern: glob_match, which    *)
(* goes back to its last star only, answers what the pattern means.        *)
(*                                                                         *)
(* Local paths, for every name over the kinds of characters of Sanitize.   *)
(*                                                                         *)
(* Names in URLs, for every path a user may write and every name: what     *)
(* encode_download_path writes is read back by parse_archive_url.          *)
(***************************************************************************)
EXTENDS MCPlan, TLAPS, WellFoundedInduction, SequenceTheorems, FiniteSetTheorems

-----------------------------------------------------------------------------
(* Recursions over the first numbers *)

\* Some number of a set of numbers is the least: what stands here for induction.
LEMMA Least ==
    ASSUME NEW S \in SUBSET Nat, S # {}
    PROVE  \E x \in S : \A y \in S : x <= y
<1> DEFINE Less == {ss \in Nat \X Nat : ss[1] < ss[2]}
<1>1. OpToRel(<, Nat) = Less
  BY Zenon DEF OpToRel
<1>2. IsWellFoundedOn(Less, Nat)
  BY <1>1, NatLessThanWellFounded, Zenon
<1> HIDE DEF Less
<1>3. PICK x \in S : \A y \in S : ~(<<y, x>> \in Less)
  BY <1>2, WFMin
<1>4. ASSUME NEW y \in S
      PROVE  x <= y
  <2>1. x \in Nat /\ y \in Nat /\ <<y, x>> \notin Less
    BY <1>3
  <2>2. ~(y < x)
    BY <2>1 DEF Less
  <2> QED
    BY <2>1, <2>2
<1> QED
  BY <1>4

\* f holds the values of a recursion, up to m, with the step functions G.
Iteration(f, V, base, m, G) ==
    /\ f \in [0..m -> V] /\ f[0] = base
    /\ \A x \in 1..m : f[x] = G[x][f[x - 1]]

\* A recursion over the first numbers has a solution, of the values' type,
LEMMA Iterates ==
    ASSUME NEW V, NEW base \in V, NEW N \in Nat, NEW G \in [1..N -> [V -> V]]
    PROVE  \E f : Iteration(f, V, base, N, G)
<1> DEFINE Good(f, m) == Iteration(f, V, base, m, G)
           Bad == {m \in 0..N : ~\E f : Good(f, m)}
<1>1. Bad = {}
  <2> SUFFICES ASSUME Bad # {} PROVE FALSE
    OBVIOUS
  <2>1. PICK m \in Bad : \A y \in Bad : m <= y
    <3>1. Bad \in SUBSET Nat
      OBVIOUS
    <3> HIDE DEF Bad
    <3> QED
      BY <3>1, Least
  <2>2. m # 0
    <3>1. Good([x \in 0..0 |-> base], 0)
      BY DEF Iteration
    <3> HIDE DEF Good
    <3> QED
      BY <2>1, <3>1
  <2>3. m \in 1..N /\ m - 1 \in 0..N /\ ~(m <= m - 1)
    BY <2>1, <2>2
  <2>4. PICK f : Good(f, m - 1)
    BY <2>1, <2>3
  <2> DEFINE g == [x \in 0..m |-> IF x = m THEN G[m][f[m - 1]] ELSE f[x]]
  <2>5. m - 1 \in 0..(m - 1) /\ f[m - 1] \in V /\ G[m] \in [V -> V]
    BY <2>3, <2>4 DEF Iteration
  <2>6. \A x \in 0..m : g[x] \in V
    <3>1. \A x \in 0..m : x # m => x \in 0..(m - 1)
      BY <2>3
    <3> QED
      BY <2>4, <2>5, <3>1 DEF Iteration
  <2>7. g[0] = base
    BY <2>3, <2>4 DEF Iteration
  <2>8. ASSUME NEW x \in 1..m
        PROVE  g[x] = G[x][g[x - 1]]
    <3>1. x - 1 \in 0..m /\ x - 1 # m /\ x \in 0..m /\ (x # m => x \in 1..(m - 1))
      BY <2>3
    <3>2. g[x - 1] = f[x - 1]
      BY <3>1
    <3> QED
      BY <2>4, <3>1, <3>2 DEF Iteration
  <2>9. Good(g, m)
    <3>1. g \in [0..m -> V]
      BY <2>6
    <3> HIDE DEF g
    <3> QED
      BY <2>7, <2>8, <3>1 DEF Iteration
  <2> HIDE DEF Good
  <2> QED
    BY <2>1, <2>9
<1>2. N \in 0..N
  OBVIOUS
<1> QED
  BY <1>1, <1>2

\* and only one.
LEMMA IteratesOnce ==
    ASSUME NEW V, NEW N \in Nat, NEW f \in [0..N -> V], NEW g, g[0] = f[0],
           \A x \in 1..N : g[x - 1] = f[x - 1] => g[x] = f[x]
    PROVE  \A x \in 0..N : g[x] = f[x]
<1> DEFINE Bad == {x \in 0..N : g[x] # f[x]}
<1>1. Bad = {}
  <2> SUFFICES ASSUME Bad # {} PROVE FALSE
    OBVIOUS
  <2>1. PICK m \in Bad : \A y \in Bad : m <= y
    <3>1. Bad \in SUBSET Nat
      OBVIOUS
    <3> HIDE DEF Bad
    <3> QED
      BY <3>1, Least
  <2>2. m # 0
    BY <2>1
  <2>3. m \in 1..N /\ m - 1 \in 0..N /\ ~(m <= m - 1)
    BY <2>1, <2>2
  <2>4. g[m - 1] = f[m - 1]
    BY <2>1, <2>3
  <2> QED
    BY <2>1, <2>3, <2>4
<1> QED
  BY <1>1

-----------------------------------------------------------------------------
(* Plan: what is planned together *)

Document == Sanitized(XmlName)

\* The document is saved into the output directory itself.
LEMMA DocumentHasNoDirectory == Ancestors(Document) = {}
<1> QED
  BY XmlAssumption DEF Document, Ancestors

LEMMA ClashSymmetric ==
    ASSUME NEW p, NEW q
    PROVE  Clash(p, q) <=> Clash(q, p)
<1> QED
  BY DEF Clash

\* The two sets hold the keys of the planned files and of the directories they
\* need, and in a whole-item run that of the document.
SetsInv ==
    /\ plannedFiles = {Key(tasks[x]) : x \in DOMAIN tasks}
                        \cup (IF target = WholeItem THEN {Key(Document)} ELSE {})
    /\ \A d : d \in plannedDirs <=> \E x \in DOMAIN tasks : d \in Keys(Ancestors(tasks[x]))

PlanInv ==
    /\ \E S : tasks \in Seq(S)
    /\ state = "parsed" => tasks = <<>> /\ collided = {} /\ plannedDirs = {}
    /\ state = "planning" => SetsInv
    /\ NoClash
    /\ SkippedForAReason

\* clashing_entry finds exactly the paths that clash with a planned one, or
\* with the document.
LEMMA ClashingEntryIsExact ==
    ASSUME SetsInv, NEW path
    PROVE  ClashingEntry(path) <=>
             \/ \E x \in DOMAIN tasks : Clash(path, tasks[x])
             \/ target = WholeItem /\ Clash(path, Document)
<1>1. Key(path) \in plannedDirs <=>
        \E x \in DOMAIN tasks : Key(path) \in Keys(Ancestors(tasks[x]))
  BY DEF SetsInv
<1>2. Keys(Ancestors(path) \cup {path}) = Keys(Ancestors(path)) \cup {Key(path)}
  BY DEF Keys
<1>3. Keys(Ancestors(path) \cup {path}) \cap plannedFiles # {} <=>
        \/ \E x \in DOMAIN tasks : Key(tasks[x]) \in Keys(Ancestors(path)) \cup {Key(path)}
        \/ target = WholeItem /\ Key(Document) \in Keys(Ancestors(path)) \cup {Key(path)}
  BY <1>2 DEF SetsInv
<1>4. Clash(path, Document) <=> Key(Document) \in Keys(Ancestors(path)) \cup {Key(path)}
  BY DocumentHasNoDirectory DEF Clash, Keys
<1> QED
  BY <1>1, <1>3, <1>4 DEF ClashingEntry, Clash

LEMMA PlanInit == Init => PlanInv
<1> SUFFICES ASSUME Init PROVE PlanInv
  OBVIOUS
<1>1. tasks = <<>> /\ tasks \in Seq({})
  BY DEF Init
<1> QED
  BY <1>1 DEF Init, PlanInv, NoClash, Compatible, SkippedForAReason

\* Leaving the loop or never entering it plans nothing more.
LEMMA NothingPlanned ==
    ASSUME PlanInv, UNCHANGED <<tasks, target, collided>>,
           files' = files \/ collided = {},
           state' # "parsed",
           state' = "planning" => SetsInv'
    PROVE  PlanInv'
<1> QED
  BY DEF PlanInv, NoClash, SkippedForAReason

LEMMA PlanStep == PlanInv /\ [Next]_vars => PlanInv'
<1> SUFFICES ASSUME PlanInv, [Next]_vars PROVE PlanInv'
  OBVIOUS
<1>1. ASSUME NEW wanted, Select(wanted) PROVE PlanInv'
  <2>1. /\ tasks = <<>> /\ tasks' = <<>> /\ collided = {} /\ plannedDirs = {}
        /\ UNCHANGED <<tasks, target, collided>>
        /\ state' \in {"refused", "planning"}
    BY <1>1 DEF Select, Refuse, PlanInv
  <2>2. state' = "planning" =>
          /\ plannedDirs' = {}
          /\ plannedFiles' = IF target = WholeItem THEN {Key(Document)} ELSE {}
    BY <1>1, <2>1 DEF Select, Refuse, Document
  <2>3. state' = "planning" => SetsInv'
    BY <2>1, <2>2 DEF SetsInv
  <2> QED
    BY <2>1, <2>3, NothingPlanned
<1>2. CASE SkipUnnameable \/ JoinFails \/ FinishPlan
  <2>1. /\ UNCHANGED <<files, tasks, target, collided>> /\ state = "planning"
        /\ state' = "planning" => UNCHANGED <<plannedFiles, plannedDirs>>
        /\ state' # "parsed"
    BY <1>2
    DEF SkipUnnameable, Skipped, Nameable, Planning, JoinFails, Refuse, FinishPlan
  <2>2. state' = "planning" => SetsInv'
    BY <2>1 DEF PlanInv, SetsInv
  <2> QED
    BY <2>1, <2>2, NothingPlanned
<1>3. CASE SkipCollision
  <2>1. /\ UNCHANGED <<files, target, state, tasks, plannedFiles, plannedDirs>>
        /\ state = "planning" /\ collided' = collided \cup {next}
        /\ ClashingEntry(Sanitized(files[next]))
    BY <1>3 DEF SkipCollision, Skipped, Nameable, Planning
  <2>2. SetsInv /\ SetsInv'
    BY <2>1 DEF PlanInv, SetsInv
  <2>3. \/ \E x \in DOMAIN tasks : Clash(Sanitized(files[next]), tasks[x])
        \/ target = WholeItem /\ Clash(Sanitized(files[next]), Document)
    BY <2>1, <2>2, ClashingEntryIsExact
  <2>4. SkippedForAReason'
    BY <2>1, <2>3 DEF PlanInv, SkippedForAReason, Document
  <2> QED
    BY <2>1, <2>2, <2>4 DEF PlanInv, NoClash
<1>4. CASE PlanTask
  <2> DEFINE path == Sanitized(files[next])
  <2>1. /\ UNCHANGED <<files, target, state, collided>> /\ state = "planning"
        /\ ~ClashingEntry(path) /\ tasks' = Append(tasks, path)
        /\ plannedFiles' = plannedFiles \cup {Key(path)}
        /\ plannedDirs' = plannedDirs \cup Keys(Ancestors(path))
    BY <1>4 DEF PlanTask, Nameable, Planning
  <2> HIDE DEF path
  <2>2. PICK S : tasks \in Seq(S)
    BY DEF PlanInv
  <2>3. tasks' \in Seq(S \cup {path})
    <3>1. tasks \in Seq(S \cup {path})
      BY <2>2
    <3> QED
      BY <2>1, <3>1
  <2>4. /\ Len(tasks) \in Nat /\ DOMAIN tasks = 1..Len(tasks)
        /\ DOMAIN tasks' = 1..(Len(tasks) + 1)
        /\ \A x \in DOMAIN tasks : tasks'[x] = tasks[x]
        /\ tasks'[Len(tasks) + 1] = path
    BY <2>1, <2>2
  <2>5. SetsInv
    BY <2>1 DEF PlanInv
  <2>6. /\ \A x \in DOMAIN tasks : ~Clash(path, tasks[x])
        /\ target = WholeItem => ~Clash(path, Document)
    BY <2>1, <2>5, ClashingEntryIsExact
  <2>7. SetsInv'
    <3>1. {Key(tasks'[x]) : x \in DOMAIN tasks'} = {Key(tasks[x]) : x \in DOMAIN tasks} \cup {Key(path)}
      BY <2>4
    <3>2. ASSUME NEW d
          PROVE  (\E x \in DOMAIN tasks' : d \in Keys(Ancestors(tasks'[x])))
                   <=> \/ \E x \in DOMAIN tasks : d \in Keys(Ancestors(tasks[x]))
                       \/ d \in Keys(Ancestors(path))
      <4>1. \A x \in DOMAIN tasks' : \/ x \in DOMAIN tasks /\ tasks'[x] = tasks[x]
                                     \/ x = Len(tasks) + 1 /\ tasks'[x] = path
        BY <2>4
      <4>2. \A x \in DOMAIN tasks : x \in DOMAIN tasks' /\ tasks'[x] = tasks[x]
        BY <2>4
      <4>3. Len(tasks) + 1 \in DOMAIN tasks' /\ tasks'[Len(tasks) + 1] = path
        BY <2>4
      <4>4. ASSUME NEW x \in DOMAIN tasks', d \in Keys(Ancestors(tasks'[x]))
            PROVE  \/ \E z \in DOMAIN tasks : d \in Keys(Ancestors(tasks[z]))
                   \/ d \in Keys(Ancestors(path))
        BY <4>1, <4>4
      <4>5. ASSUME NEW x \in DOMAIN tasks, d \in Keys(Ancestors(tasks[x]))
            PROVE  \E z \in DOMAIN tasks' : d \in Keys(Ancestors(tasks'[z]))
        BY <4>2, <4>5
      <4>6. d \in Keys(Ancestors(path)) =>
              \E z \in DOMAIN tasks' : d \in Keys(Ancestors(tasks'[z]))
        BY <4>3
      <4> QED
        BY <4>4, <4>5, <4>6
    <3> QED
      BY <2>1, <2>5, <3>1, <3>2 DEF SetsInv
  <2>8. NoClash'
    <3>1. \A x, y \in DOMAIN tasks' : x # y => ~Clash(tasks'[x], tasks'[y])
      <4> TAKE x, y \in DOMAIN tasks'
      <4>1. /\ x \in DOMAIN tasks \/ x = Len(tasks) + 1
            /\ y \in DOMAIN tasks \/ y = Len(tasks) + 1
        BY <2>4
      <4>2. x \in DOMAIN tasks /\ y \in DOMAIN tasks /\ x # y => ~Clash(tasks[x], tasks[y])
        BY DEF PlanInv, NoClash, Compatible
      <4> QED
        BY <2>4, <2>6, <4>1, <4>2, ClashSymmetric
    <3>2. target = WholeItem => \A x \in DOMAIN tasks' : ~Clash(tasks'[x], Document)
      BY <2>4, <2>6 DEF PlanInv, NoClash, Document
    <3> QED
      BY <2>1, <3>1, <3>2 DEF NoClash, Compatible, Document
  <2>9. SkippedForAReason'
    BY <2>1, <2>4 DEF PlanInv, SkippedForAReason
  <2> QED
    BY <2>1, <2>3, <2>7, <2>8, <2>9 DEF PlanInv
<1>5. CASE UNCHANGED vars
  BY <1>5 DEF vars, PlanInv, SetsInv, NoClash, SkippedForAReason
<1> QED
  BY <1>1, <1>2, <1>3, <1>4, <1>5 DEF Next

-----------------------------------------------------------------------------

\* No planned path is another one, lies where another needs a directory, or
\* meets the metadata document; and what is skipped as a collision does clash
\* with something that is kept.
THEOREM CollisionsRight == Spec => []CollisionsAreRight
<1>1. PlanInv => CollisionsAreRight
  BY DEF PlanInv, CollisionsAreRight
<1> QED
  BY <1>1, PlanInit, PlanStep, PTL DEF Spec

-----------------------------------------------------------------------------
(* Plan: the types *)

\* What is kept of the first elements
OnlySteps(f, T, s, S) ==
    /\ f \in [0..Len(s) -> Seq(T \cap S)]
    /\ f[0] = <<>> /\ Only(s, S) = f[Len(s)]
    /\ \A x \in 1..Len(s) :
          f[x] = IF s[x] \in S THEN Append(f[x - 1], s[x]) ELSE f[x - 1]

LEMMA OnlyIs ==
    ASSUME NEW T, NEW s \in Seq(T), NEW S
    PROVE  \E f : OnlySteps(f, T, s, S)
<1> DEFINE V == Seq(T \cap S)
           N == Len(s)
           Step(v, x) == IF s[x] \in S THEN Append(v, s[x]) ELSE v
           G == [x \in 1..N |-> [v \in V |-> Step(v, x)]]
           Rec(f) == [x \in 0..N |-> IF x = 0 THEN <<>> ELSE Step(f[x - 1], x)]
<1>1. N \in Nat /\ \A x \in 1..N : s[x] \in T
  BY LenProperties, ElementOfSeq
<1>2. \A x \in 1..N : \A v \in V : Step(v, x) \in V
  <2> SUFFICES ASSUME NEW x \in 1..N, NEW v \in V, s[x] \in S PROVE Append(v, s[x]) \in V
    OBVIOUS
  <2> QED
    BY <1>1, AppendProperties
<1>3. G \in [1..N -> [V -> V]] /\ <<>> \in V
  BY <1>2
<1> HIDE DEF V, N, Step
<1>4. PICK f \in [0..N -> V] : f[0] = <<>> /\ \A x \in 1..N : f[x] = G[x][f[x - 1]]
  <2>1. N \in Nat /\ G \in [1..N -> [V -> V]] /\ <<>> \in V
    BY <1>1, <1>3
  <2> HIDE DEF G
  <2>2. PICK f : Iteration(f, V, <<>>, N, G)
    BY <2>1, Iterates
  <2> QED
    BY <2>2 DEF Iteration
<1>5. \A x \in 1..N : x - 1 \in 0..N /\ x \in 0..N /\ x # 0
  BY <1>1
<1>6. \A x \in 1..N : f[x] = Step(f[x - 1], x)
  BY <1>4, <1>5
<1>7. f = Rec(f)
  <2>1. \A x \in 0..N : x # 0 => x \in 1..N
    BY <1>1
  <2> QED
    BY <1>4, <1>6, <2>1
<1> DEFINE g == CHOOSE g : g = Rec(g)
<1>8. g = Rec(g)
  <2> HIDE DEF Rec
  <2> QED
    BY <1>7
<1> HIDE DEF g
<1>9. g[0] = <<>> /\ \A x \in 1..N : g[x] = Step(g[x - 1], x)
  <2>1. 0 \in 0..N
    BY <1>1
  <2> QED
    BY <1>5, <1>8, <2>1
<1>10. \A x \in 0..N : g[x] = f[x]
  <2>1. g[0] = f[0] /\ \A x \in 1..N : g[x - 1] = f[x - 1] => g[x] = f[x]
    BY <1>4, <1>6, <1>9
  <2> QED
    BY <1>1, <2>1, IteratesOnce, Zenon
<1>11. Only(s, S) = g[N]
  BY DEF Only, g, Step, N
<1>12. Only(s, S) = f[N]
  <2>1. N \in 0..N
    BY <1>1
  <2> QED
    BY <1>10, <1>11, <2>1
<1>13. OnlySteps(f, T, s, S)
  BY <1>4, <1>6, <1>12 DEF V, N, Step, OnlySteps
<1> QED
  BY <1>13

LEMMA OnlyType ==
    ASSUME NEW T, NEW s \in Seq(T), NEW S
    PROVE  Only(s, S) \in Seq(T \cap S)
<1>1. Len(s) \in 0..Len(s)
  BY LenProperties
<1> QED
  BY <1>1, OnlyIs DEF OnlySteps

LEMMA OnlyKeeps ==
    ASSUME NEW T, NEW s \in Seq(T), NEW S, NEW n \in 1..Len(s), s[n] \in S
    PROVE  Only(s, S) # <<>>
<1> DEFINE N == Len(s)
<1>1. PICK f : OnlySteps(f, T, s, S)
  BY OnlyIs
<1>2. N \in Nat /\ n \in 1..N /\ \A x \in 1..N : s[x] \in T
  BY LenProperties, ElementOfSeq
<1>a. /\ f \in [0..N -> Seq(T \cap S)]
      /\ f[0] = <<>> /\ Only(s, S) = f[N]
      /\ \A x \in 1..N : f[x] = IF s[x] \in S THEN Append(f[x - 1], s[x]) ELSE f[x - 1]
  BY <1>1 DEF OnlySteps
<1> HIDE DEF N
<1>3. \A x \in 1..N : x - 1 \in 0..N
  BY <1>2
<1>4. \A x \in 1..N : s[x] \in S => f[x] # <<>>
  <2> SUFFICES ASSUME NEW x \in 1..N, s[x] \in S PROVE Append(f[x - 1], s[x]) # <<>>
    BY <1>a
  <2>1. f[x - 1] \in Seq(T \cap S) /\ s[x] \in T \cap S
    BY <1>2, <1>3, <1>a
  <2> QED
    BY <2>1, AppendProperties
<1> DEFINE Bad == {x \in 0..N : n <= x /\ f[x] = <<>>}
<1>5. Bad = {}
  <2> SUFFICES ASSUME Bad # {} PROVE FALSE
    OBVIOUS
  <2>1. PICK m \in Bad : \A y \in Bad : m <= y
    <3>1. Bad \in SUBSET Nat
      BY <1>2
    <3> HIDE DEF Bad
    <3> QED
      BY <3>1, Least
  <2>2. m \in 1..N /\ m # n /\ s[m] \notin S
    <3>1. m \in 1..N
      BY <1>2, <2>1
    <3> QED
      BY <1>4, <2>1, <3>1
  <2>3. m - 1 \in 0..N /\ n <= m - 1 /\ ~(m <= m - 1)
    BY <1>2, <2>1, <2>2
  <2>4. f[m] = f[m - 1]
    BY <1>a, <2>2
  <2> QED
    BY <2>1, <2>3, <2>4
<1>6. N \in 0..N /\ n <= N
  BY <1>2
<1> QED
  BY <1>a, <1>5, <1>6

Segment == [stem: Stems, upper: BOOLEAN, parts: Nat, odd: BOOLEAN]

LEMMA NamesAreSegments ==
    ASSUME NEW entry \in Names
    PROVE  entry \in Seq(Segments)
<1> QED
  BY NamesAssumption

\* What is left of a name are components,
LEMMA SanitizedType ==
    ASSUME NEW entry \in Names
    PROVE  /\ Sanitized(entry) \in Seq(Components)
           /\ Sanitized(entry) = <<>> => EncodesToNothing(entry)
<1> DEFINE S == Segments \ {Empty, Dot}
           kept == Only(entry, S)
<1>1. entry \in Seq(Segments) /\ Segments \cap S = Segment
  BY NamesAreSegments, NamesAssumption DEF Segments, Segment
<1>2. kept \in Seq(Segment)
  BY <1>1, OnlyType
<1>3. ASSUME ~EncodesToNothing(entry) PROVE kept # <<>>
  <2>1. PICK n \in DOMAIN entry : entry[n] \notin {Empty, Dot}
    BY <1>3 DEF EncodesToNothing
  <2>2. n \in 1..Len(entry) /\ entry[n] \in S
    BY <1>1, <2>1, LenProperties, ElementOfSeq
  <2> QED
    BY <1>1, <2>2, OnlyKeeps
<1>4. Sanitized(entry) = [x \in DOMAIN kept |-> CleanComponent(kept[x])]
  BY DEF Sanitized
<1> HIDE DEF kept
<1>5. kept \in [1..Len(kept) -> Segment] /\ Len(kept) \in Nat /\ DOMAIN kept = 1..Len(kept)
  BY <1>2, LenProperties
<1>6. \A s \in Segment : CleanComponent(s) \in Components
  BY DEF Segment, CleanComponent, Components
<1>7. Sanitized(entry) \in [1..Len(kept) -> Components]
  BY <1>4, <1>5, <1>6
<1>8. Sanitized(entry) \in Seq(Components) /\ Len(Sanitized(entry)) = Len(kept)
  BY <1>5, <1>7, SeqDef, LenProperties
<1>9. Len(kept) = 0 => kept = <<>>
  BY <1>2, EmptySeq
<1>10. Sanitized(entry) = <<>> => Len(Sanitized(entry)) = 0
  OBVIOUS
<1> QED
  BY <1>3, <1>8, <1>9, <1>10

\* and one or more if it is not made of slashes and dots alone.
LEMMA SanitizedIsPath ==
    ASSUME NEW entry \in Names, ~EncodesToNothing(entry)
    PROVE  Sanitized(entry) \in Paths
<1> QED
  BY SanitizedType DEF Paths

LEMMA KeyIsPath ==
    ASSUME NEW path \in Paths
    PROVE  Key(path) \in Paths
<1>1. path \in [1..Len(path) -> Components] /\ Len(path) \in Nat /\ Len(path) # 0
  BY LenProperties, EmptySeq DEF Paths
<1>2. \A c \in Components : [c EXCEPT !.upper = FALSE] \in Components
  BY DEF Components
<1> DEFINE key == [x \in DOMAIN path |-> [path[x] EXCEPT !.upper = FALSE]]
<1>3. key \in [1..Len(path) -> Components]
  BY <1>1, <1>2
<1> HIDE DEF key
<1>4. key \in Seq(Components) /\ Len(key) = Len(path)
  BY <1>1, <1>3, SeqDef, LenProperties
<1>5. key \in Paths
  BY <1>1, <1>4 DEF Paths
<1> QED
  BY <1>5 DEF Key, key

LEMMA AncestorsArePaths ==
    ASSUME NEW path \in Paths
    PROVE  Ancestors(path) \subseteq Paths
<1> SUFFICES ASSUME NEW n \in 1..(Len(path) - 1) PROVE SubSeq(path, 1, n) \in Paths
  BY DEF Ancestors
<1>1. path \in Seq(Components) /\ Len(path) \in Nat
  BY LenProperties DEF Paths
<1>2. 1 \in 1..Len(path) /\ n \in 1..Len(path) /\ 1 <= n + 1 /\ n # 0
  BY <1>1
<1>3. SubSeq(path, 1, n) \in Seq(Components) /\ Len(SubSeq(path, 1, n)) = n
  BY <1>1, <1>2, SubSeqProperties
<1> QED
  BY <1>2, <1>3 DEF Paths

LEMMA KeysArePaths ==
    ASSUME NEW S, S \subseteq Paths
    PROVE  Keys(S) \subseteq Paths
<1> QED
  BY KeyIsPath DEF Keys

\* The document too has a local path.
LEMMA DocumentIsPath == Sanitized(XmlName) \in Paths
<1>1. Sanitized(XmlName) \in Seq(Components)
  BY NamesAssumption, SanitizedType
<1>2. Sanitized(XmlName) # <<>>
  BY <1>1, XmlAssumption, EmptySeq
<1> QED
  BY <1>1, <1>2 DEF Paths

LEMMA PlanTypesInit == Init => TypeOK
<1> SUFFICES ASSUME Init PROVE TypeOK
  OBVIOUS
<1>1. PICK n \in 0..MaxEntries : files \in [1..n -> Names]
  BY DEF Init
<1>2. n \in Nat
  BY EntriesAssumption
<1>3. files \in Seq(Names)
  BY <1>1, <1>2, SeqDef
<1> QED
  BY <1>3, EmptySeq DEF Init, TypeOK

PlanTypes == TypeOK /\ (state = "parsed" => collided = {})

\* What is planned or skipped is one of the candidates.
LEMMA CandidateIsName ==
    ASSUME TypeOK, Planning
    PROVE  files[next] \in Names
<1> QED
  BY LenProperties, ElementOfSeq DEF TypeOK, Planning

LEMMA PlanTypesStep == PlanTypes /\ [Next]_vars => PlanTypes'
<1> SUFFICES ASSUME PlanTypes, [Next]_vars PROVE PlanTypes'
  OBVIOUS
<1>1. ASSUME NEW wanted, Select(wanted) PROVE PlanTypes'
  <2>1. Selected \in Seq(Names)
    <3>1. CASE target = WholeItem
      <4>1. Only(files, Names \ {XmlName}) \in Seq(Names \cap (Names \ {XmlName}))
        BY OnlyType DEF PlanTypes, TypeOK
      <4>2. Only(files, Names \ {XmlName}) \in Seq(Names)
        BY <4>1
      <4> QED
        BY <3>1, <4>2 DEF Selected
    <3>2. CASE target # WholeItem
      BY <3>2 DEF Selected, PlanTypes, TypeOK
    <3> QED
      BY <3>1, <3>2
  <2>2. files' \in Seq(Names)
    <3>1. Only(Selected, wanted) \in Seq(Names \cap wanted)
      BY <2>1, OnlyType
    <3>2. Only(Selected, wanted) \in Seq(Names)
      BY <3>1
    <3> QED
      BY <1>1, <3>2 DEF Select
  <2>3. Key(Sanitized(XmlName)) \in Paths
    BY DocumentIsPath, KeyIsPath
  <2> QED
    BY <1>1, <2>2, <2>3 DEF Select, Refuse, PlanTypes, TypeOK
<1>2. ASSUME SkipUnnameable \/ SkipCollision PROVE PlanTypes'
  <2>1. /\ state = "planning" /\ next' = next + 1
        /\ collided' \in {collided, collided \cup {next}}
        /\ UNCHANGED <<files, target, state, tasks, plannedFiles, plannedDirs>>
    BY <1>2 DEF SkipUnnameable, SkipCollision, Skipped, Planning
  <2>2. next \in Nat \ {0} /\ collided \subseteq 1..(next - 1)
    BY DEF PlanTypes, TypeOK
  <2>3. next' \in Nat \ {0} /\ collided' \subseteq 1..(next' - 1)
    BY <2>1, <2>2
  <2> QED
    BY <2>1, <2>3 DEF PlanTypes, TypeOK
<1>3. ASSUME PlanTask PROVE PlanTypes'
  <2> DEFINE path == Sanitized(files[next])
  <2>1. path \in Paths
    BY <1>3, CandidateIsName, SanitizedIsPath DEF PlanTask, Nameable, PlanTypes
  <2>2. Key(path) \in Paths /\ Keys(Ancestors(path)) \subseteq Paths
    BY <2>1, KeyIsPath, AncestorsArePaths, KeysArePaths
  <2>3. tasks' = Append(tasks, path) /\ plannedFiles' = plannedFiles \cup {Key(path)}
        /\ plannedDirs' = plannedDirs \cup Keys(Ancestors(path)) /\ next' = next + 1
        /\ UNCHANGED <<files, target, state, collided>>
    BY <1>3 DEF PlanTask
  <2> HIDE DEF path
  <2>4. tasks' \in Seq(Paths)
    BY <2>1, <2>3, AppendProperties DEF PlanTypes, TypeOK
  <2> QED
    BY <2>2, <2>3, <2>4 DEF PlanTypes, TypeOK
<1>4. ASSUME JoinFails \/ FinishPlan PROVE PlanTypes'
  BY <1>4 DEF JoinFails, FinishPlan, Refuse, Nameable, Planning, PlanTypes, TypeOK
<1>5. CASE UNCHANGED vars
  BY <1>5 DEF vars, PlanTypes, TypeOK
<1> QED
  BY <1>1, <1>2, <1>3, <1>4, <1>5 DEF Next

LEMMA PlanRefusedTypes == PlanRefused => TypeOK
<1> SUFFICES ASSUME PlanRefused PROVE TypeOK
  OBVIOUS
<1>1. files \in Seq(Names) /\ tasks \in Seq(Paths)
  BY EmptySeq DEF PlanRefused
<1> QED
  BY <1>1 DEF PlanRefused, TypeOK

-----------------------------------------------------------------------------
(* FileFilter: what a pattern means *)

\* The ends of the prefixes that match a character more of the pattern
After(p, n, x, before) ==
    {y \in 0..Len(n) :
        IF p[x] = Star THEN \E z \in before : z <= y
        ELSE y > 0 /\ p[x] \in {Any, n[y]} /\ y - 1 \in before}

\* The ends of the prefixes that the first characters of the pattern match
Ends(p, n) ==
    CHOOSE ends : ends = [x \in 0..Len(p) |-> IF x = 0 THEN {0}
                                              ELSE After(p, n, x, ends[x - 1])]

LEMMA MatchesByEnds ==
    ASSUME NEW p, NEW n
    PROVE  Filter!Matches(p, n) <=> Len(n) \in Ends(p, n)[Len(p)]
BY DEF Filter!Matches, Ends, After

\* There are such ends, one set after the other.
LEMMA EndsAre ==
    ASSUME NEW p, NEW n, Len(p) \in Nat
    PROVE  /\ Ends(p, n)[0] = {0}
           /\ \A x \in 1..Len(p) : Ends(p, n)[x] = After(p, n, x, Ends(p, n)[x - 1])
<1> DEFINE Step(f, x) == IF x = 0 THEN {0} ELSE After(p, n, x, f[x - 1])
           Has(m) == \E f : f = [x \in 0..m |-> Step(f, x)]
           S == {m \in Nat : ~Has(m)}
<1>1. S = {}
  <2> SUFFICES ASSUME S # {} PROVE FALSE
    OBVIOUS
  <2>1. PICK m \in S : \A l \in S : m <= l
    BY Least
  <2>2. m # 0
    <3>1. CASE m = 0
      <4> DEFINE f == [x \in 0..0 |-> {0}]
      <4>1. f = [x \in 0..0 |-> Step(f, x)]
        OBVIOUS
      <4> QED
        BY <2>1, <3>1, <4>1
    <3> QED
      BY <3>1
  <2>3. m \in Nat /\ m - 1 \in Nat /\ m - 1 \notin S
    <3>1. m \in Nat
      BY <2>1
    <3> HIDE DEF S
    <3> QED
      BY <2>1, <2>2, <3>1
  <2>4. PICK f : f = [x \in 0..(m - 1) |-> Step(f, x)]
    BY <2>3
  <2> DEFINE g == [x \in 0..m |-> IF x = m THEN Step(f, m) ELSE f[x]]
  <2>5. ASSUME NEW x \in 0..m
        PROVE  g[x] = Step(g, x)
    <3>1. CASE x = 0
      BY <2>2, <2>3, <2>4, <3>1
    <3>2. CASE x # 0
      <4>1. x - 1 \in 0..(m - 1) /\ x - 1 \in 0..m /\ x - 1 # m
        BY <2>3, <3>2
      <4>2. g[x - 1] = f[x - 1]
        BY <4>1
      <4>3. Step(g, x) = Step(f, x)
        BY <4>2
      <4>4. x # m => f[x] = Step(f, x)
        <5>1. x # m => x \in 0..(m - 1)
          BY <2>3
        <5> QED
          BY <2>4, <5>1
      <4> QED
        BY <4>3, <4>4
    <3> QED
      BY <3>1, <3>2
  <2>6. g = [x \in 0..m |-> Step(g, x)]
    <3> HIDE DEF Step
    <3>1. g = [x \in 0..m |-> g[x]]
      OBVIOUS
    <3> QED
      BY <2>5, <3>1
  <2>7. Has(m)
    BY <2>6
  <2> QED
    BY <2>1, <2>7
<1>2. Has(Len(p))
  BY <1>1
<1>3. Ends(p, n) = [x \in 0..Len(p) |-> Step(Ends(p, n), x)]
  BY <1>2 DEF Ends
<1> HIDE DEF Step
<1>4. \A x \in 0..Len(p) : Ends(p, n)[x] = Step(Ends(p, n), x)
  BY <1>3
<1>5. \A x \in 1..Len(p) : x \in 0..Len(p) /\ x # 0
  OBVIOUS
<1> QED
  BY <1>4, <1>5 DEF Step

LEMMA EndsInside ==
    ASSUME NEW p, NEW n, Len(p) \in Nat, Len(n) \in Nat, NEW x \in 0..Len(p)
    PROVE  Ends(p, n)[x] \subseteq 0..Len(n)
<1>1. CASE x = 0
  BY <1>1, EndsAre
<1>2. CASE x # 0
  <2>1. x \in 1..Len(p)
    BY <1>2
  <2> QED
    BY <2>1, EndsAre DEF After
<1> QED
  BY <1>1, <1>2

-----------------------------------------------------------------------------
(* FileFilter: glob_match *)

\* A set of places in pattern and name from which the rest of the name may
\* match the rest of the pattern: each of them leads to another, up to the end.
Leads(p, n, W) ==
    /\ W \subseteq (0..Len(p)) \X (0..Len(n))
    /\ \A x \in 0..Len(p), y \in 0..Len(n) : <<x, y>> \in W =>
          /\ x = Len(p) => y = Len(n)
          /\ x < Len(p) /\ p[x + 1] = Star => \E z \in y..Len(n) : <<x + 1, z>> \in W
          /\ x < Len(p) /\ p[x + 1] # Star =>
                y < Len(n) /\ p[x + 1] \in {Any, n[y + 1]} /\ <<x + 1, y + 1>> \in W

\* The rest of the name, after y characters, matches that of the pattern, after x.
Open(p, n, x, y) == \E W : Leads(p, n, W) /\ <<x, y>> \in W

LEMMA OpenLeads ==
    ASSUME NEW p, NEW n, Len(p) \in Nat, Len(n) \in Nat, NEW x, NEW y, Open(p, n, x, y)
    PROVE  /\ x \in 0..Len(p) /\ y \in 0..Len(n)
           /\ x = Len(p) => y = Len(n)
           /\ x < Len(p) /\ p[x + 1] = Star => \E z \in y..Len(n) : Open(p, n, x + 1, z)
           /\ x < Len(p) /\ p[x + 1] # Star =>
                 y < Len(n) /\ p[x + 1] \in {Any, n[y + 1]} /\ Open(p, n, x + 1, y + 1)
<1>1. PICK W : Leads(p, n, W) /\ <<x, y>> \in W
  BY DEF Open
<1>2. x \in 0..Len(p) /\ y \in 0..Len(n)
  BY <1>1 DEF Leads
<1>3. /\ x = Len(p) => y = Len(n)
      /\ x < Len(p) /\ p[x + 1] = Star => \E z \in y..Len(n) : <<x + 1, z>> \in W
      /\ x < Len(p) /\ p[x + 1] # Star =>
            y < Len(n) /\ p[x + 1] \in {Any, n[y + 1]} /\ <<x + 1, y + 1>> \in W
  BY <1>1, <1>2 DEF Leads
<1>4. \A u, v : <<u, v>> \in W => Open(p, n, u, v)
  BY <1>1 DEF Open
<1> QED
  BY <1>2, <1>3, <1>4

\* A place from which a step leads to an open one is open.
LEMMA OneStepMore ==
    ASSUME NEW p, NEW n, Len(p) \in Nat, Len(n) \in Nat, NEW W, Leads(p, n, W),
           NEW x \in 0..Len(p), NEW y \in 0..Len(n), x < Len(p),
           \/ p[x + 1] = Star /\ \E z \in y..Len(n) : <<x + 1, z>> \in W
           \/ /\ p[x + 1] # Star /\ y < Len(n) /\ p[x + 1] \in {Any, n[y + 1]}
              /\ <<x + 1, y + 1>> \in W
    PROVE  Open(p, n, x, y)
<1> DEFINE V == W \cup {<<x, y>>}
<1>1. /\ <<x, y>> \in V /\ W \subseteq V /\ V \subseteq (0..Len(p)) \X (0..Len(n))
      /\ \A u, v : <<u, v>> \in V => <<u, v>> \in W \/ <<u, v>> = <<x, y>>
  BY DEF Leads
<1> HIDE DEF V
<1>2. Leads(p, n, V)
  <2> SUFFICES ASSUME NEW u \in 0..Len(p), NEW v \in 0..Len(n), <<u, v>> \in V
               PROVE  /\ u = Len(p) => v = Len(n)
                      /\ u < Len(p) /\ p[u + 1] = Star =>
                            \E w \in v..Len(n) : <<u + 1, w>> \in W
                      /\ u < Len(p) /\ p[u + 1] # Star =>
                            /\ v < Len(n) /\ p[u + 1] \in {Any, n[v + 1]}
                            /\ <<u + 1, v + 1>> \in W
    BY <1>1 DEF Leads
  <2>1. CASE <<u, v>> \in W
    BY <2>1 DEF Leads
  <2>2. CASE u = x /\ v = y
    BY <2>2
  <2> QED
    BY <1>1, <2>1, <2>2
<1> QED
  BY <1>1, <1>2 DEF Open

LEMMA OpenFrom ==
    ASSUME NEW p, NEW n, Len(p) \in Nat, Len(n) \in Nat,
           NEW x \in 1..Len(p), NEW y \in 0..Len(n), Open(p, n, x, y)
    PROVE  /\ p[x] = Star => \A z \in 0..y : Open(p, n, x - 1, z)
           /\ p[x] # Star /\ y > 0 /\ p[x] \in {Any, n[y]} => Open(p, n, x - 1, y - 1)
<1>1. PICK W : Leads(p, n, W) /\ <<x, y>> \in W
  BY DEF Open
<1>2. x - 1 \in 0..Len(p) /\ x - 1 + 1 = x /\ x - 1 < Len(p)
  OBVIOUS
<1>3. ASSUME p[x] = Star, NEW z \in 0..y
      PROVE  Open(p, n, x - 1, z)
  <2>1. z \in 0..Len(n) /\ y \in z..Len(n)
    OBVIOUS
  <2> QED
    BY <1>1, <1>2, <1>3, <2>1, OneStepMore
<1>4. ASSUME p[x] # Star, y > 0, p[x] \in {Any, n[y]}
      PROVE  Open(p, n, x - 1, y - 1)
  <2>1. y - 1 \in 0..Len(n) /\ y - 1 + 1 = y /\ y - 1 < Len(n)
    BY <1>4
  <2> QED
    BY <1>1, <1>2, <1>4, <2>1, OneStepMore
<1> QED
  BY <1>3, <1>4

\* A name that matches can be matched from its beginning.
LEMMA MatchIsOpen ==
    ASSUME NEW p, NEW n, Len(p) \in Nat, Len(n) \in Nat, Filter!Matches(p, n)
    PROVE  Open(p, n, 0, 0)
<1> DEFINE S == {x \in 0..Len(p) : \E y \in Ends(p, n)[x] : Open(p, n, x, y)}
<1>1. Len(p) \in S
  <2>1. Leads(p, n, {<<Len(p), Len(n)>>})
    BY DEF Leads
  <2>2. Open(p, n, Len(p), Len(n))
    BY <2>1 DEF Open
  <2> QED
    BY <2>2, MatchesByEnds
<1>2. PICK x \in S : \A u \in S : x <= u
  <2>1. S \in SUBSET Nat
    OBVIOUS
  <2> HIDE DEF S
  <2> QED
    BY <1>1, <2>1, Least
<1>3. PICK y \in Ends(p, n)[x] : Open(p, n, x, y)
  BY <1>2
<1>4. x = 0
  <2> SUFFICES ASSUME x # 0 PROVE FALSE
    OBVIOUS
  <2>1. x \in 1..Len(p) /\ x - 1 \in 0..Len(p) /\ ~(x <= x - 1)
    BY <1>2
  <2>2. y \in After(p, n, x, Ends(p, n)[x - 1])
    BY <1>3, <2>1, EndsAre
  <2>3. \A u \in Ends(p, n)[x - 1] : ~Open(p, n, x - 1, u)
    BY <1>2, <2>1
  <2>4. y \in 0..Len(n)
    BY <2>2 DEF After
  <2>5. CASE p[x] = Star
    <3>1. PICK z \in Ends(p, n)[x - 1] : z <= y
      BY <2>2, <2>5 DEF After
    <3>2. z \in 0..y
      BY <2>1, <2>4, <3>1, EndsInside
    <3> QED
      BY <1>3, <2>1, <2>3, <2>4, <2>5, <3>1, <3>2, OpenFrom
  <2>6. CASE p[x] # Star
    BY <1>3, <2>1, <2>2, <2>3, <2>4, <2>6, OpenFrom DEF After
  <2> QED
    BY <2>5, <2>6
<1>5. y = 0
  BY <1>3, <1>4, EndsAre
<1> QED
  BY <1>3, <1>4, <1>5

\* While the loop runs and a star at s has consumed the name up to t: if the name
\* matches, some run of the star that is not shorter leads on, and whichever
\* does leads through the characters tried so far.
Resumes(p, n, x, y, s, t) ==
    /\ Filter!Matches(p, n) => \E c \in t..Len(n) : Open(p, n, s + 1, c)
    /\ \A c \in t..Len(n) : Open(p, n, s + 1, c) => Open(p, n, x, c + (y - t))

\* glob_match with x characters of the pattern and y of the name behind, and its
\* last star at s: what is behind matches; what matches at all can be matched
\* from here, or by going back to the last star.
GlobAt(p, n, x, y, s, t) ==
    /\ x \in 0..Len(p) /\ y \in 0..Len(n) /\ y \in Ends(p, n)[x]
    /\ t \in 0..y
    /\ s # NoStar => /\ s \in Nat /\ s < x /\ p[s + 1] = Star
                     /\ t \in Ends(p, n)[s + 1]
                     /\ y < Len(n) => Resumes(p, n, x, y, s, t)
    /\ s = NoStar \/ y = Len(n) => (Filter!Matches(p, n) => Open(p, n, x, y))

LEMMA GlobBegins ==
    ASSUME NEW p, NEW n, Len(p) \in Nat, Len(n) \in Nat
    PROVE  GlobAt(p, n, 0, 0, NoStar, 0)
BY EndsAre, MatchIsOpen DEF GlobAt

\* At the end of the name the star cannot be any longer.
LEMMA NothingToResume ==
    ASSUME NEW p, NEW n, Len(p) \in Nat, Len(n) \in Nat, NEW x, NEW s, NEW t \in 0..Len(n),
           Resumes(p, n, x, Len(n), s, t), Filter!Matches(p, n)
    PROVE  Open(p, n, x, Len(n))
<1>1. PICK c \in t..Len(n) : Open(p, n, s + 1, c)
  BY DEF Resumes
<1>2. Open(p, n, x, c + (Len(n) - t))
  BY <1>1 DEF Resumes
<1>3. c + (Len(n) - t) \in 0..Len(n)
  <2>1. \A u : Open(p, n, x, u) => u \in 0..Len(n)
    BY OpenLeads
  <2> QED
    BY <1>2, <2>1
<1>4. c = t
  BY <1>3
<1>5. c + (Len(n) - t) = Len(n)
  BY <1>4
<1> QED
  BY <1>2, <1>5

LEMMA LiteralKeeps ==
    ASSUME NEW p, NEW n, Len(p) \in Nat, Len(n) \in Nat, NEW x, NEW y, NEW s, NEW t,
           GlobAt(p, n, x, y, s, t), x < Len(p), y < Len(n),
           p[x + 1] # Star, p[x + 1] \in {Any, n[y + 1]}
    PROVE  GlobAt(p, n, x + 1, y + 1, s, t)
<1>1. /\ x \in 0..Len(p) /\ y \in 0..Len(n) /\ t \in 0..y
      /\ x + 1 \in 1..Len(p) /\ x + 1 \in 0..Len(p) /\ y + 1 \in 0..Len(n) /\ t \in 0..(y + 1)
      /\ x + 1 - 1 = x /\ y + 1 - 1 = y /\ y + 1 > 0 /\ y # Len(n)
  BY DEF GlobAt
<1>2. y + 1 \in Ends(p, n)[x + 1]
  <2>1. y \in Ends(p, n)[x]
    BY DEF GlobAt
  <2>2. y + 1 \in After(p, n, x + 1, Ends(p, n)[x])
    BY <1>1, <2>1 DEF After
  <2>3. Ends(p, n)[x + 1] = After(p, n, x + 1, Ends(p, n)[x + 1 - 1])
    BY <1>1, EndsAre
  <2> QED
    BY <1>1, <2>2, <2>3
<1>3. ASSUME NEW c \in Nat, Open(p, n, x, c)
      PROVE  Open(p, n, x + 1, c + 1)
  BY <1>3, OpenLeads
<1>4. s # NoStar => Resumes(p, n, x + 1, y + 1, s, t)
  <2> SUFFICES ASSUME s # NoStar, NEW c \in t..Len(n), Open(p, n, s + 1, c)
               PROVE  Open(p, n, x + 1, c + (y + 1 - t))
    BY <1>1 DEF GlobAt, Resumes
  <2>1. Open(p, n, x, c + (y - t))
    BY <1>1 DEF GlobAt, Resumes
  <2>2. c + (y - t) \in Nat /\ c + (y - t) + 1 = c + (y + 1 - t)
    BY <1>1
  <2>3. Open(p, n, x + 1, c + (y - t) + 1)
    BY <1>3, <2>1, <2>2
  <2> QED
    BY <2>2, <2>3
<1>5. s = NoStar => (Filter!Matches(p, n) => Open(p, n, x + 1, y + 1))
  BY <1>1, <1>3 DEF GlobAt
<1>6. s # NoStar /\ y + 1 = Len(n) => (Filter!Matches(p, n) => Open(p, n, x + 1, y + 1))
  BY <1>1, <1>4, NothingToResume
<1>7. s # NoStar => s \in Nat /\ s < x + 1 /\ p[s + 1] = Star /\ t \in Ends(p, n)[s + 1]
  BY <1>1 DEF GlobAt
<1> QED
  BY <1>1, <1>2, <1>4, <1>5, <1>6, <1>7 DEF GlobAt

LEMMA StarKeeps ==
    ASSUME NEW p, NEW n, Len(p) \in Nat, Len(n) \in Nat, NEW x, NEW y, NEW s, NEW t,
           GlobAt(p, n, x, y, s, t), x < Len(p), y < Len(n), p[x + 1] = Star,
           NoStar \notin Nat
    PROVE  GlobAt(p, n, x + 1, y, x, y)
<1>1. /\ x \in 0..Len(p) /\ y \in 0..Len(n) /\ t \in 0..y /\ x \in Nat
      /\ x + 1 \in 1..Len(p) /\ x + 1 \in 0..Len(p) /\ y \in 0..y
      /\ x + 1 - 1 = x /\ x # NoStar /\ x < x + 1 /\ y # Len(n)
  BY DEF GlobAt
<1>2. y \in Ends(p, n)[x + 1]
  <2>1. y \in Ends(p, n)[x]
    BY DEF GlobAt
  <2>2. y \in After(p, n, x + 1, Ends(p, n)[x])
    BY <1>1, <2>1 DEF After
  <2>3. Ends(p, n)[x + 1] = After(p, n, x + 1, Ends(p, n)[x + 1 - 1])
    BY <1>1, EndsAre
  <2> QED
    BY <1>1, <2>2, <2>3
<1>3. ASSUME NEW c, c \in y..Len(n), Open(p, n, x, c)
      PROVE  \E d \in y..Len(n) : Open(p, n, x + 1, d)
  <2>1. PICK d \in c..Len(n) : Open(p, n, x + 1, d)
    BY <1>3, OpenLeads
  <2>2. d \in y..Len(n)
    BY <1>1, <1>3, <2>1
  <2> QED
    BY <2>1, <2>2
<1>4. Filter!Matches(p, n) => \E c \in y..Len(n) : Open(p, n, x, c)
  <2> SUFFICES ASSUME Filter!Matches(p, n) PROVE \E c \in y..Len(n) : Open(p, n, x, c)
    OBVIOUS
  <2>1. CASE s = NoStar
    <3>1. Open(p, n, x, y) /\ y \in y..Len(n)
      BY <1>1, <2>1 DEF GlobAt
    <3> QED
      BY <3>1
  <2>2. CASE s # NoStar
    <3>1. PICK c \in t..Len(n) : Open(p, n, s + 1, c)
      BY <1>1, <2>2 DEF GlobAt, Resumes
    <3>2. Open(p, n, x, c + (y - t))
      BY <1>1, <2>2, <3>1 DEF GlobAt, Resumes
    <3>3. c + (y - t) \in 0..Len(n)
      BY <3>2, OpenLeads
    <3>4. c + (y - t) \in y..Len(n)
      BY <1>1, <3>1, <3>3
    <3> QED
      BY <3>2, <3>4
  <2> QED
    BY <2>1, <2>2
<1>5. Resumes(p, n, x + 1, y, x, y)
  <2>1. ASSUME NEW c \in y..Len(n)
        PROVE  c + (y - y) = c
    BY <1>1
  <2> QED
    BY <1>3, <1>4, <2>1 DEF Resumes
<1> QED
  BY <1>1, <1>2, <1>5 DEF GlobAt

LEMMA BacktrackKeeps ==
    ASSUME NEW p, NEW n, Len(p) \in Nat, Len(n) \in Nat, NEW x, NEW y, NEW s, NEW t,
           GlobAt(p, n, x, y, s, t), y < Len(n), s # NoStar,
           x < Len(p) => p[x + 1] # Star /\ p[x + 1] \notin {Any, n[y + 1]}
    PROVE  GlobAt(p, n, s + 1, t + 1, s, t + 1)
<1>1. /\ x \in 0..Len(p) /\ y \in 0..Len(n) /\ t \in 0..y /\ s \in Nat /\ s < x
      /\ s + 1 \in 1..Len(p) /\ s + 1 \in 0..Len(p) /\ t + 1 \in 0..Len(n)
      /\ t + 1 \in 0..(t + 1) /\ s < s + 1 /\ y # Len(n) /\ p[s + 1] = Star
      /\ s + 1 - 1 = s
  BY DEF GlobAt
<1>2. t + 1 \in Ends(p, n)[s + 1]
  <2>1. Ends(p, n)[s + 1] = After(p, n, s + 1, Ends(p, n)[s])
    <3>1. Ends(p, n)[s + 1] = After(p, n, s + 1, Ends(p, n)[s + 1 - 1])
      BY <1>1, EndsAre
    <3> QED
      BY <1>1, <3>1
  <2>2. t \in After(p, n, s + 1, Ends(p, n)[s])
    BY <2>1 DEF GlobAt
  <2>3. PICK z \in Ends(p, n)[s] : z <= t
    BY <1>1, <2>2 DEF After
  <2>4. z <= t + 1
    <3>1. s \in 0..Len(p)
      BY <1>1
    <3>2. z \in 0..Len(n)
      BY <2>3, <3>1, EndsInside
    <3> QED
      BY <1>1, <2>3, <3>2
  <2> QED
    BY <1>1, <2>1, <2>3, <2>4 DEF After
<1>3. ~Open(p, n, x, y)
  <2> SUFFICES ASSUME Open(p, n, x, y) PROVE FALSE
    OBVIOUS
  <2>1. /\ x = Len(p) => y = Len(n)
        /\ x < Len(p) /\ p[x + 1] # Star => p[x + 1] \in {Any, n[y + 1]}
    BY OpenLeads
  <2> QED
    BY <1>1, <2>1
<1>4. ~Open(p, n, s + 1, t)
  <2> SUFFICES ASSUME Open(p, n, s + 1, t) PROVE FALSE
    OBVIOUS
  <2>1. t \in t..Len(n)
    BY <1>1
  <2>2. Open(p, n, x, t + (y - t))
    BY <1>1, <2>1 DEF GlobAt, Resumes
  <2>3. t + (y - t) = y
    BY <1>1
  <2> QED
    BY <1>3, <2>2, <2>3
<1>5. Resumes(p, n, s + 1, t + 1, s, t + 1)
  <2>1. Filter!Matches(p, n) => \E c \in (t + 1)..Len(n) : Open(p, n, s + 1, c)
    <3> SUFFICES ASSUME Filter!Matches(p, n)
                 PROVE  \E c \in (t + 1)..Len(n) : Open(p, n, s + 1, c)
      OBVIOUS
    <3>1. PICK c \in t..Len(n) : Open(p, n, s + 1, c)
      BY <1>1 DEF GlobAt, Resumes
    <3>2. c # t
      BY <1>4, <3>1
    <3>3. c \in (t + 1)..Len(n)
      BY <1>1, <3>1, <3>2
    <3> QED
      BY <3>1, <3>3
  <2> DEFINE u == t + 1
  <2>2. u \in Nat /\ (Filter!Matches(p, n) => \E c \in u..Len(n) : Open(p, n, s + 1, c))
    BY <1>1, <2>1
  <2> HIDE DEF u
  <2>3. \A c \in u..Len(n) : c + (u - u) = c
    BY <1>1, <2>2
  <2>4. Resumes(p, n, s + 1, u, s, u)
    BY <2>2, <2>3 DEF Resumes
  <2> QED
    BY <2>4 DEF u
<1>6. t + 1 = Len(n) => (Filter!Matches(p, n) => Open(p, n, s + 1, t + 1))
  BY <1>1, <1>5, NothingToResume
<1> QED
  BY <1>1, <1>2, <1>5, <1>6 DEF GlobAt

LEMMA TrailingStarKeeps ==
    ASSUME NEW p, NEW n, Len(p) \in Nat, Len(n) \in Nat, NEW x, NEW s, NEW t,
           GlobAt(p, n, x, Len(n), s, t), x < Len(p), p[x + 1] = Star
    PROVE  GlobAt(p, n, x + 1, Len(n), s, t)
<1>1. /\ x \in 0..Len(p) /\ x + 1 \in 1..Len(p) /\ x + 1 \in 0..Len(p) /\ x + 1 - 1 = x
      /\ Len(n) \in 0..Len(n) /\ t \in 0..Len(n)
  BY DEF GlobAt
<1>2. Len(n) \in Ends(p, n)[x + 1]
  <2>1. Len(n) \in Ends(p, n)[x]
    BY DEF GlobAt
  <2>2. Len(n) \in After(p, n, x + 1, Ends(p, n)[x])
    BY <1>1, <2>1 DEF After
  <2>3. Ends(p, n)[x + 1] = After(p, n, x + 1, Ends(p, n)[x + 1 - 1])
    BY <1>1, EndsAre
  <2> QED
    BY <1>1, <2>2, <2>3
<1>3. Filter!Matches(p, n) => Open(p, n, x + 1, Len(n))
  <2> SUFFICES ASSUME Filter!Matches(p, n) PROVE Open(p, n, x + 1, Len(n))
    OBVIOUS
  <2>1. Open(p, n, x, Len(n))
    BY DEF GlobAt
  <2>2. PICK z \in Len(n)..Len(n) : Open(p, n, x + 1, z)
    BY <2>1, OpenLeads
  <2>3. z = Len(n)
    BY <2>2
  <2> QED
    BY <2>2, <2>3
<1>4. s # NoStar => s \in Nat /\ s < x + 1 /\ p[s + 1] = Star /\ t \in Ends(p, n)[s + 1]
  BY <1>1 DEF GlobAt
<1> QED
  BY <1>1, <1>2, <1>3, <1>4 DEF GlobAt

\* glob_match gives up only on a name that does not match.
LEMMA FailureIsRight ==
    ASSUME NEW p, NEW n, Len(p) \in Nat, Len(n) \in Nat, NEW x, NEW y, NEW s, NEW t,
           GlobAt(p, n, x, y, s, t), s = NoStar \/ y = Len(n),
           x < Len(p) => p[x + 1] # Star /\ (y < Len(n) => p[x + 1] \notin {Any, n[y + 1]}),
           x = Len(p) => y < Len(n)
    PROVE  ~Filter!Matches(p, n)
<1>1. x \in 0..Len(p) /\ y \in 0..Len(n)
  BY DEF GlobAt
<1>2. ~Open(p, n, x, y)
  <2> SUFFICES ASSUME Open(p, n, x, y) PROVE FALSE
    OBVIOUS
  <2>1. /\ x = Len(p) => y = Len(n)
        /\ x < Len(p) /\ p[x + 1] # Star => y < Len(n) /\ p[x + 1] \in {Any, n[y + 1]}
    BY OpenLeads
  <2> QED
    BY <1>1, <2>1
<1> QED
  BY <1>2 DEF GlobAt

LEMMA SuccessIsRight ==
    ASSUME NEW p, NEW n, Len(p) \in Nat, Len(n) \in Nat, NEW s, NEW t,
           GlobAt(p, n, Len(p), Len(n), s, t)
    PROVE  Filter!Matches(p, n)
BY MatchesByEnds DEF GlobAt

-----------------------------------------------------------------------------
(* FileFilter: FileFilter::matches *)

Matching(ps, n) == \E x \in DOMAIN ps : Filter!Matches(ps[x], n)

\* A pattern is tried as glob_match would from its beginning, after those that
\* failed; the excludes are looked at once the includes let the name through.
FilterInv ==
    /\ filter \in Filters /\ name \in FilterNames
    /\ stage \in {"include", "exclude", "passes", "dropped"} /\ k \in Nat \ {0}
    /\ IF Filter!Trying
       THEN GlobAt(Filter!pattern, name, i, j, starI, starJ)
       ELSE i = 0 /\ j = 0 /\ starI = NoStar /\ starJ = 0
    /\ stage \in {"include", "exclude"} =>
          \A x \in DOMAIN Filter!Patterns : x < k => ~Filter!Matches(Filter!Patterns[x], name)
    /\ stage = "exclude" => filter.includes = <<>> \/ Matching(filter.includes, name)
    /\ Filter!FilterIsRight

LEMMA InputTypes ==
    ASSUME NEW f \in Filters, NEW n \in FilterNames
    PROVE  /\ Len(n) \in Nat
           /\ \A x \in 1..Len(n) : n[x] # Star
           /\ Star # Any /\ NoStar \notin Nat
           /\ \A ps \in {f.includes, f.excludes} :
                 /\ Len(ps) \in Nat /\ DOMAIN ps = 1..Len(ps)
                 /\ \A x \in 1..Len(ps) : Len(ps[x]) \in Nat
<1>1. n \in Seq(NameChars) /\ Star # Any /\ NoStar \notin Nat /\ Star \notin NameChars
  BY PartsAssumption DEF Filter!InputsAssumption
<1>2. /\ f.includes \in Seq(Seq(Filter!PatternChars))
      /\ f.excludes \in Seq(Seq(Filter!PatternChars))
  BY PartsAssumption DEF Filter!InputsAssumption
<1>3. \A x \in 1..Len(n) : n[x] # Star
  BY <1>1
<1>4. ASSUME NEW ps \in Seq(Seq(Filter!PatternChars))
      PROVE  /\ Len(ps) \in Nat /\ DOMAIN ps = 1..Len(ps)
             /\ \A x \in 1..Len(ps) : Len(ps[x]) \in Nat
  <2>1. \A x \in 1..Len(ps) : ps[x] \in Seq(Filter!PatternChars)
    OBVIOUS
  <2> QED
    BY <2>1
<1> QED
  BY <1>1, <1>2, <1>3, <1>4

LEMMA FilterBegins == Filter!Init => FilterInv
<1> SUFFICES ASSUME Filter!Init PROVE FilterInv
  OBVIOUS
<1>1. /\ filter \in Filters /\ name \in FilterNames /\ stage = "include" /\ k = 1
      /\ i = 0 /\ j = 0 /\ starI = NoStar /\ starJ = 0
  BY DEF Filter!Init
<1>2. Filter!Trying => GlobAt(Filter!pattern, name, i, j, starI, starJ)
  <2> SUFFICES ASSUME Filter!Trying PROVE GlobAt(Filter!pattern, name, 0, 0, NoStar, 0)
    BY <1>1
  <2>1. Len(Filter!pattern) \in Nat /\ Len(name) \in Nat
    BY <1>1, InputTypes DEF Filter!Trying, Filter!Patterns, Filter!pattern
  <2> QED
    BY <2>1, GlobBegins
<1>3. \A x \in DOMAIN Filter!Patterns : x < k => ~Filter!Matches(Filter!Patterns[x], name)
  BY <1>1, InputTypes DEF Filter!Patterns
<1> QED
  BY <1>1, <1>2, <1>3 DEF FilterInv, Filter!FilterIsRight

\* What holds of the pattern that is tried
LEMMA PatternTypes ==
    ASSUME FilterInv, Filter!Trying
    PROVE  /\ Len(Filter!pattern) \in Nat /\ Len(name) \in Nat
           /\ k \in 1..Len(Filter!Patterns) /\ DOMAIN Filter!Patterns = 1..Len(Filter!Patterns)
           /\ GlobAt(Filter!pattern, name, i, j, starI, starJ)
           /\ i \in 0..Len(Filter!pattern) /\ j \in 0..Len(name)
           /\ \A x \in 1..Len(name) : name[x] # Star
           /\ Star # Any /\ NoStar \notin Nat
<1>1. filter \in Filters /\ name \in FilterNames /\ k \in Nat \ {0}
      /\ GlobAt(Filter!pattern, name, i, j, starI, starJ)
  BY DEF FilterInv
<1>2. /\ Len(Filter!Patterns) \in Nat /\ DOMAIN Filter!Patterns = 1..Len(Filter!Patterns)
      /\ \A x \in 1..Len(Filter!Patterns) : Len(Filter!Patterns[x]) \in Nat
  BY <1>1, InputTypes DEF Filter!Patterns
<1>3. k \in 1..Len(Filter!Patterns)
  BY <1>1, <1>2 DEF Filter!Trying
<1>4. Len(Filter!pattern) \in Nat
  BY <1>2, <1>3 DEF Filter!pattern
<1>5. i \in 0..Len(Filter!pattern) /\ j \in 0..Len(name)
  BY <1>1 DEF GlobAt
<1> QED
  BY <1>1, <1>2, <1>3, <1>4, <1>5, InputTypes

\* The loop of glob_match keeps to one pattern.
LEMMA GlobMoves ==
    ASSUME FilterInv, Filter!Trying, UNCHANGED <<filter, name, stage, k>>,
           GlobAt(Filter!pattern, name, i', j', starI', starJ')
    PROVE  FilterInv'
<1>1. /\ Filter!Trying' /\ Filter!pattern' = Filter!pattern
      /\ Filter!Patterns' = Filter!Patterns
  BY DEF Filter!Trying, Filter!pattern, Filter!Patterns
<1>2. Filter!FilterIsRight'
  BY DEF Filter!FilterIsRight, Filter!Trying
<1> QED
  BY <1>1, <1>2 DEF FilterInv

\* The next pattern, if there is one, is tried from its beginning.
LEMMA PatternBegins ==
    ASSUME filter' \in Filters, name' \in FilterNames, k' \in Nat \ {0},
           i' = 0, j' = 0, starI' = NoStar, starJ' = 0
    PROVE  IF Filter!Trying'
           THEN GlobAt(Filter!pattern', name', i', j', starI', starJ')
           ELSE i' = 0 /\ j' = 0 /\ starI' = NoStar /\ starJ' = 0
<1> SUFFICES ASSUME Filter!Trying' PROVE GlobAt(Filter!pattern', name', 0, 0, NoStar, 0)
  OBVIOUS
<1>1. Len(Filter!pattern') \in Nat /\ Len(name') \in Nat
  BY InputTypes DEF Filter!Trying, Filter!Patterns, Filter!pattern
<1> QED
  BY <1>1, GlobBegins

LEMMA FilterStep == FilterInv /\ Filter!Next => FilterInv'
<1> SUFFICES ASSUME FilterInv, Filter!Next PROVE FilterInv'
  OBVIOUS
<1>0. filter \in Filters /\ name \in FilterNames /\ k \in Nat \ {0}
  BY DEF FilterInv
<1>1. CASE Filter!StepLiteral
  <2>1. /\ Filter!Trying /\ j < Len(name) /\ UNCHANGED <<filter, name, stage, k>>
        /\ i < Len(Filter!pattern) /\ Filter!pattern[i + 1] \in {Any, name[j + 1]}
        /\ i' = i + 1 /\ j' = j + 1 /\ starI' = starI /\ starJ' = starJ
    BY <1>1 DEF Filter!StepLiteral, Filter!Loop, Filter!Literal
  <2>2. Filter!pattern[i + 1] # Star
    BY <2>1, PatternTypes
  <2> QED
    BY <2>1, <2>2, PatternTypes, LiteralKeeps, GlobMoves
<1>2. CASE Filter!StepStar
  <2>1. /\ Filter!Trying /\ j < Len(name) /\ UNCHANGED <<filter, name, stage, k>>
        /\ i < Len(Filter!pattern) /\ Filter!pattern[i + 1] = Star
        /\ i' = i + 1 /\ j' = j /\ starI' = i /\ starJ' = j
    BY <1>2 DEF Filter!StepStar, Filter!Loop, Filter!AtStar
  <2> QED
    BY <2>1, PatternTypes, StarKeeps, GlobMoves
<1>3. CASE Filter!StepBacktrack
  <2>1. /\ Filter!Trying /\ j < Len(name) /\ UNCHANGED <<filter, name, stage, k>>
        /\ starI # NoStar /\ starJ' = starJ + 1 /\ j' = starJ + 1
        /\ i' = starI + 1 /\ starI' = starI
        /\ i < Len(Filter!pattern) => /\ Filter!pattern[i + 1] # Star
                                      /\ Filter!pattern[i + 1] \notin {Any, name[j + 1]}
    BY <1>3 DEF Filter!StepBacktrack, Filter!Loop, Filter!AtStar, Filter!Literal
  <2> QED
    BY <2>1, PatternTypes, BacktrackKeeps, GlobMoves
<1>4. CASE Filter!StepTrailingStar
  <2>1. /\ Filter!Trying /\ j = Len(name) /\ UNCHANGED <<filter, name, stage, k>>
        /\ i < Len(Filter!pattern) /\ Filter!pattern[i + 1] = Star
        /\ i' = i + 1 /\ j' = j /\ starI' = starI /\ starJ' = starJ
    BY <1>4 DEF Filter!StepTrailingStar, Filter!AtStar
  <2> QED
    BY <2>1, PatternTypes, TrailingStarKeeps, GlobMoves
<1>5. CASE Filter!PatternMatches
  <2>1. /\ Filter!Trying /\ j = Len(name) /\ i = Len(Filter!pattern)
        /\ UNCHANGED <<filter, name>> /\ k' = 1
        /\ i' = 0 /\ j' = 0 /\ starI' = NoStar /\ starJ' = 0
        /\ IF stage = "include" THEN stage' = "exclude" ELSE stage' = "dropped"
    BY <1>5 DEF Filter!PatternMatches, Filter!GlobMatches, Filter!GlobStart, Filter!Decided
  <2>2. Filter!Matches(Filter!pattern, name)
    BY <2>1, PatternTypes, SuccessIsRight
  <2>3. Matching(Filter!Patterns, name)
    BY <2>1, <2>2, PatternTypes DEF Matching, Filter!pattern
  <2>4. IF Filter!Trying'
        THEN GlobAt(Filter!pattern', name', i', j', starI', starJ')
        ELSE i' = 0 /\ j' = 0 /\ starI' = NoStar /\ starJ' = 0
    BY <1>0, <2>1, PatternBegins
  <2>5. CASE stage = "include"
    <3>1. Matching(filter.includes, name) /\ stage' = "exclude"
      BY <2>1, <2>3, <2>5 DEF Filter!Patterns
    <3>2. \A x \in DOMAIN filter.excludes : ~(x < 1)
      BY <1>0, InputTypes
    <3>3. Filter!Patterns' = filter.excludes
      BY <2>1, <3>1 DEF Filter!Patterns
    <3> QED
      BY <1>0, <2>1, <2>4, <3>1, <3>2, <3>3 DEF FilterInv, Filter!FilterIsRight
  <2>6. CASE stage # "include"
    <3>1. Matching(filter.excludes, name) /\ stage' = "dropped"
      BY <2>1, <2>3, <2>6 DEF Filter!Patterns
    <3> QED
      BY <1>0, <2>1, <2>4, <3>1 DEF FilterInv, Filter!FilterIsRight, Matching
  <2> QED
    BY <2>5, <2>6
<1>6. CASE Filter!PatternFails
  <2>1. /\ Filter!Trying /\ UNCHANGED <<filter, name, stage>> /\ k' = k + 1
        /\ i' = 0 /\ j' = 0 /\ starI' = NoStar /\ starJ' = 0
    BY <1>6 DEF Filter!PatternFails, Filter!GlobFails, Filter!GlobStart, Filter!Loop
  <2>2. /\ starI = NoStar \/ j = Len(name)
        /\ i < Len(Filter!pattern) =>
              /\ Filter!pattern[i + 1] # Star
              /\ j < Len(name) => Filter!pattern[i + 1] \notin {Any, name[j + 1]}
        /\ i = Len(Filter!pattern) => j < Len(name)
    BY <1>6, <2>1, PatternTypes
    DEF Filter!PatternFails, Filter!GlobFails, Filter!Loop, Filter!Literal, Filter!AtStar
  <2>3. ~Filter!Matches(Filter!pattern, name)
    BY <2>1, <2>2, PatternTypes, FailureIsRight
  <2>4. IF Filter!Trying'
        THEN GlobAt(Filter!pattern', name', i', j', starI', starJ')
        ELSE i' = 0 /\ j' = 0 /\ starI' = NoStar /\ starJ' = 0
    BY <1>0, <2>1, PatternBegins
  <2>5. stage \in {"include", "exclude"} /\ Filter!Patterns' = Filter!Patterns
    BY <2>1 DEF Filter!Trying, Filter!Patterns
  <2>6. \A x \in DOMAIN Filter!Patterns : x < k + 1 => ~Filter!Matches(Filter!Patterns[x], name)
    <3>1. \A x \in DOMAIN Filter!Patterns : x < k + 1 => x < k \/ x = k
      BY <2>1, PatternTypes
    <3> QED
      BY <2>3, <2>5, <3>1 DEF FilterInv, Filter!pattern
  <2>7. k + 1 \in Nat \ {0}
    BY <1>0
  <2> QED
    BY <1>0, <2>1, <2>4, <2>5, <2>6, <2>7 DEF FilterInv, Filter!FilterIsRight
<1>7. CASE Filter!PatternsExhausted
  <2>1. /\ stage \in {"include", "exclude"} /\ k > Len(Filter!Patterns) /\ k' = 1
        /\ stage' = IF stage = "exclude" THEN "passes"
                    ELSE IF filter.includes = <<>> THEN "exclude" ELSE "dropped"
        /\ UNCHANGED <<filter, name, i, j, starI, starJ>>
    BY <1>7 DEF Filter!PatternsExhausted, Filter!globVars
  <2>2. i' = 0 /\ j' = 0 /\ starI' = NoStar /\ starJ' = 0
    BY <1>0, <2>1, InputTypes DEF FilterInv, Filter!Trying, Filter!Patterns
  <2>3. IF Filter!Trying'
        THEN GlobAt(Filter!pattern', name', i', j', starI', starJ')
        ELSE i' = 0 /\ j' = 0 /\ starI' = NoStar /\ starJ' = 0
    BY <1>0, <2>1, <2>2, PatternBegins
  <2>4. ~Matching(Filter!Patterns, name)
    <3>1. \A x \in DOMAIN Filter!Patterns : x < k
      BY <1>0, <2>1, InputTypes DEF Filter!Patterns
    <3> QED
      BY <2>1, <3>1 DEF FilterInv, Matching
  <2>5. CASE stage = "exclude"
    <3>1. /\ stage' = "passes" /\ ~Matching(filter.excludes, name)
          /\ filter.includes = <<>> \/ Matching(filter.includes, name)
      BY <2>1, <2>4, <2>5 DEF FilterInv, Filter!Patterns
    <3> QED
      BY <1>0, <2>1, <2>3, <3>1 DEF FilterInv, Filter!FilterIsRight, Matching
  <2>6. CASE stage = "include" /\ filter.includes = <<>>
    <3>1. stage' = "exclude" /\ Filter!Patterns' = filter.excludes
      BY <2>1, <2>6 DEF Filter!Patterns
    <3>2. \A x \in DOMAIN filter.excludes : ~(x < 1)
      BY <1>0, InputTypes
    <3> QED
      BY <1>0, <2>1, <2>3, <2>6, <3>1, <3>2 DEF FilterInv, Filter!FilterIsRight
  <2>7. CASE stage = "include" /\ filter.includes # <<>>
    <3>1. stage' = "dropped" /\ ~Matching(filter.includes, name)
      BY <2>1, <2>4, <2>7 DEF Filter!Patterns
    <3> QED
      BY <1>0, <2>1, <2>3, <2>7, <3>1 DEF FilterInv, Filter!FilterIsRight, Matching
  <2> QED
    BY <2>1, <2>5, <2>6, <2>7
<1> QED
  BY <1>1, <1>2, <1>3, <1>4, <1>5, <1>6, <1>7 DEF Filter!Next

LEMMA FilterStill == FilterInv /\ UNCHANGED filterVars => FilterInv'
BY DEF filterVars, FilterInv, Filter!FilterIsRight, Filter!Trying, Filter!Patterns, Filter!pattern

LEMMA FilterPart == PartsSpec => [](focus = "filter" => FilterInv)
<1>1. PartsInit => (focus = "filter" => FilterInv)
  BY FilterBegins DEF PartsInit
<1>2. /\ focus = "filter" => FilterInv
      /\ [PlanMoves \/ FilterMoves \/ UrlMoves \/ LocalMoves]_allVars
      => (focus = "filter" => FilterInv)'
  BY FilterStep, FilterStill DEF PlanMoves, FilterMoves, UrlMoves, LocalMoves, allVars
<1> QED
  BY <1>1, <1>2, PTL DEF PartsSpec

\* Whatever the patterns and the names, of any number and length: the answer is
\* the one of the patterns' meaning, although glob_match only ever goes back to
\* its last star; and its positions stay inside pattern and name.
THEOREM FilterRight ==
    PartsSpec => [](focus = "filter" => Filter!FilterIsRight /\ Filter!TypeOK)
<1>1. FilterInv => Filter!FilterIsRight
  BY DEF FilterInv
<1>2. FilterInv => Filter!TypeOK
  <2> SUFFICES ASSUME FilterInv PROVE Filter!TypeOK
    OBVIOUS
  <2>1. CASE Filter!Trying
    BY <2>1, PatternTypes DEF FilterInv, Filter!TypeOK, GlobAt
  <2>2. CASE ~Filter!Trying
    <3>1. Len(name) \in Nat
      BY InputTypes DEF FilterInv
    <3> QED
      BY <2>2, <3>1 DEF FilterInv, Filter!TypeOK
  <2> QED
    BY <2>1, <2>2
<1> QED
  BY <1>1, <1>2, FilterPart, PTL

-----------------------------------------------------------------------------
(* Sanitize: the operators *)

Chars == Local!Chars

\* The least and the greatest of some places in a sequence
LEMMA FirstPlace ==
    ASSUME NEW n \in Nat, NEW S \in SUBSET (1..n), S # {}
    PROVE  Local!Min(S) \in S /\ \A x \in S : Local!Min(S) <= x
<1>1. \E x \in S : \A y \in S : x <= y
  <2>1. S \in SUBSET Nat
    OBVIOUS
  <2> QED
    BY <2>1, Least
<1> QED
  BY <1>1 DEF Local!Min

LEMMA LastPlace ==
    ASSUME NEW n \in Nat, NEW S \in SUBSET (1..n), S # {}
    PROVE  Local!Max(S) \in S /\ \A x \in S : Local!Max(S) >= x
<1> DEFINE T == {x \in 0..n : n - x \in S}
<1>1. \E x \in T : \A y \in T : x <= y
  <2>1. T \in SUBSET Nat
    OBVIOUS
  <2>2. T # {}
    <3>1. PICK x \in S : TRUE
      OBVIOUS
    <3>2. n - x \in 0..n /\ n - (n - x) = x
      OBVIOUS
    <3> QED
      BY <3>2
  <2> QED
    BY <2>1, <2>2, Least
<1>2. PICK x \in T : \A y \in T : x <= y
  BY <1>1
<1>3. n - x \in S /\ x \in 0..n
  BY <1>2
<1>4. ASSUME NEW y \in S
      PROVE  n - x >= y
  <2>1. n - y \in T
    OBVIOUS
  <2>2. x <= n - y
    BY <1>2, <2>1
  <2> QED
    BY <1>3, <2>2
<1>5. \E z \in S : \A y \in S : z >= y
  BY <1>3, <1>4
<1> QED
  BY <1>5 DEF Local!Max

LEMMA PlacesAre ==
    ASSUME NEW s \in Seq(Chars), NEW chars
    PROVE  /\ Local!Places(s, chars) \in SUBSET (1..Len(s)) /\ Len(s) \in Nat
           /\ \A x \in 1..Len(s) : x \in Local!Places(s, chars) <=> s[x] \in chars
<1>1. DOMAIN s = 1..Len(s) /\ Len(s) \in Nat
  OBVIOUS
<1> QED
  BY <1>1 DEF Local!Places

LEMMA SubSeqOf ==
    ASSUME NEW s \in Seq(Chars), NEW m \in 1..(Len(s) + 1), NEW n \in 0..Len(s)
    PROVE  /\ SubSeq(s, m, n) \in Seq(Chars)
           /\ Len(SubSeq(s, m, n)) = IF m <= n THEN n - m + 1 ELSE 0
           /\ Len(SubSeq(s, m, n)) <= Len(s)
           /\ \A x \in 1..Len(SubSeq(s, m, n)) :
                 SubSeq(s, m, n)[x] = s[m + x - 1] /\ m + x - 1 \in 1..Len(s)
<1>1. Len(s) \in Nat /\ m \in Int /\ n \in Int /\ \A x \in m..n : s[x] \in Chars
  OBVIOUS
<1>2. /\ SubSeq(s, m, n) \in Seq(Chars)
      /\ Len(SubSeq(s, m, n)) = IF m <= n THEN n - m + 1 ELSE 0
      /\ \A x \in 1..(n - m + 1) : SubSeq(s, m, n)[x] = s[m + x - 1]
  BY <1>1, SubSeqProperties
<1> QED
  BY <1>1, <1>2

LEMMA BeforeIs ==
    ASSUME NEW s \in Seq(Chars), NEW char
    PROVE  LET before == Local!Before(s, char)
           IN  /\ before \in Seq(Chars) /\ Len(before) \in 0..Len(s)
               /\ \A x \in 1..Len(before) : before[x] = s[x] /\ s[x] # char
               /\ Len(before) < Len(s) => s[Len(before) + 1] = char
               /\ Len(before) = Len(s) => before = s
<1> DEFINE at == Local!Places(s, {char})
           before == Local!Before(s, char)
<1>1. at \in SUBSET (1..Len(s)) /\ Len(s) \in Nat /\ \A x \in 1..Len(s) : x \in at <=> s[x] = char
  BY PlacesAre
<1>2. before = IF at = {} THEN s ELSE SubSeq(s, 1, Local!Min(at) - 1)
  BY DEF Local!Before
<1> HIDE DEF at, before
<1>3. CASE at = {}
  <2>1. before = s
    BY <1>2, <1>3
  <2> QED
    BY <1>1, <1>3, <2>1 DEF before
<1>4. CASE at # {}
  <2> DEFINE m == Local!Min(at)
  <2>1. m \in at /\ \A x \in at : m <= x
    BY <1>1, <1>4, FirstPlace
  <2>2. before = SubSeq(s, 1, m - 1)
    BY <1>2, <1>4
  <2> HIDE DEF m
  <2>3. m \in 1..Len(s) /\ s[m] = char
    BY <1>1, <2>1
  <2>4. /\ before \in Seq(Chars) /\ Len(before) = m - 1
        /\ \A x \in 1..(m - 1) : before[x] = s[x] /\ x \in 1..Len(s)
    BY <1>1, <2>2, <2>3, SubSeqOf
  <2>5. \A x \in 1..(m - 1) : s[x] # char
    <3>1. \A x \in 1..(m - 1) : ~(m <= x)
      BY <2>3
    <3> QED
      BY <1>1, <2>1, <2>4, <3>1
  <2>6. Len(before) + 1 = m /\ Len(before) < Len(s) /\ Len(before) \in 0..Len(s)
    BY <2>3, <2>4
  <2> QED
    BY <2>3, <2>4, <2>5, <2>6 DEF before
<1> QED
  BY <1>3, <1>4

LEMMA ReplacedIs ==
    ASSUME NEW s \in Seq(Chars)
    PROVE  LET r == Local!ReplaceInvalid(s)
           IN  /\ r \in Seq(Chars) /\ Len(r) = Len(s)
               /\ \A x \in 1..Len(s) :
                     r[x] = IF s[x] = "?" THEN "_" ELSE s[x]
<1> DEFINE r == Local!ReplaceInvalid(s)
<1>1. Len(s) \in Nat /\ DOMAIN s = 1..Len(s) /\ \A x \in 1..Len(s) : s[x] \in Chars
  OBVIOUS
<1>2. r = [x \in 1..Len(s) |-> IF s[x] = "?" THEN "_" ELSE s[x]]
  BY <1>1 DEF Local!ReplaceInvalid, Local!Invalid
<1>3. \A x \in 1..Len(s) : (IF s[x] = "?" THEN "_" ELSE s[x]) \in Chars
  BY <1>1 DEF Chars, Local!Chars
<1> HIDE DEF r
<1>4. r \in [1..Len(s) -> Chars]
  BY <1>2, <1>3
<1>5. r \in Seq(Chars) /\ Len(r) = Len(s)
  BY <1>1, <1>4
<1> QED
  BY <1>2, <1>5 DEF r

\* What trimming leaves has no space or dot where it would hurt.
Trimmed(s) == s # <<>> => s[1] # " " /\ s[Len(s)] \notin {" ", "."}

LEMMA TrimmedIs ==
    ASSUME NEW s \in Seq(Chars)
    PROVE  LET t == Local!Trim(s)
           IN  /\ t \in Seq(Chars) /\ Len(t) <= Len(s) /\ Trimmed(t)
               /\ \A x \in 1..Len(t) : \E y \in 1..Len(s) : t[x] = s[y]
               /\ Trimmed(s) => t = s
<1> DEFINE ink  == Local!Places(s, Local!Chars \ {" "})
           last == Local!Places(s, Local!Chars \ {" ", "."})
           t    == Local!Trim(s)
<1>1. /\ Len(s) \in Nat /\ ink \in SUBSET (1..Len(s)) /\ last \in SUBSET (1..Len(s))
      /\ \A x \in 1..Len(s) : /\ x \in ink <=> s[x] # " "
                              /\ x \in last <=> s[x] \notin {" ", "."}
  <2>1. \A x \in 1..Len(s) : s[x] \in Local!Chars
    BY DEF Chars
  <2>2. /\ Len(s) \in Nat /\ ink \in SUBSET (1..Len(s)) /\ last \in SUBSET (1..Len(s))
        /\ \A x \in 1..Len(s) : x \in ink <=> s[x] \in Local!Chars \ {" "}
        /\ \A x \in 1..Len(s) : x \in last <=> s[x] \in Local!Chars \ {" ", "."}
    BY PlacesAre
  <2> QED
    BY <2>1, <2>2
<1>2. t = IF last = {} THEN <<>> ELSE SubSeq(s, Local!Min(ink), Local!Max(last))
  BY DEF Local!Trim
<1> HIDE DEF ink, last, t
<1>0. s # <<>> => 1 \in 1..Len(s) /\ Len(s) \in 1..Len(s)
  BY EmptySeq
<1>3. CASE last = {}
  <2>1. t = <<>> /\ t \in Seq(Chars) /\ Len(t) = 0
    BY <1>2, <1>3
  <2>2. Trimmed(s) => s = <<>>
    BY <1>0, <1>1, <1>3 DEF Trimmed
  <2>3. Len(t) <= Len(s) /\ \A x \in 1..Len(t) : FALSE
    <3>1. Len(s) \in Nat /\ Len(t) = 0
      BY <1>1, <2>1
    <3> QED
      BY <3>1
  <2>4. Trimmed(t)
    BY <2>1 DEF Trimmed
  <2>5. Trimmed(s) => t = s
    BY <2>1, <2>2
  <2> QED
    BY <2>1, <2>3, <2>4, <2>5 DEF t
<1>4. CASE last # {}
  <2> DEFINE m == Local!Min(ink)
             n == Local!Max(last)
  <2>1. n \in last /\ \A x \in last : n >= x
    BY <1>1, <1>4, LastPlace
  <2>2. n \in ink
    BY <1>1, <2>1
  <2>3. m \in ink /\ \A x \in ink : m <= x
    BY <1>1, <2>2, FirstPlace
  <2>4. t = SubSeq(s, m, n)
    BY <1>2, <1>4
  <2> HIDE DEF m, n
  <2>5. m \in 1..Len(s) /\ n \in 1..Len(s) /\ m <= n /\ Len(s) \in Nat
    BY <1>1, <2>1, <2>2, <2>3
  <2>9. s[m] # " " /\ s[n] \notin {" ", "."}
    BY <1>1, <2>1, <2>3
  <2>6. /\ t \in Seq(Chars) /\ Len(t) = n - m + 1 /\ Len(t) <= Len(s)
        /\ \A x \in 1..Len(t) : t[x] = s[m + x - 1] /\ m + x - 1 \in 1..Len(s)
    <3>1. m \in 1..(Len(s) + 1) /\ n \in 0..Len(s)
      BY <2>5
    <3> QED
      BY <2>4, <2>5, <3>1, SubSeqOf
  <2>7. Trimmed(t)
    <3>1. 1 \in 1..Len(t) /\ Len(t) \in 1..Len(t) /\ m + 1 - 1 = m /\ m + Len(t) - 1 = n
      BY <2>5, <2>6
    <3>2. t[1] = s[m] /\ t[Len(t)] = s[n]
      BY <2>6, <3>1
    <3> QED
      BY <2>9, <3>2 DEF Trimmed
  <2>8. ASSUME Trimmed(s)
        PROVE  t = s
    <3>1. s[1] # " " /\ s[Len(s)] \notin {" ", "."} /\ 1 \in 1..Len(s) /\ Len(s) \in 1..Len(s)
      <4>1. s # <<>>
        BY <2>5
      <4> QED
        BY <1>0, <2>8, <4>1 DEF Trimmed
    <3>2. 1 \in ink /\ Len(s) \in last
      BY <1>1, <3>1
    <3>3. m = 1 /\ n = Len(s)
      <4>1. n >= Len(s) /\ m <= 1
        BY <2>1, <2>3, <3>2
      <4> QED
        BY <2>5, <4>1
    <3> QED
      BY <2>4, <3>3, SubSeqFull
  <2> QED
    BY <2>6, <2>7, <2>8 DEF t
<1> QED
  BY <1>3, <1>4

LEMMA OneCharacter ==
    ASSUME NEW S, NEW c \in S
    PROVE  <<c>> \in Seq(S) /\ Len(<<c>>) = 1 /\ <<c>>[1] = c
OBVIOUS

LEMMA UnderscoreIsOne ==
    <<"_">> \in Seq(Chars) /\ Len(<<"_">>) = 1 /\ <<"_">>[1] = "_"
<1>1. "_" \in Chars
  BY DEF Chars, Local!Chars
<1> HIDE DEF Chars
<1> QED
  BY <1>1, OneCharacter

LEMMA ReservedIs ==
    ASSUME NEW s \in Seq(Chars)
    PROVE  Local!Reserved(s) <=> Len(s) = 2 /\ s[1] = "com" /\ s[2] \in {"1", "^1"}
BY DEF Local!Reserved

\* No part of the component up to a dot or its end is a device name.
NoDevice(s) ==
    \A n \in 1..Len(s) :
        Local!Reserved(SubSeq(s, 1, n)) => n < Len(s) /\ s[n + 1] # "."

LEMMA DeviceIsShort ==
    ASSUME NEW s \in Seq(Chars), NEW n \in 1..Len(s)
    PROVE  Local!Reserved(SubSeq(s, 1, n)) <=> n = 2 /\ s[1] = "com" /\ s[2] \in {"1", "^1"}
<1>1. 1 \in 1..(Len(s) + 1) /\ n \in 0..Len(s) /\ n \in Nat /\ n - 1 + 1 = n /\ 1 <= n
  OBVIOUS
<1>2. /\ SubSeq(s, 1, n) \in Seq(Chars) /\ Len(SubSeq(s, 1, n)) = n
      /\ \A x \in 1..n : SubSeq(s, 1, n)[x] = s[1 + x - 1]
  BY <1>1, SubSeqOf
<1>3. n = 2 => SubSeq(s, 1, n)[1] = s[1] /\ SubSeq(s, 1, n)[2] = s[2]
  <2>1. n = 2 => 1 \in 1..n /\ 2 \in 1..n /\ 1 + 1 - 1 = 1 /\ 1 + 2 - 1 = 2
    OBVIOUS
  <2> QED
    BY <1>2, <2>1
<1> QED
  BY <1>2, <1>3, ReservedIs

LEMMA MarkedIs ==
    ASSUME NEW s \in Seq(Chars)
    PROVE  LET m == Local!MarkReserved(s)
           IN  /\ m \in Seq(Chars) /\ Len(s) <= Len(m) /\ Len(m) <= Len(s) + 1
               /\ \A x \in 1..Len(m) : m[x] = "_" \/ \E y \in 1..Len(s) : m[x] = s[y]
               /\ s # <<>> => m[1] = s[1] /\ m[Len(m)] \in {"_", s[Len(s)]}
               /\ NoDevice(m)
               /\ NoDevice(s) => m = s
               /\ m = s \/ Len(m) >= 3
<1> DEFINE before == Local!Before(s, ".")
           m == Local!MarkReserved(s)
           after == SubSeq(s, Len(before) + 1, Len(s))
<1>1. /\ before \in Seq(Chars) /\ Len(before) \in 0..Len(s) /\ Len(s) \in Nat
      /\ \A x \in 1..Len(before) : before[x] = s[x] /\ s[x] # "."
      /\ Len(before) < Len(s) => s[Len(before) + 1] = "."
      /\ Len(before) = Len(s) => before = s
  BY BeforeIs
<1>0. Len(before) \in Nat /\ Len(s) \in Nat
  BY <1>1, LenProperties
<1>2. m = IF Local!Reserved(before) THEN before \o <<"_">> \o after ELSE s
  BY DEF Local!MarkReserved
<1> HIDE DEF before, m
<1>3. CASE ~Local!Reserved(before)
  <2>1. m = s
    BY <1>2, <1>3
  <2>2. NoDevice(s)
    <3> SUFFICES ASSUME NEW n \in 1..Len(s), Local!Reserved(SubSeq(s, 1, n))
                 PROVE  n < Len(s) /\ s[n + 1] # "."
      BY DEF NoDevice
    <3>1. n = 2 /\ s[1] = "com" /\ s[2] \in {"1", "^1"}
      BY DeviceIsShort
    <3>2. ~(Len(before) = 2)
      <4>1. Len(before) = 2 => before[1] = s[1] /\ before[2] = s[2]
        BY <1>1
      <4> QED
        BY <1>1, <1>3, <3>1, <4>1, ReservedIs
    <3>3. Len(before) = 0 \/ Len(before) = 1 \/ Len(before) >= 3
      <4> DEFINE l == Len(before)
      <4>1. l \in Nat /\ l # 2
        BY <1>0, <3>2
      <4> HIDE DEF l
      <4>2. l = 0 \/ l = 1 \/ l >= 3
        BY <4>1
      <4> QED
        BY <4>2 DEF l
    <3>4. Len(before) # 0 /\ Len(before) # 1
      <4>1. 2 <= Len(s)
        BY <3>1
      <4>2. Len(before) = 0 => s[1] = "."
        BY <1>1, <4>1
      <4>3. Len(before) = 1 => s[2] = "."
        BY <1>1, <4>1
      <4> QED
        BY <3>1, <4>2, <4>3
    <3>5. Len(before) >= 3
      BY <3>3, <3>4
    <3>6. 3 \in 1..Len(before) /\ 2 < Len(s)
      BY <1>1, <3>5
    <3> QED
      BY <1>1, <3>1, <3>6
  <2>3. \A x \in 1..Len(m) : \E y \in 1..Len(s) : m[x] = s[y]
    BY <2>1
  <2>4. Len(m) = Len(s) /\ Len(m) <= Len(s) + 1 /\ Len(s) <= Len(m)
    BY <1>1, <2>1
  <2> QED
    BY <2>1, <2>2, <2>3, <2>4 DEF m
<1>4. CASE Local!Reserved(before)
  <2>1. Len(before) = 2 /\ before[1] = "com" /\ before[2] \in {"1", "^1"}
    BY <1>1, <1>4, ReservedIs
  <2>2. s[1] = "com" /\ s[2] \in {"1", "^1"} /\ 2 <= Len(s) /\ s # <<>>
    BY <1>1, <2>1
  <2>3. /\ after \in Seq(Chars) /\ Len(after) = Len(s) - 2
        /\ \A x \in 1..Len(after) : after[x] = s[x + 2] /\ x + 2 \in 1..Len(s)
    <3>1. 3 \in 1..(Len(s) + 1) /\ Len(s) \in 0..Len(s) /\ after = SubSeq(s, 3, Len(s))
      BY <1>1, <2>1, <2>2
    <3> HIDE DEF after
    <3>2. /\ after \in Seq(Chars) /\ Len(after) = IF 3 <= Len(s) THEN Len(s) - 3 + 1 ELSE 0
          /\ \A x \in 1..Len(after) : after[x] = s[3 + x - 1] /\ 3 + x - 1 \in 1..Len(s)
      BY <3>1, SubSeqOf
    <3>3. Len(after) = Len(s) - 2
      <4> DEFINE l == Len(s)
                 r == Len(after)
      <4>1. l \in Nat /\ 2 <= l /\ r = IF 3 <= l THEN l - 3 + 1 ELSE 0
        BY <1>0, <2>2, <3>2
      <4> HIDE DEF l, r
      <4>2. r = l - 2
        BY <4>1
      <4> QED
        BY <4>2 DEF l, r
    <3>4. \A x \in 1..Len(after) : 3 + x - 1 = x + 2
      BY <1>0, <3>3
    <3> QED
      BY <3>2, <3>3, <3>4
  <2> HIDE DEF after
  <2> DEFINE u == <<"_">>
  <2>4. u \in Seq(Chars) /\ Len(u) = 1 /\ u[1] = "_"
    BY UnderscoreIsOne
  <2> HIDE DEF u
  <2> DEFINE h == before \o u
  <2>5. h \in Seq(Chars) /\ Len(h) = 3 /\ h[1] = before[1] /\ h[2] = before[2] /\ h[3] = "_"
    <3>0. /\ h \in Seq(Chars) /\ Len(h) = Len(before) + Len(u)
          /\ \A x \in 1..(Len(before) + Len(u)) :
                h[x] = IF x <= Len(before) THEN before[x] ELSE u[x - Len(before)]
      BY <1>1, <2>4, ConcatProperties
    <3>9. Len(before) + Len(u) = 3 /\ Len(before) = 2
      <4> DEFINE l == Len(before)
                 r == Len(u)
      <4>1. l = 2 /\ r = 1
        BY <2>1, <2>4
      <4> HIDE DEF l, r
      <4>2. l + r = 3
        BY <4>1
      <4> QED
        BY <4>1, <4>2 DEF l, r
    <3>1. /\ h \in Seq(Chars) /\ Len(h) = 3
          /\ \A x \in 1..3 : h[x] = IF x <= 2 THEN before[x] ELSE u[x - 2]
      BY <3>0, <3>9
    <3> HIDE DEF h
    <3>2. h[1] = before[1]
      BY <3>1
    <3>3. h[2] = before[2]
      BY <3>1
    <3>4. h[3] = u[1]
      BY <3>1
    <3> QED
      BY <2>4, <3>1, <3>2, <3>3, <3>4
  <2>6. m = h \o after
    BY <1>2, <1>4 DEF u
  <2> HIDE DEF h
  <2>7. /\ m \in Seq(Chars) /\ Len(m) = 3 + (Len(s) - 2)
        /\ \A x \in 1..Len(m) : m[x] = IF x <= 3 THEN h[x] ELSE after[x - 3]
    <3>1. /\ m \in Seq(Chars) /\ Len(m) = Len(h) + Len(after)
          /\ \A x \in 1..(Len(h) + Len(after)) :
                m[x] = IF x <= Len(h) THEN h[x] ELSE after[x - Len(h)]
      BY <2>3, <2>5, <2>6, ConcatProperties
    <3>2. Len(h) = 3 /\ Len(after) = Len(s) - 2
      BY <2>3, <2>5
    <3> QED
      BY <3>1, <3>2
  <2>8. Len(m) = Len(s) + 1 /\ Len(m) >= 3 /\ Len(s) <= Len(m) /\ Len(m) <= Len(s) + 1
    <3>1. Len(m) = 3 + (Len(s) - 2) /\ 2 <= Len(s)
      BY <2>2, <2>7
    <3> QED
      BY <1>0, <3>1
  <2>9. m[1] = "com" /\ m[2] \in {"1", "^1"} /\ m[3] = "_" /\ m[1] = s[1]
    <3>1. 1 \in 1..Len(m) /\ 2 \in 1..Len(m) /\ 3 \in 1..Len(m)
      BY <1>1, <2>8
    <3>2. m[1] = h[1] /\ m[2] = h[2] /\ m[3] = h[3]
      BY <2>7, <3>1
    <3> QED
      BY <2>1, <2>2, <2>5, <3>2
  <2>10. \A x \in 4..Len(m) : m[x] = s[x - 1] /\ x - 1 \in 1..Len(s)
    <3> TAKE x \in 4..Len(m)
    <3>1. x \in 1..Len(m) /\ ~(x <= 3) /\ x - 3 \in 1..Len(after) /\ x - 3 + 2 = x - 1
      BY <1>1, <2>3, <2>8
    <3>2. m[x] = after[x - 3]
      BY <2>7, <3>1
    <3> QED
      BY <2>3, <3>1, <3>2
  <2>11. \A x \in 1..Len(m) : m[x] = "_" \/ \E y \in 1..Len(s) : m[x] = s[y]
    <3> TAKE x \in 1..Len(m)
    <3>1. x = 1 \/ x = 2 \/ x = 3 \/ x \in 4..Len(m)
      BY <1>1, <2>8
    <3>2. m[2] = s[2] /\ 1 \in 1..Len(s) /\ 2 \in 1..Len(s)
      <4>1. 1 \in 1..Len(s) /\ 2 \in 1..Len(s) /\ 2 \in 1..Len(m) /\ 2 \in 1..Len(before)
        BY <1>1, <2>1, <2>2, <2>8
      <4>2. m[2] = h[2]
        BY <2>7, <4>1
      <4>3. h[2] = before[2] /\ before[2] = s[2]
        BY <1>1, <2>5, <4>1
      <4> QED
        BY <4>1, <4>2, <4>3
    <3> QED
      BY <2>9, <2>10, <3>1, <3>2
  <2>12. m[Len(m)] \in {"_", s[Len(s)]}
    <3>1. Len(m) = 3 \/ Len(m) \in 4..Len(m)
      BY <1>1, <2>8
    <3>2. Len(m) - 1 = Len(s)
      BY <1>1, <2>8
    <3> QED
      BY <2>9, <2>10, <3>1, <3>2
  <2>13. NoDevice(m)
    <3> SUFFICES ASSUME NEW n \in 1..Len(m), Local!Reserved(SubSeq(m, 1, n))
                 PROVE  n < Len(m) /\ m[n + 1] # "."
      BY DEF NoDevice
    <3>1. n = 2
      BY <2>7, DeviceIsShort
    <3>2. n < Len(m) /\ n + 1 = 3
      BY <2>8, <3>1
    <3> QED
      BY <2>9, <3>2
  <2>14. ~NoDevice(s)
    <3>1. 2 \in 1..Len(s)
      BY <1>1, <2>2
    <3>2. Local!Reserved(SubSeq(s, 1, 2))
      BY <2>2, <3>1, DeviceIsShort
    <3>3. 2 < Len(s) => s[2 + 1] = "."
      <4>1. 2 < Len(s) => Len(before) < Len(s) /\ Len(before) + 1 = 2 + 1
        BY <2>1
      <4> QED
        BY <1>1, <4>1
    <3> QED
      BY <3>1, <3>2, <3>3 DEF NoDevice
  <2> QED
    BY <2>7, <2>8, <2>9, <2>11, <2>12, <2>13, <2>14 DEF m
<1> QED
  BY <1>3, <1>4

\* A component every file system takes
Fits(s) ==
    /\ s \in Seq(Chars) /\ s # <<>> /\ Trimmed(s) /\ NoDevice(s)
    /\ \A x \in 1..Len(s) : s[x] # "?" /\ s[x] # "/"

LEMMA SanitizedFits ==
    ASSUME NEW s \in Seq(Chars), s # <<>>, \A x \in 1..Len(s) : s[x] # "/"
    PROVE  Fits(Local!SanitizeComponent(s)) /\ Len(Local!SanitizeComponent(s)) <= Len(s) + 1
<1> DEFINE r == Local!ReplaceInvalid(s)
           t == Local!Trim(r)
           o == Local!OrPlaceholder(t)
           m == Local!MarkReserved(o)
<1>0. Len(s) \in Nat \ {0}
  BY EmptySeq
<1>1. /\ r \in Seq(Chars) /\ Len(r) = Len(s)
      /\ \A x \in 1..Len(s) : r[x] = IF s[x] = "?" THEN "_" ELSE s[x]
  BY ReplacedIs
<1> HIDE DEF r
<1>2. \A x \in 1..Len(r) : r[x] # "?" /\ r[x] # "/"
  BY <1>1
<1>3. /\ t \in Seq(Chars) /\ Len(t) <= Len(r) /\ Trimmed(t)
      /\ \A x \in 1..Len(t) : \E y \in 1..Len(r) : t[x] = r[y]
  BY <1>1, TrimmedIs
<1> HIDE DEF t
<1>4. \A x \in 1..Len(t) : t[x] # "?" /\ t[x] # "/"
  BY <1>2, <1>3
<1>5. /\ o \in Seq(Chars) /\ o # <<>> /\ Len(o) <= Len(s) /\ Trimmed(o)
      /\ \A x \in 1..Len(o) : o[x] # "?" /\ o[x] # "/"
  <2>1. CASE t = <<>>
    <3>1. o = <<"_">>
      BY <2>1 DEF Local!OrPlaceholder
    <3>2. <<"_">> \in Seq(Chars) /\ Len(<<"_">>) = 1 /\ <<"_">>[1] = "_" /\ <<"_">> # <<>>
      BY UnderscoreIsOne
    <3>3. \A x \in 1..1 : x = 1
      OBVIOUS
    <3>4. 1 <= Len(s)
      BY <1>0
    <3> HIDE DEF o
    <3>5. o \in Seq(Chars) /\ o # <<>> /\ Len(o) = 1 /\ o[1] = "_"
      BY <3>1, <3>2
    <3> QED
      BY <3>3, <3>4, <3>5 DEF Trimmed
  <2>2. CASE t # <<>>
    <3>1. o = t
      BY <2>2 DEF Local!OrPlaceholder
    <3> QED
      BY <1>1, <1>3, <1>4, <2>2, <3>1
  <2> QED
    BY <2>1, <2>2
<1> HIDE DEF o
<1>6. /\ m \in Seq(Chars) /\ Len(o) <= Len(m) /\ Len(m) <= Len(o) + 1
      /\ \A x \in 1..Len(m) : m[x] = "_" \/ \E y \in 1..Len(o) : m[x] = o[y]
      /\ m[1] = o[1] /\ m[Len(m)] \in {"_", o[Len(o)]}
      /\ NoDevice(m)
  BY <1>5, MarkedIs
<1>7. Local!SanitizeComponent(s) = m
  BY DEF Local!SanitizeComponent, m, o, t, r
<1> HIDE DEF m
<1>12. Len(o) \in Nat \ {0} /\ Len(m) \in Nat
  BY <1>5, <1>6, EmptySeq, LenProperties
<1>8. m # <<>>
  <2> DEFINE l == Len(o)
             n == Len(m)
  <2>1. l \in Nat \ {0} /\ n \in Nat /\ l <= n
    BY <1>6, <1>12
  <2> HIDE DEF l, n
  <2>2. n # 0
    BY <2>1
  <2> QED
    BY <2>2 DEF n
<1>9. Trimmed(m)
  BY <1>5, <1>6 DEF Trimmed
<1>10. \A x \in 1..Len(m) : m[x] # "?" /\ m[x] # "/"
  BY <1>5, <1>6
<1>11. Len(m) <= Len(s) + 1
  <2>1. Len(m) <= Len(o) + 1 /\ Len(o) <= Len(s)
    BY <1>5, <1>6
  <2> QED
    BY <1>0, <1>12, <2>1
<1> QED
  BY <1>6, <1>7, <1>8, <1>9, <1>10, <1>11 DEF Fits

\* What fits is not changed again.
LEMMA FittingStays ==
    ASSUME NEW s, Fits(s)
    PROVE  Local!SanitizeComponent(s) = s
<1>1. s \in Seq(Chars) /\ s # <<>> /\ Trimmed(s) /\ NoDevice(s) /\ \A x \in 1..Len(s) : s[x] # "?"
  BY DEF Fits
<1>2. Local!ReplaceInvalid(s) = s
  <2> DEFINE r == Local!ReplaceInvalid(s)
  <2>1. /\ r \in Seq(Chars) /\ Len(r) = Len(s)
        /\ \A x \in 1..Len(s) : r[x] = IF s[x] = "?" THEN "_" ELSE s[x]
    BY <1>1, ReplacedIs
  <2> HIDE DEF r
  <2>2. \A x \in 1..Len(r) : r[x] = s[x]
    BY <1>1, <2>1
  <2>3. r = s
    BY <1>1, <2>1, <2>2, SeqEqual
  <2> QED
    BY <2>3 DEF r
<1>3. Local!Trim(s) = s
  BY <1>1, TrimmedIs
<1>4. Local!OrPlaceholder(s) = s
  BY <1>1 DEF Local!OrPlaceholder
<1>5. Local!MarkReserved(s) = s
  BY <1>1, MarkedIs
<1> QED
  BY <1>2, <1>3, <1>4, <1>5 DEF Local!SanitizeComponent

-----------------------------------------------------------------------------
(* Sanitize: sanitize_filename *)

\* What is still to be read ends with a slash; what was emitted fits.
LocalInv ==
    /\ filename \in Seq(Chars) /\ rest \in Seq(Chars) /\ emitted \in Seq(Seq(Chars))
    /\ Len(rest) <= Len(filename) + 1
    /\ rest # <<>> => rest[Len(rest)] = "/"
    /\ \A x \in 1..Len(emitted) : Fits(emitted[x]) /\ Len(emitted[x]) <= Len(filename) + 1
    /\ modified \in BOOLEAN /\ done \in BOOLEAN

LEMMA LocalBegins == Local!Init => LocalInv
<1> SUFFICES ASSUME Local!Init PROVE LocalInv
  OBVIOUS
<1>1. /\ filename \in Seq(Chars) /\ rest = Append(filename, "/")
      /\ emitted = <<>> /\ modified = FALSE /\ done = FALSE
  BY PartsAssumption DEF Local!Init, Local!InputsAssumption, Local!Split, Chars
<1>2. "/" \in Chars
  BY DEF Chars, Local!Chars
<1>3. /\ rest \in Seq(Chars) /\ Len(rest) = Len(filename) + 1
      /\ rest[Len(filename) + 1] = "/"
  BY <1>1, <1>2, AppendProperties
<1>4. Len(rest) <= Len(filename) + 1
  <2>1. Len(filename) \in Nat
    BY <1>1, LenProperties
  <2> QED
    BY <1>3, <2>1
<1>5. emitted \in Seq(Seq(Chars)) /\ \A x \in 1..Len(emitted) : FALSE
  BY <1>1
<1> QED
  BY <1>1, <1>3, <1>4, <1>5 DEF LocalInv

\* The component that is read lies before a slash.
LEMMA ComponentIs ==
    ASSUME LocalInv, rest # <<>>
    PROVE  /\ Local!Component \in Seq(Chars) /\ Len(Local!Component) + 1 <= Len(filename) + 1
           /\ \A x \in 1..Len(Local!Component) : Local!Component[x] # "/"
           /\ Local!TakeComponent =>
                 /\ rest' \in Seq(Chars) /\ Len(rest') <= Len(filename) + 1
                 /\ rest' # <<>> => rest'[Len(rest')] = "/"
<1> DEFINE before == Local!Component
           l == Len(before)
           r == Len(rest)
           f == Len(filename)
<1>1. /\ rest \in Seq(Chars) /\ filename \in Seq(Chars) /\ Len(rest) <= Len(filename) + 1
      /\ rest[Len(rest)] = "/"
  BY DEF LocalInv
<1>2. /\ before \in Seq(Chars) /\ Len(before) \in 0..Len(rest)
      /\ \A x \in 1..Len(before) : before[x] = rest[x] /\ rest[x] # "/"
      /\ Len(before) = Len(rest) => before = rest
  BY <1>1, BeforeIs DEF Local!Component
<1>3. l \in Nat /\ r \in Nat \ {0} /\ f \in Nat /\ r <= f + 1 /\ l \in 0..r
  BY <1>1, <1>2, EmptySeq, LenProperties
<1>4. l # r
  <2>1. r \in 1..r
    BY <1>3
  <2> QED
    BY <1>1, <1>2, <2>1
<1>5. \A x \in 1..l : before[x] # "/"
  BY <1>2
<1>6. ASSUME Local!TakeComponent
      PROVE  /\ rest' \in Seq(Chars) /\ Len(rest') <= Len(filename) + 1
             /\ rest' # <<>> => rest'[Len(rest')] = "/"
  <2>1. rest' = SubSeq(rest, l + 2, r)
    BY <1>6 DEF Local!TakeComponent
  <2> HIDE DEF l, f
  <2>2. l + 2 \in 1..(r + 1) /\ r \in 0..r
    BY <1>3, <1>4
  <2>3. /\ rest' \in Seq(Chars)
        /\ Len(rest') = IF l + 2 <= r THEN r - (l + 2) + 1 ELSE 0
        /\ \A x \in 1..Len(rest') : rest'[x] = rest[l + 2 + x - 1]
    BY <1>1, <2>1, <2>2, SubSeqOf
  <2> DEFINE n == Len(rest')
  <2>4. n = IF l + 2 <= r THEN r - (l + 2) + 1 ELSE 0
    BY <2>3
  <2> HIDE DEF n, r
  <2>5. n <= f + 1 /\ (n # 0 => n \in 1..n /\ l + 2 + n - 1 = r)
    BY <1>3, <2>4
  <2>6. rest' # <<>> => n # 0
    BY <2>3, EmptySeq DEF n
  <2>7. n # 0 => rest'[n] = "/"
    BY <1>1, <2>3, <2>5 DEF n, r
  <2> QED
    BY <2>3, <2>5, <2>6, <2>7 DEF n, f
<1>7. l + 1 <= f + 1
  <2> HIDE DEF l, r, f
  <2> QED
    BY <1>3, <1>4
<1> QED
  BY <1>2, <1>5, <1>6, <1>7

LEMMA LocalStep == LocalInv /\ Local!Next => LocalInv'
<1> SUFFICES ASSUME LocalInv, Local!Next PROVE LocalInv'
  OBVIOUS
<1>1. CASE Local!Drop
  <2>1. rest # <<>> /\ Local!TakeComponent /\ UNCHANGED <<filename, emitted, done>>
    BY <1>1 DEF Local!Drop, Local!TakeComponent
  <2>2. modified' \in BOOLEAN
    BY <1>1 DEF Local!Drop, LocalInv
  <2> QED
    BY <2>1, <2>2, ComponentIs DEF LocalInv
<1>2. CASE Local!Emit
  <2> DEFINE before == Local!Component
             c == Local!SanitizeComponent(before)
  <2>1. /\ rest # <<>> /\ Local!TakeComponent /\ UNCHANGED <<filename, done>>
        /\ before # <<>> /\ emitted' = Append(emitted, c)
    BY <1>2 DEF Local!Emit, Local!TakeComponent, Local!Dropped
  <2>2. modified' \in BOOLEAN
    BY <1>2 DEF Local!Emit, LocalInv
  <2>3. /\ before \in Seq(Chars) /\ Len(before) + 1 <= Len(filename) + 1
        /\ \A x \in 1..Len(before) : before[x] # "/"
    BY <2>1, ComponentIs
  <2> HIDE DEF before
  <2>4. Fits(c) /\ Len(c) <= Len(before) + 1
    BY <2>1, <2>3, SanitizedFits
  <2> HIDE DEF c
  <2>5. c \in Seq(Chars) /\ Len(c) <= Len(filename) + 1
    <3> DEFINE n == Len(c)
               l == Len(before)
               f == Len(filename)
    <3>1. c \in Seq(Chars) /\ filename \in Seq(Chars)
      BY <2>4 DEF Fits, LocalInv
    <3>2. n \in Nat /\ l \in Nat /\ f \in Nat
      BY <2>3, <3>1, LenProperties
    <3>3. n <= l + 1 /\ l + 1 <= f + 1
      BY <2>3, <2>4
    <3> HIDE DEF n, l, f
    <3>4. n <= f + 1
      BY <3>2, <3>3
    <3> QED
      BY <3>1, <3>4 DEF n, f
  <2>6. /\ emitted' \in Seq(Seq(Chars)) /\ Len(emitted') = Len(emitted) + 1
        /\ \A x \in 1..Len(emitted) : emitted'[x] = emitted[x]
        /\ emitted'[Len(emitted) + 1] = c
    BY <2>1, <2>5, AppendProperties DEF LocalInv
  <2>7. \A x \in 1..Len(emitted') : x \in 1..Len(emitted) \/ x = Len(emitted) + 1
    <3>1. Len(emitted) \in Nat
      BY LenProperties DEF LocalInv
    <3> QED
      BY <2>6, <3>1
  <2>8. \A x \in 1..Len(emitted') : Fits(emitted'[x]) /\ Len(emitted'[x]) <= Len(filename) + 1
    BY <2>4, <2>5, <2>6, <2>7 DEF LocalInv
  <2> QED
    BY <2>1, <2>2, <2>6, <2>8, ComponentIs DEF LocalInv
<1>3. CASE Local!Finish
  BY <1>3 DEF Local!Finish, LocalInv
<1> QED
  BY <1>1, <1>2, <1>3 DEF Local!Next

-----------------------------------------------------------------------------
(* Sanitize: whether a name was changed *)

\* The components joined, a slash behind each
WithSlashes(parts) ==
    IF parts = <<>> THEN <<>> ELSE Append(Local!Joined(parts), "/")

\* One more component, and a slash behind it
Longer(s, component) == Append(s \o component, "/")

NoSlash(component) ==
    component \in Seq(Chars) /\ \A x \in 1..Len(component) : component[x] # "/"

EndsComponent(s) == s \in Seq(Chars) /\ (s # <<>> => s[Len(s)] = "/")

LocalSteps(f, parts) ==
    /\ f \in [0..Len(parts) -> Seq(Chars)]
    /\ f[0] = <<>> /\ Local!Joined(parts) = f[Len(parts)]
    /\ \A x \in 1..Len(parts) :
          f[x] = (IF x = 1 THEN <<>> ELSE Append(f[x - 1], "/")) \o parts[x]

LEMMA LocalJoin ==
    ASSUME NEW parts \in Seq(Seq(Chars))
    PROVE  \E f : LocalSteps(f, parts)
<1> DEFINE V == Seq(Chars)
           N == Len(parts)
           Step(v, x) == (IF x = 1 THEN <<>> ELSE Append(v, "/")) \o parts[x]
           G == [x \in 1..N |-> [v \in V |-> Step(v, x)]]
           Rec(f) == [x \in 0..N |-> IF x = 0 THEN <<>> ELSE Step(f[x - 1], x)]
<1>1. N \in Nat /\ \A x \in 1..N : parts[x] \in Seq(Chars)
  BY LenProperties, ElementOfSeq
<1>2. \A x \in 1..N : \A v \in V : Step(v, x) \in V
  <2> SUFFICES ASSUME NEW x \in 1..N, NEW v \in V PROVE Step(v, x) \in V
    OBVIOUS
  <2>1. parts[x] \in Seq(Chars)
    BY <1>1
  <2>2. "/" \in Chars
    BY DEF Chars, Local!Chars
  <2>3. <<>> \in Seq(Chars) /\ Append(v, "/") \in Seq(Chars)
    BY <2>2, AppendProperties, EmptySeq
  <2> QED
    BY <2>1, <2>3, ConcatProperties
<1>3. G \in [1..N -> [V -> V]] /\ <<>> \in V
  BY <1>2, EmptySeq
<1> HIDE DEF V, N, Step
<1>4. PICK f \in [0..N -> V] : f[0] = <<>> /\ \A x \in 1..N : f[x] = G[x][f[x - 1]]
  <2> HIDE DEF G
  <2>1. PICK f : Iteration(f, V, <<>>, N, G)
    BY <1>1, <1>3, Iterates
  <2> QED
    BY <2>1 DEF Iteration
<1>5. \A x \in 1..N : x - 1 \in 0..N /\ x \in 0..N /\ x # 0
  BY <1>1
<1>6. \A x \in 1..N : f[x] = Step(f[x - 1], x)
  BY <1>4, <1>5
<1>7. f = Rec(f)
  <2>1. \A x \in 0..N : x # 0 => x \in 1..N
    BY <1>1
  <2> QED
    BY <1>4, <1>6, <2>1
<1> DEFINE g == CHOOSE g : g = Rec(g)
<1>8. g = Rec(g)
  <2> HIDE DEF Rec
  <2> QED
    BY <1>7
<1> HIDE DEF g
<1>9. g[0] = <<>> /\ \A x \in 1..N : g[x] = Step(g[x - 1], x)
  <2>1. 0 \in 0..N
    BY <1>1
  <2> QED
    BY <1>5, <1>8, <2>1
<1>10. \A x \in 0..N : g[x] = f[x]
  <2>1. g[0] = f[0] /\ \A x \in 1..N : g[x - 1] = f[x - 1] => g[x] = f[x]
    BY <1>4, <1>6, <1>9
  <2> QED
    BY <1>1, <2>1, IteratesOnce, Zenon
<1>11. Local!Joined(parts) = g[N]
  BY DEF Local!Joined, g, Step, N
<1>12. Local!Joined(parts) = f[N]
  <2>1. N \in 0..N
    BY <1>1
  <2> QED
    BY <1>10, <1>11, <2>1
<1>13. LocalSteps(f, parts)
  BY <1>4, <1>6, <1>12 DEF V, N, Step, LocalSteps
<1> QED
  BY <1>13

LEMMA JoinedOnce ==
    ASSUME NEW parts \in Seq(Seq(Chars)), NEW c \in Seq(Chars)
    PROVE  /\ Local!Joined(<<>>) = <<>> /\ Local!Joined(parts) \in Seq(Chars)
           /\ WithSlashes(Append(parts, c)) = Longer(WithSlashes(parts), c)
<1> DEFINE more == Append(parts, c)
           N == Len(parts)
<1>1. N \in Nat /\ 0 \in 0..N /\ N \in 0..N /\ N + 1 \in 1..(N + 1) /\ N + 1 - 1 = N
  BY LenProperties
<1>2. /\ more \in Seq(Seq(Chars)) /\ more # <<>> /\ Len(more) = N + 1
      /\ more[N + 1] = c /\ \A x \in 1..N : more[x] = parts[x]
  BY AppendProperties
<1> HIDE DEF more, N
<1>3. PICK f : LocalSteps(f, parts)
  BY LocalJoin
<1>4. PICK g : LocalSteps(g, more)
  BY <1>2, LocalJoin
<1>5. \A x \in 0..N : g[x] = f[x]
  <2>1. f \in [0..N -> Seq(Chars)] /\ f[0] = <<>> /\ g[0] = <<>>
    BY <1>3, <1>4 DEF LocalSteps, N
  <2>2. \A x \in 1..N : x \in 1..(N + 1)
    BY <1>1
  <2>3. \A x \in 1..N : g[x - 1] = f[x - 1] => g[x] = f[x]
    <3>1. \A x \in 1..N :
             f[x] = (IF x = 1 THEN <<>> ELSE Append(f[x - 1], "/")) \o parts[x]
      BY <1>3 DEF LocalSteps, N
    <3>2. \A x \in 1..(N + 1) :
             g[x] = (IF x = 1 THEN <<>> ELSE Append(g[x - 1], "/")) \o more[x]
      BY <1>2, <1>4 DEF LocalSteps
    <3> QED
      BY <1>2, <2>2, <3>1, <3>2
  <2>4. g[0] = f[0]
    BY <2>1
  <2> QED
    BY <1>1, <2>1, <2>3, <2>4, IteratesOnce, Zenon
<1>6. Local!Joined(parts) = f[N] /\ f[N] \in Seq(Chars) /\ g[N] = f[N]
  BY <1>1, <1>3, <1>5 DEF LocalSteps, N
<1>7. Local!Joined(more) = (IF N = 0 THEN <<>> ELSE Append(f[N], "/")) \o c
  <2>1. \A x \in 1..(N + 1) :
           g[x] = (IF x = 1 THEN <<>> ELSE Append(g[x - 1], "/")) \o more[x]
    BY <1>2, <1>4 DEF LocalSteps
  <2>2. Local!Joined(more) = g[N + 1]
    BY <1>2, <1>4 DEF LocalSteps
  <2> DEFINE y == N + 1
  <2>3. y \in 1..(N + 1) /\ (y = 1 <=> N = 0) /\ y - 1 = N
    BY <1>1
  <2>4. more[y] = c /\ Local!Joined(more) = g[y]
    BY <1>2, <2>2
  <2> HIDE DEF y
  <2>5. g[y] = (IF y = 1 THEN <<>> ELSE Append(g[y - 1], "/")) \o more[y]
    BY <2>1, <2>3
  <2> QED
    BY <1>6, <2>3, <2>4, <2>5
<1>8. N = 0 <=> parts = <<>>
  BY EmptySeq DEF N
<1>9. WithSlashes(more) = Longer(WithSlashes(parts), c)
  BY <1>2, <1>6, <1>7, <1>8 DEF WithSlashes, Longer
<1>10. Local!Joined(<<>>) = <<>>
  <2>1. <<>> \in Seq(Seq(Chars)) /\ Len(<<>>) = 0
    BY EmptySeq
  <2>2. PICK h : LocalSteps(h, <<>>)
    BY <2>1, LocalJoin
  <2> QED
    BY <2>1, <2>2 DEF LocalSteps
<1> QED
  BY <1>6, <1>9, <1>10 DEF more

LEMMA LongerIs ==
    ASSUME NEW s \in Seq(Chars), NEW c \in Seq(Chars)
    PROVE  /\ Longer(s, c) \in Seq(Chars) /\ Longer(s, c) # <<>>
           /\ Len(Longer(s, c)) = Len(s) + Len(c) + 1
           /\ \A x \in 1..Len(s) : Longer(s, c)[x] = s[x]
           /\ \A x \in 1..Len(c) : Longer(s, c)[Len(s) + x] = c[x]
           /\ Longer(s, c)[Len(s) + Len(c) + 1] = "/"
<1> DEFINE l == Len(s)
           n == Len(c)
           both == s \o c
<1>1. l \in Nat /\ n \in Nat
  BY LenProperties
<1>2. /\ both \in Seq(Chars) /\ Len(both) = l + n
      /\ \A x \in 1..(l + n) : both[x] = IF x <= l THEN s[x] ELSE c[x - l]
  BY ConcatProperties
<1>3. "/" \in Chars
  BY DEF Chars, Local!Chars
<1> HIDE DEF both
<1>4. /\ Append(both, "/") \in Seq(Chars) /\ Append(both, "/") # <<>>
      /\ Len(Append(both, "/")) = l + n + 1
      /\ \A x \in 1..(l + n) : Append(both, "/")[x] = both[x]
      /\ Append(both, "/")[l + n + 1] = "/"
  BY <1>2, <1>3, AppendProperties
<1> HIDE DEF l, n
<1>5. /\ \A x \in 1..l : x \in 1..(l + n) /\ x <= l
      /\ \A x \in 1..n : l + x \in 1..(l + n) /\ ~(l + x <= l) /\ l + x - l = x
  BY <1>1
<1>6. /\ \A x \in 1..l : both[x] = s[x]
      /\ \A x \in 1..n : both[l + x] = c[x]
  <2>1. ASSUME NEW x \in 1..l PROVE both[x] = s[x]
    BY <1>2, <1>5
  <2>2. ASSUME NEW x \in 1..n PROVE both[l + x] = c[x]
    <3> DEFINE y == l + x
    <3>1. y \in 1..(l + n) /\ ~(y <= l) /\ y - l = x
      BY <1>1
    <3> HIDE DEF y
    <3>2. both[y] = c[y - l]
      BY <1>2, <3>1
    <3> QED
      BY <3>1, <3>2 DEF y
  <2> QED
    BY <2>1, <2>2
<1>7. /\ \A x \in 1..l : Append(both, "/")[x] = s[x]
      /\ \A x \in 1..n : Append(both, "/")[l + x] = c[x]
  BY <1>4, <1>5, <1>6
<1> QED
  BY <1>4, <1>7 DEF Longer, both, l, n

\* What was read can be told from its spelling.
LEMMA NotShorter ==
    ASSUME NEW s, NEW t, EndsComponent(s), EndsComponent(t),
           NEW c, NEW d, NoSlash(c), NoSlash(d), Longer(s, c) = Longer(t, d)
    PROVE  ~(Len(s) < Len(t))
<1> SUFFICES ASSUME Len(s) < Len(t) PROVE FALSE
  OBVIOUS
<1> DEFINE l == Len(s)
           m == Len(t)
           long == Longer(s, c)
<1>1. l \in Nat /\ m \in Nat /\ Len(c) \in Nat /\ Len(d) \in Nat
  BY LenProperties DEF EndsComponent, NoSlash
<1>2. /\ Len(long) = l + Len(c) + 1 /\ Len(long) = m + Len(d) + 1
      /\ \A x \in 1..Len(c) : long[l + x] = c[x]
      /\ \A x \in 1..m : long[x] = t[x]
  <2>1. s \in Seq(Chars) /\ t \in Seq(Chars) /\ c \in Seq(Chars) /\ d \in Seq(Chars)
    BY DEF EndsComponent, NoSlash
  <2>2. /\ Len(long) = l + Len(c) + 1
        /\ \A x \in 1..Len(c) : long[l + x] = c[x]
    BY <2>1, LongerIs, Zenon
  <2>3. long = Longer(t, d)
    OBVIOUS
  <2>4. /\ Len(Longer(t, d)) = m + Len(d) + 1
        /\ \A x \in 1..m : Longer(t, d)[x] = t[x]
    BY <2>1, LongerIs, Zenon
  <2> QED
    BY <2>2, <2>3, <2>4, Zenon
<1> HIDE DEF long
<1>3. t[m] = "/"
  BY <1>1, EmptySeq DEF EndsComponent
<1> HIDE DEF l, m
<1>4. l < m
  BY DEF l, m
<1>5. m \in 1..m /\ m - l \in 1..Len(c) /\ l + (m - l) = m
  BY <1>1, <1>2, <1>4
<1>6. c[m - l] = "/"
  BY <1>2, <1>3, <1>5
<1> QED
  BY <1>5, <1>6 DEF NoSlash

LEMMA LongerInjective ==
    ASSUME NEW s, NEW t, EndsComponent(s), EndsComponent(t),
           NEW c, NEW d, NoSlash(c), NoSlash(d), Longer(s, c) = Longer(t, d)
    PROVE  s = t /\ c = d
<1> DEFINE long == Longer(s, c)
<1>1. /\ s \in Seq(Chars) /\ t \in Seq(Chars) /\ c \in Seq(Chars) /\ d \in Seq(Chars)
      /\ Len(s) \in Nat /\ Len(t) \in Nat /\ Len(c) \in Nat /\ Len(d) \in Nat
  BY LenProperties DEF EndsComponent, NoSlash
<1>2. Len(s) = Len(t)
  <2>1. ~(Len(s) < Len(t)) /\ ~(Len(t) < Len(s))
    BY NotShorter
  <2> QED
    BY <1>1, <2>1
<1>3. /\ Len(long) = Len(s) + Len(c) + 1 /\ Len(long) = Len(t) + Len(d) + 1
      /\ \A x \in 1..Len(s) : long[x] = s[x]
      /\ \A x \in 1..Len(t) : long[x] = t[x]
      /\ \A x \in 1..Len(c) : long[Len(s) + x] = c[x]
      /\ \A x \in 1..Len(d) : long[Len(t) + x] = d[x]
  <2>1. /\ Len(long) = Len(s) + Len(c) + 1
        /\ \A x \in 1..Len(s) : long[x] = s[x]
        /\ \A x \in 1..Len(c) : long[Len(s) + x] = c[x]
    BY <1>1, LongerIs, Zenon
  <2>2. long = Longer(t, d)
    OBVIOUS
  <2>3. /\ Len(Longer(t, d)) = Len(t) + Len(d) + 1
        /\ \A x \in 1..Len(t) : Longer(t, d)[x] = t[x]
        /\ \A x \in 1..Len(d) : Longer(t, d)[Len(t) + x] = d[x]
    BY <1>1, LongerIs, Zenon
  <2> QED
    BY <2>1, <2>2, <2>3, Zenon
<1> HIDE DEF long
<1>4. Len(c) = Len(d)
  BY <1>1, <1>2, <1>3
<1>5. s = t
  BY <1>1, <1>2, <1>3, SeqEqual
<1>6. \A x \in 1..Len(c) : c[x] = d[x]
  BY <1>2, <1>3, <1>4
<1>7. c = d
  BY <1>1, <1>4, <1>6, SeqEqual
<1> QED
  BY <1>5, <1>7

\* How many components were read
Count(s) == Cardinality(Local!Places(s, {"/"}))

LEMMA CountLonger ==
    ASSUME NEW s \in Seq(Chars), NEW c, NoSlash(c)
    PROVE  Count(s) \in Nat /\ Count(Longer(s, c)) = Count(s) + 1
<1> DEFINE long == Longer(s, c)
           l == Len(s)
           n == Len(c)
           end == l + n + 1
<1>1. c \in Seq(Chars) /\ l \in Nat /\ n \in Nat
  BY LenProperties DEF NoSlash
<1>2. /\ long \in Seq(Chars) /\ Len(long) = end /\ long[end] = "/"
      /\ \A x \in 1..l : long[x] = s[x]
      /\ \A x \in 1..n : long[l + x] # "/"
  <2>1. /\ long \in Seq(Chars) /\ Len(long) = end /\ long[end] = "/"
        /\ \A x \in 1..l : long[x] = s[x]
        /\ \A x \in 1..n : long[l + x] = c[x]
    BY <1>1, LongerIs, Zenon
  <2> QED
    BY <2>1, Zenon DEF NoSlash
<1>3. /\ Local!Places(s, {"/"}) \subseteq 1..l
      /\ \A x \in 1..l : x \in Local!Places(s, {"/"}) <=> s[x] = "/"
      /\ Local!Places(long, {"/"}) \subseteq 1..Len(long)
      /\ \A x \in 1..Len(long) : x \in Local!Places(long, {"/"}) <=> long[x] = "/"
  BY <1>2, PlacesAre
<1> HIDE DEF long, l, n
<1>4. \A x \in 1..end : x \in 1..l \/ x = end \/ (x - l \in 1..n /\ l + (x - l) = x)
  BY <1>1
<1>5. \A x \in 1..l : x \in 1..end /\ x # end
  BY <1>1
<1>6. end \in 1..end /\ end \notin Local!Places(s, {"/"})
  BY <1>1, <1>3, <1>5
<1>7. Local!Places(long, {"/"}) = Local!Places(s, {"/"}) \cup {end}
  <2>1. \A x \in 1..end : x \in Local!Places(long, {"/"}) <=> x \in Local!Places(s, {"/"}) \/ x = end
    BY <1>2, <1>3, <1>4, <1>5
  <2> QED
    BY <1>2, <1>3, <1>5, <1>6, <2>1
<1>8. IsFiniteSet(Local!Places(s, {"/"}))
  <2>1. IsFiniteSet(1..l)
    BY <1>1, FS_Interval
  <2> QED
    BY <1>3, <2>1, FS_Subset
<1> HIDE DEF end
<1>9. Cardinality(Local!Places(s, {"/"})) \in Nat
  BY <1>8, FS_CardinalityType
<1> QED
  BY <1>6, <1>7, <1>8, <1>9, FS_AddElement DEF Count, long

\* What was read lies before what is still to be read. An empty name is never
\* changed; another is, as soon as what was written differs from what was read.
\* The count of components tells them apart when one was dropped.
ReadSoFar(read) ==
    /\ EndsComponent(read) /\ Local!Split(filename) = read \o rest
    /\ filename # <<>> => (modified <=> WithSlashes(emitted) # read)
    /\ Count(WithSlashes(emitted)) <= Count(read)

ModifiedInv ==
    /\ LocalInv
    /\ done => rest = <<>>
    /\ filename = <<>> => emitted = <<>> /\ ~modified
    /\ EndsComponent(WithSlashes(emitted))
    /\ \E read : ReadSoFar(read)

LEMMA LongerEnds ==
    ASSUME NEW s \in Seq(Chars), NEW c \in Seq(Chars)
    PROVE  EndsComponent(Longer(s, c))
<1>1. /\ Longer(s, c) \in Seq(Chars) /\ Len(Longer(s, c)) = Len(s) + Len(c) + 1
      /\ Longer(s, c)[Len(s) + Len(c) + 1] = "/"
  BY LongerIs, Zenon
<1> QED
  BY <1>1, Zenon DEF EndsComponent

LEMMA EmptyIsRead == EndsComponent(<<>>) /\ Count(<<>>) \in Nat
<1>1. <<>> \in Seq(Chars) /\ NoSlash(<<>>)
  BY EmptySeq DEF NoSlash
<1> QED
  BY <1>1, CountLonger DEF EndsComponent

LEMMA ModifiedBegins == Local!Init => ModifiedInv
<1> SUFFICES ASSUME Local!Init PROVE ModifiedInv
  OBVIOUS
<1>1. /\ LocalInv /\ rest = Local!Split(filename)
      /\ emitted = <<>> /\ modified = FALSE /\ done = FALSE
  BY LocalBegins DEF Local!Init
<1>2. WithSlashes(emitted) = <<>>
  BY <1>1 DEF WithSlashes
<1>3. Local!Split(filename) = <<>> \o rest
  BY <1>1, ConcatEmptySeq DEF LocalInv
<1>4. ReadSoFar(<<>>)
  BY <1>1, <1>2, <1>3, EmptyIsRead DEF ReadSoFar
<1> QED
  BY <1>1, <1>2, <1>4, EmptyIsRead DEF ModifiedInv

\* A component and its slash go from what is to be read to what was.
LEMMA TakenIsRead ==
    ASSUME LocalInv, NEW read, EndsComponent(read), Local!Split(filename) = read \o rest,
           Local!TakeComponent
    PROVE  /\ NoSlash(Local!Component)
           /\ EndsComponent(Longer(read, Local!Component))
           /\ Local!Split(filename) = Longer(read, Local!Component) \o rest'
<1> DEFINE c == Local!Component
           l == Len(c)
           r == Len(rest)
<1>1. /\ rest # <<>> /\ rest \in Seq(Chars) /\ read \in Seq(Chars) /\ rest[r] = "/"
      /\ rest' = SubSeq(rest, l + 2, r)
  BY DEF Local!TakeComponent, LocalInv, EndsComponent
<1>2. /\ c \in Seq(Chars) /\ NoSlash(c) /\ rest' \in Seq(Chars)
  BY <1>1, ComponentIs DEF NoSlash
<1>3. /\ l \in 0..r /\ \A x \in 1..l : c[x] = rest[x]
      /\ l < r => rest[l + 1] = "/"
      /\ l = r => c = rest
  BY <1>1, BeforeIs DEF Local!Component
<1>4. r \in Nat \ {0} /\ l \in Nat
  BY <1>1, <1>3, EmptySeq
<1>5. l < r /\ rest[l + 1] = "/"
  <2>1. l # r
    <3>1. r \in 1..r
      BY <1>4
    <3> QED
      BY <1>1, <1>2, <1>3, <3>1 DEF NoSlash
  <2> QED
    BY <1>3, <1>4, <2>1
<1> DEFINE front == Append(c, "/")
<1>6. "/" \in Chars
  BY DEF Chars, Local!Chars
<1>7. /\ front \in Seq(Chars) /\ Len(front) = l + 1 /\ front[l + 1] = "/"
      /\ \A x \in 1..l : front[x] = c[x]
  BY <1>2, <1>6, AppendProperties
<1>8. /\ Len(rest') = r - (l + 1)
      /\ \A x \in 1..Len(rest') : rest'[x] = rest[l + 2 + x - 1]
  <2>1. l + 2 \in 1..(r + 1) /\ r \in 0..r
    BY <1>4, <1>5
  <2>2. /\ Len(rest') = IF l + 2 <= r THEN r - (l + 2) + 1 ELSE 0
        /\ \A x \in 1..Len(rest') : rest'[x] = rest[l + 2 + x - 1]
    BY <1>1, <2>1, SubSeqOf
  <2> HIDE DEF l, r
  <2>3. (IF l + 2 <= r THEN r - (l + 2) + 1 ELSE 0) = r - (l + 1)
    BY <1>4, <1>5
  <2> QED
    BY <2>2, <2>3
<1> HIDE DEF c, front
<1>9. rest = front \o rest'
  <2> DEFINE both == front \o rest'
  <2>1. /\ both \in Seq(Chars) /\ Len(both) = l + 1 + Len(rest')
        /\ \A x \in 1..(l + 1 + Len(rest')) :
              both[x] = IF x <= l + 1 THEN front[x] ELSE rest'[x - (l + 1)]
    <3>1. /\ both \in Seq(Chars) /\ Len(both) = Len(front) + Len(rest')
          /\ \A x \in 1..(Len(front) + Len(rest')) :
                both[x] = IF x <= Len(front) THEN front[x] ELSE rest'[x - Len(front)]
      BY <1>2, <1>7, ConcatProperties, Zenon
    <3> QED
      BY <1>7, <3>1, Zenon
  <2> HIDE DEF both, l, r
  <2>2. Len(both) = r
    BY <1>4, <1>8, <2>1
  <2>3. ASSUME NEW x \in 1..r
        PROVE  both[x] = rest[x]
    <3>1. both[x] = IF x <= l + 1 THEN front[x] ELSE rest'[x - (l + 1)]
      BY <1>4, <1>8, <2>1
    <3>2. CASE x \in 1..l
      <4>1. x <= l + 1
        BY <1>4, <3>2
      <4> QED
        BY <1>3, <1>7, <3>1, <3>2, <4>1
    <3>3. CASE x = l + 1
      <4>1. l + 1 <= l + 1
        BY <1>4
      <4> QED
        BY <1>5, <1>7, <3>1, <3>3, <4>1
    <3>4. CASE x > l + 1
      <4> DEFINE y == x - (l + 1)
      <4>1. y \in 1..Len(rest') /\ l + 2 + y - 1 = x /\ ~(x <= l + 1)
        BY <1>4, <1>8, <3>4
      <4>2. both[x] = rest'[y]
        BY <3>1, <4>1
      <4> HIDE DEF y
      <4> QED
        BY <1>8, <4>1, <4>2
    <3> QED
      BY <1>4, <3>2, <3>3, <3>4
  <2>4. Len(rest) = Len(both) /\ \A x \in 1..Len(rest) : rest[x] = both[x]
    BY <2>2, <2>3 DEF r
  <2> QED
    BY <1>1, <2>1, <2>4, SeqEqual DEF both
<1>10. Longer(read, c) = read \o front
  <2>1. read \o c \in Seq(Chars) /\ <<"/">> \in Seq(Chars)
    BY <1>1, <1>2, <1>6, ConcatProperties
  <2>2. Longer(read, c) = (read \o c) \o <<"/">>
    BY <1>6, <2>1, AppendIsConcat DEF Longer
  <2>3. front = c \o <<"/">>
    BY <1>2, <1>6, AppendIsConcat DEF front
  <2> QED
    BY <1>1, <1>2, <2>1, <2>2, <2>3, ConcatAssociative
<1>11. read \o rest = (read \o front) \o rest'
  <2>1. (read \o front) \o rest' = read \o (front \o rest')
    <3>1. read \in Seq(Chars) /\ front \in Seq(Chars) /\ rest' \in Seq(Chars)
      BY <1>1, <1>2, <1>7
    <3> QED
      BY <3>1, ConcatAssociative
  <2> QED
    BY <1>9, <2>1, Zenon
<1>12. EndsComponent(Longer(read, c))
  BY <1>1, <1>2, LongerEnds
<1> QED
  BY <1>2, <1>10, <1>11, <1>12 DEF c

LEMMA ModifiedStep == ModifiedInv /\ Local!Next => ModifiedInv'
<1> SUFFICES ASSUME ModifiedInv, Local!Next PROVE ModifiedInv'
  OBVIOUS
<1>1. LocalInv /\ LocalInv'
  BY LocalStep DEF ModifiedInv
<1>2. PICK read : ReadSoFar(read)
  BY DEF ModifiedInv
<1> DEFINE c == Local!Component
           w == WithSlashes(emitted)
<1>3. /\ EndsComponent(read) /\ EndsComponent(w)
      /\ read \in Seq(Chars) /\ w \in Seq(Chars)
  BY <1>2 DEF ReadSoFar, ModifiedInv, EndsComponent
<1>4. ASSUME Local!TakeComponent
      PROVE  /\ rest # <<>> /\ NoSlash(c) /\ EndsComponent(Longer(read, c))
             /\ Local!Split(filename) = Longer(read, c) \o rest'
             /\ Count(w) \in Nat /\ Count(read) \in Nat /\ Count(w) <= Count(read)
             /\ Count(Longer(read, c)) = Count(read) + 1
  BY <1>1, <1>2, <1>3, <1>4, TakenIsRead, CountLonger DEF ReadSoFar, Local!TakeComponent
<1>5. CASE Local!Drop
  <2>1. /\ Local!TakeComponent /\ filename' = filename /\ emitted' = emitted /\ done' = done
        /\ modified' = (modified \/ filename # <<>>)
    BY <1>5 DEF Local!Drop
  <2>2. w # Longer(read, c)
    <3>1. ~(Count(read) + 1 <= Count(read))
      BY <1>4, <2>1
    <3> QED
      BY <1>4, <2>1, <3>1
  <2>3. Count(w) <= Count(Longer(read, c))
    BY <1>4, <2>1
  <2>4. WithSlashes(emitted)' = w
    BY <2>1 DEF WithSlashes
  <2>5. Local!Split(filename)' = Local!Split(filename)
    BY <2>1 DEF Local!Split
  <2> HIDE DEF w, c
  <2> PICK longer : longer = Longer(read, c)
    OBVIOUS
  <2>6. ReadSoFar(longer)'
    BY <1>4, <2>1, <2>2, <2>3, <2>4, <2>5 DEF ReadSoFar
  <2>7. ~done
    BY <1>4, <2>1 DEF ModifiedInv
  <2> QED
    BY <1>1, <1>3, <2>1, <2>4, <2>6, <2>7 DEF ModifiedInv
<1>6. CASE Local!Emit
  <2> DEFINE d == Local!SanitizeComponent(c)
  <2>1. /\ Local!TakeComponent /\ filename' = filename /\ done' = done /\ c # <<>>
        /\ emitted' = Append(emitted, d) /\ modified' = (modified \/ d # c)
    BY <1>6 DEF Local!Emit, Local!Dropped
  <2>2. NoSlash(d)
    <3>1. Fits(d)
      BY <1>4, <2>1, SanitizedFits DEF NoSlash
    <3> QED
      BY <3>1 DEF Fits, NoSlash
  <2>3. filename # <<>>
    <3>1. Len(c) + 1 <= Len(filename) + 1 /\ Len(c) \in Nat \ {0}
      BY <1>1, <1>4, <2>1, ComponentIs, EmptySeq
    <3>2. Len(<<>>) = 0
      BY EmptySeq
    <3> QED
      BY <3>1, <3>2
  <2> HIDE DEF d, c
  <2>4. WithSlashes(emitted)' = Longer(w, d)
    <3>1. emitted \in Seq(Seq(Chars)) /\ d \in Seq(Chars)
      BY <1>1, <2>2 DEF LocalInv, NoSlash
    <3>2. WithSlashes(emitted)' = WithSlashes(emitted')
      BY DEF WithSlashes
    <3> QED
      BY <2>1, <3>1, <3>2, JoinedOnce
  <2>5. modified' <=> Longer(w, d) # Longer(read, c)
    <3>1. modified <=> w # read
      BY <1>2, <2>3 DEF ReadSoFar
    <3>2. Longer(w, d) = Longer(read, c) => w = read /\ d = c
      BY <1>3, <1>4, <2>1, <2>2, LongerInjective
    <3> HIDE DEF w
    <3> QED
      BY <2>1, <3>1, <3>2
  <2>6. Count(Longer(w, d)) <= Count(Longer(read, c)) /\ EndsComponent(Longer(w, d))
    <3>1. Count(Longer(w, d)) = Count(w) + 1
      BY <1>3, <2>2, CountLonger
    <3>2. EndsComponent(Longer(w, d))
      BY <1>3, <2>2, LongerEnds DEF NoSlash
    <3> HIDE DEF w
    <3> QED
      BY <1>4, <2>1, <3>1, <3>2
  <2>7. Local!Split(filename)' = Local!Split(filename)
    BY <2>1 DEF Local!Split
  <2> HIDE DEF w
  <2> PICK longer : longer = Longer(read, c)
    OBVIOUS
  <2>8. ReadSoFar(longer)'
    BY <1>4, <2>1, <2>4, <2>5, <2>6, <2>7 DEF ReadSoFar
  <2>9. ~done
    BY <1>4, <2>1 DEF ModifiedInv
  <2> QED
    BY <1>1, <2>1, <2>3, <2>4, <2>6, <2>8, <2>9 DEF ModifiedInv
<1>7. CASE Local!Finish
  <2>1. rest = <<>> /\ UNCHANGED <<filename, rest, emitted, modified>>
    BY <1>7 DEF Local!Finish
  <2>2. WithSlashes(emitted)' = w /\ Local!Split(filename)' = Local!Split(filename)
    BY <2>1 DEF WithSlashes, Local!Split
  <2> HIDE DEF w
  <2>3. ReadSoFar(read)'
    BY <1>2, <2>1, <2>2 DEF ReadSoFar, w
  <2> QED
    BY <1>1, <1>3, <2>1, <2>2, <2>3 DEF ModifiedInv
<1> QED
  BY <1>5, <1>6, <1>7 DEF Local!Next

LEMMA ModifiedFollows == ModifiedInv => Local!ModifiedIsTrue
<1> SUFFICES ASSUME ModifiedInv, done
             PROVE  modified <=> Local!Joined(emitted) # filename
  BY DEF Local!ModifiedIsTrue
<1>1. PICK read : ReadSoFar(read)
  BY DEF ModifiedInv
<1>2. /\ filename \in Seq(Chars) /\ emitted \in Seq(Seq(Chars)) /\ rest = <<>>
      /\ "/" \in Chars /\ Local!Joined(<<>>) = <<>>
  BY JoinedOnce, EmptySeq DEF ModifiedInv, LocalInv, Chars, Local!Chars
<1>3. CASE filename = <<>>
  BY <1>2, <1>3 DEF ModifiedInv
<1>4. CASE filename # <<>>
  <2>1. read = Append(filename, "/")
    <3>1. read \in Seq(Chars) /\ Append(filename, "/") = read \o <<>>
      BY <1>1, <1>2 DEF ReadSoFar, EndsComponent, Local!Split
    <3> QED
      BY <3>1, ConcatEmptySeq
  <2>2. modified <=> WithSlashes(emitted) # Append(filename, "/")
    BY <1>1, <1>4, <2>1 DEF ReadSoFar
  <2>3. CASE emitted = <<>>
    <3>1. WithSlashes(emitted) = <<>> /\ Append(filename, "/") # <<>>
      BY <1>2, <2>3, AppendProperties DEF WithSlashes
    <3> QED
      BY <1>2, <1>4, <2>2, <2>3, <3>1
  <2>4. CASE emitted # <<>>
    <3>1. Local!Joined(emitted) \in Seq(Chars)
      BY <1>2, JoinedOnce, EmptySeq
    <3>2. Append(Local!Joined(emitted), "/") = Append(filename, "/")
             <=> Local!Joined(emitted) = filename
      BY <1>2, <3>1, AppendInjective
    <3> QED
      BY <2>2, <2>4, <3>2 DEF WithSlashes
  <2> QED
    BY <2>3, <2>4
<1> QED
  BY <1>3, <1>4

LEMMA LocalPart == PartsSpec => [](focus = "local" => ModifiedInv)
<1>1. PartsInit => (focus = "local" => ModifiedInv)
  BY ModifiedBegins DEF PartsInit
<1>2. ModifiedInv /\ UNCHANGED sanitizeVars => ModifiedInv'
  <2> SUFFICES ASSUME ModifiedInv, UNCHANGED sanitizeVars PROVE ModifiedInv'
    OBVIOUS
  <2>1. UNCHANGED <<filename, rest, emitted, modified, done>>
    BY DEF sanitizeVars
  <2>2. LocalInv'
    BY <2>1 DEF ModifiedInv, LocalInv
  <2>3. PICK read : ReadSoFar(read)
    BY DEF ModifiedInv
  <2>4. WithSlashes(emitted)' = WithSlashes(emitted)
    BY <2>1 DEF WithSlashes
  <2>5. ReadSoFar(read)'
    BY <2>1, <2>3, <2>4 DEF ReadSoFar, Local!Split
  <2> QED
    BY <2>1, <2>2, <2>4, <2>5 DEF ModifiedInv
<1>3. /\ focus = "local" => ModifiedInv
      /\ [PlanMoves \/ FilterMoves \/ UrlMoves \/ LocalMoves]_allVars
      => (focus = "local" => ModifiedInv)'
  BY <1>2, ModifiedStep DEF PlanMoves, FilterMoves, UrlMoves, LocalMoves, allVars
<1> QED
  BY <1>1, <1>3, PTL DEF PartsSpec

\* Whatever the name, of any length: every component of its local path is one
\* every file system takes, none leads to another directory, and none is
\* changed if the path is sanitized again; nor does it grow by more than one.
\* And was_modified is true exactly if the path is not the name.
THEOREM LocalPathFits ==
    PartsSpec => [](focus = "local" => /\ Local!FitsEveryFileSystem /\ Local!StaysAsItIs
                                       /\ Local!ModifiedIsTrue /\ Local!TypeOK)
<1>1. LocalInv => Local!FitsEveryFileSystem
  <2> SUFFICES ASSUME LocalInv, NEW x \in DOMAIN emitted, NEW c, c = emitted[x]
               PROVE  /\ c \notin {<<>>, <<".">>, <<".", ".">>}
                      /\ Local!ToSet(c) \cap (Local!Invalid \cup {"/"}) = {}
                      /\ Head(c) # " " /\ Local!Last(c) \notin {" ", "."}
                      /\ \A n \in 1..Len(c) :
                            Local!Reserved(SubSeq(c, 1, n)) => n < Len(c) /\ c[n + 1] # "."
    BY DEF Local!FitsEveryFileSystem
  <2>1. DOMAIN emitted = 1..Len(emitted)
    BY LenProperties DEF LocalInv
  <2>2. Fits(c)
    BY <2>1 DEF LocalInv
  <2>3. /\ c \in Seq(Chars) /\ c # <<>> /\ c[1] # " " /\ c[Len(c)] \notin {" ", "."}
        /\ \A n \in 1..Len(c) : c[n] # "?" /\ c[n] # "/"
        /\ NoDevice(c)
    BY <2>2 DEF Fits, Trimmed
  <2>4. c # <<".">> /\ c # <<".", ".">>
    <3>1. c = <<".">> => Len(c) = 1 /\ c[1] = "."
      OBVIOUS
    <3>2. c = <<".", ".">> => Len(c) = 2 /\ c[2] = "."
      OBVIOUS
    <3> QED
      BY <2>3, <3>1, <3>2
  <2>5. DOMAIN c = 1..Len(c) /\ Head(c) = c[1]
    <3>1. c \in Seq(Chars)
      BY <2>3
    <3>2. DOMAIN c = 1..Len(c)
      BY <3>1, LenProperties
    <3>3. Head(c) = c[1]
      BY <3>1
    <3> QED
      BY <3>2, <3>3
  <2>6. Local!ToSet(c) \cap (Local!Invalid \cup {"/"}) = {}
    BY <2>3, <2>5 DEF Local!ToSet, Local!Invalid
  <2> QED
    BY <2>3, <2>4, <2>5, <2>6 DEF Local!Last, NoDevice
<1>2. LocalInv => Local!StaysAsItIs
  <2>1. ASSUME LocalInv, NEW x \in DOMAIN emitted
        PROVE  Fits(emitted[x])
    <3>1. DOMAIN emitted = 1..Len(emitted)
      BY <2>1, LenProperties DEF LocalInv
    <3> QED
      BY <2>1, <3>1 DEF LocalInv
  <2> QED
    BY <2>1, FittingStays DEF Local!StaysAsItIs
<1>3. LocalInv => Local!TypeOK
  <2>1. ASSUME LocalInv, NEW x \in DOMAIN emitted
        PROVE  emitted[x] \in Seq(Chars) /\ Len(emitted[x]) <= Len(filename) + 1
    <3>1. DOMAIN emitted = 1..Len(emitted)
      BY <2>1, LenProperties DEF LocalInv
    <3> QED
      BY <2>1, <3>1 DEF LocalInv, Fits
  <2> QED
    BY <2>1 DEF Local!TypeOK, LocalInv, Chars
<1>4. ModifiedInv => LocalInv
  BY DEF ModifiedInv
<1> QED
  BY <1>1, <1>2, <1>3, <1>4, ModifiedFollows, LocalPart, PTL

-----------------------------------------------------------------------------
(* FileUrl: what encode_download_path writes *)

Bytes    == Url!Bytes
Literal  == Url!Unreserved \cup {Url!Slash}
Alphabet == Literal \cup {Url!Pct}

LEMMA Codes ==
    /\ Literal = {0, 1, 2, 3, 5, 6, 11} /\ Alphabet = {0, 1, 2, 3, 4, 5, 6, 11}
    /\ Bytes = 0..15 /\ Alphabet \subseteq Bytes
    /\ Url!Pct = 4 /\ Url!Slash = 5 /\ Url!Digits = 0..3
<1>1. Url!Unreserved = {0, 1, 2, 3, 6, 11}
  BY DEF Url!Unreserved, Url!Digits, Url!Period, Url!Plain
<1> QED
  BY <1>1 DEF Literal, Alphabet, Bytes, Url!Bytes, Url!Slash, Url!Pct, Url!Digits

\* What stands for a byte of a name: itself, or an escape.
Piece(byte) == IF byte = Url!Slash THEN <<byte>> ELSE Url!Escape(byte)

PieceAt(r, p, byte) ==
    IF byte \in Literal THEN r[p + 1] = byte
    ELSE r[p + 1] = Url!Pct /\ r[p + 2] = byte \div 4 /\ r[p + 3] = byte % 4

Width(byte) == IF byte \in Literal THEN 1 ELSE 3

LEMMA PieceIs ==
    ASSUME NEW byte \in Bytes
    PROVE  /\ Piece(byte) \in Seq(Alphabet) /\ Len(Piece(byte)) = Width(byte)
           /\ PieceAt(Piece(byte), 0, byte)
           /\ byte # Url!Slash => Piece(byte)[1] # Url!Slash
<1>1. CASE byte \in Literal
  <2>1. Piece(byte) = <<byte>>
    BY <1>1 DEF Piece, Literal, Url!Escape
  <2> QED
    BY <1>1, <2>1 DEF Width, PieceAt, Alphabet
<1>2. CASE byte \notin Literal
  <2>1. Piece(byte) = <<Url!Pct, byte \div 4, byte % 4>>
    BY <1>2 DEF Piece, Literal, Url!Escape
  <2>2. byte \div 4 \in 0..3 /\ byte % 4 \in 0..3
    BY Codes
  <2>3. Url!Pct \in Alphabet /\ byte \div 4 \in Alphabet /\ byte % 4 \in Alphabet
    BY <2>2, Codes
  <2>4. Url!Pct # Url!Slash
    BY Codes
  <2> QED
    BY <1>2, <2>1, <2>3, <2>4 DEF Width, PieceAt
<1> QED
  BY <1>1, <1>2

\* r encodes w: byte q of w is at starts[q] in r.
Encoding(starts, r, w) ==
    /\ starts \in [1..(Len(w) + 1) -> 0..Len(r)]
    /\ starts[1] = 0 /\ starts[Len(w) + 1] = Len(r)
    /\ \A q \in 1..Len(w) : /\ starts[q + 1] = starts[q] + Width(w[q])
                            /\ PieceAt(r, starts[q], w[q])

Encoded(r, w) ==
    r \in Seq(Alphabet) /\ w \in Seq(Bytes) /\ \E starts : Encoding(starts, r, w)

LEMMA NothingEncoded == Encoded(<<>>, <<>>)
<1> DEFINE s == [x \in 1..1 |-> 0]
<1>1. Encoding(s, <<>>, <<>>)
  BY DEF Encoding
<1> HIDE DEF s
<1> QED
  BY <1>1, EmptySeq DEF Encoded

LEMMA EncodedGrows ==
    ASSUME NEW r, NEW w, Encoded(r, w), NEW byte \in Bytes
    PROVE  Encoded(r \o Piece(byte), Append(w, byte))
<1> DEFINE piece == Piece(byte)
           r1 == r \o piece
           w1 == Append(w, byte)
<1>1. r \in Seq(Alphabet) /\ w \in Seq(Bytes)
  BY DEF Encoded
<1>2. piece \in Seq(Alphabet) /\ Len(piece) = Width(byte) /\ PieceAt(piece, 0, byte)
  BY PieceIs
<1>3. PICK s : Encoding(s, r, w)
  BY DEF Encoded
<1>4. Width(byte) \in {1, 3}
  BY DEF Width
<1> HIDE DEF piece
<1>5. /\ r1 \in Seq(Alphabet) /\ Len(r1) = Len(r) + Width(byte)
      /\ \A x \in 1..(Len(r) + Width(byte)) :
            r1[x] = IF x <= Len(r) THEN r[x] ELSE piece[x - Len(r)]
  BY <1>1, <1>2, ConcatProperties
<1>6. /\ w1 \in Seq(Bytes) /\ Len(w1) = Len(w) + 1
      /\ \A x \in 1..Len(w) : w1[x] = w[x]
      /\ w1[Len(w) + 1] = byte
  BY <1>1, AppendProperties
<1>7. Len(r) \in Nat /\ Len(w) \in Nat
  BY <1>1, LenProperties
<1> HIDE DEF r1, w1
<1> DEFINE t == [x \in 1..(Len(w) + 2) |-> IF x = Len(w) + 2 THEN Len(r1) ELSE s[x]]
<1>8. /\ s \in [1..(Len(w) + 1) -> 0..Len(r)]
      /\ s[1] = 0 /\ s[Len(w) + 1] = Len(r)
      /\ \A q \in 1..Len(w) : s[q + 1] = s[q] + Width(w[q]) /\ PieceAt(r, s[q], w[q])
  BY <1>3 DEF Encoding
<1>9. t \in [1..(Len(w) + 2) -> 0..Len(r1)]
  <2>1. \A x \in 1..(Len(w) + 2) : x # Len(w) + 2 => x \in 1..(Len(w) + 1)
    BY <1>7
  <2>2. \A y \in 0..Len(r) : y \in 0..Len(r1)
    BY <1>4, <1>5, <1>7
  <2>3. Len(r1) \in 0..Len(r1)
    BY <1>4, <1>5, <1>7
  <2> QED
    BY <1>8, <2>1, <2>2, <2>3
<1>10. t[Len(w) + 2] = Len(r1) /\ \A x \in 1..(Len(w) + 1) : t[x] = s[x]
  BY <1>7
<1> HIDE DEF t
<1>11. ASSUME NEW q \in 1..(Len(w) + 1)
       PROVE  t[q + 1] = t[q] + Width(w1[q]) /\ PieceAt(r1, t[q], w1[q])
  <2>1. CASE q \in 1..Len(w)
    <3>1. t[q] = s[q] /\ t[q + 1] = s[q + 1] /\ w1[q] = w[q]
      BY <1>6, <1>7, <1>10, <2>1
    <3>2. s[q + 1] = s[q] + Width(w[q]) /\ PieceAt(r, s[q], w[q])
      BY <1>8, <2>1
    <3>3. s[q] \in Nat /\ s[q + 1] <= Len(r)
      BY <1>7, <1>8, <2>1
    <3>4. \A x \in 1..Width(w[q]) : r1[s[q] + x] = r[s[q] + x]
      <4>1. \A x \in 1..Width(w[q]) : s[q] + x \in 1..Len(r)
        BY <1>7, <3>2, <3>3 DEF Width
      <4> QED
        BY <1>4, <1>5, <1>7, <4>1
    <3>5. PieceAt(r1, s[q], w[q])
      <4>1. CASE w[q] \in Literal
        <5>1. 1 \in 1..Width(w[q])
          BY <4>1 DEF Width
        <5> QED
          BY <3>2, <3>4, <4>1, <5>1 DEF PieceAt
      <4>2. CASE w[q] \notin Literal
        <5>1. 1 \in 1..Width(w[q]) /\ 2 \in 1..Width(w[q]) /\ 3 \in 1..Width(w[q])
          BY <4>2 DEF Width
        <5> QED
          BY <3>2, <3>4, <4>2, <5>1 DEF PieceAt
      <4> QED
        BY <4>1, <4>2
    <3> QED
      BY <3>1, <3>2, <3>5
  <2>2. CASE q = Len(w) + 1
    <3>1. t[q] = Len(r) /\ t[q + 1] = Len(r1) /\ w1[q] = byte
      BY <1>6, <1>7, <1>8, <1>10, <2>2
    <3>2. \A x \in 1..Width(byte) : r1[Len(r) + x] = piece[0 + x]
      <4>1. \A x \in 1..Width(byte) : /\ Len(r) + x \in 1..(Len(r) + Width(byte))
                                      /\ ~(Len(r) + x <= Len(r))
                                      /\ Len(r) + x - Len(r) = 0 + x
        BY <1>4, <1>7
      <4> QED
        BY <1>5, <4>1
    <3>3. PieceAt(r1, Len(r), byte)
      <4>1. CASE byte \in Literal
        <5>1. 1 \in 1..Width(byte)
          BY <4>1 DEF Width
        <5> QED
          BY <1>2, <3>2, <4>1, <5>1 DEF PieceAt
      <4>2. CASE byte \notin Literal
        <5>1. 1 \in 1..Width(byte) /\ 2 \in 1..Width(byte) /\ 3 \in 1..Width(byte)
          BY <4>2 DEF Width
        <5> QED
          BY <1>2, <3>2, <4>2, <5>1 DEF PieceAt
      <4> QED
        BY <4>1, <4>2
    <3> QED
      BY <1>5, <3>1, <3>3
  <2> QED
    BY <1>7, <2>1, <2>2
<1>12. Encoding(t, r1, w1)
  <2>1. Len(w1) + 1 = Len(w) + 2 /\ Len(w1) = Len(w) + 1
    BY <1>6, <1>7
  <2>2. t[1] = 0
    BY <1>7, <1>8, <1>10
  <2> QED
    BY <1>9, <1>10, <1>11, <2>1, <2>2 DEF Encoding
<1>13. Encoded(r1, w1)
  BY <1>5, <1>6, <1>12 DEF Encoded
<1> QED
  BY <1>13 DEF r1, w1, piece

\* The code of a segment, byte by byte
CodeSteps(f, seg) ==
    /\ f \in [0..Len(seg) -> Seq(Alphabet)]
    /\ f[0] = <<>> /\ Url!EncodeSegment(seg) = f[Len(seg)]
    /\ \A x \in 1..Len(seg) : f[x] = f[x - 1] \o Url!Escape(seg[x])

PlainBytes == Bytes \ {Url!Slash}

LEMMA SegmentCode ==
    ASSUME NEW seg \in Seq(PlainBytes)
    PROVE  \E f : CodeSteps(f, seg)
<1> DEFINE V == Seq(Alphabet)
           N == Len(seg)
           Step(v, x) == v \o Url!Escape(seg[x])
           G == [x \in 1..N |-> [v \in V |-> Step(v, x)]]
           Rec(f) == [x \in 0..N |-> IF x = 0 THEN <<>> ELSE Step(f[x - 1], x)]
<1>1. N \in Nat /\ \A x \in 1..N : seg[x] \in PlainBytes
  BY LenProperties, ElementOfSeq
<1>2. \A x \in 1..N : \A v \in V : Step(v, x) \in V
  <2> SUFFICES ASSUME NEW x \in 1..N, NEW v \in V PROVE Step(v, x) \in V
    OBVIOUS
  <2>1. Url!Escape(seg[x]) \in V
    BY <1>1, PieceIs DEF PlainBytes, Piece
  <2> QED
    BY <2>1, ConcatProperties
<1>3. G \in [1..N -> [V -> V]] /\ <<>> \in V
  BY <1>2
<1> HIDE DEF V, N, Step
<1>4. PICK f \in [0..N -> V] : f[0] = <<>> /\ \A x \in 1..N : f[x] = G[x][f[x - 1]]
  <2> HIDE DEF G
  <2>1. PICK f : Iteration(f, V, <<>>, N, G)
    BY <1>1, <1>3, Iterates
  <2> QED
    BY <2>1 DEF Iteration
<1>5. \A x \in 1..N : x - 1 \in 0..N /\ x \in 0..N /\ x # 0
  BY <1>1
<1>6. \A x \in 1..N : f[x] = Step(f[x - 1], x)
  BY <1>4, <1>5
<1>7. f = Rec(f)
  <2>1. \A x \in 0..N : x # 0 => x \in 1..N
    BY <1>1
  <2> QED
    BY <1>4, <1>6, <2>1
<1> DEFINE g == CHOOSE g : g = Rec(g)
<1>8. g = Rec(g)
  <2> HIDE DEF Rec
  <2> QED
    BY <1>7
<1> HIDE DEF g
<1>9. g[0] = <<>> /\ \A x \in 1..N : g[x] = Step(g[x - 1], x)
  <2>1. 0 \in 0..N
    BY <1>1
  <2> QED
    BY <1>5, <1>8, <2>1
<1>10. \A x \in 0..N : g[x] = f[x]
  <2>1. g[0] = f[0] /\ \A x \in 1..N : g[x - 1] = f[x - 1] => g[x] = f[x]
    BY <1>4, <1>6, <1>9
  <2> QED
    BY <1>1, <2>1, IteratesOnce, Zenon
<1>11. Url!EncodeSegment(seg) = g[N]
  BY DEF Url!EncodeSegment, g, Step, N
<1>12. Url!EncodeSegment(seg) = f[N]
  <2>1. N \in 0..N
    BY <1>1
  <2> QED
    BY <1>10, <1>11, <2>1
<1>13. CodeSteps(f, seg)
  BY <1>4, <1>6, <1>12 DEF V, N, Step, CodeSteps
<1> QED
  BY <1>13

\* The code of a segment continues that of what is before it.
LEMMA SegmentEncoded ==
    ASSUME NEW r, NEW w, Encoded(r, w), NEW seg \in Seq(PlainBytes)
    PROVE  Encoded(r \o Url!EncodeSegment(seg), w \o seg)
<1> DEFINE N == Len(seg)
           Upto(n) == SubSeq(seg, 1, n)
<1>1. PICK f : CodeSteps(f, seg)
  BY SegmentCode
<1>2. /\ f \in [0..N -> Seq(Alphabet)] /\ f[0] = <<>>
      /\ \A x \in 1..N : f[x] = f[x - 1] \o Url!Escape(seg[x])
      /\ Url!EncodeSegment(seg) = f[N]
  BY <1>1 DEF CodeSteps
<1>3. N \in Nat /\ \A x \in 1..N : seg[x] \in PlainBytes
  BY LenProperties, ElementOfSeq
<1>4. r \in Seq(Alphabet) /\ w \in Seq(Bytes) /\ seg \in Seq(Bytes)
  <2>1. PlainBytes \subseteq Bytes
    BY DEF PlainBytes
  <2> QED
    BY <2>1 DEF Encoded
<1>5. \A n \in 0..N : Upto(n) \in Seq(Bytes)
  <2> SUFFICES ASSUME NEW n \in 0..N PROVE Upto(n) \in Seq(Bytes)
    OBVIOUS
  <2>1. \A x \in 1..n : seg[x] \in Bytes
    BY <1>3 DEF PlainBytes
  <2> QED
    BY <2>1, SubSeqProperties
<1>6. Upto(0) = <<>> /\ Upto(N) = seg
  BY <1>3, SubSeqEmpty, SubSeqFull
<1>7. \A n \in 1..N : Upto(n) = Upto(n - 1) \o <<seg[n]>>
  <2> SUFFICES ASSUME NEW n \in 1..N PROVE SubSeq(seg, 1, n) = SubSeq(seg, 1, n - 1) \o <<seg[n]>>
    OBVIOUS
  <2>1. 1 \in 1..Len(seg) /\ n \in 1..Len(seg)
    BY <1>3
  <2> QED
    BY <2>1, SubSeqRecursiveSecond
<1> HIDE DEF Upto, N
<1> DEFINE Good(n) == Encoded(r \o f[n], w \o Upto(n))
           Bad == {n \in 0..N : ~Good(n)}
<1>8. Bad = {}
  <2> SUFFICES ASSUME Bad # {} PROVE FALSE
    OBVIOUS
  <2>1. PICK m \in Bad : \A y \in Bad : m <= y
    <3>1. Bad \in SUBSET Nat
      BY <1>3
    <3> HIDE DEF Bad
    <3> QED
      BY <3>1, Least
  <2>2. Good(0)
    <3>1. r \o f[0] = r /\ w \o Upto(0) = w
      BY <1>2, <1>4, <1>6, ConcatEmptySeq
    <3> QED
      BY <3>1
  <2>3. m \in 1..N /\ m - 1 \in 0..N /\ ~(m <= m - 1) /\ m \in 0..N
    BY <1>3, <2>1, <2>2
  <2>4. Encoded(r \o f[m - 1], w \o Upto(m - 1))
    BY <2>1, <2>3
  <2> DEFINE byte == seg[m]
  <2>5. byte \in Bytes /\ byte # Url!Slash
    BY <1>3, <2>3 DEF PlainBytes
  <2>6. Encoded((r \o f[m - 1]) \o Piece(byte), Append(w \o Upto(m - 1), byte))
    BY <2>4, <2>5, EncodedGrows
  <2>7. Piece(byte) = Url!Escape(byte) /\ Piece(byte) \in Seq(Alphabet)
    BY <2>5, PieceIs DEF Piece
  <2>8. (r \o f[m - 1]) \o Piece(byte) = r \o f[m]
    <3>1. f[m] = f[m - 1] \o Piece(byte) /\ f[m - 1] \in Seq(Alphabet)
      BY <1>2, <2>3, <2>7
    <3> HIDE DEF byte
    <3> DEFINE before == f[m - 1]
               piece == Piece(byte)
    <3>2. before \in Seq(Alphabet) /\ piece \in Seq(Alphabet)
      BY <2>7, <3>1
    <3> HIDE DEF before, piece
    <3>3. (r \o before) \o piece = r \o (before \o piece)
      BY <1>4, <3>2, ConcatAssociative
    <3> QED
      BY <3>1, <3>3 DEF before, piece
  <2>9. Append(w \o Upto(m - 1), byte) = w \o Upto(m)
    <3>1. Upto(m) = Upto(m - 1) \o <<byte>> /\ Upto(m - 1) \in Seq(Bytes)
      BY <1>5, <1>7, <2>3
    <3> HIDE DEF byte
    <3>2. <<byte>> \in Seq(Bytes) /\ w \o Upto(m - 1) \in Seq(Bytes)
      BY <1>4, <2>5, <3>1, ConcatProperties
    <3>3. Append(w \o Upto(m - 1), byte) = (w \o Upto(m - 1)) \o <<byte>>
      BY <2>5, <3>2, AppendIsConcat
    <3>4. (w \o Upto(m - 1)) \o <<byte>> = w \o (Upto(m - 1) \o <<byte>>)
      BY <1>4, <3>1, <3>2, ConcatAssociative
    <3> QED
      BY <3>1, <3>3, <3>4
  <2>10. Good(m)
    BY <2>6, <2>8, <2>9
  <2> QED
    BY <2>1, <2>10
<1>9. N \in 0..N
  BY <1>3
<1> QED
  BY <1>2, <1>6, <1>8, <1>9

\* Something is encoded as something, beginning with no slash that was not there.
LEMMA EncodedStart ==
    ASSUME NEW r, NEW w, Encoded(r, w)
    PROVE  /\ r = <<>> <=> w = <<>>
           /\ w # <<>> => (r[1] = Url!Slash <=> w[1] = Url!Slash)
<1>1. r \in Seq(Alphabet) /\ w \in Seq(Bytes)
  BY DEF Encoded
<1>2. PICK s : Encoding(s, r, w)
  BY DEF Encoded
<1>3. Len(r) \in Nat /\ Len(w) \in Nat /\ (w # <<>> <=> Len(w) # 0) /\ (r # <<>> <=> Len(r) # 0)
  BY <1>1, LenProperties, EmptySeq
<1>4. CASE w = <<>>
  <2>1. Len(r) = 0
    BY <1>2, <1>3, <1>4 DEF Encoding
  <2> QED
    BY <1>3, <1>4, <2>1
<1>5. CASE w # <<>>
  <2>1. 1 \in 1..Len(w) /\ 2 \in 1..(Len(w) + 1)
    BY <1>3, <1>5
  <2>2. s[1] = 0 /\ s[1 + 1] = s[1] + Width(w[1]) /\ PieceAt(r, s[1], w[1]) /\ s[2] \in 0..Len(r)
    BY <1>2, <2>1 DEF Encoding
  <2>3. Len(r) # 0
    BY <1>3, <2>2 DEF Width
  <2>4. r[1] = w[1] \/ (r[1] = Url!Pct /\ w[1] \notin Literal)
    BY <2>2 DEF PieceAt
  <2>5. Url!Pct # Url!Slash /\ Url!Slash \in Literal
    BY Codes
  <2> QED
    BY <1>3, <1>5, <2>3, <2>4, <2>5
<1> QED
  BY <1>4, <1>5

LEMMA SegmentIs ==
    ASSUME NEW seg \in Seq(PlainBytes)
    PROVE  /\ Encoded(Url!EncodeSegment(seg), seg)
           /\ Url!EncodeSegment(seg) \in Seq(Alphabet)
           /\ Url!EncodeSegment(seg) = <<>> <=> seg = <<>>
           /\ seg # <<>> => Url!EncodeSegment(seg)[1] # Url!Slash
<1>1. Encoded(<<>> \o Url!EncodeSegment(seg), <<>> \o seg)
  BY NothingEncoded, SegmentEncoded
<1>2. PICK f : CodeSteps(f, seg)
  BY SegmentCode
<1>3. Len(seg) \in 0..Len(seg)
  BY LenProperties
<1>4. Url!EncodeSegment(seg) \in Seq(Alphabet)
  BY <1>2, <1>3 DEF CodeSteps
<1>5. <<>> \o Url!EncodeSegment(seg) = Url!EncodeSegment(seg) /\ <<>> \o seg = seg
  BY <1>4, ConcatEmptySeq
<1>6. Encoded(Url!EncodeSegment(seg), seg)
  BY <1>1, <1>5
<1>7. seg # <<>> => seg[1] # Url!Slash
  <2>1. seg # <<>> => 1 \in 1..Len(seg)
    BY EmptySeq
  <2> QED
    BY <2>1, ElementOfSeq DEF PlainBytes
<1> QED
  BY <1>4, <1>6, <1>7, EncodedStart

\* What begins with no slash
Relative == {s \in Seq(Alphabet) : s # <<>> => s[1] # Url!Slash}

LEMMA JoinedSegment ==
    ASSUME NEW path \in Relative, NEW seg \in Seq(PlainBytes)
    PROVE  Url!JoinSegment(path, seg) \in Relative
<1>1. path \in Seq(Alphabet)
  BY DEF Relative
<1> DEFINE code == Url!EncodeSegment(seg)
<1>2. code \in Relative /\ code \in Seq(Alphabet)
  BY SegmentIs DEF Relative
<1> HIDE DEF code
<1>3. CASE path = <<>> /\ ~Url!IsDotSegment(seg)
  <2>1. Url!JoinSegment(path, seg) = <<>> \o code
    BY <1>3 DEF Url!JoinSegment, code
  <2> QED
    BY <1>2, <2>1, ConcatEmptySeq
<1>4. CASE path # <<>> /\ ~Url!IsDotSegment(seg)
  <2> DEFINE longer == Append(path, Url!Slash)
  <2>1. Url!JoinSegment(path, seg) = longer \o code
    BY <1>4 DEF Url!JoinSegment, code
  <2>2. Url!Slash \in Alphabet
    BY Codes
  <2>3. Len(path) \in Nat \ {0}
    BY <1>1, <1>4, EmptySeq
  <2>4. longer \in Seq(Alphabet) /\ Len(longer) = Len(path) + 1 /\ longer[1] = path[1]
    BY <1>1, <2>2, <2>3, AppendProperties
  <2> HIDE DEF longer
  <2>5. Len(code) \in Nat
    BY <1>2, LenProperties
  <2>6. longer \o code \in Seq(Alphabet) /\ (longer \o code)[1] = longer[1]
    <3>1. 1 \in 1..(Len(longer) + Len(code)) /\ 1 <= Len(longer)
      BY <2>3, <2>4, <2>5
    <3> QED
      BY <1>2, <2>4, <3>1, ConcatProperties
  <2> QED
    BY <1>4, <2>1, <2>4, <2>6 DEF Relative
<1>5. CASE Url!IsDotSegment(seg)
  BY <1>5 DEF Url!JoinSegment
<1> QED
  BY <1>3, <1>4, <1>5

\* The code of a name, segment by segment
PathSteps(f, segments) ==
    /\ f \in [0..Len(segments) -> Relative]
    /\ f[0] = <<>> /\ Url!EncodePath(segments) = f[Len(segments)]
    /\ \A x \in 1..Len(segments) : f[x] = Url!JoinSegment(f[x - 1], segments[x])

LEMMA PathCode ==
    ASSUME NEW segments \in Seq(Seq(PlainBytes))
    PROVE  \E f : PathSteps(f, segments)
<1> DEFINE V == Relative
           N == Len(segments)
           Step(v, x) == Url!JoinSegment(v, segments[x])
           G == [x \in 1..N |-> [v \in V |-> Step(v, x)]]
           Rec(f) == [x \in 0..N |-> IF x = 0 THEN <<>> ELSE Step(f[x - 1], x)]
<1>1. N \in Nat /\ \A x \in 1..N : segments[x] \in Seq(PlainBytes)
  BY LenProperties, ElementOfSeq
<1>2. \A x \in 1..N : \A v \in V : Step(v, x) \in V
  BY <1>1, JoinedSegment
<1>3. G \in [1..N -> [V -> V]] /\ <<>> \in V
  BY <1>2, EmptySeq DEF Relative
<1> HIDE DEF V, N, Step
<1>4. PICK f \in [0..N -> V] : f[0] = <<>> /\ \A x \in 1..N : f[x] = G[x][f[x - 1]]
  <2> HIDE DEF G
  <2>1. PICK f : Iteration(f, V, <<>>, N, G)
    BY <1>1, <1>3, Iterates
  <2> QED
    BY <2>1 DEF Iteration
<1>5. \A x \in 1..N : x - 1 \in 0..N /\ x \in 0..N /\ x # 0
  BY <1>1
<1>6. \A x \in 1..N : f[x] = Step(f[x - 1], x)
  BY <1>4, <1>5
<1>7. f = Rec(f)
  <2>1. \A x \in 0..N : x # 0 => x \in 1..N
    BY <1>1
  <2> QED
    BY <1>4, <1>6, <2>1
<1> DEFINE g == CHOOSE g : g = Rec(g)
<1>8. g = Rec(g)
  <2> HIDE DEF Rec
  <2> QED
    BY <1>7
<1> HIDE DEF g
<1>9. g[0] = <<>> /\ \A x \in 1..N : g[x] = Step(g[x - 1], x)
  <2>1. 0 \in 0..N
    BY <1>1
  <2> QED
    BY <1>5, <1>8, <2>1
<1>10. \A x \in 0..N : g[x] = f[x]
  <2>1. g[0] = f[0] /\ \A x \in 1..N : g[x - 1] = f[x - 1] => g[x] = f[x]
    BY <1>4, <1>6, <1>9
  <2> QED
    BY <1>1, <2>1, IteratesOnce, Zenon
<1>11. Url!EncodePath(segments) = g[N]
  BY DEF Url!EncodePath, g, Step, N
<1>12. Url!EncodePath(segments) = f[N]
  <2>1. N \in 0..N
    BY <1>1
  <2> QED
    BY <1>10, <1>11, <2>1
<1>13. PathSteps(f, segments)
  BY <1>4, <1>6, <1>12 DEF V, N, Step, PathSteps
<1> QED
  BY <1>13

\* The name with its slashes, segment by segment
JoinSteps(f, segments) ==
    /\ f \in [0..Len(segments) -> Seq(Bytes)]
    /\ f[0] = <<>> /\ Url!Joined(segments) = f[Len(segments)]
    /\ \A x \in 1..Len(segments) :
          f[x] = (IF x = 1 THEN <<>> ELSE Append(f[x - 1], Url!Slash)) \o segments[x]

LEMMA JoinedIs ==
    ASSUME NEW segments \in Seq(Seq(PlainBytes))
    PROVE  \E f : JoinSteps(f, segments)
<1> DEFINE V == Seq(Bytes)
           N == Len(segments)
           Step(v, x) == (IF x = 1 THEN <<>> ELSE Append(v, Url!Slash)) \o segments[x]
           G == [x \in 1..N |-> [v \in V |-> Step(v, x)]]
           Rec(f) == [x \in 0..N |-> IF x = 0 THEN <<>> ELSE Step(f[x - 1], x)]
<1>1. N \in Nat /\ \A x \in 1..N : segments[x] \in Seq(PlainBytes)
  BY LenProperties, ElementOfSeq
<1>2. \A x \in 1..N : \A v \in V : Step(v, x) \in V
  <2> SUFFICES ASSUME NEW x \in 1..N, NEW v \in V PROVE Step(v, x) \in V
    OBVIOUS
  <2>1. segments[x] \in Seq(Bytes)
    BY <1>1 DEF PlainBytes
  <2>2. Url!Slash \in Bytes
    BY Codes
  <2>3. <<>> \in Seq(Bytes) /\ Append(v, Url!Slash) \in Seq(Bytes)
    BY <2>2, AppendProperties, EmptySeq
  <2> QED
    BY <2>1, <2>3, ConcatProperties
<1>3. G \in [1..N -> [V -> V]] /\ <<>> \in V
  BY <1>2, EmptySeq
<1> HIDE DEF V, N, Step
<1>4. PICK f \in [0..N -> V] : f[0] = <<>> /\ \A x \in 1..N : f[x] = G[x][f[x - 1]]
  <2> HIDE DEF G
  <2>1. PICK f : Iteration(f, V, <<>>, N, G)
    BY <1>1, <1>3, Iterates
  <2> QED
    BY <2>1 DEF Iteration
<1>5. \A x \in 1..N : x - 1 \in 0..N /\ x \in 0..N /\ x # 0
  BY <1>1
<1>6. \A x \in 1..N : f[x] = Step(f[x - 1], x)
  BY <1>4, <1>5
<1>7. f = Rec(f)
  <2>1. \A x \in 0..N : x # 0 => x \in 1..N
    BY <1>1
  <2> QED
    BY <1>4, <1>6, <2>1
<1> DEFINE g == CHOOSE g : g = Rec(g)
<1>8. g = Rec(g)
  <2> HIDE DEF Rec
  <2> QED
    BY <1>7
<1> HIDE DEF g
<1>9. g[0] = <<>> /\ \A x \in 1..N : g[x] = Step(g[x - 1], x)
  <2>1. 0 \in 0..N
    BY <1>1
  <2> QED
    BY <1>5, <1>8, <2>1
<1>10. \A x \in 0..N : g[x] = f[x]
  <2>1. g[0] = f[0] /\ \A x \in 1..N : g[x - 1] = f[x - 1] => g[x] = f[x]
    BY <1>4, <1>6, <1>9
  <2> QED
    BY <1>1, <2>1, IteratesOnce, Zenon
<1>11. Url!Joined(segments) = g[N]
  BY DEF Url!Joined, g, Step, N
<1>12. Url!Joined(segments) = f[N]
  <2>1. N \in 0..N
    BY <1>1
  <2> QED
    BY <1>10, <1>11, <2>1
<1>13. JoinSteps(f, segments)
  BY <1>4, <1>6, <1>12 DEF V, N, Step, JoinSteps
<1> QED
  BY <1>13

\* encode_download_path keeps every byte of a name and every slash, if no
\* segment is empty or dots.
LEMMA NameEncoded ==
    ASSUME NEW segments \in Seq(Seq(PlainBytes)), Url!Ordinary(segments)
    PROVE  Encoded(Url!EncodePath(segments), Url!Joined(segments))
<1> DEFINE N == Len(segments)
<1>1. PICK f : PathSteps(f, segments)
  BY PathCode
<1>2. PICK g : JoinSteps(g, segments)
  BY JoinedIs
<1>3. /\ f[0] = <<>> /\ Url!EncodePath(segments) = f[N]
      /\ \A x \in 1..N : f[x] = Url!JoinSegment(f[x - 1], segments[x])
      /\ g[0] = <<>> /\ Url!Joined(segments) = g[N]
      /\ \A x \in 1..N :
            g[x] = (IF x = 1 THEN <<>> ELSE Append(g[x - 1], Url!Slash)) \o segments[x]
  BY <1>1, <1>2 DEF PathSteps, JoinSteps
<1>4. /\ N \in Nat
      /\ \A x \in 1..N : segments[x] \in Seq(PlainBytes) /\ segments[x] # <<>>
                           /\ ~Url!IsDotSegment(segments[x])
  BY LenProperties, ElementOfSeq DEF Url!Ordinary
<1> HIDE DEF N
<1> DEFINE Good(n) == Encoded(f[n], g[n]) /\ (n # 0 => f[n] # <<>>)
           Bad == {n \in 0..N : ~Good(n)}
<1>5. Bad = {}
  <2> SUFFICES ASSUME Bad # {} PROVE FALSE
    OBVIOUS
  <2>1. PICK m \in Bad : \A y \in Bad : m <= y
    <3>1. Bad \in SUBSET Nat
      BY <1>4
    <3> HIDE DEF Bad
    <3> QED
      BY <3>1, Least
  <2>2. Good(0)
    BY <1>3, NothingEncoded
  <2>3. m \in 1..N /\ m - 1 \in 0..N /\ ~(m <= m - 1) /\ m \in 0..N
    BY <1>4, <2>1, <2>2
  <2> DEFINE r == f[m - 1]
             w == g[m - 1]
             seg == segments[m]
             code == Url!EncodeSegment(seg)
             prefix == IF m = 1 THEN <<>> ELSE Append(r, Url!Slash)
             start == IF m = 1 THEN <<>> ELSE Append(w, Url!Slash)
  <2>4. Encoded(r, w) /\ (m # 1 => r # <<>>) /\ (m = 1 => r = <<>>)
    BY <1>3, <2>1, <2>3
  <2>5. seg \in Seq(PlainBytes) /\ seg # <<>> /\ ~Url!IsDotSegment(seg)
    BY <1>4, <2>3
  <2>6. f[m] = Url!JoinSegment(r, seg) /\ g[m] = start \o seg
    BY <1>3, <2>3
  <2> HIDE DEF r, w, seg, code
  <2>7. f[m] = prefix \o code
    BY <2>4, <2>5, <2>6 DEF Url!JoinSegment, code
  <2>8. Encoded(prefix, start)
    <3>1. CASE m = 1
      BY <3>1, NothingEncoded
    <3>2. CASE m # 1
      <4>1. Url!Slash \in Bytes /\ Piece(Url!Slash) = <<Url!Slash>> /\ Url!Slash \in Alphabet
        BY Codes DEF Piece
      <4>2. Encoded(r \o <<Url!Slash>>, Append(w, Url!Slash))
        BY <2>4, <4>1, EncodedGrows
      <4>3. r \o <<Url!Slash>> = Append(r, Url!Slash)
        BY <2>4, <4>1, AppendIsConcat DEF Encoded
      <4> QED
        BY <3>2, <4>2, <4>3
    <3> QED
      BY <3>1, <3>2
  <2> HIDE DEF prefix, start
  <2>9. Encoded(prefix \o code, start \o seg)
    BY <2>5, <2>8, SegmentEncoded DEF code
  <2>10. prefix \o code # <<>>
    <3>1. code \in Seq(Alphabet) /\ code # <<>> /\ prefix \in Seq(Alphabet)
      BY <2>5, <2>8, SegmentIs DEF code, Encoded
    <3> QED
      BY <3>1, ConcatEqualIffEmpty
  <2>11. Good(m)
    BY <2>6, <2>7, <2>9, <2>10
  <2> QED
    BY <2>1, <2>11
<1>6. N \in 0..N
  BY <1>4
<1> QED
  BY <1>3, <1>5, <1>6

\* UTF-8 that is neither empty nor has a slash at an end
Readable(s) ==
    /\ s \in Seq(Bytes) /\ Url!IsUtf8(s)
    /\ s # <<>> /\ s[1] # Url!Slash /\ s[Len(s)] # Url!Slash

LEMMA SegmentReadable ==
    ASSUME NEW seg \in Seq(PlainBytes), Url!IsUtf8(seg), seg # <<>>
    PROVE  Readable(seg)
<1>1. Len(seg) \in Nat \ {0} /\ \A x \in 1..Len(seg) : seg[x] \in PlainBytes
  BY EmptySeq, ElementOfSeq
<1>2. 1 \in 1..Len(seg) /\ Len(seg) \in 1..Len(seg)
  BY <1>1
<1> QED
  BY <1>1, <1>2 DEF Readable, PlainBytes

LEMMA ReadableJoin ==
    ASSUME NEW w, Readable(w), NEW seg \in Seq(PlainBytes), Url!IsUtf8(seg),
           seg # <<>>
    PROVE  Readable(Append(w, Url!Slash) \o seg)
<1> DEFINE longer == Append(w, Url!Slash)
           s == longer \o seg
           L == Len(w)
           M == Len(seg)
<1>1. w \in Seq(Bytes) /\ seg \in Seq(Bytes) /\ Url!Slash \in Bytes
  BY Codes DEF Readable, PlainBytes
<1>2. L \in Nat \ {0} /\ M \in Nat \ {0}
  BY <1>1, EmptySeq DEF Readable
<1>3. /\ longer \in Seq(Bytes) /\ Len(longer) = L + 1 /\ longer[L + 1] = Url!Slash
      /\ \A x \in 1..L : longer[x] = w[x]
  BY <1>1, AppendProperties
<1> HIDE DEF longer
<1>4. /\ s \in Seq(Bytes) /\ Len(s) = L + 1 + M /\ DOMAIN s = 1..(L + 1 + M)
      /\ \A x \in 1..(L + 1 + M) :
            s[x] = IF x <= L + 1 THEN longer[x] ELSE seg[x - (L + 1)]
  <2>1. /\ s \in Seq(Bytes) /\ Len(s) = Len(longer) + Len(seg)
        /\ \A x \in 1..(Len(longer) + Len(seg)) :
              s[x] = IF x <= Len(longer) THEN longer[x] ELSE seg[x - Len(longer)]
    BY <1>1, <1>3, ConcatProperties
  <2> HIDE DEF s
  <2>2. Len(longer) = L + 1 /\ Len(seg) = M
    BY <1>3
  <2>3. DOMAIN s = 1..Len(s)
    BY <2>1, LenProperties
  <2> HIDE DEF L, M
  <2> QED
    BY <2>1, <2>2, <2>3
<1> HIDE DEF s
<1>5. /\ \A x \in 1..L : s[x] = w[x]
      /\ s[L + 1] = Url!Slash
      /\ \A x \in 1..M : s[L + 1 + x] = seg[x]
  <2>1. \A x \in 1..L : x \in 1..(L + 1 + M) /\ x <= L + 1
    BY <1>2
  <2>2. L + 1 \in 1..(L + 1 + M)
    BY <1>2
  <2>3. \A x \in 1..M : /\ L + 1 + x \in 1..(L + 1 + M) /\ ~(L + 1 + x <= L + 1)
                        /\ L + 1 + x - (L + 1) = x
    BY <1>2
  <2> QED
    BY <1>3, <1>4, <2>1, <2>2, <2>3
<1>6. /\ Url!Slash <= Url!Plain /\ Url!Slash # Url!Lead /\ Url!Slash # Url!Cont
  BY DEF Url!Slash, Url!Plain, Url!Lead, Url!Cont
<1>7. /\ \A n \in 1..L : /\ w[n] <= Url!Plain
                         /\ w[n] = Url!Lead => n < L /\ w[n + 1] = Url!Cont
                         /\ w[n] = Url!Cont => n > 1 /\ w[n - 1] = Url!Lead
      /\ \A n \in 1..M : /\ seg[n] <= Url!Plain
                         /\ seg[n] = Url!Lead => n < M /\ seg[n + 1] = Url!Cont
                         /\ seg[n] = Url!Cont => n > 1 /\ seg[n - 1] = Url!Lead
  <2>1. DOMAIN w = 1..L /\ DOMAIN seg = 1..M
    BY <1>1, LenProperties
  <2> QED
    BY <2>1 DEF Readable, Url!IsUtf8
<1> HIDE DEF L, M
<1>8. ASSUME NEW n \in 1..(L + 1 + M)
      PROVE  /\ s[n] <= Url!Plain
             /\ s[n] = Url!Lead => n < L + 1 + M /\ s[n + 1] = Url!Cont
             /\ s[n] = Url!Cont => n > 1 /\ s[n - 1] = Url!Lead
  <2>1. CASE n \in 1..L
    <3>1. s[n] = w[n]
      BY <1>5, <2>1
    <3>2. ASSUME s[n] = Url!Lead PROVE n < L + 1 + M /\ s[n + 1] = Url!Cont
      <4>1. n < L /\ w[n + 1] = Url!Cont
        BY <1>7, <2>1, <3>1, <3>2
      <4>2. n + 1 \in 1..L /\ n < L + 1 + M
        BY <1>2, <2>1, <4>1
      <4> QED
        BY <1>5, <4>1, <4>2
    <3>3. ASSUME s[n] = Url!Cont PROVE n > 1 /\ s[n - 1] = Url!Lead
      <4>1. n > 1 /\ w[n - 1] = Url!Lead
        BY <1>7, <2>1, <3>1, <3>3
      <4>2. n - 1 \in 1..L
        BY <1>2, <2>1, <4>1
      <4> QED
        BY <1>5, <4>1, <4>2
    <3> QED
      BY <1>7, <2>1, <3>1, <3>2, <3>3
  <2>2. CASE n = L + 1
    BY <1>5, <1>6, <2>2
  <2>3. CASE n \notin 1..L /\ n # L + 1
    <3>1. n - (L + 1) \in 1..M /\ L + 1 + (n - (L + 1)) = n
      BY <1>2, <2>3
    <3> DEFINE x == n - (L + 1)
    <3>2. x \in 1..M /\ L + 1 + x = n
      BY <3>1
    <3> HIDE DEF x
    <3>3. s[n] = seg[x]
      BY <1>5, <3>2
    <3>4. ASSUME s[n] = Url!Lead PROVE n < L + 1 + M /\ s[n + 1] = Url!Cont
      <4>1. x < M /\ seg[x + 1] = Url!Cont
        BY <1>7, <3>2, <3>3, <3>4
      <4>2. x + 1 \in 1..M /\ n < L + 1 + M /\ L + 1 + (x + 1) = n + 1
        BY <1>2, <3>2, <4>1
      <4>3. s[L + 1 + (x + 1)] = seg[x + 1]
        BY <1>5, <4>2
      <4> QED
        BY <4>1, <4>2, <4>3
    <3>5. ASSUME s[n] = Url!Cont PROVE n > 1 /\ s[n - 1] = Url!Lead
      <4>1. x > 1 /\ seg[x - 1] = Url!Lead
        BY <1>7, <3>2, <3>3, <3>5
      <4>2. x - 1 \in 1..M /\ n > 1 /\ L + 1 + (x - 1) = n - 1
        BY <1>2, <3>2, <4>1
      <4>3. s[L + 1 + (x - 1)] = seg[x - 1]
        BY <1>5, <4>2
      <4> QED
        BY <4>1, <4>2, <4>3
    <3> QED
      BY <1>7, <3>2, <3>3, <3>4, <3>5
  <2> QED
    BY <2>1, <2>2, <2>3
<1>9. Url!IsUtf8(s)
  BY <1>4, <1>8 DEF Url!IsUtf8
<1>10. s # <<>> /\ s[1] = w[1] /\ s[Len(s)] = seg[M]
  <2>1. 1 \in 1..L /\ M \in 1..M /\ Len(s) # 0
    BY <1>2, <1>4
  <2> QED
    BY <1>4, <1>5, <2>1
<1>11. w[1] # Url!Slash /\ seg[M] # Url!Slash
  BY SegmentReadable DEF Readable, M
<1>12. Readable(s)
  BY <1>4, <1>9, <1>10, <1>11 DEF Readable
<1> QED
  BY <1>12 DEF s, longer

LEMMA JoinedReadable ==
    ASSUME NEW segments \in Seq(Seq(PlainBytes)), segments # <<>>, Url!Ordinary(segments),
           \A n \in DOMAIN segments : Url!IsUtf8(segments[n])
    PROVE  Readable(Url!Joined(segments))
<1> DEFINE N == Len(segments)
<1>1. PICK g : JoinSteps(g, segments)
  BY JoinedIs
<1>2. /\ Url!Joined(segments) = g[N]
      /\ \A x \in 1..N :
            g[x] = (IF x = 1 THEN <<>> ELSE Append(g[x - 1], Url!Slash)) \o segments[x]
  BY <1>1 DEF JoinSteps
<1>3. /\ N \in Nat \ {0}
      /\ \A x \in 1..N : segments[x] \in Seq(PlainBytes) /\ segments[x] # <<>>
                           /\ Url!IsUtf8(segments[x])
  BY EmptySeq, LenProperties, ElementOfSeq DEF Url!Ordinary
<1> HIDE DEF N
<1> DEFINE Bad == {n \in 1..N : ~Readable(g[n])}
<1>4. Bad = {}
  <2> SUFFICES ASSUME Bad # {} PROVE FALSE
    OBVIOUS
  <2>1. PICK m \in Bad : \A y \in Bad : m <= y
    <3>1. Bad \in SUBSET Nat
      BY <1>3
    <3> HIDE DEF Bad
    <3> QED
      BY <3>1, Least
  <2>2. CASE m = 1
    <3>1. segments[1] \in Seq(PlainBytes) /\ Readable(segments[1])
      BY <1>3, <2>1, <2>2, SegmentReadable
    <3>2. g[1] = <<>> \o segments[1]
      BY <1>2, <2>1, <2>2
    <3>3. g[1] = segments[1]
      BY <3>1, <3>2, ConcatEmptySeq
    <3> QED
      BY <2>1, <2>2, <3>1, <3>3
  <2>3. CASE m # 1
    <3>1. m - 1 \in 1..N /\ ~(m <= m - 1)
      BY <1>3, <2>1, <2>3
    <3>2. Readable(g[m - 1])
      BY <2>1, <3>1
    <3>3. g[m] = Append(g[m - 1], Url!Slash) \o segments[m]
      BY <1>2, <2>1, <2>3
    <3>4. Readable(g[m])
      BY <1>3, <2>1, <3>2, <3>3, ReadableJoin
    <3> QED
      BY <2>1, <3>4
  <2> QED
    BY <2>2, <2>3
<1>5. N \in 1..N
  BY <1>3
<1> QED
  BY <1>2, <1>4, <1>5

\* Nothing is trimmed from it.
LEMMA ReadableTrimmed ==
    ASSUME NEW w, Readable(w)
    PROVE  Url!Trimmed(w) = {w}
<1>1. w \in Seq(Bytes) /\ Len(w) \in Nat \ {0} /\ DOMAIN w = 1..Len(w)
  BY EmptySeq, LenProperties DEF Readable
<1> DEFINE kept == {n \in DOMAIN w : w[n] # Url!Slash}
<1>2. kept \subseteq 1..Len(w) /\ 1 \in kept /\ Len(w) \in kept
  BY <1>1 DEF Readable
<1>3. Url!Trimmed(w) = {SubSeq(w, first, last) : first \in {n \in kept : \A x \in kept : n <= x},
                                                 last \in {n \in kept : \A x \in kept : n >= x}}
  BY DEF Url!Trimmed
<1> HIDE DEF kept
<1> DEFINE firsts == {n \in kept : \A x \in kept : n <= x}
           lasts  == {n \in kept : \A x \in kept : n >= x}
<1>4. firsts = {1} /\ lasts = {Len(w)}
  <2> DEFINE L == Len(w)
  <2>1. L \in Nat /\ L \in kept /\ 1 \in kept /\ kept \subseteq 1..L
    BY <1>1, <1>2
  <2> HIDE DEF L
  <2>2. \A n \in kept : 1 <= n /\ L >= n
    BY <2>1
  <2>3. ASSUME NEW n \in kept, \A x \in kept : n <= x PROVE n = 1
    <3>1. n <= 1 /\ 1 <= n /\ n \in Nat
      BY <2>1, <2>2, <2>3
    <3> QED
      BY <3>1
  <2>4. ASSUME NEW n \in kept, \A x \in kept : n >= x PROVE n = L
    <3>1. n >= L /\ L >= n /\ n \in Nat
      BY <2>1, <2>2, <2>4
    <3> QED
      BY <2>1, <3>1
  <2>5. firsts = {1}
    BY <2>1, <2>2, <2>3
  <2>6. lasts = {L}
    BY <2>1, <2>2, <2>4
  <2> QED
    BY <2>5, <2>6 DEF L
<1>5. SubSeq(w, 1, Len(w)) = w
  BY <1>1, SubSeqFull
<1>6. Url!Trimmed(w) = {SubSeq(w, first, last) : first \in firsts, last \in lasts}
  BY <1>3
<1> HIDE DEF firsts, lasts
<1> QED
  BY <1>4, <1>5, <1>6

-----------------------------------------------------------------------------
(* FileUrl: what percent_decode should read *)

\* An escape begins at place p.
EscapeAt(s, p) ==
    /\ p \in 1..Len(s) /\ p + 2 <= Len(s)
    /\ s[p] = Url!Pct /\ s[p + 1] \in Url!Digits /\ s[p + 2] \in Url!Digits

\* The documented reading, place by place
LEMMA ReadingsAre ==
    ASSUME NEW s \in Seq(Bytes)
    PROVE  /\ Url!Readings(s)[0] = <<>>
           /\ \A n \in 1..Len(s) :
                 Url!Readings(s)[n] =
                   IF n >= 3 /\ EscapeAt(s, n - 2)
                   THEN Append(Url!Readings(s)[n - 3], 4 * s[n - 1] + s[n])
                   ELSE Append(Url!Readings(s)[n - 1], s[n])
<1> DEFINE B == Seq(Bytes)
           V == B \X B \X B
           N == Len(s)
           Esc(n) == n >= 3 /\ s[n - 2] = Url!Pct /\ s[n - 1] \in Url!Digits /\ s[n] \in Url!Digits
           Next1(v, n) == IF Esc(n) THEN Append(v[3], 4 * s[n - 1] + s[n]) ELSE Append(v[1], s[n])
           Step(v, n) == <<Next1(v, n), v[1], v[2]>>
           G == [x \in 1..N |-> [v \in V |-> Step(v, x)]]
           Read(f, n) == IF Esc(n) THEN Append(f[n - 3], 4 * s[n - 1] + s[n])
                         ELSE Append(f[n - 1], s[n])
           Rec(f) == [n \in 0..N |-> IF Esc(n) THEN Append(f[n - 3], 4 * s[n - 1] + s[n])
                                     ELSE IF n = 0 THEN <<>> ELSE Append(f[n - 1], s[n])]
<1>1. N \in Nat /\ \A x \in 1..N : s[x] \in Bytes
  BY LenProperties, ElementOfSeq
<1>2. \A x \in 1..N : \A v \in V : Step(v, x) \in V
  <2> SUFFICES ASSUME NEW x \in 1..N, NEW v \in V PROVE Step(v, x) \in V
    OBVIOUS
  <2>1. v[1] \in B /\ v[2] \in B /\ v[3] \in B
    OBVIOUS
  <2>2. CASE Esc(x)
    <3>1. s[x - 1] \in 0..3 /\ s[x] \in 0..3
      BY <2>2, Codes
    <3>2. 4 * s[x - 1] + s[x] \in Bytes
      BY <3>1, Codes
    <3> QED
      BY <2>1, <2>2, <3>2, AppendProperties
  <2>3. CASE ~Esc(x)
    <3>1. Append(v[1], s[x]) \in B
      BY <1>1, <2>1, AppendProperties
    <3> QED
      BY <2>1, <2>3, <3>1
  <2> QED
    BY <2>2, <2>3
<1> DEFINE base == <<<<>>, <<>>, <<>>>>
<1>3. G \in [1..N -> [V -> V]] /\ base \in V /\ base[1] = <<>>
  <2>1. <<>> \in B
    BY EmptySeq
  <2> QED
    BY <1>2, <2>1
<1> HIDE DEF N, Step, V, base
<1>4. PICK t \in [0..N -> V] : t[0] = base /\ \A x \in 1..N : t[x] = G[x][t[x - 1]]
  <2> HIDE DEF G
  <2>1. PICK f : Iteration(f, V, base, N, G)
    BY <1>1, <1>3, Iterates
  <2> QED
    BY <2>1 DEF Iteration
<1>5. \A x \in 1..N : x - 1 \in 0..N /\ x \in 0..N /\ x # 0
  BY <1>1
<1>6. \A x \in 1..N : t[x] = Step(t[x - 1], x)
  BY <1>4, <1>5
<1> DEFINE f == [x \in 0..N |-> t[x][1]]
<1>7. \A x \in 1..N : t[x][1] = Next1(t[x - 1], x) /\ t[x][2] = t[x - 1][1] /\ t[x][3] = t[x - 1][2]
  BY <1>6 DEF Step
<1>8. ASSUME NEW x \in 1..N
      PROVE  f[x] = Read(f, x)
  <2>1. f[x] = t[x][1] /\ f[x - 1] = t[x - 1][1]
    BY <1>5
  <2>2. ASSUME Esc(x) PROVE t[x - 1][3] = f[x - 3]
    <3>1. x - 1 \in 1..N /\ x - 2 \in 1..N /\ x - 3 \in 0..N /\ x - 1 - 1 = x - 2 /\ x - 2 - 1 = x - 3
      BY <1>1, <2>2
    <3>2. t[x - 1][3] = t[x - 2][2] /\ t[x - 2][2] = t[x - 3][1]
      BY <1>7, <3>1
    <3> QED
      BY <3>1, <3>2
  <2> QED
    BY <1>7, <2>1, <2>2
<1>9. f[0] = <<>>
  BY <1>1, <1>3, <1>4
<1>10. f = Rec(f)
  <2>1. \A x \in 0..N : x # 0 => x \in 1..N
    BY <1>1
  <2>2. ~Esc(0)
    OBVIOUS
  <2>3. \A x \in 0..N : f[x] = IF Esc(x) THEN Append(f[x - 3], 4 * s[x - 1] + s[x])
                               ELSE IF x = 0 THEN <<>> ELSE Append(f[x - 1], s[x])
    <3> HIDE DEF f, Esc
    <3> QED
      BY <1>8, <1>9, <2>1, <2>2
  <2>4. f = [x \in 0..N |-> f[x]]
    OBVIOUS
  <2> HIDE DEF f, Esc
  <2> QED
    BY <2>3, <2>4
<1> DEFINE g == CHOOSE g : g = Rec(g)
<1>11. g = Rec(g)
  <2> HIDE DEF Rec, f
  <2> QED
    BY <1>10
<1> HIDE DEF g
<1>12. g[0] = <<>> /\ \A x \in 1..N : g[x] = Read(g, x)
  <2>1. 0 \in 0..N /\ ~Esc(0)
    BY <1>1
  <2> HIDE DEF Esc
  <2> QED
    BY <1>5, <1>11, <2>1
<1>13. Url!Readings(s) = g
  BY DEF Url!Readings, g, N
<1>14. \A x \in 1..N : Esc(x) <=> x >= 3 /\ EscapeAt(s, x - 2)
  <2> SUFFICES ASSUME NEW x \in 1..N PROVE Esc(x) <=> x >= 3 /\ EscapeAt(s, x - 2)
    OBVIOUS
  <2>1. x >= 3 => x - 2 \in 1..N /\ x - 2 + 2 <= N /\ x - 2 + 1 = x - 1 /\ x - 2 + 2 = x
    BY <1>1
  <2> QED
    BY <2>1 DEF EscapeAt, N
<1> HIDE DEF Esc
<1> QED
  BY <1>12, <1>13, <1>14 DEF N

-----------------------------------------------------------------------------
(* FileUrl: parse_archive_url *)

\* The decoder is at the beginning of what stands for a byte of the name.
Progress(starts, r, w, at, done1) ==
    /\ Encoding(starts, r, w)
    /\ \E x \in 1..(Len(w) + 1) : starts[x] = at /\ done1 = SubSeq(w, 1, x - 1)

\* A name that was encoded is read back, byte by byte.
NameInv ==
    urlName # <<>> /\ Url!Ordinary(urlName) =>
        /\ urlStage \in {"url", "decode", "file"}
        /\ urlStage \in {"url", "decode"} =>
              /\ raw \in Seq(Alphabet) /\ raw # <<>>
              /\ \E starts : Progress(starts, raw, Url!Joined(urlName), behind, out)
        /\ urlStage = "file" => out = Url!Joined(urlName)

NoSign == \A n \in 2..Len(raw) : raw[n] = Url!Plus => raw[n - 1] # Url!Pct

\* What is decoded is what should be read up to there, and no escape is cut.
ReadInv ==
    urlStage = "decode" /\ NoSign =>
        /\ out = Url!Readings(raw)[behind]
        /\ ~EscapeAt(raw, behind) /\ ~EscapeAt(raw, behind - 1)

UrlInv ==
    /\ Url!TypeOK
    /\ urlStage = "url" => behind = 0 /\ out = <<>>
    /\ urlName # <<>> /\ urlStage = "url" => raw \in Relative
    /\ NameInv
    /\ ReadInv

LEMMA UrlInputs ==
    /\ \A path \in RawPaths : path \in Seq(Bytes)
    /\ \A segments \in UrlNames :
          /\ segments \in Seq(Seq(PlainBytes)) /\ segments # <<>>
          /\ \A n \in DOMAIN segments : Url!IsUtf8(segments[n])
<1> QED
  BY PartsAssumption DEF Url!InputsAssumption, Bytes, PlainBytes

LEMMA EncodeType ==
    ASSUME NEW segments \in UrlNames
    PROVE  Url!EncodePath(segments) \in Relative
<1>1. segments \in Seq(Seq(PlainBytes)) /\ Len(segments) \in Nat
  BY UrlInputs, LenProperties
<1>2. PICK f : PathSteps(f, segments)
  BY <1>1, PathCode
<1>3. Len(segments) \in 0..Len(segments)
  BY <1>1
<1> QED
  BY <1>2, <1>3 DEF PathSteps

LEMMA RelativeIsBytes == Relative \subseteq Seq(Bytes)
<1> QED
  BY Codes DEF Relative

LEMMA UrlBegins == Url!Init => UrlInv
<1> SUFFICES ASSUME Url!Init PROVE UrlInv
  OBVIOUS
<1>1. /\ \/ urlName = <<>> /\ raw \in RawPaths
         \/ urlName \in UrlNames /\ raw = Url!EncodePath(urlName)
      /\ urlStage = "url" /\ behind = 0 /\ out = <<>>
  BY DEF Url!Init
<1>2. raw \in Seq(Bytes) /\ (urlName # <<>> => raw \in Relative)
  BY <1>1, UrlInputs, EncodeType, RelativeIsBytes
<1>3. Url!TypeOK
  <2>1. 0 \in 0..Len(raw) /\ <<>> \in Seq(Bytes)
    BY <1>2, LenProperties, EmptySeq
  <2> QED
    BY <1>1, <1>2, <2>1 DEF Url!TypeOK, Bytes
<1>4. ASSUME urlName # <<>>, Url!Ordinary(urlName)
      PROVE  /\ raw \in Seq(Alphabet) /\ raw # <<>>
             /\ \E starts : Progress(starts, raw, Url!Joined(urlName), behind, out)
  <2> DEFINE w == Url!Joined(urlName)
  <2>1. urlName \in UrlNames /\ raw = Url!EncodePath(urlName)
    BY <1>1, <1>4
  <2>2. Encoded(raw, w) /\ Readable(w)
    BY <1>4, <2>1, UrlInputs, NameEncoded, JoinedReadable
  <2> HIDE DEF w
  <2>3. PICK s : Encoding(s, raw, w)
    BY <2>2 DEF Encoded
  <2>4. 1 \in 1..(Len(w) + 1) /\ s[1] = 0 /\ SubSeq(w, 1, 1 - 1) = <<>>
    BY <2>2, <2>3, LenProperties, SubSeqEmpty DEF Readable, Encoding
  <2>5. Progress(s, raw, w, behind, out)
    BY <1>1, <2>3, <2>4 DEF Progress
  <2>6. raw \in Seq(Alphabet) /\ raw # <<>>
    BY <2>2, EncodedStart DEF Encoded, Readable
  <2> QED
    BY <2>5, <2>6 DEF w
<1> QED
  BY <1>1, <1>2, <1>3, <1>4 DEF UrlInv, NameInv, ReadInv

LEMMA TwoDigits ==
    ASSUME NEW byte \in 0..15
    PROVE  /\ byte \div 4 \in 0..3 /\ byte % 4 \in 0..3
           /\ 4 * (byte \div 4) + (byte % 4) = byte
<1> QED
  OBVIOUS

\* Where the decoder stands in the code of a name, and what it does there.
LEMMA AtPiece ==
    ASSUME NEW starts, NEW w \in Seq(Bytes), raw \in Seq(Alphabet),
           Progress(starts, raw, w, behind, out), behind \in 0..Len(raw)
    PROVE  /\ behind >= Len(raw) => out = w
           /\ Url!Decoding =>
                /\ ~Url!OffBoundary
                /\ Url!IsEscape =>
                      Progress(starts, raw, w, behind + 3, Append(out, Url!EscapedByte))
                /\ ~Url!IsEscape =>
                      Progress(starts, raw, w, behind + 1, Append(out, raw[behind + 1]))
<1> DEFINE L == Len(raw)
           M == Len(w)
<1>1. /\ starts \in [1..(M + 1) -> 0..L] /\ starts[M + 1] = L
      /\ \A x \in 1..M : starts[x + 1] = starts[x] + Width(w[x]) /\ PieceAt(raw, starts[x], w[x])
  BY DEF Progress, Encoding
<1>2. PICK x \in 1..(M + 1) : starts[x] = behind /\ out = SubSeq(w, 1, x - 1)
  BY DEF Progress
<1>3. L \in Nat /\ M \in Nat /\ behind \in 0..L
  BY LenProperties
<1>4. \A y \in 1..L : raw[y] \in Alphabet
  BY ElementOfSeq
<1>5. \A y \in 1..M : w[y] \in Bytes
  BY ElementOfSeq
<1>6. SubSeq(w, 1, M) = w
  BY SubSeqFull
<1> HIDE DEF L, M
<1>7. CASE x = M + 1
  <2>1. behind = L /\ x - 1 = M /\ ~(behind < L)
    BY <1>1, <1>2, <1>3, <1>7
  <2>2. ~Url!Decoding
    BY <2>1 DEF Url!Decoding, L
  <2> QED
    BY <1>2, <1>6, <2>1, <2>2
<1>8. CASE x \in 1..M
  <2> DEFINE byte == w[x]
  <2>1. starts[x + 1] = behind + Width(byte) /\ PieceAt(raw, behind, byte)
    BY <1>1, <1>2, <1>8
  <2>2. starts[x + 1] \in 0..L /\ x + 1 \in 1..(M + 1)
    BY <1>1, <1>3, <1>8
  <2>3. byte \in Bytes
    BY <1>5, <1>8
  <2>4. SubSeq(w, 1, x) = Append(out, byte)
    <3>1. SubSeq(w, 1, x) = SubSeq(w, 1, x - 1) \o <<w[x]>>
      <4>1. 1 \in 1..Len(w) /\ x \in 1..Len(w)
        BY <1>3, <1>8 DEF M
      <4> QED
        BY <4>1, SubSeqRecursiveSecond
    <3>2. SubSeq(w, 1, x - 1) \in Seq(Bytes)
      <4>1. \A y \in 1..(x - 1) : w[y] \in Bytes
        BY <1>3, <1>5, <1>8
      <4> QED
        BY <1>8, <4>1, SubSeqProperties
    <3>3. out \in Seq(Bytes) /\ SubSeq(w, 1, x) = out \o <<byte>>
      BY <1>2, <3>1, <3>2
    <3> HIDE DEF byte
    <3> QED
      BY <2>3, <3>3, AppendIsConcat
  <2> HIDE DEF byte
  <2>5. behind < L
    BY <1>3, <2>1, <2>2 DEF Width
  <2>11. ~(behind >= Len(raw))
    BY <1>3, <2>5 DEF L
  <2>6. \A y \in 1..L : raw[y] # Url!Cont
    BY <1>4, Codes DEF Url!Cont
  <2>7. ~Url!OffBoundary
    <3>1. behind + 3 < L => behind + 4 \in 1..L
      BY <1>3
    <3> QED
      BY <2>6, <3>1 DEF Url!OffBoundary, L
  <2>8. ASSUME NEW o, NEW at, at = starts[x + 1], o = Append(out, byte)
        PROVE  Progress(starts, raw, w, at, o)
    <3>1. x + 1 - 1 = x /\ o = SubSeq(w, 1, x + 1 - 1)
      BY <1>8, <2>4, <2>8
    <3> DEFINE y == x + 1
    <3>2. Encoding(starts, raw, w) /\ y \in 1..(Len(w) + 1)
      BY <2>2 DEF Progress, M
    <3>3. starts[y] = at /\ o = SubSeq(w, 1, y - 1)
      BY <2>8, <3>1
    <3> HIDE DEF y
    <3> QED
      BY <3>2, <3>3 DEF Progress
  <2>9. CASE byte \in Literal
    <3>1. starts[x + 1] = behind + 1 /\ raw[behind + 1] = byte
      BY <2>1, <2>9 DEF Width, PieceAt
    <3>2. ~Url!IsEscape
      BY <2>9, <3>1, Codes DEF Url!IsEscape, Url!AtPct
    <3>3. Progress(starts, raw, w, behind + 1, Append(out, raw[behind + 1]))
      BY <2>8, <3>1
    <3> QED
      BY <2>7, <2>11, <3>2, <3>3
  <2>10. CASE byte \notin Literal
    <3>1. /\ starts[x + 1] = behind + 3 /\ raw[behind + 1] = Url!Pct
          /\ raw[behind + 2] = byte \div 4 /\ raw[behind + 3] = byte % 4
      BY <2>1, <2>10 DEF Width, PieceAt
    <3>2. byte \div 4 \in 0..3 /\ byte % 4 \in 0..3 /\ 4 * (byte \div 4) + (byte % 4) = byte
      BY <2>3, Codes, TwoDigits
    <3>3. Url!IsEscape
      <4>1. behind + 3 <= L
        BY <2>2, <3>1
      <4> QED
        BY <2>7, <3>1, <3>2, <4>1, Codes DEF Url!IsEscape, Url!AtPct, L
    <3>4. Url!EscapedByte = byte
      <4>1. raw[behind + 2] # Url!Plus
        BY <3>1, <3>2 DEF Url!Plus
      <4>2. Url!EscapedByte = 4 * raw[behind + 2] + raw[behind + 3]
        BY <4>1 DEF Url!EscapedByte
      <4> QED
        BY <3>1, <3>2, <4>2
    <3>5. Progress(starts, raw, w, behind + 3, Append(out, Url!EscapedByte))
      BY <2>8, <3>1, <3>4
    <3> QED
      BY <2>7, <2>11, <3>3, <3>5
  <2> QED
    BY <2>9, <2>10
<1> QED
  BY <1>2, <1>3, <1>7, <1>8

\* What is cut off begins with a question mark.
LEMMA CutIs ==
    ASSUME UrlInv, Url!CutQuery
    PROVE  raw' \in Seq(Bytes) /\ (raw \in Seq(Alphabet) => raw' = raw)
<1> DEFINE cut == {n \in DOMAIN raw : raw[n] = Url!Query}
           first == CHOOSE n \in cut : \A x \in cut : n <= x
<1>1. raw \in Seq(Bytes)
  BY DEF UrlInv, Url!TypeOK, Bytes
<1>2. raw' = IF cut = {} THEN raw ELSE SubSeq(raw, 1, first - 1)
  BY DEF Url!CutQuery
<1>3. cut \subseteq 1..Len(raw) /\ Len(raw) \in Nat
  BY <1>1, LenProperties
<1>4. raw \in Seq(Alphabet) => cut = {}
  <2> SUFFICES ASSUME raw \in Seq(Alphabet), NEW n \in cut PROVE FALSE
    OBVIOUS
  <2>1. raw[n] \in Alphabet /\ raw[n] = Url!Query
    BY <1>3, ElementOfSeq
  <2> QED
    BY <2>1, Codes DEF Url!Query
<1> HIDE DEF cut
<1>5. CASE cut # {}
  <2>1. \E n \in cut : \A x \in cut : n <= x
    BY <1>3, <1>5, Least
  <2>2. first \in cut
    BY <2>1
  <2> HIDE DEF first
  <2>3. first \in 1..Len(raw)
    BY <1>3, <2>2
  <2>4. \A x \in 1..(first - 1) : raw[x] \in Bytes
    BY <1>1, <1>3, <2>3, ElementOfSeq
  <2>5. SubSeq(raw, 1, first - 1) \in Seq(Bytes)
    BY <2>3, <2>4, SubSeqProperties
  <2> QED
    BY <1>2, <1>4, <1>5, <2>5
<1>6. CASE cut = {}
  BY <1>1, <1>2, <1>6
<1> QED
  BY <1>5, <1>6

LEMMA TrimmedType ==
    ASSUME NEW s \in Seq(Bytes), NEW t \in Url!Trimmed(s)
    PROVE  t \in Seq(Bytes)
<1>1. PICK first \in DOMAIN s, last \in DOMAIN s : t = SubSeq(s, first, last)
  BY DEF Url!Trimmed
<1>2. Len(s) \in Nat /\ DOMAIN s = 1..Len(s)
  BY LenProperties
<1>3. \A x \in first..last : s[x] \in Bytes
  BY <1>2, ElementOfSeq
<1> QED
  BY <1>1, <1>2, <1>3, SubSeqProperties

LEMMA UrlTypesStep == UrlInv /\ Url!Next => Url!TypeOK'
<1> SUFFICES ASSUME UrlInv, Url!Next PROVE Url!TypeOK'
  OBVIOUS
<1>1. /\ urlName \in UrlNames \cup {<<>>} /\ raw \in Seq(Bytes) /\ out \in Seq(Bytes)
      /\ urlStage \in {"url", "decode", "item", "file", "refused", "panic"}
      /\ behind \in 0..Len(raw)
      /\ urlStage = "url" => behind = 0
  BY DEF UrlInv, Url!TypeOK, Bytes
<1>2. Len(raw) \in Nat /\ \A x \in 1..Len(raw) : raw[x] \in Bytes
  BY <1>1, LenProperties, ElementOfSeq
<1>3. CASE Url!CutQuery
  <2>1. raw' \in Seq(Bytes) /\ 0 \in 0..Len(raw')
    BY <1>3, CutIs, LenProperties
  <2>2. /\ urlStage' \in {"item", "decode"} /\ behind' = 0
        /\ UNCHANGED <<urlName, out>>
    BY <1>1, <1>3 DEF Url!CutQuery
  <2> QED
    BY <1>1, <2>1, <2>2 DEF Url!TypeOK, Bytes
<1>4. CASE Url!DecodeEscape
  <2>1. /\ behind + 3 <= Len(raw) /\ raw[behind + 2] \in Url!Digits \cup {Url!Plus}
        /\ raw[behind + 3] \in Url!Digits
    BY <1>4 DEF Url!DecodeEscape, Url!IsEscape, Url!AtPct
  <2>2. Url!EscapedByte \in Bytes
    <3>1. raw[behind + 2] = Url!Plus => Url!EscapedByte = 0 + raw[behind + 3]
      BY DEF Url!EscapedByte
    <3>2. raw[behind + 2] # Url!Plus => Url!EscapedByte = 4 * raw[behind + 2] + raw[behind + 3]
      BY DEF Url!EscapedByte
    <3>3. raw[behind + 3] \in 0..3 /\ (raw[behind + 2] # Url!Plus => raw[behind + 2] \in 0..3)
      BY <2>1, Codes
    <3> QED
      BY <3>1, <3>2, <3>3, Codes
  <2>3. /\ out' = Append(out, Url!EscapedByte) /\ behind' = behind + 3
        /\ UNCHANGED <<urlName, raw, urlStage>>
    BY <1>4 DEF Url!DecodeEscape
  <2>4. out' \in Seq(Bytes) /\ behind' \in 0..Len(raw')
    BY <1>1, <1>2, <2>1, <2>2, <2>3, AppendProperties
  <2> QED
    BY <1>1, <2>3, <2>4 DEF Url!TypeOK, Bytes
<1>5. CASE Url!DecodeByte
  <2>1. /\ behind < Len(raw) /\ out' = Append(out, raw[behind + 1]) /\ behind' = behind + 1
        /\ UNCHANGED <<urlName, raw, urlStage>>
    BY <1>5 DEF Url!DecodeByte, Url!Decoding
  <2>2. behind + 1 \in 1..Len(raw) /\ behind' \in 0..Len(raw')
    BY <1>1, <1>2, <2>1
  <2>3. out' \in Seq(Bytes)
    BY <1>1, <1>2, <2>1, <2>2, AppendProperties
  <2> QED
    BY <1>1, <2>1, <2>2, <2>3 DEF Url!TypeOK, Bytes
<1>6. CASE Url!DecodePanics \/ Url!RefusePath
  <2>1. urlStage' \in {"panic", "refused"} /\ UNCHANGED <<urlName, raw, behind, out>>
    BY <1>6 DEF Url!DecodePanics, Url!RefusePath
  <2> QED
    BY <1>1, <2>1 DEF Url!TypeOK, Bytes
<1>7. CASE Url!NameFile
  <2>1. out' \in Url!Trimmed(out) /\ urlStage' = "file" /\ UNCHANGED <<urlName, raw, behind>>
    BY <1>7 DEF Url!NameFile
  <2>2. out' \in Seq(Bytes)
    BY <1>1, <2>1, TrimmedType
  <2> QED
    BY <1>1, <2>1, <2>2 DEF Url!TypeOK, Bytes
<1> QED
  BY <1>3, <1>4, <1>5, <1>6, <1>7 DEF Url!Next

LEMMA NameStep == UrlInv /\ Url!Next => NameInv'
<1> SUFFICES ASSUME UrlInv, Url!Next, (urlName # <<>> /\ Url!Ordinary(urlName))'
             PROVE  NameInv'
  BY DEF NameInv
<1>1. urlName' = urlName
  BY DEF Url!Next, Url!CutQuery, Url!DecodeEscape, Url!DecodeByte, Url!DecodePanics,
         Url!RefusePath, Url!NameFile
<1>2. urlName # <<>> /\ Url!Ordinary(urlName)
  BY <1>1 DEF Url!Ordinary, Url!IsDotSegment
<1> DEFINE w == Url!Joined(urlName)
<1>3. /\ urlStage \in {"url", "decode", "file"}
      /\ urlStage \in {"url", "decode"} =>
            /\ raw \in Seq(Alphabet) /\ raw # <<>>
            /\ \E starts : Progress(starts, raw, w, behind, out)
      /\ urlStage = "file" => out = w
  BY <1>2 DEF UrlInv, NameInv
<1>4. Readable(w) /\ w \in Seq(Bytes)
  <2>1. urlName \in UrlNames
    BY <1>2 DEF UrlInv, Url!TypeOK
  <2> QED
    BY <1>2, <2>1, UrlInputs, JoinedReadable DEF Readable
<1>5. SUFFICES /\ urlStage' \in {"url", "decode", "file"}
               /\ urlStage' \in {"url", "decode"} =>
                     /\ raw' \in Seq(Alphabet) /\ raw' # <<>>
                     /\ \E starts : Progress(starts, raw', w, behind', out')
               /\ urlStage' = "file" => out' = w
  BY <1>1 DEF NameInv, Progress, Encoding, PieceAt, Width
<1> HIDE DEF w
<1>6. behind \in 0..Len(raw)
  BY DEF UrlInv, Url!TypeOK
<1>7. urlStage \in {"url", "decode"}
  BY DEF Url!Next, Url!CutQuery, Url!DecodeEscape, Url!DecodeByte, Url!DecodePanics,
         Url!RefusePath, Url!NameFile, Url!Decoding
<1>8. PICK starts : Progress(starts, raw, w, behind, out)
  BY <1>3, <1>7
<1>9. raw \in Seq(Alphabet) /\ raw # <<>>
  BY <1>3, <1>7
<1>10. CASE Url!CutQuery
  <2>1. raw' = raw
    BY <1>9, <1>10, CutIs
  <2>2. urlStage' = "decode" /\ UNCHANGED <<behind, out>>
    BY <1>9, <1>10, <2>1 DEF Url!CutQuery
  <2> QED
    BY <1>8, <1>9, <2>1, <2>2
<1>11. CASE Url!DecodeEscape
  <2>1. /\ Url!Decoding /\ Url!IsEscape
        /\ out' = Append(out, Url!EscapedByte) /\ behind' = behind + 3
        /\ UNCHANGED <<raw, urlStage>>
    BY <1>11 DEF Url!DecodeEscape
  <2>2. Progress(starts, raw, w, behind + 3, Append(out, Url!EscapedByte))
    BY <1>4, <1>6, <1>8, <1>9, <2>1, AtPiece
  <2> QED
    BY <1>3, <1>7, <1>9, <2>1, <2>2
<1>12. CASE Url!DecodeByte
  <2>1. /\ Url!Decoding /\ ~Url!IsEscape
        /\ out' = Append(out, raw[behind + 1]) /\ behind' = behind + 1
        /\ UNCHANGED <<raw, urlStage>>
    BY <1>12 DEF Url!DecodeByte
  <2>2. Progress(starts, raw, w, behind + 1, Append(out, raw[behind + 1]))
    BY <1>4, <1>6, <1>8, <1>9, <2>1, AtPiece
  <2> QED
    BY <1>3, <1>7, <1>9, <2>1, <2>2
<1>13. ASSUME Url!DecodePanics PROVE FALSE
  <2>1. Url!Decoding /\ Url!OffBoundary
    BY <1>13 DEF Url!DecodePanics
  <2> QED
    BY <1>4, <1>6, <1>8, <1>9, <2>1, AtPiece
<1>14. behind >= Len(raw) => out = w
  BY <1>4, <1>6, <1>8, <1>9, AtPiece
<1>15. ASSUME Url!RefusePath PROVE FALSE
  <2>1. behind >= Len(raw) /\ (~Url!IsUtf8(out) \/ Url!Trimmed(out) = {})
    BY <1>15 DEF Url!RefusePath
  <2>2. Url!IsUtf8(w) /\ Url!Trimmed(w) = {w}
    BY <1>4, ReadableTrimmed DEF Readable
  <2> QED
    BY <1>14, <2>1, <2>2
<1>16. CASE Url!NameFile
  <2>1. behind >= Len(raw) /\ out' \in Url!Trimmed(out) /\ urlStage' = "file"
    BY <1>16 DEF Url!NameFile
  <2>2. Url!Trimmed(w) = {w}
    BY <1>4, ReadableTrimmed
  <2> QED
    BY <1>14, <2>1, <2>2
<1> QED
  BY <1>10, <1>11, <1>12, <1>13, <1>15, <1>16 DEF Url!Next

LEMMA ReadStep == UrlInv /\ Url!Next => ReadInv'
<1> SUFFICES ASSUME UrlInv, Url!Next, (urlStage = "decode" /\ NoSign)'
             PROVE  ReadInv'
  BY DEF ReadInv
<1>1. raw \in Seq(Bytes) /\ Len(raw) \in Nat /\ behind \in 0..Len(raw)
  BY LenProperties DEF UrlInv, Url!TypeOK, Bytes
<1>2. CASE Url!CutQuery
  <2>1. raw' \in Seq(Bytes)
    BY <1>2, CutIs
  <2>2. behind' = 0 /\ out' = <<>>
    BY <1>2 DEF Url!CutQuery, UrlInv
  <2>3. Url!Readings(raw')[0] = <<>>
    BY <2>1, ReadingsAre
  <2>4. ~EscapeAt(raw', 0) /\ ~EscapeAt(raw', 0 - 1)
    BY DEF EscapeAt
  <2> QED
    BY <2>2, <2>3, <2>4 DEF ReadInv
<1>3. CASE Url!DecodeEscape \/ Url!DecodeByte
  <2>1. raw' = raw /\ urlStage' = urlStage /\ behind < Len(raw)
    BY <1>3 DEF Url!DecodeEscape, Url!DecodeByte, Url!Decoding
  <2>2. NoSign
    BY <2>1 DEF NoSign
  <2>3. /\ out = Url!Readings(raw)[behind]
        /\ ~EscapeAt(raw, behind) /\ ~EscapeAt(raw, behind - 1)
    BY <2>1, <2>2 DEF UrlInv, ReadInv
  <2> DEFINE R == Url!Readings(raw)
  <2>4. \A n \in 1..Len(raw) : R[n] = IF n >= 3 /\ EscapeAt(raw, n - 2)
                                      THEN Append(R[n - 3], 4 * raw[n - 1] + raw[n])
                                      ELSE Append(R[n - 1], raw[n])
    BY <1>1, ReadingsAre
  <2> HIDE DEF R
  <2>5. SUFFICES /\ out' = R[behind']
                 /\ ~EscapeAt(raw, behind') /\ ~EscapeAt(raw, behind' - 1)
    BY <2>1 DEF ReadInv, R
  <2>6. CASE Url!DecodeEscape
    <3>1. /\ behind + 3 <= Len(raw) /\ raw[behind + 1] = Url!Pct
          /\ raw[behind + 2] \in Url!Digits \cup {Url!Plus} /\ raw[behind + 3] \in Url!Digits
          /\ out' = Append(out, Url!EscapedByte) /\ behind' = behind + 3
      BY <2>6 DEF Url!DecodeEscape, Url!IsEscape, Url!AtPct
    <3>2. behind + 2 \in 2..Len(raw) /\ behind + 2 - 1 = behind + 1
      BY <1>1, <3>1
    <3>3. raw[behind + 2] # Url!Plus
      <4> DEFINE second == behind + 2
      <4>1. second \in 2..Len(raw) /\ second - 1 = behind + 1
        BY <1>1, <3>1, <3>2
      <4> HIDE DEF second
      <4>2. raw[second] = Url!Plus => raw[second - 1] # Url!Pct
        BY <2>2, <4>1 DEF NoSign
      <4>3. raw[second - 1] = Url!Pct
        BY <3>1, <4>1
      <4> QED
        BY <4>2, <4>3 DEF second
    <3>4. Url!EscapedByte = 4 * raw[behind + 2] + raw[behind + 3]
      BY <3>3 DEF Url!EscapedByte
    <3> DEFINE n == behind + 3
    <3>5. /\ n \in 1..Len(raw) /\ n >= 3 /\ n - 2 = behind + 1 /\ n - 1 = behind + 2
          /\ n - 3 = behind
      BY <1>1, <3>1
    <3>6. EscapeAt(raw, n - 2)
      <4>1. behind + 1 \in 1..Len(raw) /\ behind + 1 + 2 <= Len(raw)
            /\ behind + 1 + 1 = behind + 2 /\ behind + 1 + 2 = behind + 3
        BY <1>1, <3>1
      <4> QED
        BY <3>1, <3>3, <3>5, <4>1 DEF EscapeAt
    <3>7. R[n] = Append(R[behind], 4 * raw[behind + 2] + raw[n])
      BY <2>4, <3>5, <3>6
    <3>8. Url!Pct \notin Url!Digits
      BY Codes
    <3>9. ~EscapeAt(raw, n) /\ ~EscapeAt(raw, n - 1)
      BY <3>1, <3>3, <3>5, <3>8 DEF EscapeAt
    <3> QED
      BY <2>3, <3>1, <3>4, <3>7, <3>9 DEF R
  <2>7. CASE Url!DecodeByte
    <3>1. /\ ~Url!OffBoundary /\ ~Url!IsEscape
          /\ out' = Append(out, raw[behind + 1]) /\ behind' = behind + 1
      BY <2>7 DEF Url!DecodeByte
    <3> DEFINE n == behind + 1
    <3>2. n \in 1..Len(raw) /\ n - 1 = behind /\ n - 2 = behind - 1
      BY <1>1, <2>1
    <3>3. R[n] = Append(R[behind], raw[n])
      BY <2>3, <2>4, <3>2
    <3>4. ~EscapeAt(raw, n)
      <4>1. behind + 1 + 2 = behind + 3 /\ behind + 1 + 1 = behind + 2
        BY <1>1
      <4> QED
        BY <3>1, <4>1 DEF EscapeAt, Url!IsEscape, Url!AtPct
    <3> QED
      BY <2>3, <3>1, <3>2, <3>3, <3>4 DEF R
  <2> QED
    BY <1>3, <2>6, <2>7
<1>4. CASE Url!DecodePanics \/ Url!RefusePath \/ Url!NameFile
  BY <1>4 DEF Url!DecodePanics, Url!RefusePath, Url!NameFile
<1> QED
  BY <1>2, <1>3, <1>4 DEF Url!Next

LEMMA UrlStep == UrlInv /\ Url!Next => UrlInv'
<1> SUFFICES ASSUME UrlInv, Url!Next PROVE UrlInv'
  OBVIOUS
<1>1. Url!TypeOK' /\ NameInv' /\ ReadInv'
  BY UrlTypesStep, NameStep, ReadStep
<1>2. urlStage' # "url"
  BY DEF Url!Next, Url!CutQuery, Url!DecodeEscape, Url!DecodeByte, Url!DecodePanics,
         Url!RefusePath, Url!NameFile, Url!Decoding
<1> QED
  BY <1>1, <1>2 DEF UrlInv

LEMMA UrlFollows ==
    ASSUME UrlInv
    PROVE  Url!UrlNamesTheFile /\ Url!ReferenceIsRelative /\ Url!DecodesAsDocumented
<1>1. Url!UrlNamesTheFile
  BY DEF UrlInv, NameInv, Url!UrlNamesTheFile
<1>2. Url!ReferenceIsRelative
  <2> SUFFICES ASSUME urlName # <<>>, urlStage = "url"
               PROVE  /\ raw # <<>> => Head(raw) # Url!Slash
                      /\ \A n \in DOMAIN raw : raw[n] \in Url!Unreserved \cup {Url!Slash, Url!Pct}
    BY DEF Url!ReferenceIsRelative
  <2>1. raw \in Relative /\ raw \in Seq(Alphabet)
    BY DEF UrlInv, Relative
  <2>2. Head(raw) = raw[1]
    BY <2>1
  <2>3. \A n \in DOMAIN raw : raw[n] \in Alphabet
    BY <2>1, LenProperties, ElementOfSeq
  <2> QED
    BY <2>1, <2>2, <2>3 DEF Relative, Alphabet, Literal
<1>3. Url!DecodesAsDocumented
  <2> SUFFICES ASSUME urlStage = "decode", behind >= Len(raw), NoSign
               PROVE  out = Url!Reading(raw)
    BY DEF Url!DecodesAsDocumented, NoSign
  <2>1. Len(raw) \in Nat /\ behind \in 0..Len(raw)
    BY LenProperties DEF UrlInv, Url!TypeOK
  <2>2. behind = Len(raw)
    BY <2>1
  <2> QED
    BY <2>2 DEF UrlInv, ReadInv, Url!Reading
<1> QED
  BY <1>1, <1>2, <1>3

LEMMA UrlStill == UrlInv /\ UNCHANGED urlVars => UrlInv'
BY DEF UrlInv, Url!TypeOK, NameInv, ReadInv, NoSign, Progress, Url!Ordinary, EscapeAt, urlVars

LEMMA UrlPart == PartsSpec => [](focus = "url" => UrlInv)
<1>1. PartsInit => (focus = "url" => UrlInv)
  BY UrlBegins DEF PartsInit
<1>2. /\ focus = "url" => UrlInv
      /\ [PlanMoves \/ FilterMoves \/ UrlMoves \/ LocalMoves]_allVars
      => (focus = "url" => UrlInv)'
  BY UrlStill, UrlStep DEF PlanMoves, FilterMoves, UrlMoves, LocalMoves, allVars
<1> QED
  BY <1>1, <1>2, PTL DEF PartsSpec

\* Whatever a user writes and whatever a name holds, of any length: a name
\* encoded by encode_download_path stays a relative reference without a query,
\* and parse_archive_url reads it back as that name; and percent_decode reads
\* what its doc says, but for an escape with a plus sign.
THEOREM UrlsRight ==
    PartsSpec => [](focus = "url" => /\ Url!UrlNamesTheFile /\ Url!ReferenceIsRelative
                                     /\ Url!DecodesAsDocumented /\ Url!TypeOK)
<1>1. UrlInv => /\ Url!UrlNamesTheFile /\ Url!ReferenceIsRelative
                /\ Url!DecodesAsDocumented /\ Url!TypeOK
  BY UrlFollows DEF UrlInv
<1> QED
  BY <1>1, UrlPart, PTL

-----------------------------------------------------------------------------
(* The parts side by side *)

\* The planner's variables while it plans, and while it does not
LEMMA PlanPart ==
    PartsSpec => [](IF focus = "plan" THEN PlanTypes ELSE PlanRefused)
<1>1. PartsInit => IF focus = "plan" THEN PlanTypes ELSE PlanRefused
  <2>1. Init => PlanTypes
    BY PlanTypesInit DEF PlanTypes, Init
  <2> QED
    BY <2>1 DEF PartsInit
<1>2. PlanRefused /\ UNCHANGED vars => PlanRefused'
  BY DEF PlanRefused, vars
<1>3. /\ IF focus = "plan" THEN PlanTypes ELSE PlanRefused
      /\ [PlanMoves \/ FilterMoves \/ UrlMoves \/ LocalMoves]_allVars
      => (IF focus = "plan" THEN PlanTypes ELSE PlanRefused)'
  <2> SUFFICES ASSUME IF focus = "plan" THEN PlanTypes ELSE PlanRefused,
                      [PlanMoves \/ FilterMoves \/ UrlMoves \/ LocalMoves]_allVars
               PROVE  (IF focus = "plan" THEN PlanTypes ELSE PlanRefused)'
    OBVIOUS
  <2>1. focus' = focus
    BY DEF PlanMoves, FilterMoves, UrlMoves, LocalMoves, allVars
  <2>2. CASE focus = "plan"
    <3>1. [Next]_vars
      BY <2>2 DEF PlanMoves, FilterMoves, UrlMoves, LocalMoves, allVars
    <3> QED
      BY <2>1, <2>2, <3>1, PlanTypesStep
  <2>3. CASE focus # "plan"
    <3>1. UNCHANGED vars
      BY <2>3 DEF PlanMoves, FilterMoves, UrlMoves, LocalMoves, allVars
    <3> QED
      BY <1>2, <2>1, <2>3, <3>1
  <2> QED
    BY <2>2, <2>3
<1> QED
  BY <1>1, <1>3, PTL DEF PartsSpec

\* The state of every part has its type: positions stay inside what is read,
\* and no planned path is empty.
THEOREM PartsTypeCorrect == PartsSpec => []PartsTypeOK
<1>1. /\ IF focus = "plan" THEN PlanTypes ELSE PlanRefused
      /\ focus = "filter" => Filter!FilterIsRight /\ Filter!TypeOK
      /\ focus = "url" => /\ Url!UrlNamesTheFile /\ Url!ReferenceIsRelative
                           /\ Url!DecodesAsDocumented /\ Url!TypeOK
      /\ focus = "local" => /\ Local!FitsEveryFileSystem /\ Local!StaysAsItIs
                             /\ Local!ModifiedIsTrue /\ Local!TypeOK
      => PartsTypeOK
  BY PlanRefusedTypes DEF PartsTypeOK, PlanTypes
<1> QED
  BY <1>1, PlanPart, FilterRight, UrlsRight, LocalPathFits, PTL

\* What becomes of a name on its way to the URL that is requested and to the
\* file that is written, for names of any length.
THEOREM NamesRight == PartsSpec => []NamesAreRight
<1>1. /\ focus = "url" => /\ Url!UrlNamesTheFile /\ Url!ReferenceIsRelative
                           /\ Url!DecodesAsDocumented /\ Url!TypeOK
      /\ focus = "local" => /\ Local!FitsEveryFileSystem /\ Local!StaysAsItIs
                             /\ Local!ModifiedIsTrue /\ Local!TypeOK
      => NamesAreRight
  BY DEF NamesAreRight
<1> QED
  BY <1>1, UrlsRight, LocalPathFits, PTL
=============================================================================
