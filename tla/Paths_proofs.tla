---------------------------- MODULE Paths_proofs ----------------------------
(***************************************************************************)
(* Lemmas about local paths that the proofs about the planner, the batch   *)
(* loop and check mode need.                                               *)
(***************************************************************************)
EXTENDS Paths, TLAPS

\* A path is a non-empty sequence of components; its key and its .part are
\* paths of the same length.
LEMMA PathFacts ==
    ASSUME NEW p \in Paths
    PROVE  /\ p \in Seq(Components) /\ Len(p) \in Nat \ {0} /\ DOMAIN p = 1..Len(p)
           /\ \A i \in 1..Len(p) : p[i] \in Components
<1>1. p \in Seq(Components) /\ p # <<>>
  BY DEF Paths
<1> QED
  BY <1>1

LEMMA PartOfIsPath ==
    ASSUME NEW p \in Paths
    PROVE  /\ PartOf(p) \in Paths /\ Len(PartOf(p)) = Len(p)
           /\ PartOf(p)[Len(p)].parts = p[Len(p)].parts + 1
           /\ \A i \in 1..(Len(p) - 1) : PartOf(p)[i] = p[i]
<1>1. /\ Len(p) \in Nat \ {0} /\ DOMAIN p = 1..Len(p) /\ p \in Seq(Components)
      /\ \A i \in 1..Len(p) : p[i] \in Components
  BY PathFacts
<1>2. [p[Len(p)] EXCEPT !.parts = @ + 1] \in Components
  BY <1>1 DEF Components
<1>3. PartOf(p) = [p EXCEPT ![Len(p)] = [p[Len(p)] EXCEPT !.parts = @ + 1]]
  BY DEF PartOf
<1>4. PartOf(p) \in Seq(Components) /\ Len(PartOf(p)) = Len(p)
  BY <1>1, <1>2, <1>3
<1>5. PartOf(p) # <<>>
  BY <1>1, <1>4
<1>6. PartOf(p)[Len(p)] = [p[Len(p)] EXCEPT !.parts = @ + 1]
  BY <1>1, <1>3
<1>7. PartOf(p)[Len(p)].parts = p[Len(p)].parts + 1
  BY <1>1, <1>6 DEF Components
<1>8. \A i \in 1..(Len(p) - 1) : PartOf(p)[i] = p[i]
  BY <1>1, <1>3
<1> QED
  BY <1>4, <1>5, <1>7, <1>8 DEF Paths

LEMMA KeyIsPath ==
    ASSUME NEW p \in Paths
    PROVE  /\ Key(p) \in Paths /\ Len(Key(p)) = Len(p)
           /\ \A i \in 1..Len(p) : Key(p)[i].parts = p[i].parts
<1>1. /\ Len(p) \in Nat \ {0} /\ DOMAIN p = 1..Len(p) /\ p \in Seq(Components)
      /\ \A i \in 1..Len(p) : p[i] \in Components
  BY PathFacts
<1>2. CASE CaseFolds
  <2>1. Key(p) = [i \in 1..Len(p) |-> [p[i] EXCEPT !.upper = FALSE]]
    BY <1>1, <1>2 DEF Key
  <2>2. \A i \in 1..Len(p) : [p[i] EXCEPT !.upper = FALSE] \in Components
    BY <1>1 DEF Components
  <2>3. Key(p) \in Seq(Components) /\ Len(Key(p)) = Len(p)
    BY <1>1, <2>1, <2>2
  <2>4. \A i \in 1..Len(p) : Key(p)[i].parts = p[i].parts
    BY <1>1, <2>1 DEF Components
  <2> QED
    BY <1>1, <2>3, <2>4 DEF Paths
<1>3. CASE ~CaseFolds
  BY <1>1, <1>3 DEF Key
<1> QED
  BY <1>2, <1>3

\* The proper prefixes of a path.
LEMMA AncestorFacts ==
    ASSUME NEW p \in Paths, NEW a \in Ancestors(p)
    PROVE  /\ a \in Paths /\ Len(a) \in 1..(Len(p) - 1)
           /\ \A i \in 1..Len(a) : a[i] = p[i]
<1>1. PICK n \in 1..(Len(p) - 1) : a = SubSeq(p, 1, n)
  BY DEF Ancestors
<1>2. /\ Len(p) \in Nat \ {0} /\ p \in Seq(Components)
  BY PathFacts
<1>3. a \in Seq(Components) /\ Len(a) = n /\ \A i \in 1..n : a[i] = p[i]
  BY <1>1, <1>2
<1>4. a # <<>>
  BY <1>1, <1>2, <1>3
<1> QED
  BY <1>1, <1>3, <1>4 DEF Paths

\* A key is its own key, and the directories of a key are the keys of the
\* directories.
LEMMA KeyOfKey ==
    ASSUME NEW p \in Paths
    PROVE  Key(Key(p)) = Key(p)
<1>1. /\ DOMAIN p = 1..Len(p) /\ \A i \in 1..Len(p) : p[i] \in Components
  BY PathFacts
<1>2. CASE CaseFolds
  <2>1. Key(p) = [i \in 1..Len(p) |-> [p[i] EXCEPT !.upper = FALSE]]
    BY <1>1, <1>2 DEF Key
  <2>2. Key(Key(p)) = [i \in 1..Len(p) |-> [Key(p)[i] EXCEPT !.upper = FALSE]]
    BY <1>2, <2>1 DEF Key
  <2>3. \A c \in Components :
          [[c EXCEPT !.upper = FALSE] EXCEPT !.upper = FALSE] = [c EXCEPT !.upper = FALSE]
    BY DEF Components
  <2>4. \A i \in 1..Len(p) : [Key(p)[i] EXCEPT !.upper = FALSE] = [p[i] EXCEPT !.upper = FALSE]
    BY <1>1, <2>1, <2>3
  <2> QED
    BY <2>1, <2>2, <2>4
<1>3. CASE ~CaseFolds
  BY <1>3 DEF Key
<1> QED
  BY <1>2, <1>3

LEMMA KeyOfPrefix ==
    ASSUME NEW p \in Paths, NEW n \in 1..(Len(p) - 1)
    PROVE  Key(SubSeq(p, 1, n)) = SubSeq(Key(p), 1, n)
<1>1. /\ DOMAIN p = 1..Len(p) /\ Len(p) \in Nat \ {0} /\ p \in Seq(Components)
      /\ n \in Nat /\ \A i \in 1..n : i \in 1..Len(p)
  BY PathFacts
<1>2. /\ SubSeq(p, 1, n) \in Seq(Components) /\ Len(SubSeq(p, 1, n)) = n
      /\ DOMAIN SubSeq(p, 1, n) = 1..n
      /\ \A i \in 1..n : SubSeq(p, 1, n)[i] = p[i]
  BY <1>1
<1>3. /\ Key(p) \in Seq(Components) /\ Len(Key(p)) = Len(p)
  BY KeyIsPath DEF Paths
<1>4. /\ SubSeq(Key(p), 1, n) \in Seq(Components) /\ Len(SubSeq(Key(p), 1, n)) = n
      /\ \A i \in 1..n : SubSeq(Key(p), 1, n)[i] = Key(p)[i]
  BY <1>1, <1>3
<1>5. CASE CaseFolds
  <2>1. Key(SubSeq(p, 1, n)) = [i \in 1..n |-> [SubSeq(p, 1, n)[i] EXCEPT !.upper = FALSE]]
    BY <1>2, <1>5 DEF Key
  <2>2. \A i \in 1..n : Key(p)[i] = [p[i] EXCEPT !.upper = FALSE]
    BY <1>1, <1>5 DEF Key
  <2>3. Key(SubSeq(p, 1, n)) = [i \in 1..n |-> SubSeq(Key(p), 1, n)[i]]
    <3>1. \A i \in 1..n : [SubSeq(p, 1, n)[i] EXCEPT !.upper = FALSE] = SubSeq(Key(p), 1, n)[i]
      BY <1>2, <1>4, <2>2
    <3> QED
      BY <2>1, <3>1
  <2>4. SubSeq(Key(p), 1, n) = [i \in 1..n |-> SubSeq(Key(p), 1, n)[i]]
    BY <1>4
  <2> QED
    BY <2>3, <2>4
<1>6. CASE ~CaseFolds
  BY <1>6 DEF Key
<1> QED
  BY <1>5, <1>6

\* What does not clash with a path is not at its key, nor a directory of it.
LEMMA NoClashWithKey ==
    ASSUME NEW p \in Paths, NEW q \in Paths, ~Clash(p, q)
    PROVE  q # Key(p) /\ q \notin Ancestors(Key(p))
<1>1. q # Key(p)
  BY KeyOfKey DEF Clash
<1>2. ASSUME q \in Ancestors(Key(p)) PROVE FALSE
  <2>1. Key(p) \in Paths /\ Len(Key(p)) = Len(p)
    BY KeyIsPath
  <2>2. PICK n \in 1..(Len(p) - 1) : q = SubSeq(Key(p), 1, n)
    BY <1>2, <2>1 DEF Ancestors
  <2>3. q = Key(SubSeq(p, 1, n)) /\ SubSeq(p, 1, n) \in Ancestors(p)
    BY <2>2, KeyOfPrefix DEF Ancestors
  <2>4. SubSeq(p, 1, n) \in Paths
    BY <2>3, AncestorFacts
  <2>5. Key(q) = Key(SubSeq(p, 1, n))
    BY <2>3, <2>4, KeyOfKey
  <2>6. Key(q) \in Keys(Ancestors(p))
    BY <2>3, <2>5 DEF Keys
  <2> QED
    BY <2>6 DEF Clash
<1> QED
  BY <1>1, <1>2

\* The directories of a file and of its .part are the same.
LEMMA PartHasSameAncestors ==
    ASSUME NEW p \in Paths
    PROVE  Ancestors(PartOf(p)) = Ancestors(p)
<1>1. /\ Len(p) \in Nat \ {0} /\ p \in Seq(Components) /\ PartOf(p) \in Seq(Components)
      /\ Len(PartOf(p)) = Len(p) /\ \A i \in 1..(Len(p) - 1) : PartOf(p)[i] = p[i]
  BY PathFacts, PartOfIsPath DEF Paths
<1>2. \A n \in 1..(Len(p) - 1) : SubSeq(PartOf(p), 1, n) = SubSeq(p, 1, n)
  <2> TAKE n \in 1..(Len(p) - 1)
  <2>1. /\ SubSeq(PartOf(p), 1, n) \in Seq(Components) /\ Len(SubSeq(PartOf(p), 1, n)) = n
        /\ SubSeq(p, 1, n) \in Seq(Components) /\ Len(SubSeq(p, 1, n)) = n
    BY <1>1
  <2>2. \A i \in 1..n : SubSeq(PartOf(p), 1, n)[i] = SubSeq(p, 1, n)[i]
    BY <1>1
  <2> QED
    BY <2>1, <2>2
<1> QED
  BY <1>1, <1>2 DEF Ancestors

\* The paths of different tasks are different, and no .part is one of them.
LEMMA PathsApart ==
    ASSUME NEW l, Compatible(l), PartsApart(l),
           NEW i \in DOMAIN l, NEW j \in DOMAIN l
    PROVE  /\ i # j => Key(l[i]) # Key(l[j])
           /\ Key(PartOf(l[i])) # Key(l[j])
           /\ i # j => Key(PartOf(l[i])) # Key(PartOf(l[j]))
<1> QED
  BY DEF Compatible, PartsApart, Clash

\* No component of the path carries a ".part".
Plain(path) == \A i \in DOMAIN path : path[i].parts = 0

\* A .part beside plain names: it is no name, no directory, and its last
\* component gives it away.
LEMMA PartKeyIsNotPlain ==
    ASSUME NEW p \in Paths, NEW q \in Paths, Plain(p), Plain(q)
    PROVE  /\ Key(PartOf(p)) # Key(q)
           /\ Key(PartOf(p)) \notin Keys(Ancestors(q))
<1>1. /\ PartOf(p) \in Paths /\ Len(PartOf(p)) = Len(p) /\ Len(p) \in Nat \ {0}
      /\ PartOf(p)[Len(p)].parts = 1
  <2>1. Len(p) \in DOMAIN p /\ Len(p) \in Nat \ {0}
    BY PathFacts
  <2>2. p[Len(p)].parts = 0
    BY <2>1 DEF Plain
  <2> QED
    BY <2>1, <2>2, PartOfIsPath
<1>2. Len(Key(PartOf(p))) = Len(p) /\ Key(PartOf(p))[Len(p)].parts = 1
  BY <1>1, KeyIsPath
<1>3. ASSUME NEW r \in Paths, Plain(r) PROVE Key(PartOf(p)) # Key(r)
  <2>1. \A i \in 1..Len(Key(r)) : Key(r)[i].parts = 0
    BY <1>3, PathFacts, KeyIsPath DEF Plain
  <2>2. Key(PartOf(p)) = Key(r) => FALSE
    <3> HAVE Key(PartOf(p)) = Key(r)
    <3>1. Len(Key(r)) = Len(p) /\ Key(r)[Len(p)].parts = 1
      BY <1>2
    <3> QED
      BY <1>1, <2>1, <3>1
  <2> QED
    BY <2>2
<1>4. ASSUME NEW a \in Ancestors(q) PROVE a \in Paths /\ Plain(a)
  <2>1. /\ a \in Paths /\ Len(a) \in 1..(Len(q) - 1) /\ \A i \in 1..Len(a) : a[i] = q[i]
    BY AncestorFacts
  <2>2. DOMAIN a = 1..Len(a) /\ DOMAIN q = 1..Len(q) /\ Len(q) \in Nat
    BY <2>1, PathFacts
  <2>3. \A i \in 1..Len(a) : i \in 1..Len(q)
    BY <2>1, <2>2
  <2> QED
    BY <2>1, <2>2, <2>3 DEF Plain
<1> QED
  BY <1>3, <1>4 DEF Keys

\* What folding case keeps of a component.
LEMMA SameFolded ==
    ASSUME NEW a \in Components, NEW b \in Components
    PROVE  [a EXCEPT !.upper = FALSE] = [b EXCEPT !.upper = FALSE]
             <=> a.stem = b.stem /\ a.parts = b.parts
<1>1. ASSUME NEW x \in Components
      PROVE  /\ [x EXCEPT !.upper = FALSE].stem = x.stem
             /\ [x EXCEPT !.upper = FALSE].parts = x.parts
             /\ [x EXCEPT !.upper = FALSE].upper = FALSE
             /\ [x EXCEPT !.upper = FALSE] \in Components
  BY DEF Components
<1>2. ASSUME NEW x \in Components, NEW y \in Components,
             x.stem = y.stem, x.upper = y.upper, x.parts = y.parts
      PROVE  x = y
  BY <1>2 DEF Components
<1>3. ASSUME a.stem = b.stem, a.parts = b.parts
      PROVE  [a EXCEPT !.upper = FALSE] = [b EXCEPT !.upper = FALSE]
  <2> DEFINE x == [a EXCEPT !.upper = FALSE]
             y == [b EXCEPT !.upper = FALSE]
  <2>1. /\ x \in Components /\ y \in Components
        /\ x.stem = y.stem /\ x.upper = y.upper /\ x.parts = y.parts
    BY <1>1, <1>3
  <2> HIDE DEF x, y
  <2>2. x = y
    BY <1>2, <2>1
  <2> QED
    BY <2>2 DEF x, y
<1>4. ASSUME [a EXCEPT !.upper = FALSE] = [b EXCEPT !.upper = FALSE]
      PROVE  a.stem = b.stem /\ a.parts = b.parts
  BY <1>1, <1>4
<1> QED
  BY <1>3, <1>4

\* A .part differs from its file in the count of ".part" only.
LEMMA SameButParts ==
    ASSUME NEW p \in Paths
    PROVE  \A i \in 1..Len(p) : /\ PartOf(p)[i] \in Components
                                 /\ PartOf(p)[i].stem = p[i].stem
                                 /\ PartOf(p)[i].upper = p[i].upper
<1> TAKE i \in 1..Len(p)
<1>1. /\ Len(p) \in Nat \ {0} /\ DOMAIN p = 1..Len(p) /\ p[i] \in Components
  BY PathFacts
<1>2. PartOf(p)[i] = p[i] \/ PartOf(p)[i] = [p[i] EXCEPT !.parts = @ + 1]
  BY <1>1 DEF PartOf
<1> QED
  BY <1>1, <1>2 DEF Components

\* Two .part that are the same are the .part of the same path.
LEMMA PartKeyInjective ==
    ASSUME NEW p \in Paths, NEW q \in Paths, Key(PartOf(p)) = Key(PartOf(q))
    PROVE  Key(p) = Key(q)
<1>0. Len(p) \in Nat
  BY PathFacts
<1>1. /\ Len(p) \in Nat \ {0} /\ Len(q) \in Nat \ {0}
      /\ p \in Seq(Components) /\ q \in Seq(Components)
      /\ DOMAIN p = 1..Len(p) /\ DOMAIN q = 1..Len(q)
      /\ \A i \in 1..Len(p) : p[i] \in Components
      /\ \A i \in 1..Len(q) : q[i] \in Components
  BY PathFacts
<1>2. /\ Len(PartOf(p)) = Len(p) /\ PartOf(p) \in Paths
      /\ Len(PartOf(q)) = Len(q) /\ PartOf(q) \in Paths
      /\ PartOf(p)[Len(p)].parts = p[Len(p)].parts + 1
      /\ PartOf(q)[Len(q)].parts = q[Len(q)].parts + 1
      /\ DOMAIN PartOf(p) = 1..Len(p) /\ DOMAIN PartOf(q) = 1..Len(q)
  BY PartOfIsPath, PathFacts
<1>3. Len(p) = Len(q)
  BY <1>2, KeyIsPath
<1>4. p[Len(p)].parts = q[Len(q)].parts
  <2>1. /\ Key(PartOf(p))[Len(p)].parts = PartOf(p)[Len(p)].parts
        /\ Key(PartOf(q))[Len(q)].parts = PartOf(q)[Len(q)].parts
    BY <1>1, <1>2, KeyIsPath
  <2>2. p[Len(p)].parts \in Nat /\ q[Len(q)].parts \in Nat
    <3>1. p[Len(p)] \in Components /\ q[Len(q)] \in Components
      BY <1>1
    <3> QED
      BY <3>1 DEF Components
  <2> QED
    BY <1>2, <1>3, <2>1, <2>2
<1>5. \A i \in 1..Len(p) : /\ PartOf(p)[i] \in Components
                            /\ PartOf(p)[i].stem = p[i].stem /\ PartOf(p)[i].upper = p[i].upper
                            /\ PartOf(q)[i] \in Components
                            /\ PartOf(q)[i].stem = q[i].stem /\ PartOf(q)[i].upper = q[i].upper
  BY <1>1, <1>3, SameButParts
<1>6. ASSUME NEW i \in 1..Len(p), CaseFolds
      PROVE  [p[i] EXCEPT !.upper = FALSE] = [q[i] EXCEPT !.upper = FALSE]
  <2>1. [PartOf(p)[i] EXCEPT !.upper = FALSE] = [PartOf(q)[i] EXCEPT !.upper = FALSE]
    <3>1. /\ Key(PartOf(p)) = [k \in 1..Len(p) |-> [PartOf(p)[k] EXCEPT !.upper = FALSE]]
          /\ Key(PartOf(q)) = [k \in 1..Len(p) |-> [PartOf(q)[k] EXCEPT !.upper = FALSE]]
      BY <1>2, <1>3, <1>6 DEF Key
    <3>2. /\ Key(PartOf(p))[i] = [PartOf(p)[i] EXCEPT !.upper = FALSE]
          /\ Key(PartOf(q))[i] = [PartOf(q)[i] EXCEPT !.upper = FALSE]
      BY <3>1
    <3> QED
      BY <3>2
  <2>2. p[i].stem = q[i].stem
    BY <1>5, <2>1, SameFolded
  <2>3. p[i].parts = q[i].parts
    <3>1. CASE i = Len(p)
      BY <1>3, <1>4, <3>1
    <3>2. CASE i # Len(p)
      <4>1. i \in 1..(Len(p) - 1)
        BY <1>0, <3>2
      <4>2. PartOf(p)[i] = p[i] /\ PartOf(q)[i] = q[i]
        BY <1>3, <4>1, PartOfIsPath
      <4> QED
        BY <1>5, <2>1, <4>2, SameFolded
    <3> QED
      BY <3>1, <3>2
  <2> QED
    BY <1>1, <1>3, <2>2, <2>3, SameFolded
<1>7. ASSUME NEW i \in 1..Len(p), ~CaseFolds PROVE p[i] = q[i]
  <2>1. PartOf(p)[i] = PartOf(q)[i]
    BY <1>7 DEF Key
  <2>2. CASE i = Len(p)
    <3>1. /\ p[i] \in Components /\ q[i] \in Components
          /\ p[i].stem = q[i].stem /\ p[i].upper = q[i].upper /\ p[i].parts = q[i].parts
      BY <1>1, <1>3, <1>4, <1>5, <2>1, <2>2
    <3> QED
      BY <3>1 DEF Components
  <2>3. CASE i # Len(p)
    <3>1. i \in 1..(Len(p) - 1)
      BY <1>0, <2>3
    <3> QED
      BY <1>3, <2>1, <3>1, PartOfIsPath
  <2> QED
    BY <2>2, <2>3
<1>8. CASE CaseFolds
  <2>1. /\ Key(p) = [i \in 1..Len(p) |-> [p[i] EXCEPT !.upper = FALSE]]
        /\ Key(q) = [i \in 1..Len(p) |-> [q[i] EXCEPT !.upper = FALSE]]
    BY <1>1, <1>3, <1>8 DEF Key
  <2> QED
    BY <1>6, <1>8, <2>1
<1>9. CASE ~CaseFolds
  BY <1>1, <1>3, <1>7, <1>9 DEF Key
<1> QED
  BY <1>8, <1>9

\* The planner's promise is enough to keep the .part files apart when no name
\* of the plan carries a ".part".
LEMMA PlainNamesAreApart ==
    ASSUME NEW l \in Seq(Paths), Compatible(l), \A i \in DOMAIN l : Plain(l[i])
    PROVE  PartsApart(l)
<1> SUFFICES ASSUME NEW i \in DOMAIN l, NEW j \in DOMAIN l
             PROVE  /\ ~Clash(PartOf(l[i]), l[j])
                    /\ i # j => ~Clash(PartOf(l[i]), PartOf(l[j]))
  BY DEF PartsApart
<1> DEFINE p == l[i]  q == l[j]
<1>1. p \in Paths /\ q \in Paths /\ Plain(p) /\ Plain(q)
  OBVIOUS
<1>2. i # j => ~Clash(p, q)
  BY DEF Compatible
<1> HIDE DEF p, q
<1>3. /\ Ancestors(PartOf(p)) = Ancestors(p) /\ Ancestors(PartOf(q)) = Ancestors(q)
  BY <1>1, PartHasSameAncestors
<1>4. /\ Key(PartOf(p)) # Key(q) /\ Key(PartOf(p)) \notin Keys(Ancestors(q))
      /\ Key(PartOf(q)) \notin Keys(Ancestors(p))
  BY <1>1, PartKeyIsNotPlain
<1>5. Key(q) \in Keys(Ancestors(p)) => i # j
  <2>1. ASSUME p = q, NEW a \in Ancestors(p), Key(p) = Key(a) PROVE FALSE
    <3>1. a \in Paths /\ Len(a) \in 1..(Len(p) - 1) /\ Len(p) \in Nat
      BY <1>1, <2>1, AncestorFacts, PathFacts
    <3>2. Len(Key(a)) = Len(a) /\ Len(Key(p)) = Len(p)
      BY <1>1, <3>1, KeyIsPath
    <3> QED
      BY <2>1, <3>1, <3>2
  <2> QED
    BY <2>1 DEF Keys, p, q
<1>6. Key(q) \notin Keys(Ancestors(p))
  BY <1>2, <1>5 DEF Clash
<1>7. i # j => Key(PartOf(p)) # Key(PartOf(q))
  BY <1>1, <1>2, PartKeyInjective DEF Clash
<1> QED
  BY <1>3, <1>4, <1>6, <1>7 DEF Clash, p, q
=============================================================================
