--------------------------- MODULE MergeTreeProofs ---------------------------
(***************************************************************************)
(* What MergeTree promises for all documents, however wide and deep.       *)
(***************************************************************************)
EXTENDS MergeTree, SequenceTheorems, WellFoundedInduction, TLAPS

(* Paths.                                                                  *)

LEMMA PrefixIs ==
  ASSUME NEW S, NEW s \in Seq(S), NEW t \in Seq(S)
  PROVE  IsPrefix(s, t) <=> /\ Len(s) <= Len(t)
                            /\ \A i \in 1..Len(s) : s[i] = t[i]
<1>1. Len(s) \in Nat /\ Len(t) \in Nat
  OBVIOUS
<1>2. ASSUME Len(s) <= Len(t)
      PROVE  SubSeq(s, 1, Len(s)) = SubSeq(t, 1, Len(s))
             <=> \A i \in 1..Len(s) : s[i] = t[i]
  <2>1. SubSeq(s, 1, Len(s)) = s
    BY SubSeqFull
  <2>2. /\ SubSeq(t, 1, Len(s)) \in Seq(S)
        /\ Len(SubSeq(t, 1, Len(s))) = Len(s)
        /\ \A i \in 1..Len(s) : SubSeq(t, 1, Len(s))[i] = t[i]
    BY <1>1, <1>2
  <2>3. CASE \A i \in 1..Len(s) : s[i] = t[i]
    <3>1. s = SubSeq(t, 1, Len(s))
      BY <2>2, <2>3, SeqEqual
    <3> QED
      BY <2>1, <2>3, <3>1
  <2>4. CASE SubSeq(s, 1, Len(s)) = SubSeq(t, 1, Len(s))
    BY <2>1, <2>2, <2>4
  <2> QED
    BY <2>3, <2>4
<1> QED
  BY <1>2 DEF IsPrefix

\* Of two paths that lead to a third one leads to the other.
LEMMA PrefixesCompare ==
  ASSUME NEW S, NEW p \in Seq(S), NEW q \in Seq(S), NEW r \in Seq(S),
         IsPrefix(p, r), IsPrefix(q, r)
  PROVE  \/ p = q \/ IsStrictPrefix(p, q) \/ IsStrictPrefix(q, p)
<1>1. /\ Len(p) \in Nat /\ Len(q) \in Nat /\ Len(r) \in Nat
      /\ Len(p) <= Len(r) /\ \A i \in 1..Len(p) : p[i] = r[i]
      /\ Len(q) <= Len(r) /\ \A i \in 1..Len(q) : q[i] = r[i]
  BY PrefixIs
<1>2. CASE Len(p) <= Len(q)
  <2>1. IsPrefix(p, q)
    BY <1>1, <1>2, PrefixIs
  <2> QED
    BY <2>1 DEF IsStrictPrefix
<1>3. CASE Len(q) <= Len(p)
  <2>1. IsPrefix(q, p)
    BY <1>1, <1>3, PrefixIs
  <2> QED
    BY <2>1 DEF IsStrictPrefix
<1> QED
  BY <1>1, <1>2, <1>3

LEMMA PrefixOfPrefix ==
  ASSUME NEW S, NEW p \in Seq(S), NEW q \in Seq(S), NEW r \in Seq(S),
         IsPrefix(p, q), IsPrefix(q, r)
  PROVE  IsPrefix(p, r)
<1>1. /\ Len(p) \in Nat /\ Len(q) \in Nat /\ Len(r) \in Nat
      /\ Len(p) <= Len(q) /\ \A i \in 1..Len(p) : p[i] = q[i]
      /\ Len(q) <= Len(r) /\ \A i \in 1..Len(q) : q[i] = r[i]
  BY PrefixIs
<1>2. Len(p) <= Len(r) /\ \A i \in 1..Len(p) : p[i] = r[i]
  BY <1>1
<1> QED
  BY <1>2, PrefixIs

\* A strict prefix is shorter.
LEMMA StrictIsShorter ==
  ASSUME NEW S, NEW p \in Seq(S), NEW q \in Seq(S), IsStrictPrefix(p, q)
  PROVE  Len(p) \in Nat /\ Len(q) \in Nat /\ Len(p) < Len(q)
<1>1. /\ Len(p) \in Nat /\ Len(q) \in Nat
      /\ Len(p) <= Len(q) /\ p # q
      /\ \A i \in 1..Len(p) : p[i] = q[i]
  BY PrefixIs DEF IsStrictPrefix
<1>2. Len(p) # Len(q)
  BY <1>1, SeqEqual
<1> QED
  BY <1>1, <1>2

\* Every path is a prefix of itself.
LEMMA PrefixOfItself ==
  ASSUME NEW S, NEW p \in Seq(S)
  PROVE  IsPrefix(p, p)
BY PrefixIs

\* What is above and below a path.
LEMMA PathsAbove ==
  ASSUME NEW p \in Paths
  PROVE  /\ p \in Seq(Keys) /\ p \in Below[p]
         /\ \A q \in Paths : q \in Below[p] <=> IsPrefix(p, q)
         /\ \A q \in Paths : q \in Above[p] <=> IsStrictPrefix(q, p)
         /\ \A q : q \in Above[p] \union {p} <=> q \in Paths /\ IsPrefix(q, p)
         /\ Above[p] \subseteq Paths /\ Below[p] \subseteq Paths
<1>1. p \in Seq(Keys) /\ IsPrefix(p, p)
  BY DocumentsOK, PrefixOfItself
<1>2. Below[p] = {q \in Paths : IsPrefix(p, q)}
  BY DEF Below
<1>3. Above[p] = {q \in Paths : IsStrictPrefix(q, p)}
  BY DEF Above
<1> QED
  BY <1>1, <1>2, <1>3 DEF IsStrictPrefix

\* ... and above that: the order of the paths.
LEMMA PathsOrder ==
  ASSUME NEW p \in Paths, NEW q \in Paths, NEW r \in Paths
  PROVE  /\ IsPrefix(p, q) /\ IsPrefix(q, r) => IsPrefix(p, r)
         /\ IsPrefix(p, r) /\ IsPrefix(q, r)
              => p = q \/ p \in Above[q] \/ q \in Above[p]
         /\ q \in Above[p] => Len(q) \in Nat /\ Len(p) \in Nat /\ Len(q) < Len(p)
<1>1. p \in Seq(Keys) /\ q \in Seq(Keys) /\ r \in Seq(Keys)
  BY DocumentsOK
<1>2. IsPrefix(p, q) /\ IsPrefix(q, r) => IsPrefix(p, r)
  BY <1>1, PrefixOfPrefix
<1>3. IsPrefix(p, r) /\ IsPrefix(q, r)
        => p = q \/ IsStrictPrefix(p, q) \/ IsStrictPrefix(q, p)
  BY <1>1, PrefixesCompare
<1>4. q \in Above[p] => Len(q) \in Nat /\ Len(p) \in Nat /\ Len(q) < Len(p)
  BY <1>1, PathsAbove, StrictIsShorter
<1> QED
  BY <1>2, <1>3, <1>4, PathsAbove
------------------------------------------------------------------------------
(* How far the recursion comes.                                            *)

LEMMA SmallestLength ==
  ASSUME NEW S, S \subseteq Nat, S # {}
  PROVE  \E k \in S : \A j \in S : k <= j
<1>1. PICK k \in S : \A j \in S : ~ (<<j, k>> \in OpToRel(<, Nat))
  BY NatLessThanWellFounded, WFMin
<1>2. \A j \in S : ~ (j < k)
  BY <1>1 DEF OpToRel
<1> QED
  BY <1>2

\* Whatever is decided at each path, a path is settled at or above it, or the
\* recursion descends into it.
LEMMA SettledOrOpened ==
  ASSUME NEW does, NEW p \in Paths, Settling(does, p) = {}
  PROVE  does[p] = "descend" /\ Reached(does, p)
<1> DEFINE Stops == {q \in Above[p] \union {p} : does[q] # "descend"}
<1>1. CASE Stops = {}
  BY <1>1 DEF Reached
<1>2. CASE Stops # {}
  <2>1. \A q \in Stops : q \in Paths /\ IsPrefix(q, p) /\ Len(q) \in Nat
    BY PathsAbove
  <2>2. PICK k \in {Len(q) : q \in Stops} : \A q \in Stops : k <= Len(q)
    <3>1. /\ {Len(q) : q \in Stops} \subseteq Nat
          /\ {Len(q) : q \in Stops} # {}
      BY <1>2, <2>1
    <3>2. PICK k \in {Len(q) : q \in Stops} :
            \A j \in {Len(q) : q \in Stops} : k <= j
      BY <3>1, SmallestLength
    <3> QED
      BY <3>2
  <2>3. PICK q \in Stops : k = Len(q)
    OBVIOUS
  <2>4. ASSUME NEW r \in Above[q]
        PROVE  does[r] = "descend"
    <3>1. q \in Paths /\ r \in Paths /\ IsPrefix(r, q) /\ IsPrefix(q, p)
      BY <2>1, <2>4, PathsAbove DEF IsStrictPrefix
    <3>2. r \in Above[p] \union {p}
      BY <3>1, PathsOrder, PathsAbove
    <3>3. Len(r) < Len(q) /\ Len(r) \in Nat /\ Len(q) \in Nat
      BY <2>4, <3>1, PathsOrder
    <3> QED
      BY <2>2, <2>3, <3>2, <3>3
  <2>5. q \in Settling(does, p)
    BY <2>4 DEF Settling, Reached
  <2> QED
    BY <2>5
<1> QED
  BY <1>1, <1>2

\* ... and it is settled once.
LEMMA SettledOnce ==
  ASSUME NEW does, NEW p \in Paths, NEW q \in Settling(does, p),
         NEW r \in Settling(does, p)
  PROVE  q = r
<1>1. /\ q \in Paths /\ IsPrefix(q, p)
      /\ r \in Paths /\ IsPrefix(r, p)
  BY PathsAbove DEF Settling
<1>2. q \notin Above[r] /\ r \notin Above[q]
  BY DEF Settling, Reached
<1> QED
  BY <1>1, <1>2, PathsOrder

\* What the merge says at a path.
LEMMA MergedFrom ==
  ASSUME NEW does, NEW m, NEW t, NEW p \in Paths
  PROVE  \/ /\ Settling(does, p) = {}
            /\ MergedAt(does, m, t, p) = Opened
            /\ does[p] = "descend" /\ Reached(does, p)
         \/ \E q \in Settling(does, p) :
              /\ q \in Paths /\ p \in Below[q]
              /\ Reached(does, q) /\ does[q] # "descend"
              /\ MergedAt(does, m, t, p) = Taken(does, m, t, q)[p]
<1>1. CASE Settling(does, p) = {}
  BY <1>1, SettledOrOpened DEF MergedAt
<1>2. CASE Settling(does, p) # {}
  <2> DEFINE q == CHOOSE q \in Settling(does, p) : TRUE
  <2>1. q \in Settling(does, p)
    BY <1>2
  <2>2. q \in Paths /\ IsPrefix(q, p)
    BY <2>1, PathsAbove DEF Settling
  <2>3. p \in Below[q]
    BY <2>2, PathsAbove
  <2> QED
    BY <1>2, <2>1, <2>2, <2>3 DEF MergedAt, Settling
<1> QED
  BY <1>1, <1>2
------------------------------------------------------------------------------
(* What is decided, of any three documents.                                *)

\* A document says nothing below what is no mapping.
LEMMA NothingBelow ==
  ASSUME NEW doc \in Document, NEW q \in Paths, doc[q] # Opened,
         NEW p \in Below[q], p # q
  PROVE  doc[p] = Missing
<1>1. p \in Paths /\ IsStrictPrefix(q, p)
  BY PathsAbove DEF IsStrictPrefix
<1> QED
  BY <1>1 DEF Document

\* Two versions that are different at or below a path where neither has a
\* mapping are different there.
LEMMA DifferentThere ==
  ASSUME NEW a \in Document, NEW b \in Document, NEW p \in Paths,
         ~Same(a, b, p), a[p] # Opened \/ b[p] # Opened
  PROVE  a[p] # b[p]
<1>1. PICK q \in Below[p] : a[q] # b[q]
  BY DEF Same
<1>2. CASE q = p
  BY <1>1, <1>2
<1>3. CASE q # p /\ a[p] = b[p]
  BY <1>1, <1>3, NothingBelow
<1> QED
  BY <1>2, <1>3

\* A conflict is at a node both sides changed; where one of them put no
\* mapping, that side changed the node itself.
LEMMA ConflictHas ==
  ASSUME NEW b \in Document, NEW m \in Document, NEW t \in Document,
         NEW p \in Paths, Decide(b, m, t, p) \in {"delete", "value"}
  PROVE  /\ ~Same(b, m, p) /\ ~Same(b, t, p)
         /\ b[p] # m[p] \/ b[p] # t[p]
<1>1. ~Same(b, m, p) /\ ~Same(b, t, p)
  BY DEF Decide
<1>2. m[p] # Opened \/ t[p] # Opened
  BY DocumentsOK DEF Decide
<1> QED
  BY <1>1, <1>2, DifferentThere

LEMMA DecideCases ==
  ASSUME NEW b, NEW m, NEW t, NEW p \in Paths
  PROVE  LET d == Decisions(b, m, t)[p]
         IN  /\ d \in {"mine", "theirs", "delete", "descend", "value"}
             /\ d = "mine" => Same(m, t, p) \/ Same(b, t, p)
             /\ d = "theirs" => Same(b, m, p)
             /\ d = "descend" => m[p] = Opened /\ t[p] = Opened
             /\ d \in {"delete", "value"} =>
                  Decide(b, m, t, p) \in {"delete", "value"}
BY DEF Decisions, Decide

\* The subtrees of three versions at a node above p, at p.
LEMMA SameAt ==
  ASSUME NEW a, NEW b, NEW q \in Paths, NEW p \in Below[q], Same(a, b, q)
  PROVE  a[p] = b[p]
BY DEF Same

\* Equality of subtrees does not depend on which is named first.
LEMMA SameCommutes ==
  ASSUME NEW a, NEW b, NEW p
  PROVE  Same(a, b, p) <=> Same(b, a, p)
BY DEF Same
------------------------------------------------------------------------------
(* The four promises and the shape of the result.                          *)

\* A merge has the versions it was given.
MergeInv ==
  /\ base \in Document /\ mine \in Document /\ theirs \in Document
  /\ Done => result = MergeResult(base, mine, theirs)

LEMMA MergeInvHolds == Spec => []MergeInv
<1>1. Init => MergeInv
  BY DocumentsOK DEF Init, MergeInv, Done
<1>2. MergeInv /\ [merge]_vars => MergeInv'
  BY DEF MergeInv, merge, vars, Done
<1> QED
  BY <1>1, <1>2, PTL DEF Spec

LEMMA ResultIs ==
  ASSUME MergeInv, Done
  PROVE  LET does == Decisions(base, mine, theirs)
         IN  /\ result.doc = [p \in Paths |-> MergedAt(does, mine, theirs, p)]
             /\ result.conflicts = ConflictPaths(does)
BY DEF MergeInv, MergeResult

\* Without a conflict, what the merge says at a path is mine where I changed
\* what the base says there, and theirs elsewhere.
LEMMA CleanMergeAt ==
  ASSUME NEW b, NEW m, NEW t, NEW p \in Paths,
         ConflictPaths(Decisions(b, m, t)) = {}
  PROVE  MergedAt(Decisions(b, m, t), m, t, p) = IF m[p] # b[p] THEN m[p] ELSE t[p]
<1> DEFINE does == Decisions(b, m, t)
<1>1. CASE /\ MergedAt(does, m, t, p) = Opened
           /\ does[p] = "descend"
  BY <1>1, DecideCases
<1>2. ASSUME NEW q \in Paths, p \in Below[q],
             Reached(does, q), does[q] # "descend",
             MergedAt(does, m, t, p) = Taken(does, m, t, q)[p]
      PROVE  MergedAt(does, m, t, p) = IF m[p] # b[p] THEN m[p] ELSE t[p]
  <2>1. does[q] \notin {"delete", "value"}
    BY <1>2 DEF ConflictPaths
  <2>2. CASE does[q] = "mine"
    <3>1. Taken(does, m, t, q) = m
      BY <2>2 DEF Taken
    <3>2. m[p] = t[p] \/ b[p] = t[p]
      BY <1>2, <2>2, DecideCases, SameAt
    <3> QED
      BY <1>2, <3>1, <3>2
  <2>3. CASE does[q] = "theirs"
    <3>1. Taken(does, m, t, q) = t
      BY <2>3 DEF Taken
    <3>2. b[p] = m[p]
      BY <1>2, <2>3, DecideCases, SameAt
    <3> QED
      BY <1>2, <3>1, <3>2
  <2> QED
    BY <1>2, <2>1, <2>2, <2>3, DecideCases
<1> QED
  BY <1>1, <1>2, MergedFrom

\* The merge of two versions that do not conflict is the author's changes laid
\* over theirs, for all documents, however many keys and however deep.
THEOREM NestedMergeIsOverlay == Spec => []CleanIsOverlay
<1>1. ASSUME MergeInv, Clean
      PROVE  result.doc = Flat!Overlay(base, mine, theirs)
  <2> DEFINE does == Decisions(base, mine, theirs)
  <2>1. /\ result.doc = [p \in Paths |-> MergedAt(does, mine, theirs, p)]
        /\ ConflictPaths(does) = {}
    BY <1>1, ResultIs DEF Clean
  <2>2. \A p \in Paths : MergedAt(does, mine, theirs, p)
                         = IF mine[p] # base[p] THEN mine[p] ELSE theirs[p]
    BY <2>1, CleanMergeAt
  <2>3. DOMAIN base = Paths
    BY <1>1 DEF MergeInv, Document
  <2> QED
    BY <2>1, <2>2, <2>3 DEF Flat!Overlay
<1> QED
  BY <1>1, MergeInvHolds, PTL DEF CleanIsOverlay

\* Two versions whose changes are nowhere at, above or below one another merge
\* without a conflict.
THEOREM DisjointEditsNeverConflict == Spec => []DisjointEditsMerge
<1>1. ASSUME MergeInv, Done,
             \A p \in Touched(base, mine), q \in Touched(base, theirs) :
               ~Collide(p, q)
      PROVE  result.conflicts = {}
  <2> SUFFICES ASSUME NEW p \in ConflictPaths(Decisions(base, mine, theirs))
               PROVE  FALSE
    BY <1>1, ResultIs
  <2>1. /\ p \in Paths
        /\ Decide(base, mine, theirs, p) \in {"delete", "value"}
    BY DecideCases DEF ConflictPaths
  <2>2. /\ ~Same(base, mine, p) /\ ~Same(base, theirs, p)
        /\ base[p] # mine[p] \/ base[p] # theirs[p]
    BY <1>1, <2>1, ConflictHas DEF MergeInv
  <2>3. PICK q \in Below[p] : base[q] # mine[q]
    BY <2>2 DEF Same
  <2>4. PICK r \in Below[p] : base[r] # theirs[r]
    BY <2>2 DEF Same
  <2>5. /\ q \in Paths /\ IsPrefix(p, q)
        /\ r \in Paths /\ IsPrefix(p, r)
    BY <2>1, PathsAbove
  <2>6. CASE base[p] # mine[p]
    BY <1>1, <2>1, <2>4, <2>5, <2>6 DEF Touched, Collide
  <2>7. CASE base[p] # theirs[p]
    BY <1>1, <2>1, <2>3, <2>5, <2>7 DEF Touched, Collide
  <2> QED
    BY <2>2, <2>6, <2>7
<1> QED
  BY <1>1, MergeInvHolds, PTL DEF DisjointEditsMerge

\* What either side wrote is in the merge, or a conflict is named at or above
\* it.
THEOREM MergeLosesNothing == Spec => []NothingSilentlyLost
<1>1. ASSUME MergeInv, Done, NEW version \in {mine, theirs},
             NEW p \in Touched(base, version)
      PROVE  \/ version[p] = Missing
             \/ result.doc[p] = version[p]
             \/ \E q \in result.conflicts : IsPrefix(q, p)
  <2> DEFINE does == Decisions(base, mine, theirs)
  <2>1. /\ result.doc[p] = MergedAt(does, mine, theirs, p)
        /\ result.conflicts = ConflictPaths(does)
        /\ p \in Paths /\ base[p] # version[p]
    BY <1>1, ResultIs DEF Touched
  <2>2. CASE /\ MergedAt(does, mine, theirs, p) = Opened
             /\ does[p] = "descend"
    BY <2>1, <2>2, DecideCases
  <2>3. ASSUME NEW q \in Paths, p \in Below[q],
               Reached(does, q), does[q] # "descend",
               MergedAt(does, mine, theirs, p) = Taken(does, mine, theirs, q)[p]
        PROVE  \/ result.doc[p] = version[p]
               \/ \E r \in result.conflicts : IsPrefix(r, p)
    <3>1. CASE does[q] \in {"delete", "value"}
      <4>1. q \in ConflictPaths(does) /\ IsPrefix(q, p)
        BY <2>3, <3>1, PathsAbove DEF ConflictPaths
      <4> QED
        BY <2>1, <4>1
    <3>2. CASE does[q] = "mine"
      <4>1. Taken(does, mine, theirs, q) = mine
        BY <3>2 DEF Taken
      <4>2. mine[p] = theirs[p] \/ base[p] = theirs[p]
        BY <2>3, <3>2, DecideCases, SameAt
      <4> QED
        BY <1>1, <2>1, <2>3, <4>1, <4>2
    <3>3. CASE does[q] = "theirs"
      <4>1. Taken(does, mine, theirs, q) = theirs
        BY <3>3 DEF Taken
      <4>2. base[p] = mine[p]
        BY <2>3, <3>3, DecideCases, SameAt
      <4> QED
        BY <1>1, <2>1, <2>3, <4>1, <4>2
    <3> QED
      BY <2>3, <3>1, <3>2, <3>3, DecideCases
  <2> QED
    BY <2>1, <2>2, <2>3, MergedFrom
<1>2. MergeInv => NothingSilentlyLost
  BY <1>1 DEF NothingSilentlyLost
<1> QED
  BY <1>2, MergeInvHolds, PTL

\* Exchanging the two versions exchanges who is taken, and nothing else.
LEMMA Exchanged ==
  ASSUME NEW b, NEW m, NEW t, NEW p \in Paths
  PROVE  LET one == Decisions(b, m, t)
             other == Decisions(b, t, m)
         IN  /\ one[p] = "descend" <=> other[p] = "descend"
             /\ one[p] \in {"delete", "value"}
                  <=> other[p] \in {"delete", "value"}
             /\ Settling(one, p) = Settling(other, p)
             /\ Reached(one, p) <=> Reached(other, p)
<1> DEFINE one == Decisions(b, m, t)
           other == Decisions(b, t, m)
<1>1. \A q \in Paths :
        /\ one[q] = "descend" <=> other[q] = "descend"
        /\ one[q] \in {"delete", "value"} <=> other[q] \in {"delete", "value"}
  BY SameCommutes DEF Decisions, Decide
<1>2. \A q \in Paths : Reached(one, q) <=> Reached(other, q)
  <2> HIDE DEF one, other
  <2> QED
    BY <1>1, PathsAbove DEF Reached
<1>3. Above[p] \union {p} \subseteq Paths
  BY PathsAbove
<1> HIDE DEF one, other
<1>4. Settling(one, p) = Settling(other, p)
  BY <1>1, <1>2, <1>3 DEF Settling
<1> QED
  BY <1>1, <1>2, <1>4 DEF one, other

\* What is merged does not depend on which of the two versions came first.
THEOREM MergeHasNoOrder == Spec => []OrderIsImmaterial
<1>1. ASSUME MergeInv, Done
      PROVE  LET swapped == MergeResult(base, theirs, mine)
             IN  /\ swapped.conflicts = result.conflicts
                 /\ Clean => swapped.doc = result.doc
  <2> DEFINE one == Decisions(base, mine, theirs)
             other == Decisions(base, theirs, mine)
             swapped == MergeResult(base, theirs, mine)
  <2>1. /\ result.doc = [p \in Paths |-> MergedAt(one, mine, theirs, p)]
        /\ result.conflicts = ConflictPaths(one)
        /\ swapped.doc = [p \in Paths |-> MergedAt(other, theirs, mine, p)]
        /\ swapped.conflicts = ConflictPaths(other)
    BY <1>1, ResultIs DEF MergeResult
  <2>2. \A p \in Paths :
          /\ one[p] \in {"delete", "value"} <=> other[p] \in {"delete", "value"}
          /\ Settling(one, p) = Settling(other, p)
          /\ Reached(one, p) <=> Reached(other, p)
    BY Exchanged
  <2>3. \A q \in Paths :
          /\ one[q] \in {"mine", "theirs", "delete", "descend", "value"}
          /\ other[q] \in {"mine", "theirs", "delete", "descend", "value"}
          /\ one[q] = "mine" => Same(mine, theirs, q) \/ Same(base, theirs, q)
          /\ one[q] = "theirs" => Same(base, mine, q)
          /\ other[q] = "mine" => Same(theirs, mine, q) \/ Same(base, mine, q)
          /\ other[q] = "theirs" => Same(base, theirs, q)
    BY DecideCases
  <2> HIDE DEF one, other, swapped
  <2>4. ConflictPaths(one) = ConflictPaths(other)
    BY <2>2 DEF ConflictPaths
  <2>5. ASSUME Clean, NEW p \in Paths
        PROVE  MergedAt(one, mine, theirs, p) = MergedAt(other, theirs, mine, p)
    <3>1. CASE Settling(one, p) = {}
      BY <2>2, <3>1 DEF MergedAt
    <3>2. CASE Settling(one, p) # {}
      <4> DEFINE q == CHOOSE q \in Settling(one, p) : TRUE
      <4>1. /\ q \in Settling(one, p) /\ Settling(one, p) = Settling(other, p)
            /\ MergedAt(one, mine, theirs, p) = Taken(one, mine, theirs, q)[p]
            /\ MergedAt(other, theirs, mine, p) = Taken(other, theirs, mine, q)[p]
        BY <2>2, <3>2 DEF MergedAt
      <4> HIDE DEF q
      <4>2. /\ q \in Paths /\ p \in Below[q]
            /\ Reached(one, q) /\ one[q] # "descend" /\ other[q] # "descend"
        BY <4>1, PathsAbove DEF Settling
      <4>3. one[q] \in {"mine", "theirs"} /\ other[q] \in {"mine", "theirs"}
        <5>1. ConflictPaths(one) = {} /\ ConflictPaths(other) = {}
          BY <2>1, <2>4, <2>5 DEF Clean
        <5> QED
          BY <2>2, <2>3, <4>2, <5>1 DEF ConflictPaths
      <4>4. /\ Taken(one, mine, theirs, q)
                = IF one[q] = "theirs" THEN theirs ELSE mine
            /\ Taken(other, theirs, mine, q)
                = IF other[q] = "theirs" THEN mine ELSE theirs
        BY <4>3 DEF Taken
      <4>5. /\ one[q] = "mine" => mine[p] = theirs[p] \/ base[p] = theirs[p]
            /\ one[q] = "theirs" => base[p] = mine[p]
            /\ other[q] = "mine" => theirs[p] = mine[p] \/ base[p] = mine[p]
            /\ other[q] = "theirs" => base[p] = theirs[p]
        BY <2>3, <4>2, SameAt
      <4> QED
        BY <4>1, <4>3, <4>4, <4>5
    <3> QED
      BY <3>1, <3>2
  <2>6. Clean => swapped.doc = result.doc
    BY <2>1, <2>5
  <2> QED
    BY <2>1, <2>4, <2>6 DEF swapped
<1> QED
  BY <1>1, MergeInvHolds, PTL DEF OrderIsImmaterial

\* The versions of a path and of one above it are taken from the same side.
LEMMA TakenOnce ==
  ASSUME NEW does, NEW m, NEW t, NEW p \in Paths, NEW q \in Above[p],
         Settling(does, q) # {}
  PROVE  \E r \in Paths : /\ MergedAt(does, m, t, q) = Taken(does, m, t, r)[q]
                          /\ MergedAt(does, m, t, p) = Taken(does, m, t, r)[p]
<1>1. q \in Paths /\ IsPrefix(q, p)
  BY PathsAbove DEF IsStrictPrefix
<1> DEFINE r == CHOOSE r \in Settling(does, q) : TRUE
<1>2. r \in Settling(does, q) /\ r \in Above[q] \union {q}
  BY DEF Settling
<1>3. MergedAt(does, m, t, q) = Taken(does, m, t, r)[q]
  BY DEF MergedAt
<1> HIDE DEF r
<1>4. r \in Paths /\ IsPrefix(r, q)
  BY <1>1, <1>2, PathsAbove
<1>5. r \in Above[p] \union {p}
  BY <1>1, <1>4, PathsOrder, PathsAbove
<1>6. r \in Settling(does, p)
  BY <1>2, <1>5 DEF Settling
<1>7. (CHOOSE s \in Settling(does, p) : TRUE) = r
  BY <1>6, SettledOnce
<1>8. MergedAt(does, m, t, p) = Taken(does, m, t, r)[p]
  BY <1>6, <1>7 DEF MergedAt
<1> QED
  BY <1>3, <1>4, <1>8

\* The merged tree is a document, whatever conflicts there are.
THEOREM MergeIsDocument == Spec => []ResultIsDocument
<1>1. ASSUME MergeInv, Done
      PROVE  result.doc \in Document
  <2> DEFINE does == Decisions(base, mine, theirs)
             at(p) == MergedAt(does, mine, theirs, p)
  <2>1. result.doc = [p \in Paths |-> at(p)]
    BY <1>1, ResultIs
  <2>2. \A r : Taken(does, mine, theirs, r) \in Document
    BY <1>1 DEF Taken, MergeInv
  <2> HIDE DEF does
  <2>3. ASSUME NEW p \in Paths
        PROVE  at(p) \in Values \union {Opened, Missing}
    BY <2>2, MergedFrom DEF Document
  <2>4. ASSUME NEW p \in Paths, NEW q \in Above[p], at(p) # Missing
        PROVE  at(q) = Opened
    <3>1. CASE Settling(does, q) = {}
      BY <3>1 DEF MergedAt
    <3>2. CASE Settling(does, q) # {}
      <4>1. PICK r \in Paths : /\ at(q) = Taken(does, mine, theirs, r)[q]
                               /\ at(p) = Taken(does, mine, theirs, r)[p]
        BY <3>2, TakenOnce
      <4>2. q \in Paths /\ IsStrictPrefix(q, p)
        BY PathsAbove
      <4>3. Taken(does, mine, theirs, r)[p] # Missing
              => Taken(does, mine, theirs, r)[q] = Opened
        BY <2>2, <4>2 DEF Document
      <4> QED
        BY <2>4, <4>1, <4>3
    <3> QED
      BY <3>1, <3>2
  <2>5. ASSUME NEW p \in Paths, NEW q \in Paths, IsStrictPrefix(q, p)
        PROVE  q \in Above[p]
    BY <2>5, PathsAbove
  <2> HIDE DEF at
  <2> QED
    BY <2>1, <2>3, <2>4, <2>5 DEF Document
<1> QED
  BY <1>1, MergeInvHolds, PTL DEF ResultIsDocument
------------------------------------------------------------------------------
(* The recursion.  When a document may say something at any path of keys,  *)
(* the merge by paths does what a call of _merge_node does: it returns a   *)
(* version whole, or a mapping of what the calls for the keys return.      *)

\* A path under a key.
Within(key, p) == <<key>> \o p

\* The subtree of a document at a key, as a document.
Under(doc, key) == [p \in Paths |-> doc[Within(key, p)]]

LEMMA PathUnder ==
  ASSUME NEW S, NEW key \in S, NEW p \in Seq(S)
  PROVE  /\ Within(key, p) \in Seq(S)
         /\ Len(Within(key, p)) = Len(p) + 1
         /\ Within(key, p)[1] = key
         /\ \A i \in 2..(Len(p) + 1) : Within(key, p)[i] = p[i - 1]
<1>1. <<key>> \in Seq(S) /\ Len(<<key>>) = 1 /\ <<key>>[1] = key
  OBVIOUS
<1>2. /\ (<<key>> \o p) \in Seq(S)
      /\ Len(<<key>> \o p) = 1 + Len(p)
      /\ \A i \in 1..(1 + Len(p)) :
           (<<key>> \o p)[i] = IF i <= 1 THEN <<key>>[i] ELSE p[i - 1]
  BY <1>1, ConcatProperties
<1>3. Len(p) \in Nat
  OBVIOUS
<1> QED
  BY <1>1, <1>2, <1>3 DEF Within

LEMMA PrefixUnder ==
  ASSUME NEW S, NEW key \in S, NEW p \in Seq(S), NEW q \in Seq(S)
  PROVE  /\ IsPrefix(Within(key, p), Within(key, q)) <=> IsPrefix(p, q)
         /\ Within(key, p) = Within(key, q) <=> p = q
<1> DEFINE kp == Within(key, p)
           kq == Within(key, q)
<1>1. /\ kp \in Seq(S) /\ Len(kp) = Len(p) + 1 /\ kp[1] = key
      /\ \A i \in 2..(Len(p) + 1) : kp[i] = p[i - 1]
  BY PathUnder
<1>2. /\ kq \in Seq(S) /\ Len(kq) = Len(q) + 1 /\ kq[1] = key
      /\ \A i \in 2..(Len(q) + 1) : kq[i] = q[i - 1]
  BY PathUnder
<1>3. Len(p) \in Nat /\ Len(q) \in Nat
  OBVIOUS
<1> HIDE DEF kp, kq
<1>4. ASSUME IsPrefix(kp, kq) PROVE IsPrefix(p, q)
  <2>1. Len(kp) <= Len(kq) /\ \A i \in 1..Len(kp) : kp[i] = kq[i]
    BY <1>1, <1>2, <1>4, PrefixIs
  <2>2. ASSUME NEW i \in 1..Len(p) PROVE p[i] = q[i]
    <3>1. /\ i + 1 \in 1..Len(kp)
          /\ i + 1 \in 2..(Len(p) + 1) /\ i + 1 \in 2..(Len(q) + 1)
      BY <1>1, <1>2, <1>3, <2>1
    <3>2. kp[i + 1] = p[(i + 1) - 1] /\ kq[i + 1] = q[(i + 1) - 1]
      BY <1>1, <1>2, <3>1
    <3>3. kp[i + 1] = kq[i + 1] /\ (i + 1) - 1 = i
      BY <2>1, <3>1
    <3> QED
      BY <3>2, <3>3
  <2> QED
    BY <1>1, <1>2, <1>3, <2>1, <2>2, PrefixIs
<1>5. ASSUME IsPrefix(p, q) PROVE IsPrefix(kp, kq)
  <2>1. Len(p) <= Len(q) /\ \A i \in 1..Len(p) : p[i] = q[i]
    BY <1>5, PrefixIs
  <2>2. ASSUME NEW i \in 1..Len(kp) PROVE kp[i] = kq[i]
    <3>1. CASE i = 1
      BY <1>1, <1>2, <3>1
    <3>2. CASE i # 1
      <4>1. /\ i \in 2..(Len(p) + 1) /\ i \in 2..(Len(q) + 1)
            /\ i - 1 \in 1..Len(p)
        BY <1>1, <1>3, <2>1, <3>2
      <4> QED
        BY <1>1, <1>2, <2>1, <4>1
    <3> QED
      BY <3>1, <3>2
  <2> QED
    BY <1>1, <1>2, <1>3, <2>1, <2>2, PrefixIs
<1>6. ASSUME kp = kq PROVE p = q
  <2>1. IsPrefix(kp, kq) /\ Len(p) = Len(q)
    BY <1>1, <1>2, <1>3, <1>6, PrefixOfItself
  <2>2. \A i \in 1..Len(p) : p[i] = q[i]
    BY <1>4, <2>1, PrefixIs
  <2> QED
    BY <2>1, <2>2, SeqEqual
<1> QED
  BY <1>4, <1>5, <1>6 DEF kp, kq

\* A path that begins with a key is that key and a path under it.
LEMMA KeyFirst ==
  ASSUME NEW S, NEW key \in S, NEW r \in Seq(S), Len(r) >= 1, r[1] = key
  PROVE  \E q \in Seq(S) : r = Within(key, q)
<1>3. r # <<>> /\ r[1] = key /\ Len(r) \in Nat /\ Len(r) >= 1
  OBVIOUS
<1> DEFINE q == Tail(r)
<1>4. /\ q \in Seq(S) /\ Len(q) = Len(r) - 1
      /\ \A i \in 1..Len(q) : q[i] = r[i + 1]
  BY <1>3, HeadTailProperties
<1> HIDE DEF q
<1> DEFINE kq == Within(key, q)
<1>5. /\ kq \in Seq(S) /\ Len(kq) = Len(q) + 1 /\ kq[1] = key
      /\ \A i \in 2..(Len(q) + 1) : kq[i] = q[i - 1]
  BY <1>4, PathUnder
<1> HIDE DEF kq
<1>6. ASSUME NEW i \in 1..Len(r) PROVE r[i] = kq[i]
  <2>1. CASE i = 1
    BY <1>3, <1>5, <2>1
  <2>2. CASE i # 1
    <3>1. i \in 2..(Len(q) + 1) /\ i - 1 \in 1..Len(q)
      BY <1>3, <1>4, <2>2
    <3>2. q[i - 1] = r[i]
      BY <1>3, <1>4, <3>1
    <3> QED
      BY <1>5, <3>1, <3>2
  <2> QED
    BY <2>1, <2>2
<1>7. r = kq
  BY <1>3, <1>4, <1>5, <1>6, SeqEqual
<1> QED
  BY <1>4, <1>7 DEF kq

LEMMA BeginsWith ==
  ASSUME NEW S, NEW key \in S, NEW p \in Seq(S), NEW r \in Seq(S),
         IsPrefix(Within(key, p), r)
  PROVE  \E q \in Seq(S) : r = Within(key, q)
<1> DEFINE kp == Within(key, p)
<1>1. kp \in Seq(S) /\ Len(kp) = Len(p) + 1 /\ kp[1] = key /\ Len(p) \in Nat
  BY PathUnder
<1>2. IsPrefix(kp, r)
  OBVIOUS
<1> HIDE DEF kp
<1>3. Len(kp) <= Len(r) /\ \A i \in 1..Len(kp) : kp[i] = r[i]
  BY <1>1, <1>2, PrefixIs
<1>4. r[1] = key /\ Len(r) >= 1
  BY <1>1, <1>3
<1> QED
  BY <1>4, KeyFirst

\* So does what is above such a path, unless it is the root.
LEMMA KeyShared ==
  ASSUME NEW S, NEW key \in S, NEW p \in Seq(S), NEW r \in Seq(S),
         IsPrefix(r, Within(key, p)), r # <<>>
  PROVE  \E q \in Seq(S) : r = Within(key, q)
<1> DEFINE kp == Within(key, p)
<1>1. kp \in Seq(S) /\ kp[1] = key /\ IsPrefix(r, kp)
  BY PathUnder
<1> HIDE DEF kp
<1>2. Len(r) >= 1 /\ Len(r) \in Nat
  OBVIOUS
<1>3. \A i \in 1..Len(r) : r[i] = kp[i]
  BY <1>1, PrefixIs
<1>4. r[1] = key
  BY <1>1, <1>2, <1>3
<1> QED
  BY <1>2, <1>4, KeyFirst

LEMMA EmptyIsPrefix ==
  ASSUME NEW S, NEW s \in Seq(S), NEW t \in Seq(S), Len(s) = 0
  PROVE  IsPrefix(s, t)
<1>1. Len(t) \in Nat /\ Len(s) <= Len(t)
  OBVIOUS
<1>2. \A i \in 1..Len(s) : s[i] = t[i]
  OBVIOUS
<1> QED
  BY <1>1, <1>2, PrefixIs

LEMMA RootAbove ==
  ASSUME NEW S, NEW key \in S, NEW p \in Seq(S), NEW root \in Seq(S),
         Len(root) = 0
  PROVE  IsStrictPrefix(root, Within(key, p))
<1>1. /\ Within(key, p) \in Seq(S)
      /\ Len(Within(key, p)) = Len(p) + 1 /\ Len(p) \in Nat
  BY PathUnder
<1>2. IsPrefix(root, Within(key, p))
  BY <1>1, EmptyIsPrefix
<1>3. root # Within(key, p)
  BY <1>1
<1> QED
  BY <1>2, <1>3 DEF IsStrictPrefix

\* What is above and below a path under a key.
LEMMA PathsUnder ==
  ASSUME Paths = Seq(Keys), NEW key \in Keys, NEW p \in Paths
  PROVE  /\ Within(key, p) \in Paths
         /\ Below[Within(key, p)] = {Within(key, q) : q \in Below[p]}
         /\ Above[Within(key, p)] = {<<>>} \union {Within(key, q) : q \in Above[p]}
<1>1. /\ p \in Seq(Keys) /\ Within(key, p) \in Paths
      /\ <<>> \in Paths
  BY PathUnder
<1>2. Below[Within(key, p)] = {r \in Paths : IsPrefix(Within(key, p), r)}
  BY <1>1 DEF Below
<1>3. Below[p] = {q \in Paths : IsPrefix(p, q)}
  BY DEF Below
<1>4. \A q \in Paths : /\ Within(key, q) \in Paths
                       /\ IsPrefix(Within(key, p), Within(key, q))
                            <=> IsPrefix(p, q)
  BY <1>1, PathUnder, PrefixUnder
<1>5. \A r \in Paths : IsPrefix(Within(key, p), r) =>
        \E q \in Paths : r = Within(key, q)
  BY <1>1, BeginsWith
<1>6. Below[Within(key, p)] = {Within(key, q) : q \in Below[p]}
  BY <1>2, <1>3, <1>4, <1>5
<1>7. Above[Within(key, p)] = {r \in Paths : IsStrictPrefix(r, Within(key, p))}
  BY <1>1 DEF Above
<1>8. Above[p] = {q \in Paths : IsStrictPrefix(q, p)}
  BY DEF Above
<1>9. \A q \in Paths : IsStrictPrefix(Within(key, q), Within(key, p))
                       <=> IsStrictPrefix(q, p)
  BY <1>1, PrefixUnder DEF IsStrictPrefix
<1>10. IsStrictPrefix(<<>>, Within(key, p))
  <2>1. <<>> \in Seq(Keys) /\ Len(<<>>) = 0
    OBVIOUS
  <2> QED
    BY <1>1, <2>1, RootAbove
<1>11. ASSUME NEW r \in Paths, IsStrictPrefix(r, Within(key, p)), r # <<>>
       PROVE  \E q \in Paths : r = Within(key, q)
  BY <1>1, <1>11, KeyShared DEF IsStrictPrefix
<1>12. Above[Within(key, p)] = {<<>>} \union {Within(key, q) : q \in Above[p]}
  <2>1. ASSUME NEW r \in Above[Within(key, p)]
        PROVE  r = <<>> \/ \E q \in Above[p] : r = Within(key, q)
    BY <1>7, <1>8, <1>9, <1>11
  <2>2. <<>> \in Above[Within(key, p)]
    BY <1>1, <1>7, <1>10
  <2>3. ASSUME NEW q \in Above[p]
        PROVE  Within(key, q) \in Above[Within(key, p)]
    BY <1>4, <1>7, <1>8, <1>9
  <2> QED
    BY <2>1, <2>2, <2>3
<1> QED
  BY <1>1, <1>6, <1>12

\* The decision at a path under a key is that of the call for the key.
LEMMA DecideUnder ==
  ASSUME Paths = Seq(Keys), NEW b, NEW m, NEW t, NEW key \in Keys, NEW p \in Paths
  PROVE  Decisions(b, m, t)[Within(key, p)]
         = Decisions(Under(b, key), Under(m, key), Under(t, key))[p]
<1>1. /\ Within(key, p) \in Paths
      /\ Below[Within(key, p)] = {Within(key, q) : q \in Below[p]}
      /\ Below[p] \subseteq Paths
  BY PathsUnder, PathsAbove
<1>2. ASSUME NEW x, NEW y
      PROVE  Same(x, y, Within(key, p)) <=> Same(Under(x, key), Under(y, key), p)
  BY <1>1 DEF Same, Under
<1>3. Under(m, key)[p] = m[Within(key, p)] /\ Under(t, key)[p] = t[Within(key, p)]
  BY DEF Under
<1>4. Decide(b, m, t, Within(key, p))
      = Decide(Under(b, key), Under(m, key), Under(t, key), p)
  BY <1>2, <1>3 DEF Decide
<1> QED
  BY <1>1, <1>4 DEF Decisions

\* So is how far the recursion comes, once it has descended at the root, and
\* what the merge says.
LEMMA MergedUnder ==
  ASSUME Paths = Seq(Keys), NEW m, NEW t, NEW key \in Keys, NEW does, NEW sub,
         does[<<>>] = "descend",
         \A p \in Paths : does[Within(key, p)] = sub[p],
         NEW p \in Paths
  PROVE  /\ MergedAt(does, m, t, Within(key, p))
              = MergedAt(sub, Under(m, key), Under(t, key), p)
         /\ Within(key, p) \in ConflictPaths(does) <=> p \in ConflictPaths(sub)
<1>1. \A q \in Paths : does[Within(key, q)] = sub[q]
  OBVIOUS
<1>2. /\ Reached(does, Within(key, p)) <=> Reached(sub, p)
      /\ Settling(does, Within(key, p)) = {Within(key, q) : q \in Settling(sub, p)}
      /\ Within(key, p) \in Paths
  <2>1. ASSUME NEW q \in Paths
        PROVE  Reached(does, Within(key, q)) <=> Reached(sub, q)
    <3>1. /\ Above[Within(key, q)] = {<<>>} \union {Within(key, r) : r \in Above[q]}
          /\ Above[q] \subseteq Paths
      BY PathsUnder, PathsAbove
    <3> QED
      BY <3>1 DEF Reached
  <2>2. /\ Above[Within(key, p)] = {<<>>} \union {Within(key, r) : r \in Above[p]}
        /\ Above[p] \subseteq Paths
    BY PathsUnder, PathsAbove
  <2>3. \A r \in Above[p] \union {p} :
          Within(key, r) \in Settling(does, Within(key, p)) <=> r \in Settling(sub, p)
    BY <2>1, <2>2 DEF Settling
  <2>4. \A q \in Settling(does, Within(key, p)) :
          \E r \in Above[p] \union {p} : q = Within(key, r)
    BY <2>2 DEF Settling
  <2>5. Settling(sub, p) \subseteq Above[p] \union {p}
    BY DEF Settling
  <2>6. Within(key, p) \in Paths
    BY PathsUnder
  <2> QED
    BY <2>1, <2>3, <2>4, <2>5, <2>6
<1>3. Within(key, p) \in ConflictPaths(does) <=> p \in ConflictPaths(sub)
  BY <1>1, <1>2 DEF ConflictPaths
<1>4. CASE Settling(sub, p) = {}
  <2>1. Settling(does, Within(key, p)) = {}
    BY <1>2, <1>4
  <2> QED
    BY <1>3, <1>4, <2>1 DEF MergedAt
<1>5. CASE Settling(sub, p) # {}
  <2>1. PICK q \in Settling(sub, p) : TRUE
    BY <1>5
  <2>2. q \in Paths /\ Within(key, q) \in Settling(does, Within(key, p))
    BY <1>2, <2>1, PathsAbove DEF Settling
  <2>3. (CHOOSE r \in Settling(sub, p) : TRUE) = q
    BY <2>1, SettledOnce
  <2>4. (CHOOSE r \in Settling(does, Within(key, p)) : TRUE) = Within(key, q)
    BY <1>2, <2>2, SettledOnce
  <2>5. MergedAt(sub, Under(m, key), Under(t, key), p)
          = Taken(sub, Under(m, key), Under(t, key), q)[p]
    BY <1>5, <2>3 DEF MergedAt
  <2>6. MergedAt(does, m, t, Within(key, p))
          = Taken(does, m, t, Within(key, q))[Within(key, p)]
    BY <2>2, <2>4 DEF MergedAt
  <2>7. /\ does[Within(key, q)] = sub[q]
        /\ Under(m, key)[q] = m[Within(key, q)]
        /\ Under(m, key)[p] = m[Within(key, p)]
        /\ Under(t, key)[p] = t[Within(key, p)]
    BY <1>1, <2>2 DEF Under
  <2>8. Taken(does, m, t, Within(key, q))[Within(key, p)]
          = Taken(sub, Under(m, key), Under(t, key), q)[p]
    <3>1. CASE sub[q] = "theirs" \/ (sub[q] = "delete" /\ Under(m, key)[q] = Missing)
      <4>1. /\ Taken(does, m, t, Within(key, q)) = t
            /\ Taken(sub, Under(m, key), Under(t, key), q) = Under(t, key)
        BY <2>7, <3>1 DEF Taken
      <4> QED
        BY <2>7, <4>1
    <3>2. CASE ~ (sub[q] = "theirs" \/ (sub[q] = "delete" /\ Under(m, key)[q] = Missing))
      <4>1. /\ Taken(does, m, t, Within(key, q)) = m
            /\ Taken(sub, Under(m, key), Under(t, key), q) = Under(m, key)
        BY <2>7, <3>2 DEF Taken
      <4> QED
        BY <2>7, <4>1
    <3> QED
      BY <3>1, <3>2
  <2>9. MergedAt(does, m, t, Within(key, p))
          = MergedAt(sub, Under(m, key), Under(t, key), p)
    BY <2>5, <2>6, <2>8
  <2> QED
    BY <1>3, <2>9
<1> QED
  BY <1>4, <1>5

\* What a document says under a key is a document.
LEMMA UnderIsDocument ==
  ASSUME Paths = Seq(Keys), NEW doc \in Document, NEW key \in Keys
  PROVE  Under(doc, key) \in Document
<1>1. \A p \in Paths : Within(key, p) \in Paths
  BY PathsUnder
<1>2. Under(doc, key) \in [Paths -> Values \union {Opened, Missing}]
  BY <1>1 DEF Under, Document
<1>3. ASSUME NEW p \in Paths, NEW q \in Paths, IsStrictPrefix(q, p),
             Under(doc, key)[p] # Missing
      PROVE  Under(doc, key)[q] = Opened
  <2>1. IsStrictPrefix(Within(key, q), Within(key, p))
    BY <1>3, PrefixUnder DEF IsStrictPrefix
  <2>2. doc[Within(key, p)] # Missing
    BY <1>3 DEF Under
  <2>3. doc[Within(key, q)] = Opened
    BY <1>1, <2>1, <2>2 DEF Document
  <2> QED
    BY <2>3 DEF Under
<1> QED
  BY <1>2, <1>3 DEF Document

\* Every path but the root is under a key; nothing is above the root.
LEMMA RootOrUnder ==
  ASSUME Paths = Seq(Keys)
  PROVE  /\ <<>> \in Paths /\ Above[<<>>] = {}
         /\ \A r \in Paths : r # <<>> => <<>> \in Above[r]
         /\ \A r \in Paths : r # <<>> =>
              \E key \in Keys : \E p \in Paths : r = Within(key, p)
<1>1. <<>> \in Paths /\ Len(<<>>) = 0
  OBVIOUS
<1>2. ASSUME NEW q \in Above[<<>>] PROVE FALSE
  <2>1. q \in Paths /\ Len(q) \in Nat /\ Len(q) < Len(<<>>)
    BY <1>1, <1>2, PathsAbove, PathsOrder
  <2> QED
    BY <1>1, <2>1
<1>3. ASSUME NEW r \in Paths, r # <<>>
      PROVE  \E key \in Keys : \E p \in Paths : r = Within(key, p)
  <2>1. r \in Seq(Keys) /\ Len(r) \in Nat /\ Len(r) >= 1
    BY <1>3
  <2>2. r[1] \in Keys
    BY <2>1
  <2> QED
    BY <2>1, <2>2, KeyFirst
<1>4. ASSUME NEW r \in Paths, r # <<>> PROVE <<>> \in Above[r]
  <2>1. PICK key \in Keys, p \in Paths : r = Within(key, p)
    BY <1>3, <1>4
  <2> QED
    BY <2>1, PathsUnder
<1> QED
  BY <1>1, <1>2, <1>3, <1>4

\* The merge by paths is the recursion of _merge_node.  With documents as wide
\* and as deep as one likes, a call that does not descend returns a version
\* whole, with a conflict at the node or none; one that descends returns a
\* mapping of what the calls for the keys return, and exactly their conflicts,
\* each under its key.
THEOREM MergeUnfolds ==
  ASSUME Paths = Seq(Keys),
         NEW b \in Document, NEW m \in Document, NEW t \in Document
  PROVE  LET does == Decisions(b, m, t)
             res == MergeResult(b, m, t)
             call(key) == MergeResult(Under(b, key), Under(m, key), Under(t, key))
         IN  /\ does[<<>>] # "descend" =>
                  /\ res.doc = Taken(does, m, t, <<>>)
                  /\ res.conflicts = IF does[<<>>] \in {"delete", "value"}
                                     THEN {<<>>} ELSE {}
             /\ does[<<>>] = "descend" =>
                  /\ res.doc[<<>>] = Opened
                  /\ \A key \in Keys : Under(res.doc, key) = call(key).doc
                  /\ res.conflicts = UNION {{Within(key, p) : p \in call(key).conflicts}
                                              : key \in Keys}
             /\ \A key \in Keys : \A doc \in {b, m, t} : Under(doc, key) \in Document
<1> DEFINE does == Decisions(b, m, t)
           res == MergeResult(b, m, t)
           call(key) == MergeResult(Under(b, key), Under(m, key), Under(t, key))
           sub(key) == Decisions(Under(b, key), Under(m, key), Under(t, key))
<1>1. /\ res.doc = [p \in Paths |-> MergedAt(does, m, t, p)]
      /\ res.conflicts = ConflictPaths(does)
  BY DEF MergeResult
<1>2. ASSUME NEW key \in Keys
      PROVE  /\ call(key).doc = [p \in Paths |->
                  MergedAt(sub(key), Under(m, key), Under(t, key), p)]
             /\ call(key).conflicts = ConflictPaths(sub(key))
  BY DEF MergeResult
<1>3. ASSUME does[<<>>] # "descend"
      PROVE  /\ res.doc = Taken(does, m, t, <<>>)
             /\ res.conflicts = IF does[<<>>] \in {"delete", "value"}
                                THEN {<<>>} ELSE {}
  <2>1. ASSUME NEW p \in Paths
        PROVE  MergedAt(does, m, t, p) = Taken(does, m, t, <<>>)[p]
    <3>1. <<>> \in Above[p] \union {p}
      BY RootOrUnder
    <3>2. <<>> \in Settling(does, p)
      BY <1>3, <3>1, RootOrUnder DEF Settling, Reached
    <3>3. (CHOOSE q \in Settling(does, p) : TRUE) = <<>>
      BY <3>2, SettledOnce
    <3> QED
      BY <3>2, <3>3 DEF MergedAt
  <2>2. Taken(does, m, t, <<>>) \in {m, t}
    BY DEF Taken
  <2>3. res.doc = Taken(does, m, t, <<>>)
    BY <1>1, <2>1, <2>2 DEF Document
  <2>4. ASSUME NEW p \in Paths, p # <<>> PROVE p \notin ConflictPaths(does)
    <3>1. <<>> \in Above[p]
      BY <2>4, RootOrUnder
    <3> QED
      BY <1>3, <3>1 DEF ConflictPaths, Reached
  <2>5. <<>> \in ConflictPaths(does) <=> does[<<>>] \in {"delete", "value"}
    BY RootOrUnder DEF ConflictPaths, Reached
  <2>6. ConflictPaths(does) \subseteq Paths
    BY DEF ConflictPaths
  <2>7. res.conflicts = IF does[<<>>] \in {"delete", "value"} THEN {<<>>} ELSE {}
    BY <1>1, <2>4, <2>5, <2>6
  <2> QED
    BY <2>3, <2>7
<1>4. ASSUME does[<<>>] = "descend"
      PROVE  /\ res.doc[<<>>] = Opened
             /\ \A key \in Keys : Under(res.doc, key) = call(key).doc
             /\ res.conflicts = UNION {{Within(key, p) : p \in call(key).conflicts}
                                         : key \in Keys}
  <2>1. res.doc[<<>>] = Opened
    <3>1. Settling(does, <<>>) = {}
      BY <1>4, RootOrUnder DEF Settling
    <3> QED
      BY <1>1, <3>1, RootOrUnder DEF MergedAt
  <2>2. ASSUME NEW key \in Keys, NEW p \in Paths
        PROVE  /\ Within(key, p) \in Paths
               /\ MergedAt(does, m, t, Within(key, p))
                    = MergedAt(sub(key), Under(m, key), Under(t, key), p)
               /\ Within(key, p) \in ConflictPaths(does)
                    <=> p \in ConflictPaths(sub(key))
    <3> DEFINE doesk == does
               subk == sub(key)
    <3>1. \A q \in Paths : doesk[Within(key, q)] = subk[q]
      BY DecideUnder
    <3>2. doesk[<<>>] = "descend"
      BY <1>4
    <3> HIDE DEF doesk, subk
    <3>3. /\ MergedAt(doesk, m, t, Within(key, p))
               = MergedAt(subk, Under(m, key), Under(t, key), p)
          /\ Within(key, p) \in ConflictPaths(doesk) <=> p \in ConflictPaths(subk)
      BY <3>1, <3>2, MergedUnder
    <3> QED
      BY <3>3, PathsUnder DEF doesk, subk
  <2>3. ASSUME NEW key \in Keys
        PROVE  Under(res.doc, key) = call(key).doc
    <3> DEFINE mk == Under(m, key)
               tk == Under(t, key)
               subk == sub(key)
               doc == res.doc
    <3>1. call(key).doc = [p \in Paths |-> MergedAt(subk, mk, tk, p)]
      BY <1>2
    <3>2. \A p \in Paths : doc[Within(key, p)] = MergedAt(subk, mk, tk, p)
      BY <1>1, <2>2
    <3>3. Under(doc, key) = [p \in Paths |-> doc[Within(key, p)]]
      BY DEF Under
    <3> HIDE DEF mk, tk, subk, doc, call
    <3> QED
      BY <3>1, <3>2, <3>3 DEF doc
  <2>4. ASSUME NEW r \in ConflictPaths(does)
        PROVE  \E key \in Keys : \E p \in ConflictPaths(sub(key)) : r = Within(key, p)
    <3>1. r \in Paths /\ r # <<>>
      BY <1>4, <2>4 DEF ConflictPaths
    <3>2. PICK key \in Keys, p \in Paths : r = Within(key, p)
      BY <3>1, RootOrUnder
    <3> QED
      BY <2>2, <2>4, <3>2
  <2>5. \A key \in Keys : ConflictPaths(sub(key)) \subseteq Paths
    BY DEF ConflictPaths
  <2>6. ASSUME NEW key \in Keys, NEW p \in call(key).conflicts
        PROVE  Within(key, p) \in res.conflicts
    BY <1>1, <1>2, <2>2, <2>5
  <2>7. ASSUME NEW r \in res.conflicts
        PROVE  \E key \in Keys : \E p \in call(key).conflicts : r = Within(key, p)
    BY <1>1, <1>2, <2>4
  <2> HIDE DEF res, call
  <2>8. res.conflicts = UNION {{Within(key, p) : p \in call(key).conflicts}
                                 : key \in Keys}
    BY <2>6, <2>7
  <2> QED
    BY <2>1, <2>3, <2>8
<1>5. ASSUME NEW key \in Keys, NEW doc \in {b, m, t}
      PROVE  Under(doc, key) \in Document
  BY UnderIsDocument
<1> QED
  BY <1>3, <1>4, <1>5
------------------------------------------------------------------------------
(* Flat documents are documents.                                           *)
(*                                                                         *)
(* The commits of TableCommit merge flat documents (Merge.tla): a function *)
(* of fields, grouped into units that are compared whole.  Such a document *)
(* is laid out as a nested one by saying at which path each field stands:  *)
(* the fields at one path are a unit, the leaf there is their values, and  *)
(* it is missing when all of them are.  Around the leaves there is a       *)
(* skeleton, the sections of a table, which the versions have in common.   *)

\* The fields that stand at p, and the unit of each field.
FieldsAt(at, p) == {f \in DOMAIN at : at[f] = p}
Units(at) == [f \in DOMAIN at |-> FieldsAt(at, at[f])]

\* What the flat document x says at the path p of a unit.
Piece(at, x, p) == [f \in FieldsAt(at, p) |-> x[f]]

Laid(at, skeleton, x) ==
  [p \in Paths |->
     IF FieldsAt(at, p) = {} THEN skeleton[p]
     ELSE IF \A f \in FieldsAt(at, p) : x[f] = Missing THEN Missing
     ELSE Piece(at, x, p)]

\* No unit stands inside another, and what a unit says is a leaf.
FlatLayout(at, docs) ==
  /\ at \in [DOMAIN at -> Paths]
  /\ \A f, g \in DOMAIN at : at[f] \notin Above[at[g]]
  /\ \A x \in docs : \A f \in DOMAIN at :
       x[f] # Missing => Piece(at, x, at[f]) \in Values

\* Two flat documents laid out say the same at a leaf when they agree on the
\* unit that stands there.
LEMMA LeafIsUnit ==
  ASSUME NEW at, NEW docs, FlatLayout(at, docs), NEW skeleton,
         NEW x \in docs, NEW y \in docs, NEW f \in DOMAIN at
  PROVE  Laid(at, skeleton, x)[at[f]] = Laid(at, skeleton, y)[at[f]]
         <=> Flat!SameOn(Units(at)[f], x, y)
<1> DEFINE U == FieldsAt(at, at[f])
           none(d) == \A g \in U : d[g] = Missing
<1>1. /\ at[f] \in Paths /\ f \in U /\ Units(at)[f] = U
      /\ U \subseteq DOMAIN at /\ \A g \in U : at[g] = at[f]
  BY DEF FlatLayout, FieldsAt, Units
<1>2. ASSUME NEW d \in docs
      PROVE  /\ none(d) => Laid(at, skeleton, d)[at[f]] = Missing
             /\ ~none(d) => /\ Laid(at, skeleton, d)[at[f]] = [g \in U |-> d[g]]
                            /\ [g \in U |-> d[g]] # Missing
  <2>1. none(d) => Laid(at, skeleton, d)[at[f]] = Missing
    BY <1>1 DEF Laid
  <2>2. ~none(d) => Laid(at, skeleton, d)[at[f]] = [g \in U |-> d[g]]
    BY <1>1 DEF Laid, Piece
  <2>3. ~none(d) => [g \in U |-> d[g]] \in Values
    BY <1>1 DEF FlatLayout, Piece
  <2> QED
    BY <2>1, <2>2, <2>3, DocumentsOK
<1>3. [g \in U |-> x[g]] = [g \in U |-> y[g]] <=> \A g \in U : x[g] = y[g]
  <2>1. ASSUME [g \in U |-> x[g]] = [g \in U |-> y[g]], NEW h \in U
        PROVE  x[h] = y[h]
    <3>1. [g \in U |-> x[g]][h] = [g \in U |-> y[g]][h]
      BY <2>1
    <3> QED
      BY <3>1
  <2> QED
    BY <2>1
<1>4. Flat!SameOn(Units(at)[f], x, y) <=> \A g \in U : x[g] = y[g]
  BY <1>1 DEF Flat!SameOn
<1> HIDE DEF U
<1>5. CASE none(x) /\ none(y)
  <2>1. ASSUME NEW d \in {x, y} PROVE Laid(at, skeleton, d)[at[f]] = Missing
    <3>1. none(d)
      BY <1>5
    <3> HIDE DEF none
    <3> QED
      BY <1>2, <3>1
  <2>2. \A g \in U : x[g] = y[g]
    BY <1>5
  <2> QED
    BY <1>4, <2>1, <2>2
<1>6. CASE none(x) /\ ~none(y)
  BY <1>2, <1>4, <1>6
<1>7. CASE ~none(x) /\ none(y)
  BY <1>2, <1>4, <1>7
<1>8. CASE ~none(x) /\ ~none(y)
  <2>1. /\ Laid(at, skeleton, x)[at[f]] = [g \in U |-> x[g]]
        /\ Laid(at, skeleton, y)[at[f]] = [g \in U |-> y[g]]
    BY <1>2, <1>8
  <2> QED
    BY <1>3, <1>4, <2>1
<1> QED
  BY <1>5, <1>6, <1>7, <1>8

\* Nothing else stands below a leaf, so the subtrees there are the leaves.
LEMMA LeafIsSubtree ==
  ASSUME NEW at, NEW docs, FlatLayout(at, docs), NEW skeleton,
         NEW x, NEW y, NEW f \in DOMAIN at
  PROVE  Same(Laid(at, skeleton, x), Laid(at, skeleton, y), at[f])
         <=> Laid(at, skeleton, x)[at[f]] = Laid(at, skeleton, y)[at[f]]
<1>1. at[f] \in Paths
  BY DEF FlatLayout
<1>2. ASSUME NEW q \in Below[at[f]], q # at[f]
      PROVE  Laid(at, skeleton, x)[q] = Laid(at, skeleton, y)[q]
  <2>1. q \in Paths /\ at[f] \in Above[q]
    BY <1>1, <1>2, PathsAbove DEF IsStrictPrefix
  <2>2. FieldsAt(at, q) = {}
    BY <2>1 DEF FlatLayout, FieldsAt
  <2> QED
    BY <2>1, <2>2 DEF Laid
<1> QED
  BY <1>1, <1>2, PathsAbove DEF Same

\* Away from the leaves there is the skeleton, and it is open wherever two of
\* the versions differ further down.
LEMMA SkeletonOpen ==
  ASSUME NEW at, NEW skeleton, NEW x, NEW y, NEW q \in Paths,
         Laid(at, skeleton, x) \in Document, Laid(at, skeleton, y) \in Document,
         FieldsAt(at, q) = {}, ~Same(Laid(at, skeleton, x), Laid(at, skeleton, y), q)
  PROVE  skeleton[q] = Opened
<1>1. Laid(at, skeleton, x)[q] = skeleton[q] /\ Laid(at, skeleton, y)[q] = skeleton[q]
  BY DEF Laid
<1> QED
  BY <1>1, DifferentThere

\* The flat merge of TableCommit is the nested merge: laid out as documents,
\* the versions are in conflict at the leaves of the units that are in
\* conflict, and without a conflict the merged document is the flat one laid
\* out (merge.py: "Lists are compared whole"; what is at a path of its own is
\* merged on its own).
THEOREM FlatMergeIsMerge ==
  ASSUME NEW at, NEW skeleton, NEW b, NEW m, NEW t,
         FlatLayout(at, {b, m, t}),
         \A x \in {b, m, t} : Laid(at, skeleton, x) \in Document
  PROVE  LET res == MergeResult(Laid(at, skeleton, b), Laid(at, skeleton, m),
                                Laid(at, skeleton, t))
             clashes == Flat!Conflicts(Units(at), b, m, t)
         IN  /\ res.conflicts = {at[f] : f \in clashes}
             /\ clashes = {} =>
                  res.doc = Laid(at, skeleton, Flat!MergeDocs(Units(at), b, m, t))
<1> DEFINE B == Laid(at, skeleton, b)
           M == Laid(at, skeleton, m)
           T == Laid(at, skeleton, t)
           does == Decisions(B, M, T)
           res == MergeResult(B, M, T)
           clashes == Flat!Conflicts(Units(at), b, m, t)
           flat == Flat!MergeDocs(Units(at), b, m, t)
<1>1. /\ res.doc = [p \in Paths |-> MergedAt(does, M, T, p)]
      /\ res.conflicts = ConflictPaths(does)
  BY DEF MergeResult
<1>2. /\ B \in Document /\ M \in Document /\ T \in Document
      /\ \A f \in DOMAIN at : at[f] \in Paths
      /\ \A f, g \in DOMAIN at : at[f] \notin Above[at[g]]
  BY DEF FlatLayout
<1>3. ASSUME NEW f \in DOMAIN at
      PROVE  LET U == Units(at)[f]
             IN  /\ M[at[f]] = T[at[f]] <=> Flat!SameOn(U, m, t)
                 /\ B[at[f]] = M[at[f]] <=> Flat!SameOn(U, b, m)
                 /\ B[at[f]] = T[at[f]] <=> Flat!SameOn(U, b, t)
                 /\ Same(M, T, at[f]) <=> Flat!SameOn(U, m, t)
                 /\ Same(B, M, at[f]) <=> Flat!SameOn(U, b, m)
                 /\ Same(B, T, at[f]) <=> Flat!SameOn(U, b, t)
  BY LeafIsUnit, LeafIsSubtree
<1>4. ASSUME NEW f \in DOMAIN at
      PROVE  B[at[f]] # Opened /\ M[at[f]] # Opened /\ T[at[f]] # Opened
  <2>1. ASSUME NEW x \in {b, m, t} PROVE Laid(at, skeleton, x)[at[f]] # Opened
    <3>1. /\ at[f] \in Paths /\ f \in FieldsAt(at, at[f])
          /\ \A g \in FieldsAt(at, at[f]) : g \in DOMAIN at /\ at[g] = at[f]
      BY <1>2 DEF FieldsAt
    <3>2. \/ Laid(at, skeleton, x)[at[f]] = Missing
          \/ Laid(at, skeleton, x)[at[f]] \in Values
      BY <3>1 DEF Laid, FlatLayout
    <3> QED
      BY <3>2, DocumentsOK
  <2> QED
    BY <2>1
<1>5. ASSUME NEW f \in clashes
      PROVE  at[f] \in ConflictPaths(does)
  <2>1. /\ f \in DOMAIN at /\ at[f] \in Paths
        /\ ~Same(M, T, at[f]) /\ ~Same(B, M, at[f]) /\ ~Same(B, T, at[f])
    BY <1>2, <1>3, <1>5 DEF Flat!Conflicts, Flat!Clash, Units
  <2>2. does[at[f]] \in {"delete", "value"}
    BY <1>4, <2>1 DEF Decisions, Decide
  <2>3. ASSUME NEW q \in Above[at[f]] PROVE does[q] = "descend"
    <3>1. q \in Paths /\ at[f] \in Below[q]
      BY <2>1, PathsAbove DEF IsStrictPrefix
    <3>2. ~Same(M, T, q) /\ ~Same(B, M, q) /\ ~Same(B, T, q)
      <4>1. M[at[f]] # T[at[f]] /\ B[at[f]] # M[at[f]] /\ B[at[f]] # T[at[f]]
        BY <1>3, <2>1
      <4> QED
        BY <3>1, <4>1, SameAt
    <3>3. FieldsAt(at, q) = {}
      BY <1>2, <2>1, <2>3 DEF FieldsAt
    <3>4. skeleton[q] = Opened
      BY <1>2, <3>1, <3>2, <3>3, SkeletonOpen
    <3>5. M[q] = Opened /\ T[q] = Opened
      BY <3>1, <3>3, <3>4 DEF Laid
    <3> QED
      BY <3>1, <3>2, <3>5, DocumentsOK DEF Decisions, Decide
  <2> QED
    BY <2>1, <2>2, <2>3 DEF ConflictPaths, Reached
<1>6. ASSUME NEW p \in ConflictPaths(does)
      PROVE  \E f \in clashes : p = at[f]
  <2>1. p \in Paths /\ Decide(B, M, T, p) \in {"delete", "value"}
    BY <1>6 DEF ConflictPaths, Decisions
  <2>2. ~Same(M, T, p) /\ ~Same(B, T, p) /\ ~Same(B, M, p)
    BY <2>1 DEF Decide
  <2>3. CASE FieldsAt(at, p) = {}
    <3>1. skeleton[p] = Opened
      BY <1>2, <2>1, <2>2, <2>3, SkeletonOpen
    <3>2. M[p] = Opened /\ T[p] = Opened
      BY <2>1, <2>3, <3>1 DEF Laid
    <3> QED
      BY <2>1, <3>2, DocumentsOK DEF Decide
  <2>4. ASSUME NEW f \in DOMAIN at, p = at[f]
        PROVE  f \in clashes
    BY <1>3, <2>2, <2>4 DEF Flat!Conflicts, Flat!Clash, Units
  <2> QED
    BY <2>3, <2>4 DEF FieldsAt
<1>7. res.conflicts = {at[f] : f \in clashes}
  BY <1>1, <1>5, <1>6
<1>8. ASSUME clashes = {}, NEW p \in Paths
      PROVE  MergedAt(does, M, T, p) = Laid(at, skeleton, flat)[p]
  <2>1. MergedAt(does, M, T, p) = IF M[p] # B[p] THEN M[p] ELSE T[p]
    <3>1. ConflictPaths(does) = {}
      BY <1>6, <1>8
    <3> QED
      BY <3>1, CleanMergeAt
  <2>2. CASE FieldsAt(at, p) = {}
    BY <2>1, <2>2 DEF Laid
  <2>3. ASSUME NEW f \in DOMAIN at, p = at[f]
        PROVE  MergedAt(does, M, T, p) = Laid(at, skeleton, flat)[p]
    <3> DEFINE U == FieldsAt(at, p)
    <3>1. /\ Units(at)[f] = U /\ f \in U /\ U \subseteq DOMAIN at
          /\ \A g \in U : Units(at)[g] = U
      BY <2>3 DEF Units, FieldsAt
    <3>2. \A g \in U : flat[g] = IF ~Flat!SameOn(U, m, t) /\ Flat!SameOn(U, b, m)
                                 THEN t[g] ELSE m[g]
      BY <3>1 DEF Flat!MergeDocs, Flat!MergedAt, Units
    <3>3. ASSUME NEW x, \A g \in U : flat[g] = x[g]
          PROVE  Laid(at, skeleton, flat)[p] = Laid(at, skeleton, x)[p]
      <4>1. Piece(at, flat, p) = Piece(at, x, p)
        BY <3>3 DEF Piece
      <4> QED
        BY <3>3, <4>1 DEF Laid
    <3>4. CASE Flat!SameOn(U, b, m)
      <4>1. \A g \in U : flat[g] = t[g]
        BY <3>2, <3>4 DEF Flat!SameOn
      <4>2. Laid(at, skeleton, flat)[p] = T[p]
        BY <3>3, <4>1
      <4>3. B[p] = M[p]
        BY <1>3, <2>3, <3>1, <3>4
      <4> QED
        BY <2>1, <4>2, <4>3
    <3>5. CASE ~Flat!SameOn(U, b, m)
      <4>1. \A g \in U : flat[g] = m[g]
        BY <3>2, <3>5
      <4>2. Laid(at, skeleton, flat)[p] = M[p]
        BY <3>3, <4>1
      <4>3. B[p] # M[p]
        BY <1>3, <2>3, <3>1, <3>5
      <4> QED
        BY <2>1, <4>2, <4>3
    <3> QED
      BY <3>4, <3>5
  <2> QED
    BY <2>2, <2>3 DEF FieldsAt
<1>9. clashes = {} => res.doc = Laid(at, skeleton, flat)
  <2>1. Laid(at, skeleton, flat) = [p \in Paths |-> Laid(at, skeleton, flat)[p]]
    BY DEF Laid
  <2> QED
    BY <1>1, <1>8, <2>1
<1> QED
  BY <1>7, <1>9
==============================================================================
