----------------------------- MODULE MergeTree -----------------------------
(***************************************************************************)
(* The merge of numberdb_app/merge.py over nested documents: two versions  *)
(* of a document, both derived from a third, are merged into one, and the  *)
(* places where that cannot be decided are named by their paths.           *)
(*                                                                         *)
(* A document says at each path a value, Opened where there is a mapping,  *)
(* or Missing.  A list is a value, because it is compared whole.  Python's *)
(* == on mappings ignores the order of their keys, and so does this        *)
(* module.  What the recursion of _merge_node does at a path depends on    *)
(* the nodes above it: it comes there when it has descended into all of    *)
(* them.  MergeRecursion has the recursion itself, over trees.             *)
(***************************************************************************)
EXTENDS Integers, SequencesExt

CONSTANTS Keys,      \* of mappings
          Paths,     \* where a document may say something
          Values,    \* leaves: scalars and lists
          Opened,    \* what is at the path of a mapping
          Missing,   \* nothing is: the MISSING of merge.py
          Documents, \* the documents to merge
          Unmerged   \* no result yet

\* Above anything a document says there are mappings.
Document ==
  {doc \in [Paths -> Values \union {Opened, Missing}] :
     \A p, q \in Paths :
       IsStrictPrefix(q, p) /\ doc[p] # Missing => doc[q] = Opened}

ASSUME DocumentsOK ==
  /\ Paths \subseteq Seq(Keys)
  /\ \A p \in Paths : Prefixes(p) \subseteq Paths
  /\ Documents \subseteq Document
  /\ Opened # Missing
  /\ Values \intersect {Opened, Missing} = {}

VARIABLES base, mine, theirs,
          result     \* [doc, conflicts] of MergeResult, or Unmerged

vars == <<base, mine, theirs, result>>

\* The paths of the subtree at p, and those of the mappings it is in.
Below == [p \in Paths |-> {q \in Paths : IsPrefix(p, q)}]
Above == [p \in Paths |-> {q \in Paths : IsStrictPrefix(q, p)}]

\* _same, of the subtrees at p: mappings are equal when they say the same at
\* every path below, and MISSING is equal to itself only.
Same(a, b, p) == \A q \in Below[p] : a[q] = b[q]

\* Mutant: a deletion wins over an edit without a word.
DecideDeletion(b, m, t, p) ==
  IF Same(m, t, p) \/ Same(b, t, p) \/ m[p] = Missing THEN "mine"
  ELSE IF Same(b, m, p) \/ t[p] = Missing THEN "theirs"
  ELSE IF m[p] = Opened /\ t[p] = Opened THEN "descend"
  ELSE "value"

\* Mutant: mappings are compared whole, like lists.
DecideWhole(b, m, t, p) ==
  IF Same(m, t, p) \/ Same(b, t, p) THEN "mine"
  ELSE IF Same(b, m, p) THEN "theirs"
  ELSE IF Missing \in {m[p], t[p]} THEN "delete"
  ELSE "value"

\* Mutant: of two different values mine is taken, and no conflict named.
DecideMine(b, m, t, p) ==
  IF Same(m, t, p) \/ Same(b, t, p) THEN "mine"
  ELSE IF Same(b, m, p) THEN "theirs"
  ELSE IF Missing \in {m[p], t[p]} THEN "delete"
  ELSE IF m[p] = Opened /\ t[p] = Opened THEN "descend"
  ELSE "mine"

\* Mutant: the side that did not touch a node is the one that is kept.
DecideUntouched(b, m, t, p) ==
  IF Same(m, t, p) \/ Same(b, m, p) THEN "mine"
  ELSE IF Same(b, t, p) THEN "theirs"
  ELSE IF Missing \in {m[p], t[p]} THEN "delete"
  ELSE IF m[p] = Opened /\ t[p] = Opened THEN "descend"
  ELSE "value"

\* What _merge_node does with the node at p: identical sides, a side that did
\* not touch it, one that deleted what the other edited, two mappings, and two
\* values or kinds of thing.
Decide(b, m, t, p) ==
  IF Same(m, t, p) \/ Same(b, t, p) THEN "mine"
  ELSE IF Same(b, m, p) THEN "theirs"
  ELSE IF Missing \in {m[p], t[p]} THEN "delete"
  ELSE IF m[p] = Opened /\ t[p] = Opened THEN "descend"
  ELSE "value"

Decisions(b, m, t) == [p \in Paths |-> Decide(b, m, t, p)]

\* The recursion comes to p: every node above it is descended into.
Reached(does, p) == \A q \in Above[p] : does[q] = "descend"

\* The node at or above p that is returned without descending, if any.
Settling(does, p) ==
  {q \in Above[p] \union {p} : Reached(does, q) /\ does[q] # "descend"}

\* The version whose copy is returned for the node at q; a deletion that is in
\* conflict leaves the side that is there.
Taken(does, m, t, q) ==
  IF does[q] = "theirs" \/ (does[q] = "delete" /\ m[q] = Missing)
  THEN t ELSE m

MergedAt(does, m, t, p) ==
  IF Settling(does, p) = {}
  THEN Opened
  ELSE Taken(does, m, t, CHOOSE q \in Settling(does, p) : TRUE)[p]

\* The paths a Conflict is appended for.
ConflictPaths(does) ==
  {p \in Paths : Reached(does, p) /\ does[p] \in {"delete", "value"}}

MergeResult(b, m, t) ==
  LET does == Decisions(b, m, t)
  IN  [doc |-> [p \in Paths |-> MergedAt(does, m, t, p)],
       conflicts |-> ConflictPaths(does)]

Init ==
  /\ base \in Documents
  /\ mine \in Documents
  /\ theirs \in Documents
  /\ result = Unmerged

merge ==
  /\ result = Unmerged
  /\ result' = MergeResult(base, mine, theirs)
  /\ UNCHANGED <<base, mine, theirs>>

Spec == Init /\ [][merge]_vars
----------------------------------------------------------------------------
(* What a merge is for.                                                    *)

Flat == INSTANCE Merge

\* The paths at which a version and its base say different things.
Touched(b, version) == {p \in Paths : b[p] # version[p]}

Done == result # Unmerged
Clean == Done /\ result.conflicts = {}

\* Two edits collide when one is at, above or below the other.
Collide(p, q) == IsPrefix(p, q) \/ IsPrefix(q, p)

\* The merged tree is a document, conflicts or not ("so the result is always a
\* usable document"): nothing is kept under what is no longer a mapping.
ResultIsDocument == Done => result.doc \in Document

\* The merge of two versions that do not conflict is the author's changes laid
\* over theirs, path by path and however deep: what the flat model of a commit
\* (Merge.tla) takes the merge to be.
CleanIsOverlay == Clean => result.doc = Flat!Overlay(base, mine, theirs)

\* "Two people editing entries n=5 and n=17 are touching disjoint keys and
\* never see a conflict."
DisjointEditsMerge ==
  Done /\ (\A p \in Touched(base, mine), q \in Touched(base, theirs) :
             ~Collide(p, q))
    => result.conflicts = {}

\* "Never a silent deletion": what either side wrote is in the merged tree, or
\* a conflict is named at or above it.
NothingSilentlyLost ==
  Done => \A version \in {mine, theirs} : \A p \in Touched(base, version) :
            \/ version[p] = Missing
            \/ result.doc[p] = version[p]
            \/ \E q \in result.conflicts : IsPrefix(q, p)

\* Nobody is the author of a merge: exchanging the two versions exchanges no
\* decision, so it never depends on who saved first.
OrderIsImmaterial ==
  Done => LET swapped == MergeResult(base, theirs, mine)
          IN  /\ swapped.conflicts = result.conflicts
              /\ Clean => swapped.doc = result.doc
============================================================================
