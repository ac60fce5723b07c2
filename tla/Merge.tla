------------------------------- MODULE Merge -------------------------------
(***************************************************************************)
(* The three-way merge of numberdb_app/merge.py over flat documents.       *)
(*                                                                         *)
(* A document maps every path it could have to a value, or to Absent when  *)
(* the path is missing.  Paths are grouped into units: a unit is what the  *)
(* merge compares whole -- one leaf of the tree, or a list with everything *)
(* in it (merge.py: "Lists are compared whole").                           *)
(***************************************************************************)

\* Two documents agree on a unit: `_same`, Python's == on the two subtrees.
SameOn(U, a, b) == \A f \in U : a[f] = b[f]

\* Both sides changed the unit, differently: the merge cannot decide.
Clash(U, base, mine, theirs) ==
  /\ ~SameOn(U, mine, theirs)
  /\ ~SameOn(U, base, mine)
  /\ ~SameOn(U, base, theirs)

\* Mutant: an untouched unit keeps the old version instead of theirs.
MergedAtMine(f, U, base, mine, theirs) == mine[f]

\* The value the merge leaves at path f of unit U when U does not clash:
\* identical sides need no examination, and a side that did not touch the
\* unit takes the other side's version.
MergedAt(f, U, base, mine, theirs) ==
  IF ~SameOn(U, mine, theirs) /\ SameOn(U, base, mine)
  THEN theirs[f]
  ELSE mine[f]

\* The paths in conflict, and the merged document (only used when there are
\* none).  unit[f] is the unit that path f belongs to.
Conflicts(unit, base, mine, theirs) ==
  {f \in DOMAIN unit : Clash(unit[f], base, mine, theirs)}

MergeDocs(unit, base, mine, theirs) ==
  [f \in DOMAIN unit |-> MergedAt(f, unit[f], base, mine, theirs)]

\* What a merge is for: the author's changes to base, laid over theirs.
Overlay(base, mine, theirs) ==
  [f \in DOMAIN base |-> IF mine[f] # base[f] THEN mine[f] ELSE theirs[f]]
=============================================================================
