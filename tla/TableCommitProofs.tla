-------------------------- MODULE TableCommitProofs --------------------------
(***************************************************************************)
(* What TableCommit promises for every value of its constants, proved.     *)
(***************************************************************************)
EXTENDS TableCommit, FiniteSetTheorems, WellFoundedInduction, TLAPS

(* Lemmas about the operators the model is built from.                     *)

\* A non-empty set of positions has a largest element: `.first()` of the
\* revisions with a digest is one of them.
LEMMA LargestPosition ==
  ASSUME NEW n \in Nat, NEW S \in SUBSET (1..n), S # {}
  PROVE  \E i \in S : \A j \in S : j <= i
<1> DEFINE T == {n - i : i \in S}
<1>1. T \subseteq Nat /\ T # {}
  <2>1. \A i \in S : n - i \in Nat
    OBVIOUS
  <2>2. PICK i \in S : TRUE
    OBVIOUS
  <2>3. n - i \in T
    OBVIOUS
  <2> QED
    BY <2>1, <2>3
<1>2. PICK x \in T : \A y \in T : ~ (<<y, x>> \in OpToRel(<, Nat))
  BY <1>1, NatLessThanWellFounded, WFMin
<1>3. \A y \in T : ~ (y < x)
  BY <1>1, <1>2 DEF OpToRel
<1>4. PICK i \in S : x = n - i
  OBVIOUS
<1>5. \A j \in S : j <= i
  <2> SUFFICES ASSUME NEW j \in S PROVE j <= i
    OBVIOUS
  <2>1. n - j \in T
    OBVIOUS
  <2>2. ~ (n - j < n - i)
    BY <2>1, <1>3, <1>4
  <2> QED
    BY <2>2
<1> QED
  BY <1>5

LEMMA NewestIsOne ==
  ASSUME NEW n \in Nat, NEW S \in SUBSET (1..n), S # {}
  PROVE  Newest(S) \in S
BY LargestPosition DEF Newest

\* What a merge that reports no conflict leaves is the author's changes laid
\* over what the others wrote, however the document is cut into units.
LEMMA MergeIsOverlay ==
  ASSUME NEW unit, NEW base, NEW mine, NEW theirs,
         DOMAIN base = DOMAIN unit,
         \A f \in DOMAIN unit : f \in unit[f],
         Conflicts(unit, base, mine, theirs) = {}
  PROVE  MergeDocs(unit, base, mine, theirs) = Overlay(base, mine, theirs)
<1> SUFFICES ASSUME NEW f \in DOMAIN unit
             PROVE  MergedAt(f, unit[f], base, mine, theirs)
                    = IF mine[f] # base[f] THEN mine[f] ELSE theirs[f]
  BY DEF MergeDocs, Overlay
<1>1. ~ Clash(unit[f], base, mine, theirs)
  BY DEF Conflicts
<1>2. f \in unit[f]
  OBVIOUS
<1> QED
  BY <1>1, <1>2 DEF MergedAt, Clash, SameOn

\* A worker that is free when there is only one means that no request is
\* being served.
LEMMA OneWorker ==
  ASSUME Workers = 1, WorkerFree
  PROVE  \A u \in Users : pc[u] \notin Serving
<1> DEFINE S == {u \in Users : pc[u] \in Serving}
<1>1. IsFiniteSet(S)
  BY ConstantsOK, FS_Subset
<1>2. Cardinality(S) \in Nat /\ Cardinality(S) < 1
  BY <1>1, FS_CardinalityType DEF WorkerFree
<1>3. S = {}
  BY <1>1, <1>2, FS_EmptySet
<1> QED
  BY <1>3
------------------------------------------------------------------------------
(* Types.                                                                  *)

\* The revisions a request holds exist.
LoadedExists ==
  \A u \in Users : /\ mem[u].head \in 0..Len(revs)
                   /\ mem[u].reviewed \in 0..Len(revs)

TypeInv == TypeOK /\ LoadedExists

LEMMA HeadDocType ==
  ASSUME TypeOK
  PROVE  HeadDoc \in Doc /\ Len(revs) \in Nat /\ head \in Nat
<1>1. revs \in Seq(Revision) /\ head \in 1..Len(revs)
  BY DEF TypeOK
<1>2. revs[head] \in Revision /\ Len(revs) \in Nat
  BY <1>1
<1> QED
  BY <1>1, <1>2 DEF HeadDoc, Revision

LEMMA PairsType ==
  ASSUME NEW doc \in Doc
  PROVE  Pairs(doc) \subseteq Entries \X Values
<1> SUFFICES ASSUME NEW e \in Entries, doc[e] # Absent
             PROVE  doc[e] \in Values
  BY DEF Pairs
<1>1. e \in Fields
  BY DEF Fields
<1> QED
  BY <1>1 DEF Doc

LEMMA BlankType == Blank \in Doc /\ NoForm \in Form /\ NoMemory \in Memory
<1>1. Blank \in Doc
  BY DEF Blank, Doc
<1>2. NoForm \in Form
  BY <1>1 DEF NoForm, Form
<1>3. NoMemory \in Memory
  BY <1>1 DEF NoMemory, Memory
<1> QED
  BY <1>1, <1>2, <1>3

LEMMA LoadedType ==
  ASSUME TypeOK, NEW base \in Nat, NEW was \in Doc
  PROVE  /\ Loaded(base, was) \in Memory
         /\ Loaded(base, was).head \in 0..Len(revs)
         /\ Loaded(base, was).reviewed \in 0..Len(revs)
<1>1. HeadDoc \in Doc /\ Len(revs) \in Nat /\ head \in 1..Len(revs)
  BY HeadDocType DEF TypeOK
<1>2. reviewed \in 0..Len(revs) /\ published \in BOOLEAN
  BY DEF TypeOK
<1> QED
  BY <1>1, <1>2 DEF Loaded, Memory

LEMMA NewestType ==
  ASSUME TypeOK, NEW doc, WithDigest(doc) # {}
  PROVE  /\ Newest(WithDigest(doc)) \in 1..Len(revs)
         /\ revs[Newest(WithDigest(doc))].doc = doc
<1>1. WithDigest(doc) \in SUBSET (1..Len(revs)) /\ Len(revs) \in Nat
  BY HeadDocType DEF WithDigest
<1>2. Newest(WithDigest(doc)) \in WithDigest(doc)
  BY <1>1, NewestIsOne
<1> QED
  BY <1>1, <1>2 DEF WithDigest

LEMMA OverlayTypes ==
  ASSUME TypeInv, NEW u \in Users
  PROVE  Merged(u) \in Doc /\ WithEntries(u) \in Doc
<1>1. /\ form[u].mine \in Doc /\ mem[u].doc \in Doc /\ mem[u].was \in Doc
  BY DEF TypeInv, TypeOK, Form, Memory
<1>2. DOMAIN Unit = Fields
  BY DEF Unit
<1>3. MergeDocs(Unit, mem[u].was, form[u].mine, mem[u].doc) \in Doc
  BY <1>1, <1>2 DEF MergeDocs, MergedAt, Doc
<1>4. Merged(u) \in Doc
  BY <1>1, <1>3 DEF Merged
<1>5. WithEntries(u) \in Doc
  BY <1>1 DEF WithEntries, Doc
<1> QED
  BY <1>4, <1>5

\* What every way of ending a request leaves.
LEMMA FinishTyped ==
  ASSUME TypeInv, NEW u \in Users, Finish(u),
         revs' \in Seq(Revision), Len(revs') >= Len(revs)
  PROVE  /\ pc' \in [Users -> Pages \union Serving]
         /\ form' \in [Users -> Form]
         /\ mem' \in [Users -> Memory]
         /\ LoadedExists'
<1>1. pc' \in [Users -> Pages \union Serving]
  BY DEF Finish, Goto, TypeInv, TypeOK, Pages
<1>2. form' \in [Users -> Form] /\ mem' \in [Users -> Memory]
  BY BlankType DEF Finish, TypeInv, TypeOK
<1>3. Len(revs) \in Nat /\ Len(revs') \in Nat
  BY DEF TypeInv, TypeOK
<1>4. LoadedExists'
  BY <1>3 DEF Finish, TypeInv, TypeOK, LoadedExists, NoMemory, Memory
<1> QED
  BY <1>1, <1>2, <1>4

LEMMA WriteTyped ==
  ASSUME TypeInv, NEW u \in Users, NEW doc \in Doc, NEW parent \in Nat,
         NEW base \in Nat, NEW run \in Runs \union {None},
         WriteRevision(u, doc, parent, base, run)
  PROVE  /\ revs' \in Seq(Revision)
         /\ Len(revs') = Len(revs) + 1
         /\ head' = Len(revs')
         /\ head' \in 1..Len(revs')
         /\ revs'[head'].doc = doc
         /\ \A i \in 1..Len(revs) : revs'[i] = revs[i]
<1> DEFINE r == [doc |-> doc, parent |-> parent, base |-> base,
                 author |-> u, run |-> run]
<1>1. r \in Revision
  BY DEF Revision
<1>2. revs' = Append(revs, r) /\ head' = Len(revs) + 1
  BY DEF WriteRevision
<1>3. revs \in Seq(Revision) /\ Len(revs) \in Nat
  BY DEF TypeInv, TypeOK
<1> HIDE DEF r
<1>4. /\ revs' \in Seq(Revision)
      /\ Len(revs') = Len(revs) + 1
      /\ \A i \in 1..Len(revs) : revs'[i] = revs[i]
      /\ revs'[Len(revs) + 1] = r
  BY <1>1, <1>2, <1>3
<1>5. r.doc = doc
  BY DEF r
<1> QED
  BY <1>2, <1>3, <1>4, <1>5

\* A step that leaves the table, the lock and the marks alone keeps the types
\* when it keeps those of the page and of the request.
LEMMA QuietTyped ==
  ASSUME TypeInv, UNCHANGED <<table, lock, vouched>>,
         pc' \in [Users -> Pages \union Serving],
         form' \in [Users -> Form], mem' \in [Users -> Memory],
         LoadedExists'
  PROVE  TypeInv'
BY DEF TypeInv, TypeOK, table

LEMMA FinishQuietTyped ==
  ASSUME TypeInv, NEW u \in Users, Finish(u),
         UNCHANGED <<table, vouched>>, lock' \in Users \union {None}
  PROVE  TypeInv'
<1>1. revs' = revs /\ revs \in Seq(Revision) /\ Len(revs) \in Nat
  BY DEF TypeInv, TypeOK, table
<1>2. /\ pc' \in [Users -> Pages \union Serving]
      /\ form' \in [Users -> Form]
      /\ mem' \in [Users -> Memory]
      /\ LoadedExists'
  BY <1>1, FinishTyped
<1> QED
  BY <1>2 DEF TypeInv, TypeOK, table

\* A request that loads the row, whatever it takes as its base.
LEMMA LoadTyped ==
  ASSUME TypeInv, NEW u \in Users, NEW base \in Nat, NEW was \in Doc,
         mem' = [mem EXCEPT ![u] = Loaded(base, was)], revs' = revs
  PROVE  mem' \in [Users -> Memory] /\ LoadedExists'
<1>1. /\ Loaded(base, was) \in Memory
      /\ Loaded(base, was).head \in 0..Len(revs)
      /\ Loaded(base, was).reviewed \in 0..Len(revs)
  BY LoadedType DEF TypeInv
<1> QED
  BY <1>1 DEF TypeInv, TypeOK, LoadedExists

LEMMA GotoTyped ==
  ASSUME TypeInv, NEW u \in Users, NEW phase \in Pages \union Serving,
         Goto(u, phase)
  PROVE  pc' \in [Users -> Pages \union Serving]
BY DEF TypeInv, TypeOK, Goto

LEMMA OpenPageTyped ==
  ASSUME TypeInv, NEW u \in Users, NEW kind \in Surfaces, OpenPage(u, kind)
  PROVE  TypeInv'
<1>1. kind \in {"source", "metadata", "entries", "api"}
  BY ConstantsOK
<1>2. HeadDoc \in Doc
  BY HeadDocType DEF TypeInv
<1>3. [kind |-> kind, digest |-> HeadDoc, mine |-> HeadDoc, touched |-> {}]
      \in Form
  BY <1>1, <1>2 DEF Form
<1>4. form' \in [Users -> Form]
  BY <1>3 DEF OpenPage, TypeInv, TypeOK
<1>5. pc' \in [Users -> Pages \union Serving]
  BY GotoTyped DEF OpenPage, Pages
<1>6. mem' = mem /\ revs' = revs
  BY DEF OpenPage, table
<1>7. mem' \in [Users -> Memory] /\ LoadedExists'
  BY <1>6 DEF TypeInv, TypeOK, LoadedExists
<1> QED
  BY <1>4, <1>5, <1>7, QuietTyped DEF OpenPage

LEMMA PostSourceTyped ==
  ASSUME TypeInv, NEW u \in Users, PostSource(u)
  PROVE  TypeInv'
<1>1. PICK doc \in Edits(form[u].mine) :
        form' = [form EXCEPT
                  ![u].mine = doc,
                  ![u].touched = @ \union Touching(form[u].mine, doc)]
  BY DEF PostSource
<1>2. doc \in Doc /\ Touching(form[u].mine, doc) \subseteq Fields
  BY DEF Edits, Touching
<1>3. form' \in [Users -> Form]
  BY <1>1, <1>2 DEF TypeInv, TypeOK, Form
<1>4. form[u].digest \in Doc /\ HeadDoc \in Doc /\ head \in Nat
  BY HeadDocType DEF TypeInv, TypeOK, Form
<1>5. revs' = revs
  BY DEF PostSource, table
<1>6. mem' \in [Users -> Memory] /\ LoadedExists'
  <2>1. CASE WithDigest(form[u].digest) # {}
    <3>1. Newest(WithDigest(form[u].digest)) \in Nat
      BY <2>1, NewestType, HeadDocType DEF TypeInv
    <3> QED
      BY <2>1, <3>1, <1>4, <1>5, LoadTyped DEF PostSource
  <2>2. CASE WithDigest(form[u].digest) = {}
    BY <2>2, <1>4, <1>5, LoadTyped DEF PostSource
  <2> QED
    BY <2>1, <2>2
<1>7. pc' \in [Users -> Pages \union Serving]
  BY GotoTyped DEF PostSource, Serving
<1> QED
  BY <1>3, <1>6, <1>7, QuietTyped DEF PostSource

LEMMA PostFormTyped ==
  ASSUME TypeInv, NEW u \in Users, PostForm(u)
  PROVE  TypeInv'
<1> DEFINE page == form[u].digest
           named == WithDigest(page)
           was == IF named # {} THEN page ELSE HeadDoc
           base == IF named # {} THEN Newest(named) ELSE head
<1>1. page \in Doc /\ HeadDoc \in Doc /\ head \in Nat
  BY HeadDocType DEF TypeInv, TypeOK, Form
<1>2. was \in Doc
  BY <1>1
<1>3. base \in Nat
  BY <1>1, NewestType, HeadDocType DEF TypeInv
<1>4. mem' = [mem EXCEPT ![u] = Loaded(base, was)] /\ revs' = revs
  BY DEF PostForm, table
<1>5. PICK doc \in Edits(page) :
        form' = [form EXCEPT
                   ![u].mine = [f \in Fields |->
                      IF f \in Shown(form[u].kind, page, doc)
                      THEN doc[f] ELSE was[f]],
                   ![u].touched = Touching(page, doc)]
  BY DEF PostForm
<1> HIDE DEF page, named, was, base
<1>6. doc \in Doc /\ Touching(page, doc) \subseteq Fields
  BY DEF Edits, Touching
<1>7. [f \in Fields |-> IF f \in Shown(form[u].kind, page, doc)
                        THEN doc[f] ELSE was[f]] \in Doc
  BY <1>2, <1>6 DEF Doc
<1>8. form' \in [Users -> Form]
  BY <1>5, <1>6, <1>7 DEF TypeInv, TypeOK, Form
<1>9. mem' \in [Users -> Memory] /\ LoadedExists'
  BY <1>2, <1>3, <1>4, LoadTyped
<1>10. pc' \in [Users -> Pages \union Serving]
  BY GotoTyped DEF PostForm, Serving
<1> QED
  BY <1>8, <1>9, <1>10, QuietTyped DEF PostForm

LEMMA PutDocumentTyped ==
  ASSUME TypeInv, NEW u \in Users, PutDocument(u)
  PROVE  TypeInv'
<1>1. CASE WithDigest(form[u].digest) = {}
  BY <1>1, FinishQuietTyped DEF PutDocument, TypeInv, TypeOK
<1>2. CASE WithDigest(form[u].digest) # {}
  <2>1. form[u].digest \in Doc /\ Newest(WithDigest(form[u].digest)) \in Nat
    BY <1>2, NewestType, HeadDocType DEF TypeInv, TypeOK, Form
  <2>2. mem' \in [Users -> Memory] /\ LoadedExists'
    BY <1>2, <2>1, LoadTyped DEF PutDocument, table
  <2>3. PICK doc \in Edits(form[u].mine) :
          form' = [form EXCEPT ![u].mine = doc,
                               ![u].touched = Touching(form[u].mine, doc)]
    BY <1>2 DEF PutDocument
  <2>4. doc \in Doc /\ Touching(form[u].mine, doc) \subseteq Fields
    BY DEF Edits, Touching
  <2>5. form' \in [Users -> Form]
    BY <2>3, <2>4 DEF TypeInv, TypeOK, Form
  <2>6. pc' \in [Users -> Pages \union Serving]
    BY <1>2, GotoTyped DEF PutDocument, Serving
  <2> QED
    BY <2>2, <2>5, <2>6, QuietTyped DEF PutDocument
<1> QED
  BY <1>1, <1>2

LEMMA PutUnnamedTyped ==
  ASSUME TypeInv, NEW u \in Users, PutUnnamed(u)
  PROVE  TypeInv'
<1>1. HeadDoc \in Doc /\ head \in Nat
  BY HeadDocType DEF TypeInv
<1>2. mem' \in [Users -> Memory] /\ LoadedExists'
  BY <1>1, LoadTyped DEF PutUnnamed, table
<1>3. PICK doc \in Edits(form[u].mine) :
        form' = [form EXCEPT ![u] = [kind |-> "unnamed", digest |-> HeadDoc,
                                     mine |-> doc, touched |-> Fields]]
  BY DEF PutUnnamed
<1>4. [kind |-> "unnamed", digest |-> HeadDoc, mine |-> doc,
       touched |-> Fields] \in Form
  BY <1>1, <1>3 DEF Form, Edits
<1>5. form' \in [Users -> Form]
  BY <1>3, <1>4 DEF TypeInv, TypeOK
<1>6. pc' \in [Users -> Pages \union Serving]
  BY GotoTyped DEF PutUnnamed, Serving
<1> QED
  BY <1>2, <1>5, <1>6, QuietTyped DEF PutUnnamed

LEMMA PostRestoreTyped ==
  ASSUME TypeInv, NEW u \in Users, NEW i \in 1..Len(revs), PostRestore(u, i)
  PROVE  TypeInv'
<1>1. HeadDoc \in Doc /\ head \in Nat
  BY HeadDocType DEF TypeInv
<1>2. revs[i] \in Revision
  BY DEF TypeInv, TypeOK
<1>3. revs[i].doc \in Doc
  BY <1>2 DEF Revision
<1>4. mem' \in [Users -> Memory] /\ LoadedExists'
  BY <1>1, LoadTyped DEF PostRestore, table
<1>5. [kind |-> "restore", digest |-> HeadDoc, mine |-> revs[i].doc,
       touched |-> Fields] \in Form
  BY <1>1, <1>3 DEF Form
<1>6. form' \in [Users -> Form]
  BY <1>5 DEF PostRestore, TypeInv, TypeOK
<1>7. pc' \in [Users -> Pages \union Serving]
  BY GotoTyped DEF PostRestore, Serving
<1> QED
  BY <1>4, <1>6, <1>7, QuietTyped DEF PostRestore

LEMMA RefuseTyped ==
  ASSUME TypeInv, NEW u \in Users, NEW digest \in Doc, Refuse(u, digest)
  PROVE  TypeInv'
<1>1. CASE form[u].kind # "source"
  BY <1>1, FinishQuietTyped DEF Refuse, TypeInv, TypeOK
<1>2. CASE form[u].kind = "source"
  <2>0. form' = [form EXCEPT ![u].digest = digest] /\ form \in [Users -> Form]
    BY <1>2 DEF Refuse, TypeInv, TypeOK
  <2>1. form' \in [Users -> Form]
    BY <2>0 DEF Form
  <2>2. revs' = revs /\ mem' = [mem EXCEPT ![u] = NoMemory]
    BY <1>2 DEF Refuse, table
  <2>3. Len(revs) \in Nat
    BY DEF TypeInv, TypeOK
  <2>4. mem' \in [Users -> Memory] /\ LoadedExists'
    BY <2>2, <2>3, BlankType DEF TypeInv, TypeOK, LoadedExists, NoMemory
  <2>5. pc' \in [Users -> Pages \union Serving]
    BY <1>2, GotoTyped DEF Refuse, Pages
  <2> QED
    BY <2>1, <2>4, <2>5, QuietTyped DEF Refuse
<1> QED
  BY <1>1, <1>2

\* The end of a request that committed, or had nothing to commit.
LEMMA SettleTyped ==
  ASSUME TypeInv, NEW u \in Users, NEW at \in 0..Len(revs'), Settle(u, at),
         revs' \in Seq(Revision), Len(revs') >= Len(revs)
  PROVE  /\ pc' \in [Users -> Pages \union Serving]
         /\ form' \in [Users -> Form]
         /\ mem' \in [Users -> Memory]
         /\ LoadedExists'
<1>1. CASE ~AutoMarks(u)
  BY <1>1, FinishTyped DEF Settle
<1>2. CASE AutoMarks(u)
  <2>1. pc' \in [Users -> Pages \union Serving]
    BY <1>2, GotoTyped DEF Settle, Serving
  <2>2. form' = form /\ mem' = [mem EXCEPT ![u].head = at]
    BY <1>2 DEF Settle
  <2>3. Len(revs) \in Nat /\ Len(revs') \in Nat
    BY DEF TypeInv, TypeOK
  <2>4. mem \in [Users -> Memory] /\ at \in Nat /\ at <= Len(revs')
    BY <2>3 DEF TypeInv, TypeOK
  <2>5. mem' \in [Users -> Memory]
    BY <2>2, <2>4 DEF Memory
  <2>6. LoadedExists'
    <3> SUFFICES ASSUME NEW v \in Users
                 PROVE  /\ mem'[v].head \in 0..Len(revs')
                        /\ mem'[v].reviewed \in 0..Len(revs')
      BY DEF LoadedExists
    <3>1. /\ mem[v].head \in 0..Len(revs)
          /\ mem[v].reviewed \in 0..Len(revs)
      BY DEF TypeInv, LoadedExists
    <3>2. /\ mem'[v].reviewed = mem[v].reviewed
          /\ mem'[v].head = IF v = u THEN at ELSE mem[v].head
      BY <2>2, <2>4 DEF Memory
    <3> QED
      BY <3>1, <3>2, <2>3, <2>4
  <2> QED
    BY <2>1, <2>2, <2>5, <2>6 DEF TypeInv, TypeOK
<1> QED
  BY <1>1, <1>2

LEMMA SaveNothingTyped ==
  ASSUME TypeInv, NEW u \in Users, SaveNothing(u)
  PROVE  TypeInv'
<1>1. revs' = revs /\ revs \in Seq(Revision) /\ Len(revs) \in Nat
  BY DEF SaveNothing, table, TypeInv, TypeOK
<1>2. mem[u].head \in 0..Len(revs')
  BY <1>1 DEF TypeInv, LoadedExists
<1>3. Settle(u, mem[u].head)
  BY DEF SaveNothing
<1> QED
  BY <1>1, <1>2, <1>3, SettleTyped, QuietTyped DEF SaveNothing

LEMMA ReviewedRowsType ==
  ASSUME NEW at, NEW current, NEW history
  PROVE  ReviewedRows(at, current, history) \subseteq Entries
BY DEF ReviewedRows

LEMMA SaveRevisionTyped ==
  ASSUME TypeInv, NEW u \in Users, SaveRevision(u)
  PROVE  TypeInv'
<1>1. Merged(u) \in Doc /\ mem[u].head \in Nat /\ mem[u].base \in Nat
  BY OverlayTypes DEF TypeInv, TypeOK, Memory
<1>2. WriteRevision(u, Merged(u), mem[u].head, mem[u].base, None)
  BY DEF SaveRevision
<1>3. /\ revs' \in Seq(Revision)
      /\ Len(revs') = Len(revs) + 1
      /\ head' \in 1..Len(revs')
  BY <1>1, <1>2, WriteTyped
<1>4. Len(revs) \in Nat /\ Len(revs') \in Nat
  BY <1>3 DEF TypeInv, TypeOK
<1>5. /\ pc' \in [Users -> Pages \union Serving]
      /\ form' \in [Users -> Form]
      /\ mem' \in [Users -> Memory]
      /\ LoadedExists'
  BY <1>3, <1>4, SettleTyped DEF SaveRevision
<1>6. flagged' \in SUBSET Entries
  BY ReviewedRowsType DEF SaveRevision, Rebuilt
<1>7. reviewed' \in 0..Len(revs')
  BY <1>3, <1>4 DEF SaveRevision, TypeInv, TypeOK
<1> QED
  BY <1>3, <1>5, <1>6, <1>7 DEF SaveRevision, TypeInv, TypeOK

LEMMA RefreshTyped ==
  ASSUME TypeInv, NEW u \in Users, Refresh(u)
  PROVE  TypeInv'
<1>1. /\ mem \in [Users -> Memory] /\ mem' = [mem EXCEPT ![u].head = head]
      /\ revs' = revs /\ form' = form
  BY DEF Refresh, TypeInv, TypeOK, table
<1>2. head \in 0..Len(revs) /\ head \in Nat
  BY HeadDocType DEF TypeInv, TypeOK
<1>3. mem' \in [Users -> Memory]
  BY <1>1, <1>2 DEF Memory
<1>4. LoadedExists'
  BY <1>1, <1>2 DEF TypeInv, LoadedExists, Memory
<1>5. pc' \in [Users -> Pages \union Serving]
  BY GotoTyped DEF Refresh, Serving
<1> QED
  BY <1>1, <1>3, <1>4, <1>5, QuietTyped DEF Refresh, TypeInv, TypeOK

LEMMA MarkTyped ==
  ASSUME TypeInv, NEW u \in Users, Mark(u)
  PROVE  TypeInv'
<1>1. form[u].mine \in Doc
  BY DEF TypeInv, TypeOK, Form
<1>2. Submitted(u) \subseteq Entries \X Values
  BY <1>1, PairsType DEF Submitted
<1>3. vouched' \in SUBSET (Entries \X Values)
  BY <1>2 DEF Mark, TypeInv, TypeOK
<1>4. reviewed' \in 0..Len(revs')
  BY DEF Mark, TypeInv, LoadedExists
<1>5. pc' \in [Users -> Pages \union Serving]
  BY GotoTyped DEF Mark, Serving
<1> QED
  BY <1>3, <1>4, <1>5 DEF Mark, TypeInv, TypeOK, LoadedExists

LEMMA SyncTyped ==
  ASSUME TypeInv, NEW u \in Users, Sync(u)
  PROVE  TypeInv'
<1>1. revs' = revs /\ revs \in Seq(Revision) /\ Len(revs) \in Nat
  BY DEF Sync, TypeInv, TypeOK
<1>2. /\ pc' \in [Users -> Pages \union Serving]
      /\ form' \in [Users -> Form]
      /\ mem' \in [Users -> Memory]
      /\ LoadedExists'
  BY <1>1, FinishTyped DEF Sync
<1> QED
  BY <1>2 DEF Sync, TypeInv, TypeOK

LEMMA OpenReviewTyped ==
  ASSUME TypeInv, NEW u \in Users, OpenReview(u)
  PROVE  TypeInv'
<1>1. HeadDoc \in Doc
  BY HeadDocType DEF TypeInv
<1>2. [NoForm EXCEPT !.kind = "review", !.digest = HeadDoc] \in Form
  BY <1>1, BlankType DEF NoForm, Form
<1>3. form' \in [Users -> Form]
  BY <1>2 DEF OpenReview, TypeInv, TypeOK
<1>4. pc' \in [Users -> Pages \union Serving]
  BY GotoTyped DEF OpenReview, Pages
<1>5. mem' = mem /\ revs' = revs
  BY DEF OpenReview, table
<1> QED
  BY <1>3, <1>4, <1>5, QuietTyped
     DEF OpenReview, TypeInv, TypeOK, LoadedExists

LEMMA ConfirmLoadTyped ==
  ASSUME TypeInv, NEW u \in Users, ConfirmLoad(u)
  PROVE  TypeInv'
<1>1. CASE form[u].digest # HeadDoc
  BY <1>1, FinishQuietTyped DEF ConfirmLoad, TypeInv, TypeOK
<1>2. CASE form[u].digest = HeadDoc
  <2>1. HeadDoc \in Doc /\ head \in Nat
    BY HeadDocType DEF TypeInv
  <2>2. mem' \in [Users -> Memory] /\ LoadedExists'
    BY <1>2, <2>1, LoadTyped DEF ConfirmLoad, table
  <2>3. pc' \in [Users -> Pages \union Serving]
    BY <1>2, GotoTyped DEF ConfirmLoad, Serving
  <2> QED
    BY <1>2, <2>2, <2>3, QuietTyped DEF ConfirmLoad, TypeInv, TypeOK
<1> QED
  BY <1>1, <1>2

LEMMA ConfirmMarkTyped ==
  ASSUME TypeInv, NEW u \in Users, ConfirmMark(u)
  PROVE  TypeInv'
<1>1. form[u].digest \in Doc
  BY DEF TypeInv, TypeOK, Form
<1>2. vouched' \in SUBSET (Entries \X Values)
  BY <1>1, PairsType DEF ConfirmMark, TypeInv, TypeOK
<1>3. reviewed' \in 0..Len(revs')
  BY DEF ConfirmMark, TypeInv, LoadedExists
<1>4. pc' \in [Users -> Pages \union Serving]
  BY GotoTyped DEF ConfirmMark, Serving
<1> QED
  BY <1>2, <1>3, <1>4 DEF ConfirmMark, TypeInv, TypeOK, LoadedExists

LEMMA PublishTyped ==
  ASSUME TypeInv, NEW u \in Users, Publish(u)
  PROVE  TypeInv'
<1>1. revs' = revs /\ revs \in Seq(Revision) /\ Len(revs) \in Nat
  BY DEF Publish, TypeInv, TypeOK
<1>2. CASE HasEntries(mem[u].doc)
  <2>1. pc' \in [Users -> Pages \union Serving]
    BY <1>2, GotoTyped DEF Publish, Serving
  <2> QED
    BY <1>2, <2>1 DEF Publish, TypeInv, TypeOK, LoadedExists
<1>3. CASE ~HasEntries(mem[u].doc)
  <2>1. /\ pc' \in [Users -> Pages \union Serving]
        /\ form' \in [Users -> Form]
        /\ mem' \in [Users -> Memory]
        /\ LoadedExists'
    BY <1>1, <1>3, FinishTyped DEF Publish
  <2> QED
    BY <1>3, <2>1 DEF Publish, TypeInv, TypeOK
<1> QED
  BY <1>2, <1>3

LEMMA OfferDraftTyped ==
  ASSUME TypeInv, NEW u \in Users, NEW wanted \in BOOLEAN,
         OfferDraft(u, wanted)
  PROVE  TypeInv'
BY DEF OfferDraft, TypeInv, TypeOK, LoadedExists

LEMMA SendTyped ==
  ASSUME TypeInv, NEW u \in Users, NEW mode \in Modes,
         NEW sent \in Payloads, Send(u, mode, sent)
  PROVE  TypeInv'
<1> DEFINE named == {e \in Entries : sent[e] # Absent}
           r == [kind |-> mode, digest |-> Blank,
                 mine |-> [f \in Fields |->
                             IF f \in Entries THEN sent[f] ELSE Absent],
                 touched |-> IF mode = "replace" THEN Entries ELSE named]
<1>1. r.mine \in Doc
  BY DEF Payloads, Doc
<1>2. r \in Form
  <2>1. mode \in {"upsert", "mapping", "replace"}
    BY ConstantsOK
  <2>2. r.touched \in SUBSET Fields
    BY DEF Fields
  <2> QED
    BY <1>1, <2>1, <2>2, BlankType DEF Form
<1>3. form' = [form EXCEPT ![u] = r]
  BY DEF Send
<1> HIDE DEF r
<1>4. form' \in [Users -> Form]
  BY <1>2, <1>3 DEF TypeInv, TypeOK
<1>5. pc' \in [Users -> Pages \union Serving]
  BY GotoTyped DEF Send, Serving
<1>6. mem' = mem /\ revs' = revs
  BY DEF Send, table
<1> QED
  BY <1>4, <1>5, <1>6, QuietTyped DEF Send, TypeInv, TypeOK, LoadedExists

LEMMA TakeLockTyped ==
  ASSUME TypeInv, NEW u \in Users, TakeLock(u)
  PROVE  TypeInv'
<1>1. HeadDoc \in Doc /\ head \in Nat
  BY HeadDocType DEF TypeInv
<1>2. mem' \in [Users -> Memory] /\ LoadedExists'
  BY <1>1, LoadTyped DEF TakeLock, table
<1>3. pc' \in [Users -> Pages \union Serving]
  BY GotoTyped DEF TakeLock, Serving
<1> QED
  BY <1>2, <1>3 DEF TakeLock, TypeInv, TypeOK, table

LEMMA WriteEntriesTyped ==
  ASSUME TypeInv, NEW u \in Users, NEW run \in Runs \union {None},
         WriteEntries(u, run)
  PROVE  TypeInv'
<1>1. WithEntries(u) \in Doc /\ mem[u].head \in Nat
  BY OverlayTypes DEF TypeInv, TypeOK, Memory
<1>2. revs \in Seq(Revision) /\ Len(revs) \in Nat /\ head \in 1..Len(revs)
  BY DEF TypeInv, TypeOK
<1>3. /\ revs' \in Seq(Revision)
      /\ Len(revs') >= Len(revs)
      /\ head' \in 1..Len(revs')
  <2>1. CASE WithEntries(u) = mem[u].doc
    BY <2>1, <1>2 DEF WriteEntries
  <2>2. CASE WithEntries(u) # mem[u].doc /\ Amends(u, run)
    <3>1. /\ revs' = [revs EXCEPT ![mem[u].head].doc = WithEntries(u)]
          /\ head' = head
      BY <2>2 DEF WriteEntries
    <3> DEFINE n == Len(revs)
               k == mem[u].head
               grown == [revs[k] EXCEPT !.doc = WithEntries(u)]
    <3>2. ASSUME k \in 1..n PROVE grown \in Revision
      <4>1. revs[k] \in Revision
        BY <1>2, <3>2
      <4> QED
        BY <1>1, <4>1 DEF Revision
    <3>3. revs' = [revs EXCEPT ![k] = grown]
      BY <3>1
    <3> HIDE DEF grown, k
    <3>4. revs' \in [1..n -> Revision]
      <4>1. revs \in [1..n -> Revision]
        BY <1>2
      <4> QED
        BY <3>2, <3>3, <4>1
    <3>5. revs' \in Seq(Revision) /\ Len(revs') = n
      BY <3>4, <1>2
    <3> QED
      BY <3>1, <3>5, <1>2
  <2>3. CASE WithEntries(u) # mem[u].doc /\ ~Amends(u, run)
    <3>1. WriteRevision(u, WithEntries(u), mem[u].head, mem[u].head, run)
      BY <2>3 DEF WriteEntries
    <3> QED
      BY <3>1, <1>1, <1>2, WriteTyped
  <2> QED
    BY <2>1, <2>2, <2>3
<1>4. /\ pc' \in [Users -> Pages \union Serving]
      /\ form' \in [Users -> Form]
      /\ mem' \in [Users -> Memory]
      /\ LoadedExists'
  BY <1>3, FinishTyped DEF WriteEntries
<1>5. form[u].mine \in Doc
  BY DEF TypeInv, TypeOK, Form
<1>6. Submitted(u) \subseteq Entries \X Values
  BY <1>5, PairsType DEF Submitted
<1>7. /\ reviewed' \in 0..Len(revs')
      /\ flagged' \in SUBSET Entries
      /\ vouched' \in SUBSET (Entries \X Values)
  <2>1. CASE mem[u].published /\ u \in Standing
    BY <2>1, <1>3, <1>6 DEF WriteEntries, TypeInv, TypeOK
  <2>2. CASE ~(mem[u].published /\ u \in Standing)
    <3>1. flagged' \in SUBSET Entries /\ vouched' = vouched
      BY <2>2, ReviewedRowsType DEF WriteEntries, Rebuilt, TypeInv, TypeOK
    <3>2. reviewed' = reviewed /\ reviewed \in 0..Len(revs)
      BY <2>2 DEF WriteEntries, TypeInv, TypeOK
    <3>3. Len(revs') \in Nat
      BY <1>3
    <3> QED
      BY <3>1, <3>2, <3>3, <1>2, <1>3 DEF TypeInv, TypeOK
  <2> QED
    BY <2>1, <2>2
<1> QED
  BY <1>3, <1>4, <1>7 DEF WriteEntries, TypeInv, TypeOK

LEMMA InitTyped == Init => TypeInv
<1> SUFFICES ASSUME Init PROVE TypeInv
  OBVIOUS
<1>1. PICK first \in Doc, public \in BOOLEAN :
        /\ revs = <<[doc |-> first, parent |-> 0, base |-> 0,
                     author |-> Author, run |-> None]>>
        /\ published = public
        /\ reviewed = (IF public /\ Author \in Standing THEN 1 ELSE 0)
        /\ vouched = (IF public /\ Author \in Standing
                      THEN Pairs(first) ELSE {})
  BY DEF Init
<1>2. [doc |-> first, parent |-> 0, base |-> 0, author |-> Author,
       run |-> None] \in Revision
  BY <1>1, ConstantsOK DEF Revision
<1>3. revs \in Seq(Revision) /\ Len(revs) = 1
  BY <1>1, <1>2
<1>4. vouched \in SUBSET (Entries \X Values)
  BY <1>1, PairsType
<1>5. flagged \in SUBSET Entries
  BY ReviewedRowsType DEF Init
<1>6. /\ pc \in [Users -> Pages \union Serving]
      /\ form \in [Users -> Form]
      /\ mem \in [Users -> Memory]
  BY BlankType DEF Init, Pages
<1>7. LoadedExists
  BY <1>3 DEF Init, LoadedExists, NoMemory
<1>8. reviewed \in 0..Len(revs) /\ head \in 1..Len(revs)
  BY <1>1, <1>3 DEF Init
<1>9. published \in BOOLEAN /\ ready \in BOOLEAN
  BY <1>1 DEF Init
<1> QED
  BY <1>3, <1>4, <1>5, <1>6, <1>7, <1>8, <1>9 DEF Init, TypeInv, TypeOK

LEMMA NextTyped ==
  ASSUME TypeInv, [Next]_vars
  PROVE  TypeInv'
<1>1. CASE UNCHANGED vars
  BY <1>1 DEF vars, table, TypeInv, TypeOK, LoadedExists
<1>2. ASSUME NEW u \in Users, Step(u)
      PROVE  TypeInv'
  <2>1. ASSUME ClosePage(u) \/ GiveUp(u) PROVE TypeInv'
    BY <2>1, FinishQuietTyped DEF ClosePage, GiveUp, TypeInv, TypeOK
  <2>2. ASSUME Crash(u) PROVE TypeInv'
    BY <2>2, FinishQuietTyped DEF Crash, TypeInv, TypeOK
  <2>3. ASSUME RefuseParameters(u) \/ RefuseStale(u) PROVE TypeInv'
    <3>1. mem[u].was \in Doc /\ mem[u].doc \in Doc
      BY DEF TypeInv, TypeOK, Memory
    <3> QED
      BY <2>3, <3>1, RefuseTyped DEF RefuseParameters, RefuseStale
  <2> QED
    BY <1>2, <2>1, <2>2, <2>3, OpenPageTyped, PostSourceTyped, PostFormTyped,
       PutDocumentTyped, PutUnnamedTyped, PostRestoreTyped,
       SaveNothingTyped, SaveRevisionTyped, RefreshTyped, MarkTyped,
       SyncTyped, OpenReviewTyped, ConfirmLoadTyped, ConfirmMarkTyped,
       PublishTyped, OfferDraftTyped, SendTyped, TakeLockTyped,
       WriteEntriesTyped DEF Step
<1> QED
  BY <1>1, <1>2 DEF Next

\* Every variable keeps its type, whatever the constants.
THEOREM TypeCorrect == Spec => []TypeOK
<1>1. Init => TypeInv
  BY InitTyped
<1>2. TypeInv /\ [Next]_vars => TypeInv'
  BY NextTyped
<1>3. TypeInv => TypeOK
  BY DEF TypeInv
<1> QED
  BY <1>1, <1>2, <1>3, PTL DEF Spec
------------------------------------------------------------------------------
(* What any step may do.                                                   *)

\* A request changes nobody's page or request but its own.
LEMMA StepIsOwn ==
  ASSUME TypeInv, NEW u \in Users, Step(u), NEW v \in Users, v # u
  PROVE  pc'[v] = pc[v] /\ form'[v] = form[v] /\ mem'[v] = mem[v]
<1> USE DEF TypeInv, TypeOK
<1>1. ASSUME Finish(u) PROVE pc'[v] = pc[v] /\ form'[v] = form[v] /\ mem'[v] = mem[v]
  BY <1>1 DEF Finish, Goto
<1>2. ASSUME NEW at, Settle(u, at)
      PROVE  pc'[v] = pc[v] /\ form'[v] = form[v] /\ mem'[v] = mem[v]
  BY <1>1, <1>2 DEF Settle, Goto
<1>3. ASSUME NEW digest, Refuse(u, digest)
      PROVE  pc'[v] = pc[v] /\ form'[v] = form[v] /\ mem'[v] = mem[v]
  BY <1>1, <1>3 DEF Refuse, Goto
<1>4. CASE \/ \E kind \in Surfaces : OpenPage(u, kind)
           \/ \E i \in 1..Len(revs) : PostRestore(u, i)
           \/ \E mode \in Modes, sent \in Payloads :
                Send(u, mode, sent)
           \/ OpenReview(u)
  BY <1>4 DEF OpenPage, PostRestore, Send, OpenReview, Goto
<1>5. CASE PostSource(u) \/ PostForm(u) \/ PutUnnamed(u)
  BY <1>5 DEF PostSource, PostForm, PutUnnamed, Goto
<1>6. CASE PutDocument(u) \/ ConfirmLoad(u)
  BY <1>1, <1>6 DEF PutDocument, ConfirmLoad, Goto
<1>7. CASE ClosePage(u) \/ GiveUp(u) \/ Crash(u) \/ Sync(u)
  BY <1>1, <1>7 DEF ClosePage, GiveUp, Crash, Sync
<1>8. CASE RefuseParameters(u) \/ RefuseStale(u)
  BY <1>3, <1>8 DEF RefuseParameters, RefuseStale
<1>9. CASE SaveNothing(u) \/ SaveRevision(u)
  BY <1>2, <1>9 DEF SaveNothing, SaveRevision
<1>10. CASE Refresh(u) \/ Mark(u) \/ ConfirmMark(u) \/ TakeLock(u)
  BY <1>10 DEF Refresh, Mark, ConfirmMark, TakeLock, Goto
<1>11. CASE Publish(u)
  BY <1>1, <1>11 DEF Publish, Goto
<1>12. CASE \E wanted \in BOOLEAN : OfferDraft(u, wanted)
  BY <1>12 DEF OfferDraft
<1>13. CASE \E run \in Runs \union {None} : WriteEntries(u, run)
  BY <1>1, <1>13 DEF WriteEntries
<1> QED
  BY <1>4, <1>5, <1>6, <1>7, <1>8, <1>9, <1>10, <1>11, <1>12, <1>13 DEF Step

\* Only a save and a submission write the history.
LEMMA WhoWrites ==
  ASSUME NEW u \in Users, Step(u)
  PROVE  \/ revs' = revs /\ head' = head
         \/ SaveRevision(u)
         \/ \E run \in Runs \union {None} : WriteEntries(u, run)
BY DEF Step, OpenPage, ClosePage, PostSource, PostForm, PutDocument,
       PutUnnamed, PostRestore, RefuseParameters, RefuseStale, Refuse,
       SaveNothing, Refresh, Mark, Sync, OpenReview, ConfirmLoad,
       ConfirmMark, Publish, OfferDraft, Send, TakeLock, GiveUp, Crash, table

\* Only a mark, a confirmation and a submission move the reviewed pointer.
LEMMA WhoReviews ==
  ASSUME NEW u \in Users, Step(u)
  PROVE  \/ reviewed' = reviewed /\ vouched' = vouched
         \/ Mark(u) \/ ConfirmMark(u)
         \/ \E run \in Runs \union {None} :
              WriteEntries(u, run) /\ u \in Standing
BY DEF Step, OpenPage, ClosePage, PostSource, PostForm, PutDocument,
       PutUnnamed, PostRestore, RefuseParameters, RefuseStale, Refuse,
       SaveNothing, SaveRevision, Refresh, Sync, OpenReview, ConfirmLoad,
       Publish, OfferDraft, Send, TakeLock, GiveUp, WriteEntries, Crash, table

\* Only these write the search flags and publish.
LEMMA WhoFlags ==
  ASSUME NEW u \in Users, Step(u)
  PROVE  /\ \/ flagged' = flagged
            \/ SaveRevision(u) \/ Sync(u)
            \/ \E run \in Runs \union {None} : WriteEntries(u, run)
         /\ published' = published \/ Publish(u)
<1>1. \/ flagged' = flagged
      \/ SaveRevision(u) \/ Sync(u)
      \/ \E run \in Runs \union {None} : WriteEntries(u, run)
  BY DEF Step, OpenPage, ClosePage, PostSource, PostForm, PutDocument,
         PutUnnamed, PostRestore, RefuseParameters, RefuseStale, Refuse,
         SaveNothing, Refresh, Mark, OpenReview, ConfirmLoad, ConfirmMark,
         Publish, OfferDraft, Send, TakeLock, GiveUp, Crash, table
<1>2. published' = published \/ Publish(u)
  BY DEF Step, OpenPage, ClosePage, PostSource, PostForm, PutDocument,
         PutUnnamed, PostRestore, RefuseParameters, RefuseStale, Refuse,
         SaveNothing, SaveRevision, Refresh, Mark, Sync, OpenReview,
         ConfirmLoad, ConfirmMark, OfferDraft, Send, TakeLock, GiveUp,
         WriteEntries, Crash, table
<1> QED
  BY <1>1, <1>2

\* A submission appends a revision or leaves the history alone when programs
\* name no runs.
LEMMA SubmissionAppends ==
  ASSUME TypeInv, Runs = {}, NEW u \in Users,
         NEW run \in Runs \union {None}, WriteEntries(u, run)
  PROVE  \/ revs' = revs /\ head' = head
         \/ WriteRevision(u, WithEntries(u), mem[u].head, mem[u].head, run)
BY DEF WriteEntries, Amends

\* The history only grows when programs name no runs.
LEMMA HistoryKept ==
  ASSUME TypeInv, Runs = {}, NEW u \in Users, Step(u)
  PROVE  /\ Len(revs') >= Len(revs)
         /\ \A i \in 1..Len(revs) : revs'[i] = revs[i]
<1>1. Len(revs) \in Nat
  BY DEF TypeInv, TypeOK
<1>2. /\ Merged(u) \in Doc /\ WithEntries(u) \in Doc
      /\ mem[u].head \in Nat /\ mem[u].base \in Nat
  BY OverlayTypes DEF TypeInv, TypeOK, Memory
<1>3. CASE revs' = revs
  BY <1>1, <1>3
<1>4. CASE SaveRevision(u)
  <2>1. WriteRevision(u, Merged(u), mem[u].head, mem[u].base, None)
    BY <1>4 DEF SaveRevision
  <2> QED
    BY <1>1, <1>2, <2>1, WriteTyped
<1>5. CASE \E run \in Runs \union {None} : WriteEntries(u, run)
  BY <1>1, <1>2, <1>5, WriteTyped, SubmissionAppends
<1> QED
  BY <1>3, <1>4, <1>5, WhoWrites

LEMMA VouchedGrows ==
  ASSUME NEW u \in Users, Step(u)
  PROVE  vouched \subseteq vouched'
BY WhoReviews DEF Mark, ConfirmMark, WriteEntries
------------------------------------------------------------------------------
(* Review, with any number of workers.                                     *)

\* The accounts that write have no standing of their own, and programs name
\* no runs: every edit waits for a reviewer.
WritersAreReviewed ==
  /\ (Editors \union Programs) \intersect Standing = {}
  /\ Runs = {}

\* Nobody with standing is writing, and a confirmation holds what the
\* reviewer's page showed.
WritersInv ==
  \A u \in Users :
    /\ pc[u] \in {"editing", "saving", "waiting", "locked"}
         => u \notin Standing
    /\ pc[u] \notin {"refreshing", "marking"}

ConfirmingInv ==
  \A u \in Users : pc[u] = "confirming" =>
    /\ mem[u].head \in 1..Len(revs)
    /\ revs[mem[u].head].doc = form[u].digest

ReadInv == TypeInv /\ WritersInv /\ ConfirmingInv /\ ReviewedWasRead

LEMMA InitRead ==
  ASSUME Init
  PROVE  ReadInv
<1>1. TypeInv
  BY InitTyped
<1>2. WritersInv /\ ConfirmingInv
  BY DEF Init, WritersInv, ConfirmingInv
<1>3. ReviewedWasRead
  BY DEF Init, ReviewedWasRead
<1> QED
  BY <1>1, <1>2, <1>3 DEF ReadInv

LEMMA WritersStep ==
  ASSUME TypeInv, WritersInv, WritersAreReviewed, NEW u \in Users, Step(u)
  PROVE  WritersInv'
<1>1. \A v \in Users : v # u => pc'[v] = pc[v]
  BY StepIsOwn
<1>2. pc \in [Users -> Pages \union Serving]
  BY DEF TypeInv, TypeOK
<1>3. /\ pc[u] \in {"editing", "saving", "waiting", "locked"}
           => u \notin Standing
      /\ pc[u] \notin {"refreshing", "marking"}
  BY DEF WritersInv
<1> DEFINE Good == /\ pc'[u] \in {"editing", "saving", "waiting", "locked"}
                        => u \notin Standing
                   /\ pc'[u] \notin {"refreshing", "marking"}
<1>4. ASSUME Finish(u) PROVE Good
  BY <1>2, <1>4 DEF Finish, Goto
<1>5. ASSUME pc[u] = "saving", NEW at, Settle(u, at) PROVE Good
  BY <1>3, <1>4, <1>5 DEF Settle, AutoMarks
<1>6. ASSUME pc[u] = "saving", NEW digest, Refuse(u, digest) PROVE Good
  BY <1>2, <1>3, <1>4, <1>6 DEF Refuse, Goto
<1>7. Good
  <2>1. CASE \/ \E kind \in Surfaces : OpenPage(u, kind)
             \/ \E i \in 1..Len(revs) : PostRestore(u, i)
             \/ \E mode \in Modes, sent \in Payloads :
                  Send(u, mode, sent)
             \/ OpenReview(u)
    BY <1>2, <2>1 DEF OpenPage, PostRestore, Send, OpenReview, Goto,
                      WritersAreReviewed
  <2>2. CASE PostSource(u) \/ PostForm(u) \/ PutUnnamed(u)
    BY <1>2, <1>3, <2>2 DEF PostSource, PostForm, PutUnnamed, Goto
  <2>3. CASE PutDocument(u) \/ ConfirmLoad(u)
    BY <1>2, <1>3, <1>4, <2>3 DEF PutDocument, ConfirmLoad, Goto
  <2>4. CASE ClosePage(u) \/ GiveUp(u) \/ Crash(u) \/ Sync(u)
    BY <1>4, <2>4 DEF ClosePage, GiveUp, Crash, Sync
  <2>5. CASE RefuseParameters(u) \/ RefuseStale(u)
    BY <1>6, <2>5 DEF RefuseParameters, RefuseStale
  <2>6. CASE SaveNothing(u) \/ SaveRevision(u)
    BY <1>5, <2>6 DEF SaveNothing, SaveRevision, Accepted
  <2>7. CASE Refresh(u) \/ Mark(u)
    BY <1>3, <2>7 DEF Refresh, Mark
  <2>8. CASE ConfirmMark(u) \/ TakeLock(u)
    BY <1>2, <1>3, <2>8 DEF ConfirmMark, TakeLock, Goto
  <2>9. CASE Publish(u)
    BY <1>2, <1>4, <2>9 DEF Publish, Goto
  <2>10. CASE \E wanted \in BOOLEAN : OfferDraft(u, wanted)
    BY <1>3, <2>10 DEF OfferDraft
  <2>11. CASE \E run \in Runs \union {None} : WriteEntries(u, run)
    BY <1>4, <2>11 DEF WriteEntries
  <2> QED
    BY <2>1, <2>2, <2>3, <2>4, <2>5, <2>6, <2>7, <2>8, <2>9, <2>10, <2>11
       DEF Step
<1> QED
  BY <1>1, <1>7 DEF WritersInv

LEMMA ConfirmingStep ==
  ASSUME TypeInv, WritersAreReviewed, ConfirmingInv, NEW u \in Users, Step(u)
  PROVE  ConfirmingInv'
<1> SUFFICES ASSUME NEW v \in Users, pc'[v] = "confirming"
             PROVE  /\ mem'[v].head \in 1..Len(revs')
                    /\ revs'[mem'[v].head].doc = form'[v].digest
  BY DEF ConfirmingInv
<1>1. /\ Len(revs') >= Len(revs)
      /\ \A i \in 1..Len(revs) : revs'[i] = revs[i]
  BY HistoryKept DEF WritersAreReviewed
<1>2. Len(revs) \in Nat /\ Len(revs') \in Nat
  BY NextTyped DEF Next, TypeInv, TypeOK
<1>3. ASSUME /\ pc[v] = "confirming"
             /\ form'[v] = form[v] /\ mem'[v] = mem[v]
      PROVE  /\ mem'[v].head \in 1..Len(revs')
             /\ revs'[mem'[v].head].doc = form'[v].digest
  BY <1>1, <1>2, <1>3 DEF ConfirmingInv
<1>4. CASE v # u
  BY <1>3, <1>4, StepIsOwn
<1>5. CASE v = u /\ ConfirmLoad(u)
  <2>1. pc \in [Users -> Pages \union Serving] /\ mem \in [Users -> Memory]
    BY DEF TypeInv, TypeOK
  <2>2. form[u].digest = HeadDoc
    BY <1>5, <2>1 DEF ConfirmLoad, Finish, Goto
  <2>3. /\ mem' = [mem EXCEPT ![u] = Loaded(head, HeadDoc)]
        /\ form' = form /\ revs' = revs
    BY <1>5, <2>2 DEF ConfirmLoad, table
  <2>4. mem'[u].head = head /\ head \in 1..Len(revs)
    BY <2>1, <2>3 DEF Loaded, TypeInv, TypeOK
  <2> QED
    BY <1>5, <2>2, <2>3, <2>4 DEF HeadDoc
<1>6. CASE v = u /\ ~ConfirmLoad(u)
  <2>1. pc \in [Users -> Pages \union Serving]
    BY DEF TypeInv, TypeOK
  <2>2. ASSUME Finish(u) PROVE FALSE
    BY <1>6, <2>1, <2>2 DEF Finish, Goto
  <2>3. ASSUME NEW at, Settle(u, at) PROVE FALSE
    BY <1>6, <2>1, <2>2, <2>3 DEF Settle, Goto
  <2>4. ASSUME NEW digest, Refuse(u, digest) PROVE FALSE
    BY <1>6, <2>1, <2>2, <2>4 DEF Refuse, Goto
  <2>5. CASE \E wanted \in BOOLEAN : OfferDraft(u, wanted)
    BY <1>3, <1>6, <2>5 DEF OfferDraft
  <2>6. ~(\/ ClosePage(u) \/ GiveUp(u) \/ Crash(u) \/ Sync(u)
          \/ \E run \in Runs \union {None} : WriteEntries(u, run))
    BY <2>2 DEF ClosePage, GiveUp, Crash, Sync, WriteEntries
  <2>7. ~(\/ RefuseParameters(u) \/ RefuseStale(u)
          \/ SaveNothing(u) \/ SaveRevision(u))
    BY <2>3, <2>4 DEF RefuseParameters, RefuseStale, SaveNothing, SaveRevision
  <2>8. ~(\/ PostSource(u) \/ PostForm(u) \/ PutDocument(u) \/ PutUnnamed(u)
          \/ Refresh(u) \/ Mark(u) \/ ConfirmMark(u) \/ Publish(u)
          \/ TakeLock(u))
    BY <1>6, <2>1, <2>2 DEF PostSource, PostForm, PutDocument, PutUnnamed,
       Refresh, Mark, ConfirmMark, Publish, TakeLock, Goto
  <2>9. ~(\/ \E kind \in Surfaces : OpenPage(u, kind)
          \/ \E i \in 1..Len(revs) : PostRestore(u, i)
          \/ \E mode \in Modes, sent \in Payloads :
               Send(u, mode, sent)
          \/ OpenReview(u))
    BY <1>6, <2>1 DEF OpenPage, PostRestore, Send, OpenReview, Goto
  <2> QED
    BY <1>6, <2>5, <2>6, <2>7, <2>8, <2>9 DEF Step
<1> QED
  BY <1>4, <1>5, <1>6

LEMMA ReviewedWasReadStep ==
  ASSUME ReadInv, WritersAreReviewed, NEW u \in Users, Step(u)
  PROVE  ReviewedWasRead'
<1>1. /\ TypeInv
      /\ \A i \in 1..Len(revs) : revs'[i] = revs[i]
      /\ vouched \subseteq vouched'
  BY HistoryKept, VouchedGrows DEF ReadInv, WritersAreReviewed
<1>2. CASE reviewed' = reviewed
  <2>1. reviewed \in 0..Len(revs) /\ Len(revs) \in Nat
    BY <1>1 DEF TypeInv, TypeOK
  <2>2. reviewed # 0 => revs'[reviewed] = revs[reviewed]
    BY <1>1, <2>1
  <2> QED
    BY <1>1, <1>2, <2>2 DEF ReadInv, ReviewedWasRead
<1>3. CASE ConfirmMark(u)
  <2>1. /\ revs' = revs
        /\ reviewed' = mem[u].head
        /\ revs[mem[u].head].doc = form[u].digest
    BY <1>3 DEF ConfirmMark, ReadInv, ConfirmingInv
  <2>2. Pairs(form[u].digest) \subseteq vouched'
    BY <1>3 DEF ConfirmMark
  <2> QED
    BY <2>1, <2>2 DEF ReviewedWasRead
<1>4. ~Mark(u)
  BY DEF Mark, ReadInv, WritersInv
<1>5. ~ \E run \in Runs \union {None} :
          WriteEntries(u, run) /\ u \in Standing
  BY DEF WriteEntries, ReadInv, WritersInv
<1> QED
  BY <1>2, <1>3, <1>4, <1>5, WhoReviews

\* With any number of workers, in any order of their steps and whoever is
\* killed, the reviewed pointer names a revision all of whose entries a
\* reviewer had on screen.
THEOREM ReviewIsRead ==
  ASSUME WritersAreReviewed
  PROVE  Spec => []ReviewedWasRead
<1>1. Init => ReadInv
  BY InitRead
<1>2. ReadInv /\ [Next]_vars => ReadInv'
  <2> SUFFICES ASSUME ReadInv, [Next]_vars PROVE ReadInv'
    OBVIOUS
  <2>1. CASE UNCHANGED vars
    <3>1. TypeInv'
      BY NextTyped DEF ReadInv
    <3> QED
      BY <2>1, <3>1 DEF vars, table, ReadInv, WritersInv, ConfirmingInv,
                        ReviewedWasRead
  <2>2. ASSUME NEW u \in Users, Step(u) PROVE ReadInv'
    <3>1. TypeInv'
      BY NextTyped DEF ReadInv
    <3>2. WritersInv' /\ ConfirmingInv' /\ ReviewedWasRead'
      BY <2>2, WritersStep, ConfirmingStep, ReviewedWasReadStep DEF ReadInv
    <3> QED
      BY <3>1, <3>2 DEF ReadInv
  <2> QED
    BY <2>1, <2>2 DEF Next
<1>3. ReadInv => ReviewedWasRead
  BY DEF ReadInv
<1> QED
  BY <1>1, <1>2, <1>3, PTL DEF Spec
==============================================================================
