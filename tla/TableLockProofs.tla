--------------------------- MODULE TableLockProofs ---------------------------
(***************************************************************************)
(* What holds however many workers serve requests.  The row lock of the    *)
(* entries endpoint: with nobody on the edit pages every write happens     *)
(* between a handler's read and its commit under select_for_update.  The   *)
(* history, with everybody writing everywhere: what a revision says of     *)
(* itself is true also when another save took the head from it.  And the   *)
(* requests: the lock has a holder, and what is served comes to an end.    *)
(***************************************************************************)
EXTENDS TableSerialProofs

\* Tables are written through POST of entries only; reviewers may review.
EntriesOnly == Editors = {} /\ Surfaces = {}

\* Who is inside the lock holds it, and holds the head as it is.
LockInv ==
  /\ TypeInv
  /\ \A u \in Users :
       /\ pc[u] \notin {"editing", "saving"}
       /\ pc[u] = "locked" =>
            /\ lock = u
            /\ mem[u].head = head
            /\ mem[u].doc = HeadDoc
  /\ LinearHistory

\* The lock changes hands by being taken, by the write, and by a crash.
LEMMA WhoLocks ==
  ASSUME NEW u \in Users, Step(u)
  PROVE  \/ lock' = lock
         \/ lock = None
         \/ \E run \in Runs \union {None} : WriteEntries(u, run)
         \/ Crash(u) /\ lock = u
BY DEF Step, OpenPage, ClosePage, PostSource, PostForm, PutDocument,
       PutUnnamed, PostRestore, RefuseParameters, RefuseStale, Refuse,
       SaveNothing, SaveRevision, Refresh, Mark, Sync, OpenReview,
       ConfirmLoad, ConfirmMark, Publish, OfferDraft, Send, TakeLock, GiveUp,
       Crash

\* Without an edit page nobody comes to edit or to save.
LEMMA NobodyEdits ==
  ASSUME EntriesOnly, TypeInv, NEW u \in Users, Step(u),
         pc[u] \notin {"editing", "saving"}
  PROVE  pc'[u] \notin {"editing", "saving"}
<1>1. pc \in [Users -> Pages \union Serving]
  BY DEF TypeInv, TypeOK
<1>2. ASSUME Finish(u) PROVE pc'[u] = "idle"
  BY <1>1, <1>2 DEF Finish, Goto
<1>3. ~(\/ \E kind \in Surfaces : OpenPage(u, kind)
        \/ \E i \in 1..Len(revs) : PostRestore(u, i)
        \/ PostSource(u) \/ PostForm(u) \/ PutDocument(u) \/ PutUnnamed(u)
        \/ RefuseParameters(u) \/ RefuseStale(u)
        \/ SaveNothing(u) \/ SaveRevision(u))
  BY DEF EntriesOnly, PostRestore, PostSource, PostForm, PutDocument,
         PutUnnamed, RefuseParameters, RefuseStale, SaveNothing,
         SaveRevision, Accepted
<1>4. CASE \/ OpenReview(u) \/ Refresh(u) \/ Mark(u) \/ ConfirmMark(u)
           \/ TakeLock(u)
           \/ \E mode \in Modes, sent \in Payloads :
                Send(u, mode, sent)
  BY <1>1, <1>4 DEF OpenReview, Refresh, Mark, ConfirmMark, TakeLock, Send,
                    Goto
<1>5. CASE \/ ClosePage(u) \/ Sync(u) \/ GiveUp(u) \/ Crash(u)
           \/ \E run \in Runs \union {None} : WriteEntries(u, run)
  BY <1>2, <1>5 DEF ClosePage, Sync, GiveUp, Crash, WriteEntries
<1>6. CASE ConfirmLoad(u) \/ Publish(u)
  BY <1>1, <1>2, <1>6 DEF ConfirmLoad, Publish, Goto
<1>7. CASE \E wanted \in BOOLEAN : OfferDraft(u, wanted)
  BY <1>7 DEF OfferDraft
<1> QED
  BY <1>3, <1>4, <1>5, <1>6, <1>7 DEF Step

\* One step under the lock keeps the others' hold on the head.
LEMMA InsideStep ==
  ASSUME LockInv, NEW u \in Users, Step(u),
         NEW v \in Users, pc'[v] = "locked"
  PROVE  lock' = v /\ mem'[v].head = head' /\ mem'[v].doc = HeadDoc'
<1>1. TypeInv /\ pc[u] # "saving" /\ None \notin Users
  BY ConstantsOK DEF LockInv
<1>2. CASE v = u
  <2>1. TakeLock(u)
    BY <1>1, <1>2, ComesInside
  <2>2. /\ mem'[u].head = head /\ mem'[u].doc = HeadDoc
        /\ head' = head /\ revs' = revs
    BY <1>1, <1>2, LoadsHead
  <2>3. HeadDoc' = HeadDoc
    BY <2>2 DEF HeadDoc
  <2> QED
    BY <1>2, <2>1, <2>2, <2>3 DEF TakeLock
<1>3. CASE v # u
  <2>1. pc[v] = "locked" /\ mem'[v] = mem[v]
    BY <1>1, <1>3, StepIsOwn
  <2>2. lock = v /\ mem[v].head = head /\ mem[v].doc = HeadDoc
    BY <2>1 DEF LockInv
  <2>3. ~ \E run \in Runs \union {None} : WriteEntries(u, run)
    BY <1>3, <2>2 DEF LockInv, WriteEntries
  <2>4. revs' = revs /\ head' = head
    BY <1>1, <2>3, WhoWrites DEF SaveRevision, Accepted
  <2>5. lock' = lock
    BY <1>1, <1>3, <2>2, <2>3, WhoLocks
  <2>6. HeadDoc' = HeadDoc
    BY <2>4 DEF HeadDoc
  <2> QED
    BY <2>1, <2>2, <2>4, <2>5, <2>6
<1> QED
  BY <1>2, <1>3

LEMMA LockNext ==
  ASSUME EntriesOnly, LockInv, [Next]_vars
  PROVE  LockInv'
<1>1. TypeInv /\ TypeInv'
  BY NextTyped DEF LockInv
<1>2. CASE UNCHANGED vars
  BY <1>1, <1>2 DEF vars, table, LockInv, LinearHistory, HeadDoc
<1>3. ASSUME NEW u \in Users, Step(u)
      PROVE  LockInv'
  <2>1. FreshLoad
    BY DEF LockInv, FreshLoad
  <2>2. LinearHistory'
    BY <1>1, <1>3, <2>1, LinearStep DEF LockInv
  <2>3. ASSUME NEW v \in Users
        PROVE  pc'[v] \notin {"editing", "saving"}
    <3>1. CASE v = u
      BY <1>1, <1>3, <3>1, NobodyEdits DEF LockInv
    <3>2. CASE v # u
      BY <1>1, <1>3, <3>2, StepIsOwn DEF LockInv
    <3> QED
      BY <3>1, <3>2
  <2> QED
    BY <1>1, <1>3, <2>2, <2>3, InsideStep DEF LockInv
<1> QED
  BY <1>2, <1>3 DEF Next

LEMMA LockInit ==
  ASSUME Init
  PROVE  LockInv
<1>1. LinearHistory
  BY SerialInit DEF SerialInv
<1> QED
  BY <1>1, InitTyped DEF Init, LockInv

\* However many workers take submissions, reviews running beside them and
\* workers dying, the history stays one chain: a submission is written on the
\* head it read, amending runs included.
THEOREM LockKeepsLinear ==
  ASSUME EntriesOnly
  PROVE  Spec => []LinearHistory
<1>1. Init => LockInv
  BY LockInit
<1>2. LockInv /\ [Next]_vars => LockInv'
  BY LockNext
<1>3. LockInv => LinearHistory
  BY DEF LockInv
<1> QED
  BY <1>1, <1>2, <1>3, PTL DEF Spec

\* A submission under way is of one of the kinds that programs send.
SentInv ==
  \A u \in Users : pc[u] \in {"waiting", "locked"} => form[u].kind \in Modes

LEMMA SentNext ==
  ASSUME TypeInv, SentInv, [Next]_vars
  PROVE  SentInv'
<1>1. CASE UNCHANGED vars
  BY <1>1 DEF vars, SentInv
<1>2. ASSUME NEW u \in Users, Step(u), NEW v \in Users,
             pc'[v] \in {"waiting", "locked"}
      PROVE  form'[v].kind \in Modes
  <2>1. CASE v = u
    BY <1>2, <2>1, TouchesEntries DEF SentInv
  <2>2. CASE v # u
    BY <1>2, <2>2, StepIsOwn DEF SentInv
  <2> QED
    BY <2>1, <2>2
<1> QED
  BY <1>1, <1>2 DEF Next, SentInv

\* ... and where entries have parameters and programs send records, or all of
\* the entries, no submission takes away an entry it did not name: what it
\* leaves alone says after the commit what it said just before it.
THEOREM LockLosesNothing ==
  ASSUME EntriesOnly, ~Bare, "mapping" \notin Modes
  PROVE  Spec => NothingUntouchedIsLost
<1>1. Init => LockInv /\ SentInv
  BY LockInit DEF Init, SentInv
<1>2. LockInv /\ SentInv /\ [Next]_vars => (LockInv /\ SentInv)'
  BY LockNext, SentNext DEF LockInv
<1>3. LockInv /\ SentInv /\ [Next]_vars =>
        [\A u \in Users : Writes(u) =>
           \A f \in Fields \ form[u].touched : HeadDoc'[f] = HeadDoc[f]]_vars
  <2> SUFFICES ASSUME LockInv, SentInv,
                      NEW v \in Users, Step(v), NEW u \in Users,
                      Writes(u), NEW f \in Fields \ form[u].touched
               PROVE  HeadDoc'[f] = HeadDoc[f]
    BY DEF Next
  <2>1. TypeInv /\ pc[u] = "locked" /\ pc[v] # "saving"
    BY DEF LockInv, Writes
  <2>2. v = u
    BY <2>1, StepIsOwn DEF Writes
  <2>3. PICK run \in Runs \union {None} : WriteEntries(u, run)
    BY <2>1, <2>2, WhoWrites DEF Writes, SaveRevision, Accepted
  <2>4. mem[u].head = head /\ mem[u].doc = HeadDoc
    BY <2>1 DEF LockInv
  <2>5. HeadDoc' = WithEntries(u)
    BY <2>1, <2>3, <2>4, SubmissionWrites DEF Writes
  <2>6. form[u].kind \in Modes
    BY <2>1 DEF SentInv
  <2> QED
    BY <2>1, <2>4, <2>5, <2>6, RecordsSetWhatTheyName
<1> QED
  BY <1>1, <1>2, <1>3, PTL DEF Spec, NothingUntouchedIsLost

\* However many workers take submissions, and wherever they die, a table that
\* only the entries endpoint writes is one register: a submission changes the
\* head at one moment, its commit, and by exactly what its program asked for,
\* whether it adds a revision or amends the run's: records set the entries they
\* name, a mapping or values without parameters set all of them.
THEOREM LockIsRegister ==
  ASSUME EntriesOnly
  PROVE  Spec => EditsAreAtomic
<1>1. Init => LockInv
  BY LockInit
<1>2. LockInv /\ [Next]_vars => LockInv'
  BY LockNext
<1>3. LockInv /\ LockInv' /\ [Next]_vars
        => [Register!Next]_<<HeadDoc, Asked>>
  <2> SUFFICES ASSUME LockInv, LockInv', [Next]_vars
               PROVE  [Register!Next]_<<HeadDoc, Asked>>
    OBVIOUS
  <2>1. TypeInv /\ TypeInv' /\ \A u \in Users : pc[u] # "saving"
    BY DEF LockInv
  <2>2. CASE UNCHANGED vars
    BY <2>2 DEF vars, table, HeadDoc, Asked, EditOf
  <2>3. ASSUME NEW u \in Users, Step(u)
        PROVE  [Register!Next]_<<HeadDoc, Asked>>
    <3>1. ASSUME NEW run \in Runs \union {None}, WriteEntries(u, run)
          PROVE  \/ revs' = revs /\ head' = head
                 \/ HeadDoc' = Register!LaidOver(EditOf(u), HeadDoc)
      <4>1. mem[u].head = head /\ mem[u].doc = HeadDoc
        BY <3>1 DEF LockInv, WriteEntries
      <4> QED
        BY <2>1, <3>1, <4>1, SubmissionApplies
    <3>2. \/ revs' = revs /\ head' = head
          \/ HeadDoc' = Register!LaidOver(EditOf(u), HeadDoc)
      BY <2>1, <2>3, <3>1, WhoWrites DEF SaveRevision, Accepted
    <3> QED
      BY <2>1, <2>3, <3>2, RegisterStep
  <2> QED
    BY <2>2, <2>3 DEF Next
<1>4. Init => Register!Init
  BY RegisterInit
<1> QED
  BY <1>1, <1>2, <1>3, <1>4, PTL DEF Spec, EditsAreAtomic, Register!Spec
------------------------------------------------------------------------------
(* The search flags, when nobody reviews.                                  *)

\* The rows carry what the two pointers say at every moment, and who is
\* inside the lock read the reviewed pointer as it is.
FlagInv ==
  /\ LockInv
  /\ \A u \in Users : /\ pc[u] \in {"idle", "waiting", "locked"}
                      /\ pc[u] = "locked" => mem[u].reviewed = reviewed
  /\ flagged = ReviewedRows(reviewed, head, revs)

LEMMA NobodyReviews ==
  ASSUME EntriesOnly, Board = {}, TypeInv, NEW u \in Users, Step(u),
         pc[u] \in {"idle", "waiting", "locked"}
  PROVE  /\ pc'[u] \in {"idle", "waiting", "locked"}
         /\ \/ \E run \in Runs \union {None} : WriteEntries(u, run)
            \/ UNCHANGED <<revs, head, reviewed, flagged>>
<1>1. pc \in [Users -> Pages \union Serving]
  BY DEF TypeInv, TypeOK
<1>2. ASSUME Finish(u) PROVE pc'[u] = "idle"
  BY <1>1, <1>2 DEF Finish, Goto
<1>3. ~(\/ \E kind \in Surfaces : OpenPage(u, kind)
        \/ \E i \in 1..Len(revs) : PostRestore(u, i)
        \/ ClosePage(u)
        \/ PostSource(u) \/ PostForm(u) \/ PutDocument(u) \/ PutUnnamed(u)
        \/ RefuseParameters(u) \/ RefuseStale(u)
        \/ SaveNothing(u) \/ SaveRevision(u)
        \/ Refresh(u) \/ Mark(u) \/ Sync(u)
        \/ OpenReview(u) \/ ConfirmLoad(u) \/ ConfirmMark(u) \/ Publish(u))
  BY DEF EntriesOnly, PostRestore, ClosePage, PostSource, PostForm,
         PutDocument, PutUnnamed, RefuseParameters, RefuseStale, SaveNothing,
         SaveRevision, Accepted, Refresh, Mark, Sync, OpenReview, ConfirmLoad,
         ConfirmMark, Publish
<1>4. CASE \/ TakeLock(u)
           \/ \E mode \in Modes, sent \in Payloads :
                Send(u, mode, sent)
  BY <1>1, <1>4 DEF TakeLock, Send, Goto, table
<1>5. CASE GiveUp(u) \/ Crash(u)
  BY <1>2, <1>5 DEF GiveUp, Crash, table
<1>6. CASE \E wanted \in BOOLEAN : OfferDraft(u, wanted)
  BY <1>6 DEF OfferDraft
<1>7. CASE \E run \in Runs \union {None} : WriteEntries(u, run)
  BY <1>2, <1>7 DEF WriteEntries
<1> QED
  BY <1>3, <1>4, <1>5, <1>6, <1>7 DEF Step

LEMMA FlagsWritten ==
  ASSUME FlagInv, NEW u \in Users, NEW run \in Runs \union {None},
         WriteEntries(u, run), TypeInv'
  PROVE  flagged' = ReviewedRows(reviewed', head', revs')
<1>1. /\ TypeInv /\ mem[u].head = head /\ mem[u].reviewed = reviewed
      /\ head' \in Nat \ {0}
  BY DEF FlagInv, LockInv, WriteEntries, TypeInv, TypeOK
<1>2. CASE mem[u].published /\ u \in Standing
  BY <1>1, <1>2 DEF WriteEntries, ReviewedRows
<1>3. CASE ~(mem[u].published /\ u \in Standing) /\ revs' = revs
  <2>1. head' = head
    BY <1>1, <1>3, SubmissionWrites
  <2> QED
    BY <1>3, <2>1 DEF WriteEntries, FlagInv
<1>4. CASE ~(mem[u].published /\ u \in Standing) /\ revs' # revs
  BY <1>1, <1>4 DEF WriteEntries, Rebuilt
<1> QED
  BY <1>2, <1>3, <1>4

LEMMA FlagNext ==
  ASSUME EntriesOnly, Board = {}, FlagInv, [Next]_vars
  PROVE  FlagInv'
<1>1. LockInv /\ LockInv' /\ TypeInv /\ TypeInv'
  BY LockNext DEF FlagInv, LockInv
<1>2. CASE UNCHANGED vars
  BY <1>1, <1>2 DEF vars, table, FlagInv, ReviewedRows
<1>3. ASSUME NEW u \in Users, Step(u)
      PROVE  FlagInv'
  <2>1. /\ pc'[u] \in {"idle", "waiting", "locked"}
        /\ \/ \E run \in Runs \union {None} : WriteEntries(u, run)
           \/ UNCHANGED <<revs, head, reviewed, flagged>>
    BY <1>1, <1>3, NobodyReviews DEF FlagInv
  <2>2. flagged' = ReviewedRows(reviewed', head', revs')
    <3>1. CASE \E run \in Runs \union {None} : WriteEntries(u, run)
      BY <1>1, <3>1, FlagsWritten
    <3>2. CASE UNCHANGED <<revs, head, reviewed, flagged>>
      BY <3>2 DEF FlagInv
    <3> QED
      BY <2>1, <3>1, <3>2
  <2>3. ASSUME NEW v \in Users
        PROVE  /\ pc'[v] \in {"idle", "waiting", "locked"}
               /\ pc'[v] = "locked" => mem'[v].reviewed = reviewed'
    <3>1. CASE v = u
      BY <1>1, <1>3, <2>1, <3>1, LoadsHead
    <3>2. CASE v # u
      <4>1. pc'[v] = pc[v] /\ mem'[v] = mem[v]
        BY <1>1, <1>3, <3>2, StepIsOwn
      <4>2. ASSUME pc[v] = "locked" PROVE reviewed' = reviewed
        <5>1. ~ \E run \in Runs \union {None} : WriteEntries(u, run)
          BY <1>1, <3>2, <4>2 DEF LockInv, WriteEntries
        <5> QED
          BY <2>1, <5>1
      <4> QED
        BY <4>1, <4>2 DEF FlagInv
    <3> QED
      BY <3>1, <3>2
  <2> QED
    BY <1>1, <2>2, <2>3 DEF FlagInv
<1> QED
  BY <1>2, <1>3 DEF Next

\* Between reviews, and however many workers take submissions, the rows in
\* search are the ones the two pointers of the table name.
THEOREM LockKeepsFlags ==
  ASSUME EntriesOnly, Board = {}
  PROVE  Spec => []FlagsDescribeHead
<1>1. Init => FlagInv
  BY LockInit DEF Init, FlagInv
<1>2. FlagInv /\ [Next]_vars => FlagInv'
  BY FlagNext
<1>3. FlagInv => FlagsDescribeHead
  BY DEF FlagInv, FlagsDescribeHead
<1> QED
  BY <1>1, <1>2, <1>3, PTL DEF Spec
------------------------------------------------------------------------------
(* What the history says, however many workers serve the edit pages.       *)

\* A request about to write holds some revision as its head, and a save also
\* one that says what its page said.
HoldsRevision(phase, page, held, history) ==
  /\ held.head \in 1..Len(history)
  /\ history[held.head].doc = held.doc
  /\ phase = "saving" =>
       /\ held.was = page.digest
       /\ held.base \in 1..Len(history)
       /\ history[held.base].doc = held.was

HoldInv ==
  /\ TypeInv
  /\ \A u \in Users :
       /\ pc[u] = "editing" => Known(form[u].digest, revs)
       /\ pc[u] \in {"saving", "locked"} =>
            HoldsRevision(pc[u], form[u], mem[u], revs)

LEMMA HoldPagesKnown == HoldInv => PagesKnown
BY DEF HoldInv, HoldsRevision, PagesKnown, Known

LEMMA HoldNext ==
  ASSUME Runs = {}, HoldInv, [Next]_vars
  PROVE  HoldInv'
<1>1. TypeInv /\ TypeInv' /\ PagesKnown
  BY NextTyped, HoldPagesKnown DEF HoldInv
<1>2. CASE UNCHANGED vars
  BY <1>1, <1>2 DEF vars, table, HoldInv, HoldsRevision, Known
<1>3. ASSUME NEW u \in Users, Step(u)
      PROVE  HoldInv'
  <2>1. /\ Len(revs') >= Len(revs) /\ Len(revs) \in Nat /\ Len(revs') \in Nat
        /\ \A i \in 1..Len(revs) : revs'[i] = revs[i]
    BY <1>1, <1>3, HistoryKept DEF TypeInv, TypeOK
  <2>2. ASSUME NEW v \in Users, pc'[v] = "editing"
        PROVE  Known(form'[v].digest, revs')
    BY <1>1, <1>3, <2>2, EditingStep
  <2>3. ASSUME NEW v \in Users, pc'[v] \in {"saving", "locked"}
        PROVE  HoldsRevision(pc'[v], form'[v], mem'[v], revs')
    <3>1. CASE v = u
      <4>1. /\ mem'[u].head = head /\ mem'[u].doc = HeadDoc
            /\ revs' = revs /\ head \in 1..Len(revs)
        BY <1>1, <1>3, <2>3, <3>1, LoadsHead DEF TypeInv, TypeOK
      <4>2. pc'[u] = "saving" => SaveHolds(u)
        BY <1>1, <1>3, SavingStarts
      <4> QED
        BY <3>1, <4>1, <4>2 DEF HoldsRevision, SaveHolds, HeadDoc
    <3>2. CASE v # u
      <4>1. /\ pc'[v] = pc[v] /\ mem'[v] = mem[v] /\ form'[v] = form[v]
        BY <1>1, <1>3, <3>2, StepIsOwn
      <4>2. HoldsRevision(pc[v], form[v], mem[v], revs)
        BY <2>3, <4>1 DEF HoldInv
      <4> QED
        BY <2>1, <4>1, <4>2 DEF HoldsRevision
    <3> QED
      BY <3>1, <3>2
  <2> QED
    BY <1>1, <2>2, <2>3 DEF HoldInv
<1> QED
  BY <1>2, <1>3 DEF Next

\* Who writes adds one revision, to the revision it holds.
LEMMA WritesOnParent ==
  ASSUME Runs = {}, HoldInv, NEW u \in Users, Writes(u),
         \/ SaveRevision(u)
         \/ \E run \in Runs \union {None} : WriteEntries(u, run)
  PROVE  LET new == revs'[Len(revs')]
         IN  /\ Len(revs') = Len(revs) + 1 /\ head' = Len(revs')
             /\ new.author = u /\ new.parent = mem[u].head
             /\ new.doc = Register!LaidOver(EditOf(u), mem[u].doc)
             /\ new.base = IF pc[u] = "saving" THEN mem[u].base ELSE mem[u].head
<1>1. /\ TypeInv /\ Len(revs) \in Nat /\ revs \in Seq(Revision)
      /\ Merged(u) \in Doc /\ WithEntries(u) \in Doc
      /\ mem[u].head \in Nat /\ mem[u].base \in Nat /\ mem[u].doc \in Doc
  BY OverlayTypes DEF HoldInv, TypeInv, TypeOK, Memory
<1>2. ASSUME NEW doc \in Doc, NEW base \in Nat, NEW run \in Runs \union {None},
             WriteRevision(u, doc, mem[u].head, base, run)
      PROVE  LET new == revs'[Len(revs')]
             IN  /\ Len(revs') = Len(revs) + 1 /\ head' = Len(revs')
                 /\ new.author = u /\ new.parent = mem[u].head
                 /\ new.doc = doc /\ new.base = base
  BY <1>1, <1>2 DEF WriteRevision
<1>3. CASE SaveRevision(u)
  <2>1. /\ pc[u] = "saving" /\ ~Clashes(u)
        /\ WriteRevision(u, Merged(u), mem[u].head, mem[u].base, None)
    BY <1>3 DEF SaveRevision, Accepted
  <2>2. HoldsRevision(pc[u], form[u], mem[u], revs)
    BY <2>1 DEF HoldInv
  <2>3. Merged(u) = Overlay(form[u].digest, form[u].mine, mem[u].doc)
    BY <1>1, <2>1, <2>2, MergedIsOverlay DEF HoldsRevision
  <2>4. Merged(u) = Register!LaidOver(EditOf(u), mem[u].doc)
    BY <1>1, <2>1, <2>3, EditIsOverlay
  <2> QED
    BY <1>1, <1>2, <2>1, <2>4
<1>4. CASE \E run \in Runs \union {None} : WriteEntries(u, run)
  <2>1. PICK run \in Runs \union {None} : WriteEntries(u, run)
    BY <1>4
  <2>2. /\ pc[u] = "locked"
        /\ WriteRevision(u, WithEntries(u), mem[u].head, mem[u].head, run)
    BY <1>1, <2>1, SubmissionAppends DEF WriteEntries, Writes
  <2>3. DOMAIN EditOf(u) = Sets(form[u])
    BY <2>2 DEF EditOf, Edited
  <2>4. \A f \in Sets(form[u]) : EditOf(u)[f] = form[u].mine[f]
    BY <2>2 DEF EditOf, Edited
  <2>5. WithEntries(u) # mem[u].doc
    BY <1>1, <2>1 DEF WriteEntries, Writes
  <2>6. WithEntries(u) = Register!LaidOver(EditOf(u), mem[u].doc)
    BY <2>3, <2>4, <2>5 DEF WithEntries, Register!LaidOver
  <2> QED
    BY <1>1, <1>2, <2>2, <2>6
<1> QED
  BY <1>3, <1>4

\* However many workers serve pages, forms, PUT, restores and submissions, and
\* wherever they die: a revision is its author's edit of its parent, the base
\* of a save is a version with the text the author's page had, and what is in
\* the history stays as it was written, when no run amends it.  A save that
\* loses the race to the head leaves a sibling, and both say what they are.
THEOREM HistoryIsOfPatches ==
  ASSUME Runs = {}
  PROVE  Spec => RevisionsArePatches
<1> DEFINE Honest ==
      /\ Len(revs') >= Len(revs)
      /\ \A i \in 1..Len(revs) : revs'[i] = revs[i]
      /\ \A u \in Users : Writes(u) =>
           LET new == revs'[Len(revs')]
           IN  /\ Len(revs') = Len(revs) + 1
               /\ head' = Len(revs')
               /\ new.author = u
               /\ new.parent \in 1..Len(revs)
               /\ new.doc =
                    Register!LaidOver(EditOf(u), revs[new.parent].doc)
               /\ new.base \in 1..Len(revs)
               /\ pc[u] = "saving" => revs[new.base].doc = form[u].digest
<1>1. Init => HoldInv
  BY InitTyped DEF Init, HoldInv
<1>2. HoldInv /\ [Next]_vars => HoldInv'
  BY HoldNext
<1>3. HoldInv /\ [Next]_vars => [Honest]_vars
  <2> SUFFICES ASSUME HoldInv, NEW v \in Users, Step(v)
               PROVE  Honest
    BY DEF Next
  <2>1. TypeInv
    BY DEF HoldInv
  <2>2. /\ Len(revs') >= Len(revs)
        /\ \A i \in 1..Len(revs) : revs'[i] = revs[i]
    BY <2>1, HistoryKept
  <2>3. ASSUME NEW u \in Users, Writes(u)
        PROVE  LET new == revs'[Len(revs')]
               IN  /\ Len(revs') = Len(revs) + 1
                   /\ head' = Len(revs')
                   /\ new.author = u
                   /\ new.parent \in 1..Len(revs)
                   /\ new.doc =
                        Register!LaidOver(EditOf(u), revs[new.parent].doc)
                   /\ new.base \in 1..Len(revs)
                   /\ pc[u] = "saving" => revs[new.base].doc = form[u].digest
    <3>1. v = u
      BY <2>1, <2>3, StepIsOwn DEF Writes
    <3>2. \/ SaveRevision(u)
          \/ \E run \in Runs \union {None} : WriteEntries(u, run)
      BY <2>3, <3>1, WhoWrites DEF Writes
    <3>3. HoldsRevision(pc[u], form[u], mem[u], revs)
      BY <2>3 DEF HoldInv, Writes
    <3> QED
      BY <2>3, <3>2, <3>3, WritesOnParent DEF HoldsRevision
  <2> QED
    BY <2>2, <2>3
<1> QED
  BY <1>1, <1>2, <1>3, PTL DEF Spec, RevisionsArePatches
------------------------------------------------------------------------------
(* Requests go on and end: the steps themselves, without fairness.         *)

HeldInv == TypeInv /\ LockIsHeld

LEMMA HeldNext ==
  ASSUME HeldInv, [Next]_vars
  PROVE  HeldInv'
<1>1. TypeInv /\ TypeInv' /\ None \notin Users
  BY NextTyped, ConstantsOK DEF HeldInv
<1>2. CASE UNCHANGED vars
  BY <1>1, <1>2 DEF vars, HeldInv, LockIsHeld
<1>3. ASSUME NEW u \in Users, Step(u)
      PROVE  HeldInv'
  <2>1. \A v \in Users \ {u} : pc'[v] = pc[v]
    BY <1>1, <1>3, StepIsOwn
  <2>2. pc \in [Users -> Pages \union Serving]
    BY <1>1 DEF TypeInv, TypeOK
  <2>3. CASE TakeLock(u)
    <3>1. pc'[u] = "locked" /\ lock = None /\ lock' = u
      BY <2>2, <2>3 DEF TakeLock, Goto
    <3> QED
      BY <1>1, <2>1, <3>1 DEF HeldInv, LockIsHeld
  <2>4. CASE ~TakeLock(u)
    <3>1. pc'[u] # "locked"
      BY <1>1, <1>3, <2>4, ComesInside
    <3>2. CASE pc[u] = "locked"
      <4>1. lock = u /\ lock' = None
        <5>1. \/ \E run \in Runs \union {None} : WriteEntries(u, run)
              \/ Crash(u)
          BY <1>3, <3>2 DEF Step, OpenPage, ClosePage, PostSource, PostForm,
             PutDocument, PutUnnamed, PostRestore, RefuseParameters,
             RefuseStale, SaveNothing, SaveRevision, Accepted, Refresh, Mark,
             Sync, OpenReview, ConfirmLoad, ConfirmMark, Publish, OfferDraft,
             Send, TakeLock, GiveUp
        <5> QED
          BY <3>2, <5>1 DEF HeldInv, LockIsHeld, WriteEntries, Crash
      <4> QED
        BY <1>1, <2>1, <3>1, <4>1 DEF HeldInv, LockIsHeld
    <3>3. CASE pc[u] # "locked"
      <4>1. lock # u
        BY <3>3 DEF HeldInv, LockIsHeld
      <4>2. lock' = lock
        BY <1>3, <2>4, <3>3, <4>1
           DEF Step, OpenPage, ClosePage, PostSource, PostForm, PutDocument,
               PutUnnamed, PostRestore, RefuseParameters, RefuseStale, Refuse,
               SaveNothing, SaveRevision, Refresh, Mark, Sync, OpenReview,
               ConfirmLoad, ConfirmMark, Publish, OfferDraft, Send, GiveUp,
               WriteEntries, Crash
      <4> QED
        BY <1>1, <2>1, <3>1, <4>1, <4>2, <3>3 DEF HeldInv, LockIsHeld
    <3> QED
      BY <3>2, <3>3
  <2> QED
    BY <2>3, <2>4
<1> QED
  BY <1>2, <1>3 DEF Next

\* Any accounts, surfaces, workers and deaths: a locked row has the request
\* that will give it back.
THEOREM LockHasHolder == Spec => []LockIsHeld
<1>1. Init => HeldInv
  BY InitTyped, ConstantsOK DEF Init, HeldInv, LockIsHeld
<1>2. HeldInv /\ [Next]_vars => HeldInv'
  BY HeldNext
<1>3. HeldInv => LockIsHeld
  BY DEF HeldInv
<1> QED
  BY <1>1, <1>2, <1>3, PTL DEF Spec

\* Every statement of a request is nearer to its end than the one before it.
LEMMA ServedIsNearer ==
  ASSUME TypeInv, NEW u \in Users, Serve(u)
  PROVE  Ahead(pc'[u]) < Ahead(pc[u])
<1>1. pc \in [Users -> Pages \union Serving]
  BY DEF TypeInv, TypeOK
<1>2. ASSUME Finish(u) PROVE pc'[u] = "idle"
  BY <1>1, <1>2 DEF Finish, Goto
<1>3. ASSUME NEW at, Settle(u, at)
      PROVE  pc'[u] \in {"idle", "refreshing", "marking"}
  BY <1>1, <1>2, <1>3 DEF Settle, Goto
<1>4. ASSUME NEW digest, Refuse(u, digest) PROVE pc'[u] \in {"idle", "editing"}
  BY <1>1, <1>2, <1>4 DEF Refuse, Goto
<1>5. CASE RefuseParameters(u) \/ RefuseStale(u)
  BY <1>4, <1>5 DEF RefuseParameters, RefuseStale, Ahead
<1>6. CASE SaveNothing(u) \/ SaveRevision(u)
  BY <1>3, <1>6 DEF SaveNothing, SaveRevision, Accepted, Ahead
<1>7. CASE Refresh(u) \/ Mark(u) \/ ConfirmMark(u) \/ TakeLock(u)
  BY <1>1, <1>7 DEF Refresh, Mark, ConfirmMark, TakeLock, Goto, Ahead
<1>8. CASE Publish(u)
  BY <1>1, <1>2, <1>8 DEF Publish, Goto, Ahead
<1>9. CASE \/ Sync(u) \/ GiveUp(u)
           \/ \E run \in Runs \union {None} : WriteEntries(u, run)
  BY <1>2, <1>9 DEF Sync, GiveUp, WriteEntries, Ahead
<1> QED
  BY <1>5, <1>6, <1>7, <1>8, <1>9 DEF Serve

\* Nothing else makes a request longer.
LEMMA ServedOnce ==
  ASSUME TypeInv, NEW v \in Users, Step(v), NEW u \in Users, pc[u] \in Serving
  PROVE  Ahead(pc'[u]) <= Ahead(pc[u])
<1>1. pc \in [Users -> Pages \union Serving]
  BY DEF TypeInv, TypeOK
<1>2. \A phase : Ahead(phase) \in Nat
  BY DEF Ahead
<1>3. CASE pc'[u] = pc[u]
  BY <1>2, <1>3
<1>4. CASE v = u /\ Serve(u)
  BY <1>2, <1>4, ServedIsNearer
<1>5. CASE v = u /\ Crash(u)
  <2>1. pc'[u] = "idle"
    BY <1>1, <1>5 DEF Crash, Finish, Goto
  <2> QED
    BY <1>2, <2>1 DEF Ahead
<1>6. CASE v = u /\ ~Serve(u) /\ ~Crash(u)
  <2>1. \E wanted \in BOOLEAN : OfferDraft(u, wanted)
    BY <1>1, <1>6 DEF Step, Serve, OpenPage, ClosePage, PostSource, PostForm,
       PutDocument, PutUnnamed, PostRestore, OpenReview, ConfirmLoad, Send,
       Serving
  <2> QED
    BY <1>3, <2>1 DEF OfferDraft
<1>7. CASE v # u
  BY <1>3, <1>7, StepIsOwn
<1> QED
  BY <1>4, <1>5, <1>6, <1>7

\* Any accounts, surfaces and workers: a request takes at most four statements
\* after it is read, and no other request adds to them.
THEOREM RequestsEnd == Spec => RequestsAreShort
<1>1. Init => TypeInv
  BY InitTyped
<1>2. TypeInv /\ [Next]_vars => TypeInv'
  BY NextTyped
<1>3. TypeInv /\ [Next]_vars =>
        [\A u \in Users :
           /\ Serve(u) => Ahead(pc'[u]) < Ahead(pc[u])
           /\ pc[u] \in Serving => Ahead(pc'[u]) <= Ahead(pc[u])]_vars
  BY ServedIsNearer, ServedOnce DEF Next
<1> QED
  BY <1>1, <1>2, <1>3, PTL DEF Spec, RequestsAreShort
==============================================================================
