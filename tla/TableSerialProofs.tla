-------------------------- MODULE TableSerialProofs --------------------------
(***************************************************************************)
(* What a site with one worker promises: gunicorn serves one request at a  *)
(* time, so no request runs between a handler's read and its write.        *)
(***************************************************************************)
EXTENDS TableCommitProofs

OneServed ==
  \A u, v \in Users : pc[u] \in Serving /\ pc[v] \in Serving => u = v

\* What a request about to write has loaded is still the head.
FreshLoad ==
  \A u \in Users : pc[u] \in {"saving", "locked"} => mem[u].head = head

SerialInv == TypeInv /\ OneServed /\ FreshLoad /\ LinearHistory

\* A request starts when a worker is free; every other step of a request is
\* taken by the worker that has it.
LEMMA ServedBefore ==
  ASSUME TypeInv, NEW u \in Users, Step(u), pc'[u] \in Serving
  PROVE  pc[u] \in Serving \/ WorkerFree
<1>1. pc \in [Users -> Pages \union Serving]
  BY DEF TypeInv, TypeOK
<1>2. ASSUME Finish(u) PROVE FALSE
  BY <1>1, <1>2 DEF Finish, Goto, Serving
<1>3. CASE \/ \E kind \in Surfaces : OpenPage(u, kind)
           \/ ClosePage(u) \/ OpenReview(u)
  BY <1>1, <1>2, <1>3 DEF OpenPage, ClosePage, OpenReview, Goto, Serving
<1>4. CASE \/ PostSource(u) \/ PostForm(u) \/ PutDocument(u) \/ PutUnnamed(u)
           \/ ConfirmLoad(u)
           \/ \E i \in 1..Len(revs) : PostRestore(u, i)
           \/ \E wanted \in BOOLEAN : OfferDraft(u, wanted)
           \/ \E mode \in Modes, sent \in Payloads :
                Send(u, mode, sent)
  BY <1>4 DEF PostSource, PostForm, PutDocument, PutUnnamed, ConfirmLoad,
     PostRestore, OfferDraft, Send
<1>5. CASE \/ RefuseParameters(u) \/ RefuseStale(u)
           \/ SaveNothing(u) \/ SaveRevision(u)
           \/ Refresh(u) \/ Mark(u) \/ Sync(u)
           \/ ConfirmMark(u) \/ Publish(u)
           \/ TakeLock(u) \/ GiveUp(u)
           \/ \E run \in Runs \union {None} : WriteEntries(u, run)
           \/ Crash(u)
  BY <1>5 DEF RefuseParameters, RefuseStale, SaveNothing, SaveRevision,
     Accepted, Refresh, Mark, Sync, ConfirmMark, Publish, TakeLock, GiveUp,
     WriteEntries, Crash, Serving
<1> QED
  BY <1>3, <1>4, <1>5 DEF Step

LEMMA OneServedStep ==
  ASSUME Workers = 1, TypeInv, OneServed, NEW u \in Users, Step(u)
  PROVE  OneServed'
<1> SUFFICES ASSUME NEW v \in Users, NEW w \in Users,
                    pc'[v] \in Serving, pc'[w] \in Serving, v # w
             PROVE  FALSE
  BY DEF OneServed
<1>1. \A x \in Users : x # u => pc'[x] = pc[x]
  BY StepIsOwn
<1>2. CASE v # u /\ w # u
  BY <1>1, <1>2 DEF OneServed
<1>3. ASSUME NEW x \in Users, x # u, pc[x] \in Serving, pc'[u] \in Serving
      PROVE  FALSE
  <2>1. pc[u] \in Serving \/ WorkerFree
    BY <1>3, ServedBefore
  <2> QED
    BY <2>1, <1>3, OneWorker DEF OneServed
<1> QED
  BY <1>1, <1>2, <1>3

\* A request that comes to write has loaded the head as it is.
LEMMA LoadsHead ==
  ASSUME TypeInv, NEW u \in Users, Step(u), pc'[u] \in {"saving", "locked"}
  PROVE  /\ mem'[u].head = head /\ mem'[u].reviewed = reviewed
         /\ mem'[u].doc = HeadDoc /\ mem'[u].published = published
         /\ head' = head /\ revs' = revs
         /\ reviewed' = reviewed /\ published' = published
<1>1. /\ pc \in [Users -> Pages \union Serving]
      /\ mem \in [Users -> Memory]
  BY DEF TypeInv, TypeOK
<1>2. ASSUME Finish(u) PROVE FALSE
  BY <1>1, <1>2 DEF Finish, Goto
<1>3. ASSUME NEW at, Settle(u, at) PROVE FALSE
  BY <1>1, <1>2, <1>3 DEF Settle, Goto
<1>4. ASSUME NEW digest, Refuse(u, digest) PROVE FALSE
  BY <1>1, <1>2, <1>4 DEF Refuse, Goto
<1>5. ASSUME NEW base, NEW was, mem' = [mem EXCEPT ![u] = Loaded(base, was)]
      PROVE  /\ mem'[u].head = head /\ mem'[u].reviewed = reviewed
             /\ mem'[u].doc = HeadDoc /\ mem'[u].published = published
  BY <1>1, <1>5 DEF Loaded
<1>6. CASE PostSource(u) \/ PostForm(u) \/ PutUnnamed(u) \/ TakeLock(u)
  BY <1>5, <1>6 DEF PostSource, PostForm, PutUnnamed, TakeLock, table
<1>7. CASE PutDocument(u)
  BY <1>2, <1>5, <1>7 DEF PutDocument, table
<1>8. CASE \E i \in 1..Len(revs) : PostRestore(u, i)
  BY <1>5, <1>8 DEF PostRestore, table
<1>9. ~(\/ \E kind \in Surfaces : OpenPage(u, kind)
        \/ \E mode \in Modes, sent \in Payloads :
             Send(u, mode, sent)
        \/ OpenReview(u) \/ Refresh(u) \/ Mark(u) \/ ConfirmMark(u))
  BY <1>1 DEF OpenPage, Send, OpenReview, Refresh, Mark, ConfirmMark, Goto
<1>10. ~(\/ ClosePage(u) \/ Sync(u) \/ GiveUp(u) \/ Crash(u)
         \/ \E run \in Runs \union {None} : WriteEntries(u, run))
  BY <1>2 DEF ClosePage, Sync, GiveUp, Crash, WriteEntries
<1>11. ~(\/ RefuseParameters(u) \/ RefuseStale(u)
         \/ SaveNothing(u) \/ SaveRevision(u))
  BY <1>3, <1>4 DEF RefuseParameters, RefuseStale, SaveNothing, SaveRevision
<1>12. ~(ConfirmLoad(u) \/ Publish(u))
  BY <1>1, <1>2 DEF ConfirmLoad, Publish, Goto
<1>13. ~ \E wanted \in BOOLEAN : OfferDraft(u, wanted)
  BY <1>1 DEF OfferDraft
<1> QED
  BY <1>6, <1>7, <1>8, <1>9, <1>10, <1>11, <1>12, <1>13 DEF Step

LEMMA WritersServe ==
  ASSUME NEW u \in Users, Step(u), revs' # revs \/ head' # head
  PROVE  pc[u] \in {"saving", "locked"}
BY WhoWrites DEF SaveRevision, Accepted, WriteEntries

LEMMA FreshLoadStep ==
  ASSUME TypeInv, OneServed, FreshLoad, NEW u \in Users, Step(u)
  PROVE  FreshLoad'
<1> SUFFICES ASSUME NEW v \in Users, pc'[v] \in {"saving", "locked"}
             PROVE  mem'[v].head = head'
  BY DEF FreshLoad
<1>1. CASE v = u
  BY <1>1, LoadsHead
<1>2. CASE v # u
  <2>1. pc[v] \in {"saving", "locked"} /\ mem'[v] = mem[v]
    BY <1>2, StepIsOwn
  <2>2. head' = head
    BY <2>1, <1>2, WritersServe DEF OneServed, Serving
  <2> QED
    BY <2>1, <2>2 DEF FreshLoad
<1> QED
  BY <1>1, <1>2

LEMMA LinearStep ==
  ASSUME TypeInv, FreshLoad, LinearHistory, NEW u \in Users, Step(u)
  PROVE  LinearHistory'
<1>1. revs \in Seq(Revision) /\ Len(revs) \in Nat /\ head = Len(revs)
  BY DEF TypeInv, TypeOK, LinearHistory
<1>2. /\ Merged(u) \in Doc /\ WithEntries(u) \in Doc
      /\ mem[u].head \in Nat /\ mem[u].base \in Nat
  BY OverlayTypes DEF TypeInv, TypeOK, Memory
<1>3. CASE revs' = revs /\ head' = head
  BY <1>3 DEF LinearHistory
<1>4. ASSUME NEW doc \in Doc, NEW base \in Nat, NEW run \in Runs \union {None},
             WriteRevision(u, doc, mem[u].head, base, run),
             mem[u].head = head
      PROVE  LinearHistory'
  <2>1. /\ Len(revs') = Len(revs) + 1
        /\ head' = Len(revs')
        /\ \A i \in 1..Len(revs) : revs'[i] = revs[i]
    BY <1>2, <1>4, WriteTyped
  <2>2. revs'[Len(revs) + 1].parent = Len(revs)
    BY <1>1, <1>4 DEF WriteRevision
  <2>3. \A i \in 1..Len(revs') : revs'[i].parent = i - 1
    BY <1>1, <2>1, <2>2 DEF LinearHistory
  <2> QED
    BY <2>1, <2>3 DEF LinearHistory
<1>5. CASE SaveRevision(u)
  <2>1. WriteRevision(u, Merged(u), mem[u].head, mem[u].base, None)
    BY <1>5 DEF SaveRevision
  <2>2. mem[u].head = head
    BY <1>5 DEF SaveRevision, Accepted, FreshLoad
  <2> QED
    BY <1>2, <1>4, <2>1, <2>2
<1>6. ASSUME NEW run \in Runs \union {None}, WriteEntries(u, run)
      PROVE  LinearHistory'
  <2>1. mem[u].head = head
    BY <1>6 DEF WriteEntries, FreshLoad
  <2>2. CASE WithEntries(u) = mem[u].doc
    BY <1>3, <1>6, <2>2 DEF WriteEntries
  <2>3. CASE WithEntries(u) # mem[u].doc /\ ~Amends(u, run)
    <3>1. WriteRevision(u, WithEntries(u), mem[u].head, mem[u].head, run)
      BY <1>6, <2>3 DEF WriteEntries
    <3> QED
      BY <1>2, <1>4, <2>1, <3>1
  <2>4. CASE WithEntries(u) # mem[u].doc /\ Amends(u, run)
    <3>1. /\ revs' = [revs EXCEPT ![mem[u].head].doc = WithEntries(u)]
          /\ head' = head
      BY <1>6, <2>4 DEF WriteEntries
    <3>2. Len(revs') = Len(revs)
      BY <1>1, <3>1
    <3>3. \A i \in 1..Len(revs) : revs[i] \in Revision
      BY <1>1
    <3>4. \A i \in 1..Len(revs) : revs'[i].parent = revs[i].parent
      BY <1>1, <3>1, <3>3 DEF Revision
    <3> QED
      BY <3>1, <3>2, <3>4 DEF LinearHistory
  <2> QED
    BY <2>2, <2>3, <2>4
<1> QED
  BY <1>3, <1>5, <1>6, WhoWrites

LEMMA SerialNext ==
  ASSUME Workers = 1, SerialInv, [Next]_vars
  PROVE  SerialInv'
<1>1. TypeInv'
  BY NextTyped DEF SerialInv
<1>2. CASE UNCHANGED vars
  BY <1>1, <1>2 DEF vars, table, SerialInv, OneServed, FreshLoad,
                    LinearHistory
<1>3. ASSUME NEW u \in Users, Step(u) PROVE SerialInv'
  BY <1>1, <1>3, OneServedStep, FreshLoadStep, LinearStep DEF SerialInv
<1> QED
  BY <1>2, <1>3 DEF Next

LEMMA SerialInit ==
  ASSUME Init
  PROVE  SerialInv
<1>1. OneServed /\ FreshLoad
  BY DEF Init, OneServed, FreshLoad, Serving
<1>2. LinearHistory
  BY DEF Init, LinearHistory
<1> QED
  BY <1>1, <1>2, InitTyped DEF SerialInv

\* With one worker the history is a chain that ends in the head: no two
\* requests commit on the same parent, generator runs included.
THEOREM OneWorkerLinear ==
  ASSUME Workers = 1
  PROVE  Spec => []LinearHistory
<1>1. Init => SerialInv
  BY SerialInit
<1>2. SerialInv /\ [Next]_vars => SerialInv'
  BY SerialNext
<1>3. SerialInv => LinearHistory
  BY DEF SerialInv
<1> QED
  BY <1>1, <1>2, <1>3, PTL DEF Spec
------------------------------------------------------------------------------
(* A save is the author's patch, when no run amends a revision somebody    *)
(* has a page of.                                                          *)

\* A document some revision of a history holds.
Known(doc, history) == \E i \in 1..Len(history) : history[i].doc = doc

\* The digest of an open page names a revision, and a save holds the head,
\* the revision its page named and what that revision says.
PageInv ==
  \A u \in Users :
    /\ pc[u] = "editing" => Known(form[u].digest, revs)
    /\ pc[u] = "saving" =>
         /\ mem[u].doc = HeadDoc
         /\ mem[u].was = form[u].digest
         /\ mem[u].base \in 1..Len(revs)
         /\ revs[mem[u].base].doc = mem[u].was

PatchInv == SerialInv /\ PageInv

LEMMA KnownStays ==
  ASSUME TypeInv, Runs = {}, NEW u \in Users, Step(u), NEW doc,
         Known(doc, revs)
  PROVE  Known(doc, revs')
<1>1. /\ Len(revs') >= Len(revs)
      /\ \A i \in 1..Len(revs) : revs'[i] = revs[i]
  BY HistoryKept
<1>2. PICK i \in 1..Len(revs) : revs[i].doc = doc
  BY DEF Known
<1>3. Len(revs) \in Nat /\ Len(revs') \in Nat
  BY NextTyped DEF Next, TypeInv, TypeOK
<1>4. i \in 1..Len(revs') /\ revs'[i].doc = doc
  BY <1>1, <1>2, <1>3
<1> QED
  BY <1>4 DEF Known

LEMMA HeadKnown ==
  ASSUME TypeInv
  PROVE  Known(HeadDoc, revs) /\ head \in 1..Len(revs)
BY DEF TypeInv, TypeOK, Known, HeadDoc

LEMMA KnownHasDigest == \A doc : Known(doc, revs) <=> WithDigest(doc) # {}
BY DEF Known, WithDigest

\* A page is open because it was opened, or because a save was refused.
LEMMA WhoEdits ==
  ASSUME TypeInv, NEW u \in Users, Step(u), pc'[u] = "editing"
  PROVE  \/ form'[u].digest = HeadDoc
         \/ pc[u] = "saving" /\ form'[u].digest \in {mem[u].was, mem[u].doc}
<1>1. /\ pc \in [Users -> Pages \union Serving]
      /\ form \in [Users -> Form]
  BY DEF TypeInv, TypeOK
<1>2. ASSUME Finish(u) PROVE FALSE
  BY <1>1, <1>2 DEF Finish, Goto
<1>3. ASSUME NEW at, Settle(u, at) PROVE FALSE
  BY <1>1, <1>2, <1>3 DEF Settle, Goto
<1>4. ASSUME NEW digest, Refuse(u, digest)
      PROVE  form'[u].digest = digest
  <2>1. form' = [form EXCEPT ![u].digest = digest]
    BY <1>2, <1>4 DEF Refuse
  <2> QED
    BY <1>1, <2>1 DEF Form
<1>5. CASE \E kind \in Surfaces : OpenPage(u, kind)
  BY <1>1, <1>5 DEF OpenPage
<1>6. CASE RefuseParameters(u) \/ RefuseStale(u)
  BY <1>4, <1>6 DEF RefuseParameters, RefuseStale
<1>7. ~(\/ PostSource(u) \/ PostForm(u) \/ PutUnnamed(u) \/ TakeLock(u)
        \/ \E i \in 1..Len(revs) : PostRestore(u, i)
        \/ \E mode \in Modes, sent \in Payloads :
             Send(u, mode, sent)
        \/ OpenReview(u) \/ Refresh(u) \/ Mark(u) \/ ConfirmMark(u))
  BY <1>1 DEF PostSource, PostForm, PutUnnamed, TakeLock, PostRestore, Send,
              OpenReview, Refresh, Mark, ConfirmMark, Goto
<1>8. ~(\/ ClosePage(u) \/ Sync(u) \/ GiveUp(u) \/ Crash(u)
        \/ \E run \in Runs \union {None} : WriteEntries(u, run))
  BY <1>2 DEF ClosePage, Sync, GiveUp, Crash, WriteEntries
<1>9. ~(SaveNothing(u) \/ SaveRevision(u))
  BY <1>3 DEF SaveNothing, SaveRevision
<1>10. ~(PutDocument(u) \/ ConfirmLoad(u) \/ Publish(u))
  BY <1>1, <1>2 DEF PutDocument, ConfirmLoad, Publish, Goto
<1>11. ~ \E wanted \in BOOLEAN : OfferDraft(u, wanted)
  BY <1>1 DEF OfferDraft
<1> QED
  BY <1>5, <1>6, <1>7, <1>8, <1>9, <1>10, <1>11 DEF Step

\* What the open pages and the saves hold is the text of some revision.
PagesKnown ==
  \A u \in Users :
    /\ pc[u] = "editing" => Known(form[u].digest, revs)
    /\ pc[u] = "saving" => Known(mem[u].was, revs) /\ Known(mem[u].doc, revs)

LEMMA PatchPagesKnown == PatchInv => PagesKnown
BY HeadKnown DEF PatchInv, SerialInv, PageInv, PagesKnown, Known

\* The digests of open pages go on naming a revision.
LEMMA EditingStep ==
  ASSUME Runs = {}, TypeInv, PagesKnown, NEW u \in Users, Step(u),
         NEW v \in Users, pc'[v] = "editing"
  PROVE  Known(form'[v].digest, revs')
<1>1. Known(form'[v].digest, revs)
  <2>1. CASE v # u
    BY <2>1, StepIsOwn DEF PagesKnown
  <2>2. CASE v = u /\ form'[u].digest = HeadDoc
    BY <2>2, HeadKnown
  <2>3. CASE /\ v = u /\ pc[u] = "saving"
             /\ form'[u].digest \in {mem[u].was, mem[u].doc}
    BY <2>3 DEF PagesKnown
  <2> QED
    BY <2>1, <2>2, <2>3, WhoEdits
<1> QED
  BY <1>1, KnownStays

\* What a request that comes to save holds.
SaveHolds(u) ==
  /\ mem'[u].doc = HeadDoc
  /\ mem'[u].was = form'[u].digest
  /\ mem'[u].base \in 1..Len(revs)
  /\ revs[mem'[u].base].doc = mem'[u].was

LEMMA SavingStarts ==
  ASSUME TypeInv, PagesKnown, NEW u \in Users, Step(u), pc'[u] = "saving"
  PROVE  SaveHolds(u)
<1>1. /\ TypeInv
      /\ pc \in [Users -> Pages \union Serving]
      /\ mem \in [Users -> Memory]
      /\ form \in [Users -> Form]
  BY DEF TypeInv, TypeOK
<1>2. Known(HeadDoc, revs) /\ head \in 1..Len(revs) /\ revs[head].doc = HeadDoc
  BY <1>1, HeadKnown DEF HeadDoc
<1>3. ASSUME NEW base \in 1..Len(revs), NEW was, revs[base].doc = was,
             mem' = [mem EXCEPT ![u] = Loaded(base, was)],
             form'[u].digest = was
      PROVE  SaveHolds(u)
  <2>1. mem'[u] = Loaded(base, was)
    BY <1>1, <1>3
  <2> QED
    BY <1>3, <2>1 DEF SaveHolds, Loaded
<1>4. ASSUME pc[u] = "editing"
      PROVE  /\ WithDigest(form[u].digest) # {}
             /\ Newest(WithDigest(form[u].digest)) \in 1..Len(revs)
             /\ revs[Newest(WithDigest(form[u].digest))].doc = form[u].digest
  <2>1. WithDigest(form[u].digest) # {}
    BY <1>4, KnownHasDigest DEF PagesKnown
  <2> QED
    BY <1>1, <2>1, NewestType DEF TypeInv
<1>5. CASE PostSource(u)
  <2>1. mem' = [mem EXCEPT ![u] =
                  Loaded(Newest(WithDigest(form[u].digest)), form[u].digest)]
    BY <1>4, <1>5 DEF PostSource
  <2>2. PICK doc \in Edits(form[u].mine) :
          form' = [form EXCEPT
                    ![u].mine = doc,
                    ![u].touched = @ \union Touching(form[u].mine, doc)]
    BY <1>5 DEF PostSource
  <2>3. form'[u].digest = form[u].digest
    BY <1>1, <2>2 DEF Form
  <2> QED
    BY <1>3, <1>4, <1>5, <2>1, <2>3 DEF PostSource
<1>6. CASE PostForm(u)
  <2>1. mem' = [mem EXCEPT ![u] =
                  Loaded(Newest(WithDigest(form[u].digest)), form[u].digest)]
    BY <1>4, <1>6 DEF PostForm
  <2>2. form'[u].digest = form[u].digest
    BY <1>1, <1>6 DEF PostForm, Form
  <2> QED
    BY <1>3, <1>4, <1>6, <2>1, <2>2 DEF PostForm
<1>7. CASE PutDocument(u)
  <2>1. mem' = [mem EXCEPT ![u] =
                  Loaded(Newest(WithDigest(form[u].digest)), form[u].digest)]
    BY <1>4, <1>7 DEF PutDocument
  <2>2. form'[u].digest = form[u].digest
    BY <1>1, <1>4, <1>7 DEF PutDocument, Form
  <2> QED
    BY <1>3, <1>4, <1>7, <2>1, <2>2 DEF PutDocument
<1>8. CASE PutUnnamed(u)
  <2>1. form'[u].digest = HeadDoc
    BY <1>1, <1>8 DEF PutUnnamed
  <2> QED
    BY <1>2, <1>3, <1>8, <2>1 DEF PutUnnamed
<1>9. CASE \E i \in 1..Len(revs) : PostRestore(u, i)
  <2>1. form'[u].digest = HeadDoc
    BY <1>1, <1>9 DEF PostRestore
  <2> QED
    BY <1>2, <1>3, <1>9, <2>1 DEF PostRestore
<1>10. ASSUME Finish(u) PROVE FALSE
  BY <1>1, <1>10 DEF Finish, Goto
<1>11. ASSUME NEW at, Settle(u, at) PROVE FALSE
  BY <1>1, <1>10, <1>11 DEF Settle, Goto
<1>12. ASSUME NEW digest, Refuse(u, digest) PROVE FALSE
  BY <1>1, <1>10, <1>12 DEF Refuse, Goto
<1>13. ~(\/ \E kind \in Surfaces : OpenPage(u, kind)
         \/ \E mode \in Modes, sent \in Payloads :
              Send(u, mode, sent)
         \/ TakeLock(u)
         \/ OpenReview(u) \/ Refresh(u) \/ Mark(u) \/ ConfirmMark(u))
  BY <1>1 DEF OpenPage, Send, TakeLock, OpenReview, Refresh, Mark,
              ConfirmMark, Goto
<1>14. ~(\/ ClosePage(u) \/ Sync(u) \/ GiveUp(u) \/ Crash(u)
         \/ \E run \in Runs \union {None} : WriteEntries(u, run))
  BY <1>10 DEF ClosePage, Sync, GiveUp, Crash, WriteEntries
<1>15. ~(\/ RefuseParameters(u) \/ RefuseStale(u)
         \/ SaveNothing(u) \/ SaveRevision(u))
  BY <1>11, <1>12 DEF RefuseParameters, RefuseStale, SaveNothing, SaveRevision
<1>16. ~(ConfirmLoad(u) \/ Publish(u))
  BY <1>1, <1>10 DEF ConfirmLoad, Publish, Goto
<1>17. ~ \E wanted \in BOOLEAN : OfferDraft(u, wanted)
  BY <1>1 DEF OfferDraft
<1> QED
  BY <1>5, <1>6, <1>7, <1>8, <1>9, <1>13, <1>14, <1>15, <1>16, <1>17 DEF Step

LEMMA PageStep ==
  ASSUME Workers = 1, Runs = {}, PatchInv, NEW u \in Users, Step(u)
  PROVE  PageInv'
<1>1. TypeInv /\ OneServed /\ PagesKnown
  BY PatchPagesKnown DEF PatchInv, SerialInv
<1> SUFFICES ASSUME NEW v \in Users, pc'[v] = "saving"
             PROVE  /\ mem'[v].doc = HeadDoc'
                    /\ mem'[v].was = form'[v].digest
                    /\ mem'[v].base \in 1..Len(revs')
                    /\ revs'[mem'[v].base].doc = mem'[v].was
  BY <1>1, EditingStep DEF PageInv
<1>2. CASE v = u
  BY <1>1, <1>2, SavingStarts, LoadsHead DEF SaveHolds, HeadDoc
<1>3. CASE v # u
  <2>1. pc[v] = "saving" /\ mem'[v] = mem[v] /\ form'[v] = form[v]
    BY <1>1, <1>3, StepIsOwn
  <2>2. revs' = revs /\ head' = head
    BY <1>1, <1>3, <2>1, WritersServe DEF OneServed, Serving
  <2> QED
    BY <2>1, <2>2 DEF PatchInv, PageInv, HeadDoc
<1> QED
  BY <1>2, <1>3

\* What a save that is accepted merges to, when its base says what the page
\* said: the author's changes over the version it has loaded.
LEMMA MergedIsOverlay ==
  ASSUME TypeInv, NEW u \in Users, ~Clashes(u),
         mem[u].was = form[u].digest,
         mem[u].base = mem[u].head => mem[u].was = mem[u].doc
  PROVE  Merged(u) = Overlay(form[u].digest, form[u].mine, mem[u].doc)
<1>1. /\ form[u].mine \in Doc /\ form[u].digest \in Doc
  BY DEF TypeInv, TypeOK, Form
<1>2. CASE mem[u].base = mem[u].head
  <2>1. Merged(u) = form[u].mine /\ form[u].digest = mem[u].doc
    BY <1>2 DEF Merged
  <2> QED
    BY <1>1, <2>1 DEF Overlay, Doc
<1>3. CASE mem[u].base # mem[u].head
  <2>1. Conflicts(Unit, form[u].digest, form[u].mine, mem[u].doc) = {}
    BY <1>3 DEF Clashes
  <2>2. /\ DOMAIN form[u].digest = DOMAIN Unit
        /\ \A f \in DOMAIN Unit : f \in Unit[f]
    BY <1>1 DEF Unit, Doc
  <2>3. MergeDocs(Unit, form[u].digest, form[u].mine, mem[u].doc)
        = Overlay(form[u].digest, form[u].mine, mem[u].doc)
    BY <2>1, <2>2, MergeIsOverlay
  <2> QED
    BY <1>3, <2>3 DEF Merged
<1> QED
  BY <1>2, <1>3

LEMMA PatchStep ==
  ASSUME Workers = 1, Runs = {}, PatchInv, NEW u \in Users, Step(u),
         NEW v \in Users, Writes(v), pc[v] = "saving"
  PROVE  HeadDoc' = Overlay(form[v].digest, form[v].mine, HeadDoc)
<1>1. TypeInv
  BY DEF PatchInv, SerialInv
<1>2. v = u
  BY <1>1, StepIsOwn DEF Writes
<1>3. SaveRevision(u)
  BY <1>2, WhoWrites DEF Writes, WriteEntries
<1>4. /\ Merged(u) \in Doc /\ mem[u].head \in Nat /\ mem[u].base \in Nat
  BY <1>1, OverlayTypes DEF TypeInv, TypeOK, Memory
<1>5. HeadDoc' = Merged(u)
  BY <1>1, <1>3, <1>4, WriteTyped DEF SaveRevision, HeadDoc
<1>6. /\ mem[u].doc = HeadDoc
      /\ mem[u].was = form[u].digest
      /\ revs[mem[u].base].doc = mem[u].was
      /\ mem[u].head = head
  BY <1>3 DEF SaveRevision, Accepted, PatchInv, PageInv, SerialInv, FreshLoad
<1>7. ~Clashes(u) /\ (mem[u].base = mem[u].head => mem[u].was = mem[u].doc)
  BY <1>3, <1>6 DEF SaveRevision, Accepted, HeadDoc
<1> QED
  BY <1>1, <1>2, <1>5, <1>6, <1>7, MergedIsOverlay

\* With one worker and no generator runs, a save commits exactly the changes
\* its author made to the version their page named, over whatever the head
\* says by then.
THEOREM OneWorkerSavesPatches ==
  ASSUME Workers = 1, Runs = {}
  PROVE  Spec => SaveIsThePatch
<1>1. Init => PatchInv
  <2>1. Init => PageInv
    BY DEF Init, PageInv
  <2> QED
    BY <2>1, SerialInit DEF PatchInv
<1>2. PatchInv /\ [Next]_vars => PatchInv'
  <2> SUFFICES ASSUME PatchInv, [Next]_vars PROVE PatchInv'
    OBVIOUS
  <2>1. SerialInv'
    BY SerialNext DEF PatchInv
  <2>2. CASE UNCHANGED vars
    BY <2>1, <2>2 DEF vars, table, PatchInv, PageInv, Known, HeadDoc
  <2>3. ASSUME NEW u \in Users, Step(u) PROVE PatchInv'
    BY <2>1, <2>3, PageStep DEF PatchInv
  <2> QED
    BY <2>2, <2>3 DEF Next
<1>3. PatchInv /\ [Next]_vars =>
        [\A u \in Users : Writes(u) /\ pc[u] = "saving" =>
           HeadDoc' = Overlay(form[u].digest, form[u].mine, HeadDoc)]_vars
  BY PatchStep DEF Next
<1> QED
  BY <1>1, <1>2, <1>3, PTL DEF Spec, SaveIsThePatch
------------------------------------------------------------------------------
(* What is searched and published has been read.                           *)

FlaggedVouched == \A p \in Pairs(HeadDoc) : p[1] \in flagged => p \in vouched

\* From its mark to its flags a confirmation stands for the head as it is.
ConfirmedHead ==
  \A u \in Users :
    /\ pc[u] = "confirming" => /\ mem[u].head = head
                               /\ mem[u].doc = HeadDoc
                               /\ form[u].digest = HeadDoc
    /\ pc[u] = "publishing" => mem[u].doc = HeadDoc
    /\ pc[u] \in {"publishing", "syncing"} => Pairs(HeadDoc) \subseteq vouched

\* The revision a request about to write takes as reviewed has been read.
LoadedRead ==
  \A u \in Users :
    pc[u] \in {"saving", "locked"} /\ mem[u].reviewed # 0
      => Pairs(revs[mem[u].reviewed].doc) \subseteq vouched

GateInv ==
  /\ SerialInv /\ ReadInv
  /\ FlaggedVouched /\ ConfirmedHead /\ LoadedRead

\* The rows a rebuild leaves flagged say what the reviewed revision says.
LEMMA RebuiltRows ==
  ASSUME NEW at, NEW current, NEW history, at # current,
         NEW p \in Pairs(history[current].doc),
         p[1] \in ReviewedRows(at, current, history)
  PROVE  at # 0 /\ p \in Pairs(history[at].doc)
<1>1. at # 0 /\ p[1] \in Entries
      /\ history[at].doc[p[1]] = history[current].doc[p[1]]
  BY DEF ReviewedRows, ChangedParams
<1>2. PICK e \in Entries : /\ history[current].doc[e] # Absent
                           /\ p = <<e, history[current].doc[e]>>
  BY DEF Pairs
<1>3. p[1] = e
  BY <1>2
<1> QED
  BY <1>1, <1>2, <1>3 DEF Pairs

\* Writing a revision over rows built from a reviewed one.
LEMMA RebuildKeepsGate ==
  ASSUME GateInv, NEW u \in Users, pc[u] \in {"saving", "locked"},
         vouched' = vouched,
         NEW doc \in Doc, NEW base \in Nat, NEW run \in Runs \union {None},
         WriteRevision(u, doc, mem[u].head, base, run),
         flagged' = ReviewedRows(mem[u].reviewed, head', revs')
  PROVE  FlaggedVouched'
<1> SUFFICES ASSUME NEW p \in Pairs(HeadDoc'), p[1] \in flagged'
             PROVE  p \in vouched
  BY DEF FlaggedVouched
<1>1. TypeInv /\ mem[u].head \in Nat
  BY DEF GateInv, SerialInv, TypeInv, TypeOK, Memory
<1>2. /\ Len(revs') = Len(revs) + 1
      /\ head' = Len(revs')
      /\ \A i \in 1..Len(revs) : revs'[i] = revs[i]
  BY <1>1, WriteTyped
<1>3. mem[u].reviewed \in 0..Len(revs) /\ Len(revs) \in Nat
  BY <1>1 DEF TypeInv, TypeOK, LoadedExists
<1>4. mem[u].reviewed # head'
  BY <1>2, <1>3
<1>5. mem[u].reviewed # 0 /\ p \in Pairs(revs'[mem[u].reviewed].doc)
  BY <1>4, RebuiltRows DEF HeadDoc
<1>6. revs'[mem[u].reviewed] = revs[mem[u].reviewed]
  BY <1>2, <1>3, <1>5
<1> QED
  BY <1>5, <1>6 DEF GateInv, LoadedRead

LEMMA FlaggedStep ==
  ASSUME WritersAreReviewed, GateInv, NEW u \in Users, Step(u)
  PROVE  FlaggedVouched'
<1>1. /\ TypeInv
      /\ vouched \subseteq vouched'
  BY VouchedGrows DEF GateInv, ReadInv
<1>2. /\ Merged(u) \in Doc /\ WithEntries(u) \in Doc
      /\ mem[u].head \in Nat /\ mem[u].base \in Nat
  BY <1>1, OverlayTypes DEF TypeInv, TypeOK, Memory
<1>3. CASE SaveRevision(u)
  <2>1. /\ pc[u] = "saving"
        /\ vouched' = vouched
        /\ WriteRevision(u, Merged(u), mem[u].head, mem[u].base, None)
        /\ flagged' = ReviewedRows(mem[u].reviewed, head', revs')
    BY <1>3 DEF SaveRevision, Rebuilt, Accepted
  <2> QED
    BY <1>2, <2>1, RebuildKeepsGate
<1>4. ASSUME NEW run \in Runs \union {None}, WriteEntries(u, run)
      PROVE  FlaggedVouched'
  <2>1. pc[u] = "locked" /\ u \notin Standing
    BY <1>4 DEF WriteEntries, GateInv, ReadInv, WritersInv
  <2>2. /\ vouched' = vouched
        /\ flagged' = IF revs' = revs THEN flagged
                      ELSE ReviewedRows(mem[u].reviewed, head', revs')
    BY <1>4, <2>1 DEF WriteEntries, Rebuilt
  <2>3. CASE revs' = revs /\ head' = head
    BY <2>2, <2>3 DEF GateInv, FlaggedVouched, HeadDoc
  <2>4. CASE /\ WriteRevision(u, WithEntries(u), mem[u].head, mem[u].head, run)
             /\ revs' # revs
    BY <1>2, <2>1, <2>2, <2>4, RebuildKeepsGate
  <2>5. ASSUME WriteRevision(u, WithEntries(u), mem[u].head, mem[u].head, run)
        PROVE  revs' # revs
    <3>1. Len(revs') = Len(revs) + 1 /\ Len(revs) \in Nat
      BY <1>1, <1>2, <2>5, WriteTyped DEF TypeInv, TypeOK
    <3> QED
      BY <3>1
  <2> QED
    BY <1>1, <1>4, <2>3, <2>4, <2>5, SubmissionAppends
       DEF WritersAreReviewed
<1>5. CASE Sync(u)
  <2>1. Pairs(HeadDoc) \subseteq vouched
    BY <1>5 DEF Sync, GateInv, ConfirmedHead
  <2> QED
    BY <1>5, <2>1 DEF Sync, FlaggedVouched, HeadDoc
<1>6. CASE /\ flagged' = flagged /\ revs' = revs /\ head' = head
  BY <1>1, <1>6 DEF GateInv, FlaggedVouched, HeadDoc
<1> QED
  BY <1>3, <1>4, <1>5, <1>6, WhoFlags, WhoWrites

\* How a confirmation goes from one phase to the next.
LEMMA ConfirmPhases ==
  ASSUME TypeInv, WritersInv, NEW u \in Users, Step(u),
         pc'[u] \in {"confirming", "publishing", "syncing"}
  PROVE  /\ revs' = revs /\ head' = head
         /\ \/ /\ pc'[u] = "confirming"
               /\ mem'[u].head = head /\ mem'[u].doc = HeadDoc
               /\ form'[u].digest = HeadDoc
            \/ /\ pc[u] = "confirming" /\ pc'[u] # "confirming"
               /\ mem'[u] = mem[u]
               /\ vouched' = vouched \union Pairs(form[u].digest)
            \/ /\ pc[u] = "publishing" /\ pc'[u] = "syncing"
<1>1. /\ pc \in [Users -> Pages \union Serving]
      /\ mem \in [Users -> Memory]
      /\ form \in [Users -> Form]
  BY DEF TypeInv, TypeOK
<1>2. ASSUME Finish(u) PROVE FALSE
  BY <1>1, <1>2 DEF Finish, Goto
<1>3. ASSUME NEW at, Settle(u, at) PROVE FALSE
  BY <1>1, <1>2, <1>3 DEF Settle, Goto
<1>4. ASSUME NEW digest, Refuse(u, digest) PROVE FALSE
  BY <1>1, <1>2, <1>4 DEF Refuse, Goto
<1>5. CASE ConfirmLoad(u)
  <2>1. /\ pc'[u] = "confirming" /\ form[u].digest = HeadDoc /\ form' = form
        /\ mem' = [mem EXCEPT ![u] = Loaded(head, HeadDoc)]
        /\ revs' = revs /\ head' = head
    BY <1>1, <1>2, <1>5 DEF ConfirmLoad, Goto, table
  <2> QED
    BY <1>1, <2>1 DEF Loaded
<1>6. CASE ConfirmMark(u)
  BY <1>1, <1>6 DEF ConfirmMark, Goto
<1>7. CASE Publish(u)
  BY <1>1, <1>2, <1>7 DEF Publish, Goto
<1>8. ~(Mark(u) \/ Refresh(u))
  BY DEF WritersInv, Mark, Refresh
<1>9. ~(\/ PostSource(u) \/ PostForm(u) \/ PutUnnamed(u) \/ TakeLock(u)
        \/ \E kind \in Surfaces : OpenPage(u, kind)
        \/ \E i \in 1..Len(revs) : PostRestore(u, i)
        \/ \E mode \in Modes, sent \in Payloads :
             Send(u, mode, sent)
        \/ OpenReview(u))
  BY <1>1 DEF PostSource, PostForm, PutUnnamed, TakeLock, OpenPage,
              PostRestore, Send, OpenReview, Goto
<1>10. ~(\/ ClosePage(u) \/ Sync(u) \/ GiveUp(u) \/ Crash(u)
         \/ \E run \in Runs \union {None} : WriteEntries(u, run))
  BY <1>2 DEF ClosePage, Sync, GiveUp, Crash, WriteEntries
<1>11. ~(\/ RefuseParameters(u) \/ RefuseStale(u)
         \/ SaveNothing(u) \/ SaveRevision(u))
  BY <1>3, <1>4 DEF RefuseParameters, RefuseStale, SaveNothing, SaveRevision
<1>12. ~PutDocument(u)
  BY <1>1, <1>2 DEF PutDocument, Goto
<1>13. ~ \E wanted \in BOOLEAN : OfferDraft(u, wanted)
  BY <1>1 DEF OfferDraft
<1> QED
  BY <1>5, <1>6, <1>7, <1>8, <1>9, <1>10, <1>11, <1>12, <1>13 DEF Step

LEMMA ConfirmedStep ==
  ASSUME WritersAreReviewed, GateInv, NEW u \in Users, Step(u)
  PROVE  ConfirmedHead'
<1> SUFFICES ASSUME NEW v \in Users,
                    pc'[v] \in {"confirming", "publishing", "syncing"}
             PROVE  /\ pc'[v] = "confirming" => /\ mem'[v].head = head'
                                                /\ mem'[v].doc = HeadDoc'
                                                /\ form'[v].digest = HeadDoc'
                    /\ pc'[v] = "publishing" => mem'[v].doc = HeadDoc'
                    /\ pc'[v] \in {"publishing", "syncing"}
                         => Pairs(HeadDoc') \subseteq vouched'
  BY DEF ConfirmedHead
<1>1. /\ TypeInv /\ OneServed /\ WritersInv /\ ConfirmedHead
      /\ vouched \subseteq vouched'
  BY VouchedGrows DEF GateInv, SerialInv, ReadInv
<1>2. CASE v # u
  <2>1. pc[v] = pc'[v] /\ mem'[v] = mem[v] /\ form'[v] = form[v]
    BY <1>1, <1>2, StepIsOwn
  <2>2. revs' = revs /\ head' = head
    BY <1>1, <1>2, <2>1, WritersServe DEF OneServed, Serving
  <2>3. HeadDoc' = HeadDoc
    BY <2>2 DEF HeadDoc
  <2> QED
    BY <1>1, <2>1, <2>2, <2>3 DEF ConfirmedHead
<1>3. CASE v = u
  <2>1. /\ revs' = revs /\ head' = head
        /\ \/ /\ pc'[u] = "confirming"
              /\ mem'[u].head = head /\ mem'[u].doc = HeadDoc
              /\ form'[u].digest = HeadDoc
           \/ /\ pc[u] = "confirming" /\ pc'[u] # "confirming"
              /\ mem'[u] = mem[u]
              /\ vouched' = vouched \union Pairs(form[u].digest)
           \/ /\ pc[u] = "publishing" /\ pc'[u] = "syncing"
    BY <1>1, <1>3, ConfirmPhases
  <2>2. HeadDoc' = HeadDoc
    BY <2>1 DEF HeadDoc
  <2> QED
    BY <1>1, <1>3, <2>1, <2>2 DEF ConfirmedHead
<1> QED
  BY <1>2, <1>3

LEMMA LoadedReadStep ==
  ASSUME WritersAreReviewed, GateInv, NEW u \in Users, Step(u)
  PROVE  LoadedRead'
<1> SUFFICES ASSUME NEW v \in Users, pc'[v] \in {"saving", "locked"},
                    mem'[v].reviewed # 0
             PROVE  Pairs(revs'[mem'[v].reviewed].doc) \subseteq vouched'
  BY DEF LoadedRead
<1>1. /\ TypeInv /\ OneServed /\ LoadedRead /\ ReviewedWasRead
      /\ vouched \subseteq vouched'
  BY VouchedGrows DEF GateInv, SerialInv, ReadInv
<1>2. CASE v # u
  <2>1. pc[v] = pc'[v] /\ mem'[v] = mem[v]
    BY <1>1, <1>2, StepIsOwn
  <2>2. revs' = revs
    BY <1>1, <1>2, <2>1, WritersServe DEF OneServed, Serving
  <2> QED
    BY <1>1, <2>1, <2>2 DEF LoadedRead
<1>3. CASE v = u
  <2>1. revs' = revs /\ mem'[u].reviewed = reviewed
    BY <1>1, <1>3, LoadsHead
  <2> QED
    BY <1>1, <1>3, <2>1 DEF ReviewedWasRead
<1> QED
  BY <1>2, <1>3

LEMMA GateInit ==
  ASSUME Init
  PROVE  GateInv
<1>1. FlaggedVouched
  <2> SUFFICES ASSUME NEW p \in Pairs(HeadDoc), p[1] \in flagged
               PROVE  p \in vouched
    BY DEF FlaggedVouched
  <2>1. reviewed # 0
    BY DEF Init, ReviewedRows
  <2> QED
    BY <2>1 DEF Init, HeadDoc
<1>2. ConfirmedHead /\ LoadedRead
  BY DEF Init, ConfirmedHead, LoadedRead
<1> QED
  BY <1>1, <1>2, SerialInit, InitRead DEF GateInv

LEMMA GateNext ==
  ASSUME Workers = 1, WritersAreReviewed, GateInv, [Next]_vars
  PROVE  GateInv'
<1>1. SerialInv'
  BY SerialNext DEF GateInv
<1>2. CASE UNCHANGED vars
  BY <1>1, <1>2 DEF vars, table, GateInv, ReadInv, WritersInv, ConfirmingInv,
     ReviewedWasRead, FlaggedVouched, ConfirmedHead, LoadedRead, HeadDoc,
     SerialInv
<1>3. ASSUME NEW u \in Users, Step(u) PROVE GateInv'
  <2>1. ReadInv'
    BY <1>1, <1>3, WritersStep, ConfirmingStep, ReviewedWasReadStep
       DEF GateInv, ReadInv, SerialInv
  <2>2. FlaggedVouched' /\ ConfirmedHead' /\ LoadedRead'
    BY <1>3, FlaggedStep, ConfirmedStep, LoadedReadStep
  <2> QED
    BY <1>1, <2>1, <2>2 DEF GateInv
<1> QED
  BY <1>2, <1>3 DEF Next

\* With one worker and writers without standing, search by number answers
\* only with values a reviewer had on screen.
THEOREM OneWorkerSearchIsConfirmed ==
  ASSUME Workers = 1, WritersAreReviewed
  PROVE  Spec => []SearchedIsConfirmed
<1>1. Init => GateInv
  BY GateInit
<1>2. GateInv /\ [Next]_vars => GateInv'
  BY GateNext
<1>3. GateInv => SearchedIsConfirmed
  BY DEF GateInv, FlaggedVouched, SearchedIsConfirmed, Searched
<1> QED
  BY <1>1, <1>2, <1>3, PTL DEF Spec

\* ... and a draft becomes public with entries, all of which a reviewer had
\* on screen.
THEOREM OneWorkerPublishesRead ==
  ASSUME Workers = 1, WritersAreReviewed
  PROVE  Spec => PublishedWasRead
<1>1. Init => GateInv
  BY GateInit
<1>2. GateInv /\ [Next]_vars => GateInv'
  BY GateNext
<1>3. GateInv /\ [Next]_vars =>
        [published' /\ ~published =>
           HasEntries(HeadDoc) /\ Pairs(HeadDoc) \subseteq vouched]_vars
  <2> SUFFICES ASSUME GateInv, NEW u \in Users, Step(u),
                      published' /\ ~published
               PROVE  HasEntries(HeadDoc) /\ Pairs(HeadDoc) \subseteq vouched
    BY DEF Next
  <2>1. Publish(u)
    BY WhoFlags
  <2>2. pc[u] = "publishing" /\ HasEntries(mem[u].doc)
    BY <2>1 DEF Publish
  <2> QED
    BY <2>2 DEF GateInv, ConfirmedHead
<1> QED
  BY <1>1, <1>2, <1>3, PTL DEF Spec, PublishedWasRead
------------------------------------------------------------------------------
(* The freeze of the parameters.                                           *)

\* A request about to write holds the table as it is, and a submission names
\* entries and nothing else, in one of the ways programs have.
FreezeInv ==
  /\ TypeInv
  /\ OneServed
  /\ FreshLoad
  /\ \A u \in Users :
       /\ pc[u] \in {"saving", "locked"} =>
            mem[u].doc = HeadDoc /\ mem[u].published = published
       /\ pc[u] \in {"waiting", "locked"} =>
            form[u].touched \subseteq Entries /\ form[u].kind \in Modes

\* What a submission that holds the head leaves.
LEMMA SubmissionWrites ==
  ASSUME TypeInv, NEW u \in Users, NEW run \in Runs \union {None},
         WriteEntries(u, run), mem[u].head = head
  PROVE  \/ revs' = revs /\ head' = head
         \/ HeadDoc' = WithEntries(u) /\ (revs' = revs => head' = head)
<1>1. /\ WithEntries(u) \in Doc /\ mem[u].head \in Nat
      /\ revs \in Seq(Revision) /\ Len(revs) \in Nat /\ head \in 1..Len(revs)
  BY OverlayTypes DEF TypeInv, TypeOK, Memory
<1>2. CASE WithEntries(u) = mem[u].doc
  BY <1>2 DEF WriteEntries
<1>3. CASE WithEntries(u) # mem[u].doc /\ Amends(u, run)
  <2>1. revs' = [revs EXCEPT ![head].doc = WithEntries(u)] /\ head' = head
    BY <1>3 DEF WriteEntries
  <2>2. revs[head] \in Revision
    BY <1>1
  <2>3. revs'[head].doc = WithEntries(u)
    BY <1>1, <2>1, <2>2 DEF Revision
  <2> QED
    BY <2>1, <2>3 DEF HeadDoc
<1>4. CASE WithEntries(u) # mem[u].doc /\ ~Amends(u, run)
  <2>1. WriteRevision(u, WithEntries(u), mem[u].head, mem[u].head, run)
    BY <1>4 DEF WriteEntries
  <2>2. revs'[head'].doc = WithEntries(u) /\ Len(revs') = Len(revs) + 1
    BY <1>1, <2>1, WriteTyped
  <2> QED
    BY <1>1, <2>2 DEF HeadDoc
<1> QED
  BY <1>2, <1>3, <1>4

LEMMA TouchesEntries ==
  ASSUME TypeInv, NEW u \in Users, Step(u), pc'[u] \in {"waiting", "locked"}
  PROVE  \/ form'[u].touched \subseteq Entries /\ form'[u].kind \in Modes
         \/ pc[u] = "waiting" /\ form'[u] = form[u]
<1>1. /\ pc \in [Users -> Pages \union Serving]
      /\ form \in [Users -> Form]
  BY DEF TypeInv, TypeOK
<1>2. ASSUME Finish(u) PROVE FALSE
  BY <1>1, <1>2 DEF Finish, Goto
<1>3. ASSUME NEW at, Settle(u, at) PROVE FALSE
  BY <1>1, <1>2, <1>3 DEF Settle, Goto
<1>4. ASSUME NEW digest, Refuse(u, digest) PROVE FALSE
  BY <1>1, <1>2, <1>4 DEF Refuse, Goto
<1>5. ASSUME NEW mode \in Modes, NEW sent \in Payloads,
             Send(u, mode, sent)
      PROVE  form'[u].touched \subseteq Entries /\ form'[u].kind \in Modes
  BY <1>1, <1>5 DEF Send
<1>6. CASE TakeLock(u)
  BY <1>6 DEF TakeLock
<1>7. ~(\/ PostSource(u) \/ PostForm(u) \/ PutUnnamed(u)
        \/ \E kind \in Surfaces : OpenPage(u, kind)
        \/ \E i \in 1..Len(revs) : PostRestore(u, i)
        \/ OpenReview(u) \/ Refresh(u) \/ Mark(u) \/ ConfirmMark(u))
  BY <1>1 DEF PostSource, PostForm, PutUnnamed, OpenPage, PostRestore,
              OpenReview, Refresh, Mark, ConfirmMark, Goto
<1>8. ~(\/ ClosePage(u) \/ Sync(u) \/ GiveUp(u) \/ Crash(u)
        \/ \E run \in Runs \union {None} : WriteEntries(u, run))
  BY <1>2 DEF ClosePage, Sync, GiveUp, Crash, WriteEntries
<1>9. ~(\/ RefuseParameters(u) \/ RefuseStale(u)
        \/ SaveNothing(u) \/ SaveRevision(u))
  BY <1>3, <1>4 DEF RefuseParameters, RefuseStale, SaveNothing, SaveRevision
<1>10. ~(PutDocument(u) \/ ConfirmLoad(u) \/ Publish(u))
  BY <1>1, <1>2 DEF PutDocument, ConfirmLoad, Publish, Goto
<1>11. ~ \E wanted \in BOOLEAN : OfferDraft(u, wanted)
  BY DEF OfferDraft
<1>12. \/ TakeLock(u)
       \/ \E mode \in Modes, sent \in Payloads :
            Send(u, mode, sent)
  BY <1>7, <1>8, <1>9, <1>10, <1>11 DEF Step
<1> QED
  BY <1>5, <1>6, <1>12

LEMMA FreezeNext ==
  ASSUME Workers = 1, FreezeInv, [Next]_vars
  PROVE  FreezeInv'
<1>1. TypeInv /\ OneServed /\ TypeInv'
  BY NextTyped DEF FreezeInv
<1>2. CASE UNCHANGED vars
  BY <1>1, <1>2 DEF vars, table, FreezeInv, OneServed, FreshLoad, HeadDoc
<1>3. ASSUME NEW u \in Users, Step(u)
      PROVE  FreezeInv'
  <2>1. OneServed' /\ FreshLoad'
    BY <1>1, <1>3, OneServedStep, FreshLoadStep DEF FreezeInv
  <2>2. ASSUME NEW v \in Users, pc'[v] \in {"saving", "locked"}
        PROVE  mem'[v].doc = HeadDoc' /\ mem'[v].published = published'
    <3>1. CASE v = u
      BY <1>1, <1>3, <2>2, <3>1, LoadsHead DEF HeadDoc
    <3>2. CASE v # u
      <4>1. pc[v] \in {"saving", "locked"} /\ mem'[v] = mem[v]
        BY <1>1, <1>3, <2>2, <3>2, StepIsOwn
      <4>2. pc[u] \notin Serving
        BY <1>1, <3>2, <4>1 DEF OneServed, Serving
      <4>3. revs' = revs /\ head' = head
        BY <1>3, <4>2, WritersServe DEF Serving
      <4>4. published' = published
        BY <1>3, <4>2, WhoFlags DEF Publish, Serving
      <4> QED
        BY <4>1, <4>3, <4>4 DEF FreezeInv, HeadDoc
    <3> QED
      BY <3>1, <3>2
  <2>3. ASSUME NEW v \in Users, pc'[v] \in {"waiting", "locked"}
        PROVE  form'[v].touched \subseteq Entries /\ form'[v].kind \in Modes
    <3>1. CASE v = u
      BY <1>1, <1>3, <2>3, <3>1, TouchesEntries DEF FreezeInv
    <3>2. CASE v # u
      BY <1>1, <1>3, <2>3, <3>2, StepIsOwn DEF FreezeInv
    <3> QED
      BY <3>1, <3>2
  <2> QED
    BY <1>1, <2>1, <2>2, <2>3 DEF FreezeInv
<1> QED
  BY <1>2, <1>3 DEF Next

\* What a save leaves of the parameters, when it holds the head.
LEMMA SaveKeepsParameters ==
  ASSUME NEW u \in Users, ~ParametersMoved(u), ~Clashes(u),
         mem[u].published, mem[u].doc[Parameters] # Absent,
         form[u].kind # "restore"
  PROVE  Merged(u)[Parameters] = mem[u].doc[Parameters]
<1>1. form[u].mine[Parameters] = mem[u].doc[Parameters]
  BY DEF ParametersMoved
<1>2. CASE mem[u].base = mem[u].head
  BY <1>1, <1>2 DEF Merged
<1>3. CASE mem[u].base # mem[u].head
  <2>1. Parameters \in DOMAIN Unit
    BY ConstantsOK DEF Unit, Fields
  <2>2. MergeDocs(Unit, mem[u].was, form[u].mine, mem[u].doc)[Parameters]
        = MergedAt(Parameters, Unit[Parameters],
                   mem[u].was, form[u].mine, mem[u].doc)
    BY <2>1 DEF MergeDocs
  <2> QED
    BY <1>1, <1>3, <2>2 DEF Merged, MergedAt
<1> QED
  BY <1>2, <1>3

\* With one worker the parameters of a published table, once declared, change
\* in a restore and no other way: forms, the source editor, PUT with or
\* without a base, submissions and amending runs leave them as they are.
THEOREM OneWorkerFreezesParameters ==
  ASSUME Workers = 1
  PROVE  Spec => ParametersFrozen
<1>1. Init => FreezeInv
  BY InitTyped DEF Init, FreezeInv, OneServed, FreshLoad, Serving
<1>2. FreezeInv /\ [Next]_vars => FreezeInv'
  BY FreezeNext
<1>3. FreezeInv /\ [Next]_vars =>
        [\A u \in Users :
           (Writes(u) /\ published /\ HeadDoc[Parameters] # Absent
                      /\ form[u].kind # "restore")
           => HeadDoc'[Parameters] = HeadDoc[Parameters]]_vars
  <2> SUFFICES ASSUME FreezeInv, NEW v \in Users, Step(v), NEW u \in Users,
                      Writes(u), published, HeadDoc[Parameters] # Absent,
                      form[u].kind # "restore"
               PROVE  HeadDoc'[Parameters] = HeadDoc[Parameters]
    BY DEF Next
  <2>1. TypeInv /\ FreshLoad
    BY DEF FreezeInv
  <2>2. v = u
    BY <2>1, StepIsOwn DEF Writes
  <2>3. /\ pc[u] \in {"saving", "locked"}
        /\ mem[u].doc = HeadDoc /\ mem[u].published = published
    BY DEF Writes, FreezeInv
  <2>4. /\ Merged(u) \in Doc /\ WithEntries(u) \in Doc
        /\ mem[u].head \in Nat /\ mem[u].base \in Nat
    BY <2>1, OverlayTypes DEF TypeInv, TypeOK, Memory
  <2>5. CASE SaveRevision(u)
    <3>1. Merged(u)[Parameters] = mem[u].doc[Parameters]
      BY <2>3, <2>5, SaveKeepsParameters DEF SaveRevision, Accepted
    <3>2. WriteRevision(u, Merged(u), mem[u].head, mem[u].base, None)
      BY <2>5 DEF SaveRevision
    <3>3. HeadDoc' = Merged(u)
      BY <2>1, <2>4, <3>2, WriteTyped DEF HeadDoc
    <3> QED
      BY <2>3, <3>1, <3>3
  <2>6. ASSUME NEW run \in Runs \union {None}, WriteEntries(u, run)
        PROVE  HeadDoc'[Parameters] = HeadDoc[Parameters]
    <3>1. pc[u] = "locked" /\ Parameters \in Fields /\ Parameters \notin Entries
      BY <2>6, ConstantsOK DEF WriteEntries, Fields
    <3>2. WithEntries(u)[Parameters] = HeadDoc[Parameters]
      BY <2>3, <3>1 DEF WithEntries, Sets, FreezeInv
    <3>3. HeadDoc' = WithEntries(u) \/ HeadDoc' = HeadDoc
      BY <2>1, <2>3, <2>6, SubmissionWrites DEF FreshLoad, HeadDoc
    <3> QED
      BY <3>2, <3>3
  <2> QED
    BY <2>2, <2>5, <2>6, WhoWrites DEF Writes
<1> QED
  BY <1>1, <1>2, <1>3, PTL DEF Spec, ParametersFrozen
------------------------------------------------------------------------------
(* The search flags, and the drafts in the queue.                          *)

\* A request holds the reviewed pointer it will rebuild the rows from, and
\* from its mark to its flags the pointer and the head are its own.
PhaseInv ==
  \A u \in Users :
    /\ pc[u] \in {"saving", "locked"} => mem[u].reviewed = reviewed
    /\ pc[u] \in {"marking", "syncing", "confirming", "publishing"}
         => mem[u].head = head
    /\ pc[u] \in {"syncing", "publishing"} => reviewed = head
    /\ pc[u] \in {"confirming", "publishing"}
         => mem[u].doc = HeadDoc /\ mem[u].published = published

SyncInv == SerialInv /\ PhaseInv /\ FlagsDescribeHead

\* What a request that comes to one of these phases holds.
PhaseHolds(u) ==
  \/ /\ pc'[u] = "marking"
     /\ mem'[u].head = head'
  \/ /\ pc'[u] = "confirming"
     /\ mem'[u] = Loaded(head, HeadDoc)
     /\ revs' = revs /\ head' = head /\ published' = published
  \/ /\ pc[u] = "marking" /\ pc'[u] = "syncing"
     /\ mem'[u] = mem[u] /\ reviewed' = mem[u].head
     /\ revs' = revs /\ head' = head
  \/ /\ pc[u] = "confirming"
     /\ pc'[u] = (IF mem[u].published THEN "syncing" ELSE "publishing")
     /\ mem'[u] = mem[u] /\ reviewed' = mem[u].head
     /\ revs' = revs /\ head' = head /\ published' = published
  \/ /\ pc[u] = "publishing" /\ pc'[u] = "syncing"
     /\ mem'[u] = mem[u] /\ reviewed' = reviewed
     /\ revs' = revs /\ head' = head /\ published'

LEMMA PhaseStarts ==
  ASSUME TypeInv, FreshLoad, NEW u \in Users, Step(u),
         pc'[u] \in {"marking", "syncing", "confirming", "publishing"}
  PROVE  PhaseHolds(u)
<1>1. /\ pc \in [Users -> Pages \union Serving]
      /\ mem \in [Users -> Memory]
  BY DEF TypeInv, TypeOK
<1>2. ASSUME Finish(u) PROVE FALSE
  BY <1>1, <1>2 DEF Finish, Goto
<1>3. ASSUME NEW digest, Refuse(u, digest) PROVE FALSE
  BY <1>1, <1>2, <1>3 DEF Refuse, Goto
<1>4. ASSUME NEW at, Settle(u, at), pc'[u] # "refreshing"
      PROVE  pc'[u] = "marking" /\ mem'[u].head = at
  <2>1. /\ Goto(u, IF form[u].kind = "restore" THEN "refreshing"
                                               ELSE "marking")
        /\ mem' = [mem EXCEPT ![u].head = at]
    BY <1>2, <1>4 DEF Settle
  <2> QED
    BY <1>1, <1>4, <2>1 DEF Goto, Memory
<1>5. CASE SaveNothing(u)
  <2>1. Settle(u, head) /\ head' = head
    BY <1>5 DEF SaveNothing, Accepted, FreshLoad, table
  <2> QED
    BY <1>4, <2>1 DEF PhaseHolds
<1>6. CASE SaveRevision(u)
  <2>1. Settle(u, head')
    BY <1>6 DEF SaveRevision
  <2> QED
    BY <1>4, <2>1 DEF PhaseHolds
<1>7. CASE Refresh(u)
  BY <1>1, <1>7 DEF Refresh, Goto, Memory, PhaseHolds, table
<1>8. CASE ConfirmLoad(u)
  BY <1>1, <1>2, <1>8 DEF ConfirmLoad, Goto, PhaseHolds, table
<1>9. CASE Mark(u)
  BY <1>1, <1>9 DEF Mark, Goto, PhaseHolds
<1>10. CASE ConfirmMark(u)
  BY <1>1, <1>10 DEF ConfirmMark, Goto, PhaseHolds
<1>11. CASE Publish(u)
  BY <1>1, <1>2, <1>11 DEF Publish, Goto, PhaseHolds
<1>12. ~(\/ PostSource(u) \/ PostForm(u) \/ PutUnnamed(u) \/ TakeLock(u)
         \/ \E kind \in Surfaces : OpenPage(u, kind)
         \/ \E i \in 1..Len(revs) : PostRestore(u, i)
         \/ \E mode \in Modes, sent \in Payloads :
              Send(u, mode, sent)
         \/ OpenReview(u))
  BY <1>1 DEF PostSource, PostForm, PutUnnamed, TakeLock, OpenPage,
              PostRestore, Send, OpenReview, Goto
<1>13. ~(\/ ClosePage(u) \/ Sync(u) \/ GiveUp(u) \/ Crash(u)
         \/ \E run \in Runs \union {None} : WriteEntries(u, run)
         \/ RefuseParameters(u) \/ RefuseStale(u))
  BY <1>2, <1>3 DEF ClosePage, Sync, GiveUp, Crash, WriteEntries,
                    RefuseParameters, RefuseStale
<1>14. ~PutDocument(u)
  BY <1>1, <1>2 DEF PutDocument, Goto
<1>15. ~ \E wanted \in BOOLEAN : OfferDraft(u, wanted)
  BY <1>1 DEF OfferDraft
<1> QED
  BY <1>5, <1>6, <1>7, <1>8, <1>9, <1>10, <1>11, <1>12, <1>13, <1>14, <1>15
     DEF Step

\* While one request is served, nobody else's step moves the table.
LEMMA OthersWait ==
  ASSUME OneServed, NEW u \in Users, Step(u),
         NEW v \in Users, v # u, pc[v] \in Serving
  PROVE  /\ revs' = revs /\ head' = head
         /\ reviewed' = reviewed /\ published' = published
<1>1. pc[u] \notin Serving
  BY DEF OneServed
<1>2. revs' = revs /\ head' = head
  BY <1>1, WritersServe DEF Serving
<1>3. reviewed' = reviewed
  BY <1>1, WhoReviews DEF Mark, ConfirmMark, WriteEntries, Serving
<1>4. published' = published
  BY <1>1, WhoFlags DEF Publish, Serving
<1> QED
  BY <1>2, <1>3, <1>4

LEMMA PhaseStep ==
  ASSUME SerialInv, PhaseInv, NEW u \in Users, Step(u)
  PROVE  PhaseInv'
<1> SUFFICES ASSUME NEW v \in Users
             PROVE  /\ pc'[v] \in {"saving", "locked"}
                         => mem'[v].reviewed = reviewed'
                    /\ pc'[v] \in {"marking", "syncing", "confirming",
                                   "publishing"} => mem'[v].head = head'
                    /\ pc'[v] \in {"syncing", "publishing"}
                         => reviewed' = head'
                    /\ pc'[v] \in {"confirming", "publishing"}
                         => /\ mem'[v].doc = HeadDoc'
                            /\ mem'[v].published = published'
  BY DEF PhaseInv
<1>1. TypeInv /\ OneServed /\ FreshLoad
  BY DEF SerialInv
<1>2. CASE v # u
  <2>1. pc'[v] = pc[v] /\ mem'[v] = mem[v]
    BY <1>1, <1>2, StepIsOwn
  <2>2. CASE pc[v] \in Serving
    <3>1. /\ revs' = revs /\ head' = head
          /\ reviewed' = reviewed /\ published' = published
      BY <1>1, <1>2, <2>2, OthersWait
    <3> QED
      BY <2>1, <3>1 DEF PhaseInv, HeadDoc
  <2>3. CASE pc[v] \notin Serving
    BY <2>1, <2>3 DEF Serving
  <2> QED
    BY <2>2, <2>3
<1>3. CASE v = u /\ pc'[u] \in {"saving", "locked"}
  BY <1>1, <1>3, LoadsHead
<1>4. CASE v = u /\ pc'[u] \in {"marking", "syncing", "confirming",
                              "publishing"}
  <2>1. PhaseHolds(u)
    BY <1>1, <1>4, PhaseStarts
  <2>2. /\ Loaded(head, HeadDoc).head = head
        /\ Loaded(head, HeadDoc).doc = HeadDoc
        /\ Loaded(head, HeadDoc).published = published
    BY DEF Loaded
  <2> QED
    BY <1>4, <2>1, <2>2 DEF PhaseHolds, PhaseInv, HeadDoc
<1>5. CASE v = u /\ pc'[u] \notin {"saving", "locked", "marking", "syncing",
                                 "confirming", "publishing"}
  BY <1>5
<1> QED
  BY <1>2, <1>3, <1>4, <1>5

\* Whoever has marked goes on to publish or to set the flags, and nothing else.
LEMMA MarkedGoesOn ==
  ASSUME ~Crashes, NEW u \in Users, Step(u),
         pc[u] \in {"publishing", "syncing"}
  PROVE  Publish(u) \/ Sync(u)
<1>1. ~(\/ OpenReview(u) \/ ClosePage(u)
        \/ \E kind \in Surfaces : OpenPage(u, kind)
        \/ PostSource(u) \/ PostForm(u) \/ PutDocument(u) \/ PutUnnamed(u)
        \/ \E i \in 1..Len(revs) : PostRestore(u, i)
        \/ \E mode \in Modes, sent \in Payloads :
             Send(u, mode, sent))
  BY DEF OpenReview, ClosePage, OpenPage, PostSource, PostForm, PutDocument,
         PutUnnamed, PostRestore, Send
<1>2. ~(\/ RefuseParameters(u) \/ RefuseStale(u) \/ SaveNothing(u)
        \/ SaveRevision(u) \/ Refresh(u) \/ Mark(u) \/ ConfirmLoad(u)
        \/ ConfirmMark(u) \/ TakeLock(u) \/ GiveUp(u) \/ Crash(u)
        \/ \E run \in Runs \union {None} : WriteEntries(u, run)
        \/ \E wanted \in BOOLEAN : OfferDraft(u, wanted))
  BY DEF RefuseParameters, RefuseStale, SaveNothing, SaveRevision, Accepted,
         Refresh, Mark, ConfirmLoad, ConfirmMark, TakeLock, GiveUp, Crash,
         WriteEntries, OfferDraft
<1> QED
  BY <1>1, <1>2 DEF Step

\* The rows of the head are flagged as two pointers say.
FlagsAs(at, current, history, rows) ==
  \A p \in Pairs(history[current].doc) :
    p[1] \in rows <=> p[1] \in ReviewedRows(at, current, history)

LEMMA FlagsStep ==
  ASSUME ~Crashes, SyncInv, NEW u \in Users, Step(u)
  PROVE  FlagsDescribeHead'
<1> SUFFICES ASSUME \A v \in Users : pc'[v] \notin {"publishing", "syncing"}
             PROVE  FlagsAs(reviewed', head', revs', flagged')
  BY DEF FlagsDescribeHead, FlagsAs, HeadDoc
<1>1. TypeInv /\ OneServed /\ FreshLoad /\ PhaseInv
  BY DEF SyncInv, SerialInv
<1>2. /\ Merged(u) \in Doc /\ WithEntries(u) \in Doc
      /\ mem[u].head \in Nat /\ mem[u].base \in Nat
      /\ head \in 1..Len(revs) /\ Len(revs) \in Nat
  BY <1>1, OverlayTypes DEF TypeInv, TypeOK, Memory
<1>3. \A at, history : at # 0 => ReviewedRows(at, at, history) = Entries
  BY DEF ReviewedRows
<1>4. \A history, current, p :
        p \in Pairs(history[current].doc) => p[1] \in Entries
  BY DEF Pairs
<1>5. CASE Sync(u)
  <2>1. /\ flagged' = Entries /\ reviewed' = reviewed /\ head' = head
        /\ reviewed = head /\ head # 0
    BY <1>1, <1>2, <1>5 DEF Sync, PhaseInv
  <2> QED
    BY <1>3, <1>4, <2>1 DEF FlagsAs
<1>6. CASE SaveRevision(u)
  <2>1. /\ flagged' = ReviewedRows(mem[u].reviewed, head', revs')
        /\ reviewed' = reviewed /\ mem[u].reviewed = reviewed
    BY <1>1, <1>6 DEF SaveRevision, Rebuilt, Accepted, PhaseInv
  <2> QED
    BY <2>1 DEF FlagsAs
<1>7. ~(Mark(u) \/ ConfirmMark(u))
  BY <1>1 DEF Mark, ConfirmMark, Goto, TypeInv, TypeOK
<1>8. CASE Publish(u)
  <2>1. ~HasEntries(mem[u].doc) /\ mem[u].doc = HeadDoc
    BY <1>1, <1>8 DEF Publish, Goto, TypeInv, TypeOK, PhaseInv
  <2>2. Pairs(HeadDoc) = {} /\ revs' = revs /\ head' = head
    BY <1>8, <2>1 DEF Publish, Pairs, HasEntries
  <2> QED
    BY <2>2 DEF FlagsAs, HeadDoc
<1>9. ASSUME /\ reviewed' = reviewed /\ flagged' = flagged
             /\ revs' = revs /\ head' = head
             /\ pc[u] \notin {"publishing", "syncing"}
      PROVE  FlagsAs(reviewed', head', revs', flagged')
  <2>1. \A v \in Users : pc[v] \notin {"publishing", "syncing"}
    BY <1>1, <1>9, StepIsOwn
  <2>2. FlagsAs(reviewed, head, revs, flagged)
    BY <2>1 DEF SyncInv, FlagsDescribeHead, FlagsAs, HeadDoc
  <2> QED
    BY <1>9, <2>2
<1>10. ASSUME NEW run \in Runs \union {None}, WriteEntries(u, run)
       PROVE  FlagsAs(reviewed', head', revs', flagged')
  <2>1. pc[u] = "locked" /\ mem[u].head = head /\ mem[u].reviewed = reviewed
    BY <1>1, <1>10 DEF WriteEntries, FreshLoad, PhaseInv
  <2>2. CASE mem[u].published /\ u \in Standing
    <3>1. reviewed' = head' /\ flagged' = Entries
      BY <1>10, <2>2 DEF WriteEntries
    <3>2. head' # 0
      BY <1>1, <1>10, NextTyped DEF Next, Step, TypeInv, TypeOK
    <3> QED
      BY <1>3, <1>4, <3>1, <3>2 DEF FlagsAs
  <2>3. CASE ~(mem[u].published /\ u \in Standing)
    <3>1. /\ reviewed' = reviewed
          /\ flagged' = IF revs' = revs THEN flagged
                        ELSE ReviewedRows(reviewed, head', revs')
      BY <1>10, <2>1, <2>3 DEF WriteEntries, Rebuilt
    <3>2. CASE revs' = revs
      <4>1. head' = head
        BY <1>1, <1>10, <2>1, <3>2, SubmissionWrites
      <4> QED
        BY <1>9, <2>1, <3>1, <3>2, <4>1
    <3>3. CASE revs' # revs
      BY <3>1, <3>3 DEF FlagsAs
    <3> QED
      BY <3>2, <3>3
  <2> QED
    BY <2>2, <2>3
<1>11. CASE /\ ~Publish(u) /\ ~Sync(u)
            /\ reviewed' = reviewed /\ flagged' = flagged
            /\ revs' = revs /\ head' = head
  <2>1. pc[u] \notin {"publishing", "syncing"}
    BY <1>11, MarkedGoesOn
  <2> QED
    BY <1>9, <1>11, <2>1
<1> QED
  BY <1>5, <1>6, <1>7, <1>8, <1>10, <1>11, WhoFlags, WhoWrites, WhoReviews

LEMMA SyncInit ==
  ASSUME Init
  PROVE  SyncInv
<1>1. PhaseInv
  BY DEF Init, PhaseInv
<1>2. FlagsDescribeHead
  BY DEF Init, FlagsDescribeHead
<1> QED
  BY <1>1, <1>2, SerialInit DEF SyncInv

LEMMA SyncNext ==
  ASSUME Workers = 1, ~Crashes, SyncInv, [Next]_vars
  PROVE  SyncInv'
<1>1. SerialInv'
  BY SerialNext DEF SyncInv
<1>2. CASE UNCHANGED vars
  BY <1>1, <1>2 DEF vars, table, SyncInv, PhaseInv, FlagsDescribeHead, HeadDoc
<1>3. ASSUME NEW u \in Users, Step(u) PROVE SyncInv'
  BY <1>1, <1>3, PhaseStep, FlagsStep DEF SyncInv
<1> QED
  BY <1>2, <1>3 DEF Next

\* With one worker that is not killed in the middle of a request, the search
\* flags are those the reviewed pointer and the head name whenever no request
\* is between its mark and its flags: whoever writes, with standing or
\* without, by every way in, whoever reviews, and when runs amend.
THEOREM OneWorkerKeepsFlags ==
  ASSUME Workers = 1, ~Crashes
  PROVE  Spec => []FlagsDescribeHead
<1>1. Init => SyncInv
  BY SyncInit
<1>2. SyncInv /\ [Next]_vars => SyncInv'
  BY SyncNext
<1>3. SyncInv => FlagsDescribeHead
  BY DEF SyncInv
<1> QED
  BY <1>1, <1>2, <1>3, PTL DEF Spec

\* A confirmation publishes what it marks: a draft the reviewed pointer names
\* a revision of is being published, or that revision has no entries.
DraftInv ==
  /\ \A u \in Users : pc[u] = "syncing" => published
  /\ ~published /\ reviewed # 0 =>
       \/ \E u \in Users : pc[u] = "publishing"
       \/ ~HasEntries(revs[reviewed].doc)

QueueInv == SyncInv /\ WritersInv /\ DraftInv

LEMMA SyncsPublished ==
  ASSUME QueueInv, NEW u \in Users, Step(u), NEW v \in Users,
         pc'[v] = "syncing"
  PROVE  published'
<1>1. TypeInv /\ OneServed /\ FreshLoad /\ PhaseInv
  BY DEF QueueInv, SyncInv, SerialInv
<1>2. CASE v # u
  <2>1. pc[v] = "syncing"
    BY <1>1, <1>2, StepIsOwn
  <2>2. published' = published
    BY <1>1, <1>2, <2>1, OthersWait DEF Serving
  <2> QED
    BY <2>1, <2>2 DEF QueueInv, DraftInv
<1>3. CASE v = u
  <2>1. PhaseHolds(u)
    BY <1>1, <1>3, PhaseStarts
  <2>2. pc[u] # "marking"
    BY DEF QueueInv, WritersInv
  <2> QED
    BY <1>1, <1>3, <2>1, <2>2 DEF PhaseHolds, PhaseInv
<1> QED
  BY <1>2, <1>3

LEMMA DraftStep ==
  ASSUME WritersAreReviewed, ~Crashes, QueueInv, NEW u \in Users, Step(u)
  PROVE  DraftInv'
<1> SUFFICES ASSUME ~published', reviewed' # 0,
                    \A v \in Users : pc'[v] # "publishing"
             PROVE  ~HasEntries(revs'[reviewed'].doc)
  BY SyncsPublished DEF DraftInv
<1>1. TypeInv /\ OneServed /\ FreshLoad /\ PhaseInv
  BY DEF QueueInv, SyncInv, SerialInv
<1>2. pc \in [Users -> Pages \union Serving] /\ reviewed \in 0..Len(revs)
  BY <1>1 DEF TypeInv, TypeOK
<1>3. ~published
  BY WhoFlags DEF Publish
<1>4. ~(\/ Mark(u) \/ ConfirmMark(u)
        \/ \E run \in Runs \union {None} :
             WriteEntries(u, run) /\ u \in Standing)
  <2>1. ~Mark(u)
    BY DEF Mark, QueueInv, WritersInv
  <2>2. ASSUME ConfirmMark(u) PROVE FALSE
    <3>1. mem[u].published = published /\ pc'[u] \in {"syncing", "publishing"}
      BY <1>1, <1>2, <2>2 DEF ConfirmMark, PhaseInv, Goto
    <3> QED
      BY <3>1, SyncsPublished
  <2>3. ~ \E run \in Runs \union {None} :
            WriteEntries(u, run) /\ u \in Standing
    BY DEF WriteEntries, QueueInv, WritersInv
  <2> QED
    BY <2>1, <2>2, <2>3
<1>5. reviewed' = reviewed
  BY <1>4, WhoReviews
<1>6. revs'[reviewed] = revs[reviewed]
  <2>1. reviewed \in 1..Len(revs)
    BY <1>1, <1>2, <1>5 DEF TypeInv, TypeOK
  <2> QED
    BY <1>1, <2>1, HistoryKept DEF WritersAreReviewed
<1>7. CASE \E v \in Users : pc[v] = "publishing"
  <2>1. PICK v \in Users : pc[v] = "publishing"
    BY <1>7
  <2>2. v = u
    BY <1>1, <2>1, StepIsOwn
  <2>3. reviewed = head /\ mem[u].doc = HeadDoc
    BY <1>1, <2>1, <2>2 DEF PhaseInv
  <2>4. Publish(u)
    BY <2>1, <2>2, MarkedGoesOn DEF Sync
  <2>5. ~HasEntries(mem[u].doc)
    BY <1>3, <2>4 DEF Publish
  <2> QED
    BY <1>5, <1>6, <2>3, <2>5 DEF HeadDoc
<1>8. CASE \A v \in Users : pc[v] # "publishing"
  BY <1>3, <1>5, <1>6, <1>8 DEF QueueInv, DraftInv
<1> QED
  BY <1>7, <1>8

LEMMA QueueInit ==
  ASSUME Init
  PROVE  QueueInv
<1>1. WritersInv /\ DraftInv
  BY DEF Init, WritersInv, DraftInv
<1> QED
  BY <1>1, SyncInit DEF QueueInv

LEMMA QueueNext ==
  ASSUME Workers = 1, ~Crashes, WritersAreReviewed, QueueInv, [Next]_vars
  PROVE  QueueInv'
<1>1. SyncInv'
  BY SyncNext DEF QueueInv
<1>2. CASE UNCHANGED vars
  BY <1>1, <1>2 DEF vars, table, QueueInv, WritersInv, DraftInv
<1>3. ASSUME NEW u \in Users, Step(u) PROVE QueueInv'
  BY <1>1, <1>3, WritersStep, DraftStep DEF QueueInv, SyncInv, SerialInv
<1> QED
  BY <1>2, <1>3 DEF Next

\* A draft that waits is one nobody read with its entries in it.
LEMMA QueueHolds ==
  ASSUME QueueInv
  PROVE  OfferedDraftQueued
<1> SUFFICES ASSUME ~published, ready, HasEntries(HeadDoc),
                    \A u \in Users : pc[u] \notin Serving, reviewed # 0
             PROVE  \E p \in Pairs(HeadDoc) : p[1] \notin flagged
  BY DEF OfferedDraftQueued, Waiting
<1>1. \A u \in Users : pc[u] \notin {"publishing", "syncing"}
  BY DEF Serving
<1>2. ~HasEntries(revs[reviewed].doc) /\ reviewed # head
  BY <1>1 DEF QueueInv, DraftInv, HeadDoc
<1>3. PICK e \in Entries : HeadDoc[e] # Absent
  BY DEF HasEntries
<1>4. revs[reviewed].doc[e] = Absent
  BY <1>2 DEF HasEntries
<1>5. e \notin ReviewedRows(reviewed, head, revs)
  BY <1>2, <1>3, <1>4 DEF ReviewedRows, ChangedParams, HeadDoc
<1>6. <<e, HeadDoc[e]>> \in Pairs(HeadDoc)
  BY <1>3 DEF Pairs
<1>7. <<e, HeadDoc[e]>>[1] \notin flagged
  BY <1>1, <1>5, <1>6 DEF QueueInv, SyncInv, FlagsDescribeHead
<1> QED
  BY <1>6, <1>7

\* With one worker that is not killed in the middle of a request, and writers
\* without standing, a draft its author has offered stays in the review queue
\* until it is published or taken back.
THEOREM OneWorkerKeepsQueue ==
  ASSUME Workers = 1, ~Crashes, WritersAreReviewed
  PROVE  Spec => []OfferedDraftQueued
<1>1. Init => QueueInv
  BY QueueInit
<1>2. QueueInv /\ [Next]_vars => QueueInv'
  BY QueueNext
<1>3. QueueInv => OfferedDraftQueued
  BY QueueHolds
<1> QED
  BY <1>1, <1>2, <1>3, PTL DEF Spec
------------------------------------------------------------------------------
(* What an edit did not change, when nobody saves from the source editor.  *)

\* An open page says what its digest says, and a save differs from it only
\* in what its author changed.
TouchInv ==
  \A u \in Users :
    /\ pc[u] \in {"editing", "saving"} => form[u].kind # "source"
    /\ pc[u] = "editing" => form[u].mine = form[u].digest
    /\ pc[u] = "saving" =>
         \A f \in Fields \ form[u].touched :
           form[u].mine[f] = form[u].digest[f]

LossInv == PatchInv /\ FreezeInv /\ TouchInv

\* The page that is open, or the save that has begun.
TouchHolds(u) ==
  /\ form'[u].kind # "source"
  /\ pc'[u] = "editing" => form'[u].mine = form'[u].digest
  /\ pc'[u] = "saving" => \A f \in Fields \ form'[u].touched :
                            form'[u].mine[f] = form'[u].digest[f]

LEMMA TouchStarts ==
  ASSUME "source" \notin Surfaces, PatchInv, TouchInv,
         NEW u \in Users, Step(u), pc'[u] \in {"editing", "saving"}
  PROVE  TouchHolds(u)
<1>1. /\ TypeInv /\ PageInv
      /\ pc \in [Users -> Pages \union Serving]
      /\ form \in [Users -> Form]
  BY DEF PatchInv, SerialInv, TypeInv, TypeOK
<1>2. form[u] \in Form /\ form[u].digest \in Doc /\ form[u].mine \in Doc
  BY <1>1 DEF Form
<1>3. ASSUME Finish(u) PROVE FALSE
  BY <1>1, <1>3 DEF Finish, Goto
<1>4. ASSUME NEW at, Settle(u, at) PROVE FALSE
  BY <1>1, <1>3, <1>4 DEF Settle, Goto
<1>5. ASSUME pc[u] = "saving", NEW digest, Refuse(u, digest) PROVE FALSE
  BY <1>3, <1>5 DEF Refuse, TouchInv
<1>6. CASE \E kind \in Surfaces : OpenPage(u, kind)
  <2>1. PICK kind \in Surfaces : OpenPage(u, kind)
    BY <1>6
  <2>2. form'[u] = [kind |-> kind, digest |-> HeadDoc,
                    mine |-> HeadDoc, touched |-> {}]
        /\ pc'[u] = "editing"
    BY <1>1, <2>1 DEF OpenPage, Goto
  <2> QED
    BY <2>2 DEF TouchHolds
<1>7. CASE PostSource(u)
  BY <1>7 DEF PostSource, TouchInv
<1>8. CASE PostForm(u)
  <2>1. pc[u] = "editing" /\ form[u].kind # "source"
    BY <1>8 DEF PostForm
  <2>2. WithDigest(form[u].digest) # {}
    BY <1>1, <2>1, KnownHasDigest DEF PageInv
  <2>3. PICK doc \in Edits(form[u].digest) :
          form' = [form EXCEPT
            ![u].mine = [f \in Fields |->
                           IF f \in Shown(form[u].kind, form[u].digest, doc)
                           THEN doc[f] ELSE form[u].digest[f]],
            ![u].touched = Touching(form[u].digest, doc)]
    BY <1>8, <2>2 DEF PostForm
  <2>4. /\ form'[u].digest = form[u].digest
        /\ form'[u].kind = form[u].kind
        /\ form'[u].touched = Touching(form[u].digest, doc)
        /\ form'[u].mine =
             [f \in Fields |->
                IF f \in Shown(form[u].kind, form[u].digest, doc)
                THEN doc[f] ELSE form[u].digest[f]]
    BY <1>1, <1>2, <2>3 DEF Form
  <2>5. pc'[u] = "saving"
    BY <1>1, <1>8 DEF PostForm, Goto
  <2> QED
    BY <2>1, <2>4, <2>5 DEF TouchHolds, Touching
<1>9. CASE PutDocument(u)
  <2>1. pc[u] = "editing" /\ form[u].kind # "source"
        /\ form[u].mine = form[u].digest
    BY <1>9 DEF PutDocument, TouchInv
  <2>2. PICK doc \in Edits(form[u].mine) :
          form' = [form EXCEPT ![u].mine = doc,
                               ![u].touched = Touching(form[u].mine, doc)]
    BY <1>3, <1>9 DEF PutDocument
  <2>3. /\ form'[u].digest = form[u].digest
        /\ form'[u].kind = form[u].kind
        /\ form'[u].touched = Touching(form[u].mine, doc)
        /\ form'[u].mine = doc
    BY <1>1, <1>2, <2>2 DEF Form
  <2>4. pc'[u] = "saving"
    BY <1>1, <1>3, <1>9 DEF PutDocument, Goto
  <2> QED
    BY <2>1, <2>3, <2>4 DEF TouchHolds, Touching
<1>10. CASE PutUnnamed(u)
  BY <1>1, <1>10 DEF PutUnnamed, TouchHolds, Goto
<1>11. CASE \E i \in 1..Len(revs) : PostRestore(u, i)
  BY <1>1, <1>11 DEF PostRestore, TouchHolds, Goto
<1>12. ~(\/ \E mode \in Modes, sent \in Payloads :
              Send(u, mode, sent)
         \/ TakeLock(u) \/ OpenReview(u) \/ Refresh(u)
         \/ Mark(u) \/ ConfirmMark(u))
  BY <1>1 DEF Send, TakeLock, OpenReview, Refresh, Mark, ConfirmMark, Goto
<1>13. ~(\/ ClosePage(u) \/ Sync(u) \/ GiveUp(u) \/ Crash(u)
         \/ \E run \in Runs \union {None} : WriteEntries(u, run))
  BY <1>3 DEF ClosePage, Sync, GiveUp, Crash, WriteEntries
<1>14. ~(\/ RefuseParameters(u) \/ RefuseStale(u)
         \/ SaveNothing(u) \/ SaveRevision(u))
  BY <1>4, <1>5 DEF RefuseParameters, RefuseStale, SaveNothing, SaveRevision
<1>15. ~(ConfirmLoad(u) \/ Publish(u))
  BY <1>1, <1>3 DEF ConfirmLoad, Publish, Goto
<1>16. ~ \E wanted \in BOOLEAN : OfferDraft(u, wanted)
  BY <1>1 DEF OfferDraft
<1> QED
  BY <1>6, <1>7, <1>8, <1>9, <1>10, <1>11, <1>12, <1>13, <1>14, <1>15, <1>16
     DEF Step

LEMMA LossNext ==
  ASSUME Workers = 1, Runs = {}, "source" \notin Surfaces, LossInv,
         [Next]_vars
  PROVE  LossInv'
<1>1. SerialInv' /\ FreezeInv'
  BY SerialNext, FreezeNext DEF LossInv, PatchInv
<1>2. CASE UNCHANGED vars
  BY <1>1, <1>2 DEF vars, table, LossInv, PatchInv, PageInv, TouchInv, Known,
                    HeadDoc
<1>3. ASSUME NEW u \in Users, Step(u)
      PROVE  LossInv'
  <2>1. PatchInv'
    BY <1>1, <1>3, PageStep DEF LossInv, PatchInv
  <2>2. ASSUME NEW v \in Users, v # u
        PROVE  pc'[v] = pc[v] /\ form'[v] = form[v]
    BY <1>3, <2>2, StepIsOwn DEF LossInv, FreezeInv
  <2>3. pc'[u] \in {"editing", "saving"} => TouchHolds(u)
    BY <1>3, TouchStarts DEF LossInv
  <2>4. TouchInv'
    BY <2>2, <2>3 DEF LossInv, TouchInv, TouchHolds
  <2> QED
    BY <1>1, <2>1, <2>4 DEF LossInv
<1> QED
  BY <1>2, <1>3 DEF Next

\* Records sent to a table that has parameters: what is set is what is named.
LEMMA RecordsSetWhatTheyName ==
  ASSUME TypeInv, ~Bare, "mapping" \notin Modes,
         NEW u \in Users, form[u].kind \in Modes,
         NEW f \in Fields \ form[u].touched
  PROVE  WithEntries(u)[f] = mem[u].doc[f]
BY DEF WithEntries, Sets

\* With one worker, no runs and no source editor, a commit leaves every path
\* its author did not change as it was just before: the forms, PUT with or
\* without a base, restores and submissions of records or of all the entries
\* lose nobody's work.  (A mapping sent to be added, and anything sent to a
\* table without parameters, replaces entries it does not name.)
THEOREM OneWorkerLosesNothing ==
  ASSUME Workers = 1, Runs = {}, "source" \notin Surfaces,
         ~Bare, "mapping" \notin Modes
  PROVE  Spec => NothingUntouchedIsLost
<1>1. Init => LossInv
  <2>1. Init => PageInv /\ TouchInv
    BY DEF Init, PageInv, TouchInv
  <2>2. Init => FreezeInv
    BY InitTyped DEF Init, FreezeInv, OneServed, FreshLoad, Serving
  <2> QED
    BY <2>1, <2>2, SerialInit DEF LossInv, PatchInv
<1>2. LossInv /\ [Next]_vars => LossInv'
  BY LossNext
<1>3. LossInv /\ [Next]_vars =>
        [\A u \in Users : Writes(u) =>
           \A f \in Fields \ form[u].touched : HeadDoc'[f] = HeadDoc[f]]_vars
  <2> SUFFICES ASSUME LossInv, NEW v \in Users, Step(v), NEW u \in Users,
                      Writes(u), NEW f \in Fields \ form[u].touched
               PROVE  HeadDoc'[f] = HeadDoc[f]
    BY DEF Next
  <2>1. PatchInv /\ FreezeInv /\ TouchInv /\ TypeInv
    BY DEF LossInv, FreezeInv
  <2>2. v = u
    BY <2>1, StepIsOwn DEF Writes
  <2>3. CASE pc[u] = "saving"
    <3>1. HeadDoc' = Overlay(form[u].digest, form[u].mine, HeadDoc)
      BY <2>1, <2>3, PatchStep
    <3>2. form[u].mine[f] = form[u].digest[f] /\ form[u].digest \in Doc
      BY <2>1, <2>3 DEF TouchInv, TypeInv, TypeOK, Form
    <3> QED
      BY <3>1, <3>2 DEF Overlay, Doc
  <2>4. CASE pc[u] = "locked"
    <3>1. PICK run \in Runs \union {None} : WriteEntries(u, run)
      BY <2>2, <2>4, WhoWrites DEF Writes, SaveRevision, Accepted
    <3>2. mem[u].doc = HeadDoc /\ mem[u].head = head
      BY <2>1, <2>4 DEF FreezeInv, FreshLoad
    <3>3. WithEntries(u)[f] = HeadDoc[f]
      BY <2>1, <2>4, <3>2, RecordsSetWhatTheyName DEF FreezeInv
    <3>4. HeadDoc' = WithEntries(u) \/ HeadDoc' = HeadDoc
      BY <2>1, <3>1, <3>2, SubmissionWrites DEF HeadDoc
    <3> QED
      BY <3>3, <3>4
  <2> QED
    BY <2>3, <2>4 DEF Writes
<1> QED
  BY <1>1, <1>2, <1>3, PTL DEF Spec, NothingUntouchedIsLost
------------------------------------------------------------------------------
(* The table as one register.                                              *)

\* An edit has the paths its page or submission touched, and is there while
\* its request may still write.
LEMMA EditTyped ==
  ASSUME NEW phase, NEW page \in Form
  PROVE  /\ Edited(phase, page) \subseteq Fields
         /\ [f \in Edited(phase, page) |-> page.mine[f]] \in Register!Edit
         /\ phase \notin {"saving", "waiting", "locked"}
              => Edited(phase, page) = {}
<1>1. Edited(phase, page) \subseteq Fields /\ page.mine \in Doc
  BY DEF Edited, Touching, Sets, Form, Fields
<1>2. [f \in Edited(phase, page) |-> page.mine[f]]
        \in [Edited(phase, page) -> Values \union {Absent}]
  BY <1>1 DEF Doc
<1>3. phase \notin {"saving", "waiting", "locked"} => Edited(phase, page) = {}
  BY DEF Edited
<1> QED
  BY <1>1, <1>2, <1>3 DEF Register!Edit

\* Who comes to be inside has just taken the lock.
LEMMA ComesInside ==
  ASSUME TypeInv, NEW u \in Users, Step(u), pc'[u] = "locked"
  PROVE  TakeLock(u)
<1>1. pc \in [Users -> Pages \union Serving]
  BY DEF TypeInv, TypeOK
<1>2. ASSUME Finish(u) PROVE FALSE
  BY <1>1, <1>2 DEF Finish, Goto
<1>3. ASSUME NEW at, Settle(u, at) PROVE FALSE
  BY <1>1, <1>2, <1>3 DEF Settle, Goto
<1>4. ASSUME NEW digest, Refuse(u, digest) PROVE FALSE
  BY <1>1, <1>2, <1>4 DEF Refuse, Goto
<1>5. ~(\/ PostSource(u) \/ PostForm(u) \/ PutUnnamed(u)
        \/ \E kind \in Surfaces : OpenPage(u, kind)
        \/ \E i \in 1..Len(revs) : PostRestore(u, i)
        \/ \E mode \in Modes, sent \in Payloads :
             Send(u, mode, sent)
        \/ OpenReview(u) \/ Refresh(u) \/ Mark(u) \/ ConfirmMark(u))
  BY <1>1 DEF PostSource, PostForm, PutUnnamed, OpenPage, PostRestore, Send,
              OpenReview, Refresh, Mark, ConfirmMark, Goto
<1>6. ~(\/ ClosePage(u) \/ Sync(u) \/ GiveUp(u) \/ Crash(u)
        \/ \E run \in Runs \union {None} : WriteEntries(u, run))
  BY <1>2 DEF ClosePage, Sync, GiveUp, Crash, WriteEntries
<1>7. ~(\/ RefuseParameters(u) \/ RefuseStale(u)
        \/ SaveNothing(u) \/ SaveRevision(u))
  BY <1>3, <1>4 DEF RefuseParameters, RefuseStale, SaveNothing, SaveRevision
<1>8. ~(PutDocument(u) \/ ConfirmLoad(u) \/ Publish(u))
  BY <1>1, <1>2 DEF PutDocument, ConfirmLoad, Publish, Goto
<1>9. ~ \E wanted \in BOOLEAN : OfferDraft(u, wanted)
  BY DEF OfferDraft
<1> QED
  BY <1>5, <1>6, <1>7, <1>8, <1>9 DEF Step

\* A request that asks for something comes from a page or a program.
LEMMA ComesAsking ==
  ASSUME TypeInv, NEW u \in Users, Step(u), pc'[u] \in {"saving", "waiting"}
  PROVE  pc[u] \in {"idle", "editing"}
<1>1. pc \in [Users -> Pages \union Serving]
  BY DEF TypeInv, TypeOK
<1>2. ASSUME Finish(u) PROVE FALSE
  BY <1>1, <1>2 DEF Finish, Goto
<1>3. ASSUME NEW at, Settle(u, at) PROVE FALSE
  BY <1>1, <1>2, <1>3 DEF Settle, Goto
<1>4. ASSUME NEW digest, Refuse(u, digest) PROVE FALSE
  BY <1>1, <1>2, <1>4 DEF Refuse, Goto
<1>5. ~(\/ \E kind \in Surfaces : OpenPage(u, kind)
        \/ OpenReview(u) \/ Refresh(u) \/ Mark(u) \/ ConfirmMark(u)
        \/ TakeLock(u))
  BY <1>1 DEF OpenPage, OpenReview, Refresh, Mark, ConfirmMark, TakeLock, Goto
<1>6. ~(\/ ClosePage(u) \/ Sync(u) \/ GiveUp(u) \/ Crash(u)
        \/ \E run \in Runs \union {None} : WriteEntries(u, run))
  BY <1>2 DEF ClosePage, Sync, GiveUp, Crash, WriteEntries
<1>7. ~(\/ RefuseParameters(u) \/ RefuseStale(u)
        \/ SaveNothing(u) \/ SaveRevision(u))
  BY <1>3, <1>4 DEF RefuseParameters, RefuseStale, SaveNothing, SaveRevision
<1>8. ~(ConfirmLoad(u) \/ Publish(u))
  BY <1>1, <1>2 DEF ConfirmLoad, Publish, Goto
<1>9. CASE \/ PostSource(u) \/ PostForm(u) \/ PutDocument(u) \/ PutUnnamed(u)
           \/ \E i \in 1..Len(revs) : PostRestore(u, i)
           \/ \E mode \in Modes, sent \in Payloads :
                Send(u, mode, sent)
           \/ \E wanted \in BOOLEAN : OfferDraft(u, wanted)
  BY <1>9 DEF PostSource, PostForm, PutDocument, PutUnnamed, PostRestore, Send,
              OfferDraft
<1> QED
  BY <1>5, <1>6, <1>7, <1>8, <1>9 DEF Step

\* A request that goes on asking is one that has just got the lock.
LEMMA GoesOnAsking ==
  ASSUME TypeInv, NEW u \in Users, Step(u),
         pc[u] \in {"saving", "waiting", "locked"},
         pc'[u] \in {"saving", "waiting", "locked"}
  PROVE  /\ pc[u] = "waiting" /\ pc'[u] = "locked"
         /\ form' = form /\ revs' = revs /\ head' = head
<1>1. pc \in [Users -> Pages \union Serving]
  BY DEF TypeInv, TypeOK
<1>2. pc'[u] = "locked"
  BY ComesAsking
<1>3. TakeLock(u)
  BY <1>2, ComesInside
<1> QED
  BY <1>1, <1>2, <1>3 DEF TakeLock, table

\* A step of one request is a step of the register, if what is written is what
\* was asked for.
LEMMA RegisterStep ==
  ASSUME TypeInv, TypeInv', NEW u \in Users, Step(u),
         \/ revs' = revs /\ head' = head
         \/ HeadDoc' = Register!LaidOver(EditOf(u), HeadDoc)
  PROVE  [Register!Next]_<<HeadDoc, Asked>>
<1>1. /\ form \in [Users -> Form] /\ form' \in [Users -> Form]
  BY DEF TypeInv, TypeOK
<1>2. /\ Asked = [v \in Users |-> [f \in Edited(pc[v], form[v]) |-> form[v].mine[f]]]
      /\ Asked' = [v \in Users |-> [f \in Edited(pc'[v], form'[v]) |-> form'[v].mine[f]]]
  BY DEF Asked, EditOf
<1>3. Asked' \in [Users -> Register!Edit]
  BY <1>1, <1>2, EditTyped
<1>4. \A v \in Users \ {u} : Asked'[v] = Asked[v]
  BY <1>2, StepIsOwn
<1>5. Register!Only(u)
  BY <1>3, <1>4 DEF Register!Only
<1>6. revs' = revs /\ head' = head => HeadDoc' = HeadDoc
  BY DEF HeadDoc
<1>7. CASE pc[u] \notin {"saving", "waiting", "locked"}
  <2>1. HeadDoc' = HeadDoc
    BY <1>6, <1>7, WritersServe
  <2>2. ~Register!Waits(u)
    BY <1>1, <1>2, <1>7, EditTyped DEF Register!Waits
  <2> QED
    BY <1>5, <2>1, <2>2 DEF Register!Ask, Register!Next
<1>8. CASE pc'[u] \notin {"saving", "waiting", "locked"}
  <2>1. (~Register!Waits(u))'
    BY <1>1, <1>2, <1>8, EditTyped DEF Register!Waits
  <2>2. Asked[u] = EditOf(u)
    BY DEF Asked
  <2> QED
    BY <1>5, <1>6, <2>1, <2>2 DEF Register!Drop, Register!Apply, Register!Next
<1>9. CASE /\ pc[u] \in {"saving", "waiting", "locked"}
           /\ pc'[u] \in {"saving", "waiting", "locked"}
  <2>1. /\ pc[u] = "waiting" /\ pc'[u] = "locked"
        /\ form' = form /\ revs' = revs /\ head' = head
    BY <1>9, GoesOnAsking
  <2>2. Edited(pc'[u], form'[u]) = Edited(pc[u], form[u])
    BY <2>1 DEF Edited
  <2>3. Asked'[u] = Asked[u]
    BY <1>2, <2>1, <2>2
  <2>4. Asked' = Asked
    BY <1>2, <1>4, <2>3
  <2> QED
    BY <1>6, <2>1, <2>4
<1> QED
  BY <1>7, <1>8, <1>9

\* A submission that holds the head writes what its program asked for.
LEMMA SubmissionApplies ==
  ASSUME TypeInv, NEW u \in Users, NEW run \in Runs \union {None},
         WriteEntries(u, run), mem[u].head = head, mem[u].doc = HeadDoc
  PROVE  \/ revs' = revs /\ head' = head
         \/ HeadDoc' = Register!LaidOver(EditOf(u), HeadDoc)
<1>1. DOMAIN EditOf(u) = Sets(form[u])
  BY DEF EditOf, Edited, WriteEntries
<1>2. \A f \in Sets(form[u]) : EditOf(u)[f] = form[u].mine[f]
  BY DEF EditOf, Edited, WriteEntries
<1>3. CASE WithEntries(u) = mem[u].doc
  BY <1>3 DEF WriteEntries
<1>4. CASE WithEntries(u) # mem[u].doc
  <2>1. WithEntries(u) = Register!LaidOver(EditOf(u), HeadDoc)
    BY <1>1, <1>2, <1>4 DEF WithEntries, Register!LaidOver
  <2> QED
    BY <2>1, SubmissionWrites
<1> QED
  BY <1>3, <1>4

\* The author's changes as an overlay and as an edit of the register.
LEMMA EditIsOverlay ==
  ASSUME TypeInv, NEW u \in Users, pc[u] = "saving", NEW old \in Doc
  PROVE  Overlay(form[u].digest, form[u].mine, old)
         = Register!LaidOver(EditOf(u), old)
<1>1. form[u].digest \in Doc /\ form[u].mine \in Doc
  BY DEF TypeInv, TypeOK, Form
<1>2. DOMAIN EditOf(u) = Touching(form[u].digest, form[u].mine)
  BY DEF EditOf, Edited
<1>3. \A f \in Touching(form[u].digest, form[u].mine) :
        EditOf(u)[f] = form[u].mine[f]
  BY DEF EditOf, Edited
<1> QED
  BY <1>1, <1>2, <1>3 DEF Overlay, Register!LaidOver, Touching, Doc

\* A save writes the changes its author made to the page.
LEMMA SaveApplies ==
  ASSUME Workers = 1, Runs = {}, PatchInv, NEW u \in Users, Step(u),
         SaveRevision(u)
  PROVE  HeadDoc' = Register!LaidOver(EditOf(u), HeadDoc)
<1>1. TypeInv /\ pc[u] = "saving"
  BY DEF PatchInv, SerialInv, SaveRevision, Accepted
<1>2. Writes(u)
  <2>1. pc'[u] # "saving"
    BY <1>1, ComesAsking
  <2>2. /\ Merged(u) \in Doc /\ mem[u].head \in Nat /\ mem[u].base \in Nat
        /\ Len(revs) \in Nat
    BY <1>1, OverlayTypes DEF TypeInv, TypeOK, Memory
  <2>3. Len(revs') = Len(revs) + 1
    BY <1>1, <2>2, WriteTyped DEF SaveRevision
  <2> QED
    BY <1>1, <2>1, <2>2, <2>3 DEF Writes
<1>3. HeadDoc' = Overlay(form[u].digest, form[u].mine, HeadDoc)
  BY <1>1, <1>2, PatchStep
<1>4. HeadDoc \in Doc
  BY <1>1, HeadDocType DEF TypeInv
<1> QED
  BY <1>1, <1>3, <1>4, EditIsOverlay

LEMMA RegisterInit ==
  ASSUME Init
  PROVE  Register!Init
<1>1. TypeInv /\ \A u \in Users : pc[u] = "idle"
  BY InitTyped DEF Init
<1>2. form \in [Users -> Form] /\ HeadDoc \in Doc
  <2>1. /\ form \in [Users -> Form]
        /\ revs \in Seq(Revision) /\ head \in 1..Len(revs)
    BY <1>1 DEF TypeInv, TypeOK
  <2>2. revs[head] \in Revision
    BY <2>1
  <2> QED
    BY <2>1, <2>2 DEF HeadDoc, Revision
<1>3. \A u \in Users : Edited(pc[u], form[u]) = {}
  BY <1>1, <1>2, EditTyped
<1>4. \A u \in Users : EditOf(u) \in [{} -> Values \union {Absent}]
  BY <1>3 DEF EditOf
<1> QED
  BY <1>2, <1>4 DEF Register!Init, Asked, Doc

\* With one worker and no runs a table is one register: every save, from any
\* page, on any base, merged or not, and every submission changes the head at
\* one moment and by exactly what its author asked for.
THEOREM OneWorkerIsRegister ==
  ASSUME Workers = 1, Runs = {}
  PROVE  Spec => EditsAreAtomic
<1> DEFINE Inv == PatchInv /\ FreezeInv
<1>1. Init => Inv
  <2>1. Init => PageInv
    BY DEF Init, PageInv
  <2>2. Init => FreezeInv
    BY InitTyped DEF Init, FreezeInv, OneServed, FreshLoad, Serving
  <2> QED
    BY <2>1, <2>2, SerialInit DEF PatchInv
<1>2. Inv /\ [Next]_vars => Inv'
  <2> SUFFICES ASSUME Inv, [Next]_vars PROVE Inv'
    OBVIOUS
  <2>1. SerialInv' /\ FreezeInv'
    BY SerialNext, FreezeNext DEF PatchInv
  <2>2. CASE UNCHANGED vars
    BY <2>1, <2>2 DEF vars, table, PatchInv, PageInv, Known, HeadDoc
  <2>3. ASSUME NEW u \in Users, Step(u) PROVE Inv'
    BY <2>1, <2>3, PageStep DEF PatchInv
  <2> QED
    BY <2>2, <2>3 DEF Next
<1>3. Inv /\ Inv' /\ [Next]_vars => [Register!Next]_<<HeadDoc, Asked>>
  <2> SUFFICES ASSUME Inv, Inv', [Next]_vars
               PROVE  [Register!Next]_<<HeadDoc, Asked>>
    OBVIOUS
  <2>1. TypeInv /\ TypeInv' /\ FreshLoad
    BY DEF FreezeInv
  <2>2. CASE UNCHANGED vars
    BY <2>2 DEF vars, table, HeadDoc, Asked, EditOf
  <2>3. ASSUME NEW u \in Users, Step(u)
        PROVE  [Register!Next]_<<HeadDoc, Asked>>
    <3>1. ASSUME NEW run \in Runs \union {None}, WriteEntries(u, run)
          PROVE  \/ revs' = revs /\ head' = head
                 \/ HeadDoc' = Register!LaidOver(EditOf(u), HeadDoc)
      <4>1. mem[u].head = head /\ mem[u].doc = HeadDoc
        BY <2>1, <3>1 DEF FreshLoad, FreezeInv, WriteEntries
      <4> QED
        BY <2>1, <3>1, <4>1, SubmissionApplies
    <3>2. \/ revs' = revs /\ head' = head
          \/ HeadDoc' = Register!LaidOver(EditOf(u), HeadDoc)
      BY <2>3, <3>1, WhoWrites, SaveApplies
    <3> QED
      BY <2>1, <2>3, <3>2, RegisterStep
  <2> QED
    BY <2>2, <2>3 DEF Next
<1>4. Init => Register!Init
  BY RegisterInit
<1> QED
  BY <1>1, <1>2, <1>3, <1>4, PTL DEF Spec, EditsAreAtomic, Register!Spec
==============================================================================
