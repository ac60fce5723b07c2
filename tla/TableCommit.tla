----------------------------- MODULE TableCommit -----------------------------
(***************************************************************************)
(* The history of one table: how edits reach it (numberdb_app/editing.py   *)
(* and the request handlers of views.py and api.py), and what review lets  *)
(* into search by number (numberdb_app/review.py).                         *)
(*                                                                         *)
(* A request is not one step.  A handler loads the Table row into memory,  *)
(* commits, and then writes the review mark and the search flags in        *)
(* statements of their own (the site sets no ATOMIC_REQUESTS); only the    *)
(* generator endpoints hold the row lock from the read to the write.       *)
(* Between two of those steps another worker's request may run.            *)
(***************************************************************************)
EXTENDS Merge, Naturals, Sequences, FiniteSets

CONSTANTS
  Entries,       \* identities of the entries a document may hold
  Prose,         \* its other paths: definition, tags, parameters ...
  Parameters,    \* the path of the parameter declaration, one of Prose
  Values,        \* what a path may say
  Absent,        \* ... or that it is missing
  Users,         \* accounts
  Author,        \* the account that created the table
  Board,         \* accounts that may review
  Standing,      \* accounts whose own edits are published as reviewed
  Editors,       \* accounts editing in a browser
  Programs,      \* accounts writing through the API
  Surfaces,      \* how they save: the source editor, the two kinds of
                 \* form, or PUT of a document
  Runs,          \* names a generator gives its runs
  None,          \* no account, no run
  Modes,         \* how programs submit entries: records added or updated
                 \* ("upsert"), a mapping sent in that mode, or all of them
  ListedEntries, \* TRUE: the entries are one YAML list, merged whole
  Bare,          \* TRUE: they are values without parameters to tell them by
  Workers,       \* requests the site serves at once (gunicorn --workers)
  Crashes,       \* TRUE: a worker may be killed in the middle of a request
  MaxRevisions,  \* bound: revisions the history may reach
  MaxTouched     \* bound: paths one edit changes

Fields == Entries \union Prose
Doc == [Fields -> Values \union {Absent}]

ASSUME ConstantsOK ==
  /\ Parameters \in Prose
  /\ Entries \intersect Prose = {}
  /\ IsFiniteSet(Fields)
  /\ Absent \notin Values
  /\ IsFiniteSet(Users)
  /\ Author \in Users
  /\ Board \subseteq Standing
  /\ Standing \subseteq Users
  /\ Editors \subseteq Users
  /\ Programs \subseteq Users
  /\ Surfaces \subseteq {"source", "metadata", "entries", "api"}
  /\ None \notin Users
  /\ None \notin Runs
  /\ Modes \subseteq {"upsert", "mapping", "replace"}
  /\ ListedEntries \in BOOLEAN
  /\ Bare \in BOOLEAN
  /\ Workers \in Nat \ {0}
  /\ Crashes \in BOOLEAN
  /\ MaxRevisions \in Nat
  /\ MaxTouched \in Nat

VARIABLES
  revs,       \* the revisions, in the order they were created
  head,       \* Table.head_revision, an index into revs
  reviewed,   \* Table.reviewed_at_revision, 0 when null
  published,  \* Table.published
  ready,      \* Table.ready_for_review
  flagged,    \* the entries whose rows carry reviewed=True
  lock,       \* who holds the row lock of select_for_update, or None
  pc,         \* where each account's page or request stands
  form,       \* what its browser page or request body holds
  mem,        \* the Table object its request has loaded
  vouched     \* history: <<entry, value>> pairs somebody with standing saw

table == <<revs, head, reviewed, published, ready, flagged>>
vars == <<table, lock, pc, form, mem, vouched>>
------------------------------------------------------------------------------
(* Types.                                                                  *)

Revision == [doc : Doc, parent : Nat, base : Nat,
             author : Users, run : Runs \union {None}]

Form == [kind : {"none", "source", "metadata", "entries", "api", "unnamed",
                 "upsert", "mapping", "replace", "restore", "review"},
         digest : Doc, mine : Doc, touched : SUBSET Fields]

Memory == [head : Nat, doc : Doc, reviewed : Nat, published : BOOLEAN,
           base : Nat, was : Doc]

\* Where a page waits for its user, and where a request is being served.
Pages == {"idle", "editing", "reviewing"}
Serving == {"saving", "refreshing", "marking", "syncing", "confirming",
            "publishing", "waiting", "locked"}

Blank == [f \in Fields |-> Absent]
NoForm == [kind |-> "none", digest |-> Blank, mine |-> Blank, touched |-> {}]
NoMemory == [head |-> 0, doc |-> Blank, reviewed |-> 0, published |-> FALSE,
             base |-> 0, was |-> Blank]

TypeOK ==
  /\ revs \in Seq(Revision)
  /\ head \in 1..Len(revs)
  /\ reviewed \in 0..Len(revs)
  /\ published \in BOOLEAN
  /\ ready \in BOOLEAN
  /\ flagged \in SUBSET Entries
  /\ lock \in Users \union {None}
  /\ pc \in [Users -> Pages \union Serving]
  /\ form \in [Users -> Form]
  /\ mem \in [Users -> Memory]
  /\ vouched \in SUBSET (Entries \X Values)
------------------------------------------------------------------------------
(* What the documents say.                                                 *)

HeadDoc == revs[head].doc

HasEntries(doc) == \E e \in Entries : doc[e] # Absent

\* The entries a document states, as <<entry, value>> pairs.
Pairs(doc) == {<<e, doc[e]>> : e \in {x \in Entries : doc[x] # Absent}}

\* Entries added, removed or changed between two documents; values without
\* parameters have one identity together.
ChangedParams(before, after) ==
  IF Bare /\ \E e \in Entries : before[e] # after[e] THEN Entries
  ELSE {e \in Entries : before[e] # after[e]}

\* Mutant: a table that was reviewed once keeps all its rows in search.
ReviewedRowsOnce(at, current, history) == IF at = 0 THEN {} ELSE Entries

\* unreviewed_params, then sync_review_flags: the rows that end up with
\* reviewed=True for these two pointers of a Table object.
ReviewedRows(at, current, history) ==
  IF at = 0 THEN {}
  ELSE IF at = current THEN Entries
  ELSE Entries \ ChangedParams(history[at].doc, history[current].doc)

\* A unit of the merge: a flat document keeps its entries in one list.
Unit == [f \in Fields |->
           IF ListedEntries /\ f \in Entries THEN Entries ELSE {f}]

\* The revisions a digest names: the digest is a hash of the content alone.
WithDigest(doc) == {i \in 1..Len(revs) : revs[i].doc = doc}
Newest(S) == CHOOSE i \in S : \A j \in S : j <= i

------------------------------------------------------------------------------
(* A table as its creator leaves it: one revision, a draft nobody reviewed *)
(* or a published table, reviewed when its author has standing.            *)

Init ==
  /\ \E first \in Doc, public \in BOOLEAN :
       /\ public => HasEntries(first)
       /\ revs = <<[doc |-> first, parent |-> 0, base |-> 0,
                    author |-> Author, run |-> None]>>
       /\ published = public
       /\ reviewed = (IF public /\ Author \in Standing THEN 1 ELSE 0)
       /\ vouched = (IF public /\ Author \in Standing
                     THEN Pairs(first) ELSE {})
  /\ head = 1
  /\ ready \in {FALSE, ~published}
  /\ flagged = ReviewedRows(reviewed, head, revs)
  /\ lock = None
  /\ pc = [u \in Users |-> "idle"]
  /\ form = [u \in Users |-> NoForm]
  /\ mem = [u \in Users |-> NoMemory]
------------------------------------------------------------------------------
(* Serving requests.                                                       *)

\* A gunicorn worker is free to take another request.
WorkerFree == Cardinality({u \in Users : pc[u] \in Serving}) < Workers

\* Bound: everybody who may still write leaves the history within
\* MaxRevisions.
Writing == {"editing", "saving", "waiting", "locked"}
RoomToWrite ==
  Len(revs) + Cardinality({u \in Users : pc[u] \in Writing}) < MaxRevisions

Goto(u, phase) == pc' = [pc EXCEPT ![u] = phase]
Finish(u) ==
  /\ Goto(u, "idle")
  /\ form' = [form EXCEPT ![u] = NoForm]
  /\ mem' = [mem EXCEPT ![u] = NoMemory]

\* Mutant: the page's digest is ignored and the base is the current head.
LoadedAtHead(base, was) ==
  [head |-> head, doc |-> HeadDoc, reviewed |-> reviewed,
   published |-> published, base |-> head, was |-> HeadDoc]

\* The Table row as a handler reads it, and the revision it takes as base.
Loaded(base, was) ==
  [head |-> head, doc |-> HeadDoc, reviewed |-> reviewed,
   published |-> published, base |-> base, was |-> was]

Touching(before, after) == {f \in Fields : before[f] # after[f]}
Edits(doc) == {d \in Doc : Cardinality(Touching(doc, d)) <= MaxTouched}
------------------------------------------------------------------------------
(* The edit page, its three forms, and PUT of a whole document.            *)

\* GET: the page carries the head's text and its digest.
OpenPage(u, kind) ==
  /\ pc[u] = "idle"
  /\ kind \in Surfaces
  /\ u \in (IF kind = "api" THEN Programs ELSE Editors)
  /\ RoomToWrite
  /\ Goto(u, "editing")
  /\ form' = [form EXCEPT ![u] = [kind |-> kind, digest |-> HeadDoc,
                                  mine |-> HeadDoc, touched |-> {}]]
  /\ UNCHANGED <<table, lock, mem, vouched>>

ClosePage(u) ==
  /\ pc[u] \in {"editing", "reviewing"}
  /\ Finish(u)
  /\ UNCHANGED <<table, lock, vouched>>

\* POST of the source editor: the base is the newest revision with the
\* digest the page carried, and the current head when there is none.
PostSource(u) ==
  /\ pc[u] = "editing" /\ form[u].kind = "source"
  /\ WorkerFree
  /\ \E doc \in Edits(form[u].mine) :
       form' = [form EXCEPT
                  ![u].mine = doc,
                  ![u].touched = @ \union Touching(form[u].mine, doc)]
  /\ mem' = [mem EXCEPT ![u] =
               IF WithDigest(form[u].digest) # {}
               THEN Loaded(Newest(WithDigest(form[u].digest)), form[u].digest)
               ELSE Loaded(head, HeadDoc)]
  /\ Goto(u, "saving")
  /\ UNCHANGED <<table, lock, vouched>>

\* What a form shows and sends back: the settings and sections form every
\* path but the parameters' names, the entries form the rows it was drawn
\* with and the rows added on it.
Shown(kind, page, doc) ==
  IF kind = "metadata" THEN Prose \ {Parameters}
  ELSE {e \in Entries : page[e] # Absent \/ doc[e] # Absent}

\* POST of a form: what it shows is laid over the base, found the same way.
PostForm(u) ==
  /\ pc[u] = "editing" /\ form[u].kind \in {"metadata", "entries"}
  /\ WorkerFree
  /\ LET page == form[u].digest
         named == WithDigest(page)
         was == IF named # {} THEN page ELSE HeadDoc
     IN  /\ mem' = [mem EXCEPT ![u] =
                      Loaded(IF named # {} THEN Newest(named) ELSE head, was)]
         /\ \E doc \in Edits(page) :
              LET sent == Shown(form[u].kind, page, doc)
              IN  /\ Touching(page, doc) \subseteq sent
                  /\ form' = [form EXCEPT
                       ![u].mine = [f \in Fields |-> IF f \in sent
                                                     THEN doc[f] ELSE was[f]],
                       ![u].touched = Touching(page, doc)]
  /\ Goto(u, "saving")
  /\ UNCHANGED <<table, lock, vouched>>

\* PUT /api/table/T with X-Base-Revision: a digest no revision has is
\* refused with 409.
PutDocument(u) ==
  /\ pc[u] = "editing" /\ form[u].kind = "api"
  /\ WorkerFree
  /\ IF WithDigest(form[u].digest) = {}
     THEN Finish(u)
     ELSE /\ \E doc \in Edits(form[u].mine) :
               form' = [form EXCEPT
                          ![u].mine = doc,
                          ![u].touched = Touching(form[u].mine, doc)]
          /\ mem' = [mem EXCEPT ![u] =
                       Loaded(Newest(WithDigest(form[u].digest)),
                              form[u].digest)]
          /\ Goto(u, "saving")
  /\ UNCHANGED <<table, lock, vouched>>

\* ... and without the header: the base is whatever is current, and the
\* document replaces every path of it.
PutUnnamed(u) ==
  /\ pc[u] = "editing" /\ form[u].kind = "api"
  /\ WorkerFree
  /\ \E doc \in Edits(form[u].mine) :
       form' = [form EXCEPT ![u] = [kind |-> "unnamed", digest |-> HeadDoc,
                                    mine |-> doc, touched |-> Fields]]
  /\ mem' = [mem EXCEPT ![u] = Loaded(head, HeadDoc)]
  /\ Goto(u, "saving")
  /\ UNCHANGED <<table, lock, vouched>>

\* POST of the history page: back to revision i, everything in it.
PostRestore(u, i) ==
  /\ pc[u] = "idle" /\ u \in Editors
  /\ RoomToWrite /\ WorkerFree
  /\ i \in 1..Len(revs) /\ i # head
  /\ form' = [form EXCEPT ![u] = [kind |-> "restore", digest |-> HeadDoc,
                                  mine |-> revs[i].doc, touched |-> Fields]]
  /\ mem' = [mem EXCEPT ![u] = Loaded(head, HeadDoc)]
  /\ Goto(u, "saving")
  /\ UNCHANGED <<table, lock, vouched>>
------------------------------------------------------------------------------
(* commit_table, and what its callers do afterwards.                       *)

\* Mutant: only the source editor refuses to change the parameters.
ParametersMovedInText(u) ==
  LET was == mem[u].doc[Parameters]
  IN  /\ mem[u].published
      /\ form[u].kind = "source"
      /\ was # Absent
      /\ form[u].mine[Parameters] # was

\* The freeze compares what was sent with the head, not with the base.
ParametersMoved(u) ==
  LET was == mem[u].doc[Parameters]
  IN  /\ mem[u].published
      /\ form[u].kind # "restore"
      /\ was # Absent
      /\ form[u].mine[Parameters] # was

Clashes(u) ==
  /\ mem[u].base # mem[u].head
  /\ Conflicts(Unit, mem[u].was, form[u].mine, mem[u].doc) # {}

\* Mutant: a save without a conflict is written as it was sent.
MergedAsSent(u) == form[u].mine

Merged(u) ==
  IF mem[u].base = mem[u].head
  THEN form[u].mine
  ELSE MergeDocs(Unit, mem[u].was, form[u].mine, mem[u].doc)

\* A refusal sends the source editor's text back with the digest of the
\* revision it is now taken to start from; the other ways in end there.
Refuse(u, digest) ==
  /\ IF form[u].kind = "source"
     THEN /\ Goto(u, "editing")
          /\ form' = [form EXCEPT ![u].digest = digest]
          /\ mem' = [mem EXCEPT ![u] = NoMemory]
     ELSE Finish(u)
  /\ UNCHANGED <<table, lock, vouched>>

RefuseParameters(u) ==
  /\ pc[u] = "saving"
  /\ ParametersMoved(u)
  /\ Refuse(u, mem[u].was)

RefuseStale(u) ==
  /\ pc[u] = "saving"
  /\ ~ParametersMoved(u)
  /\ Clashes(u)
  /\ Refuse(u, mem[u].doc)

\* Who publishes as reviewed: the site's forms whatever the table is, the API
\* published tables only.
AutoMarks(u) ==
  /\ u \in Standing
  /\ form[u].kind \in {"api", "unnamed"} => mem[u].published

\* The rest of the request after a commit that left the table at revision at.
Settle(u, at) ==
  IF AutoMarks(u)
  THEN /\ Goto(u, IF form[u].kind = "restore" THEN "refreshing" ELSE "marking")
       /\ mem' = [mem EXCEPT ![u].head = at]
       /\ UNCHANGED form
  ELSE Finish(u)

Accepted(u) ==
  /\ pc[u] = "saving"
  /\ ~ParametersMoved(u)
  /\ ~Clashes(u)

\* The edit says what the head already says: nothing is written.
SaveNothing(u) ==
  /\ Accepted(u)
  /\ Merged(u) = mem[u].doc
  /\ Settle(u, mem[u].head)
  /\ UNCHANGED <<table, lock, vouched>>

\* Mutant: the head moves although the revision was never stored.
WriteRevisionUnsaved(u, doc, parent, base, run) ==
  /\ UNCHANGED revs
  /\ head' = Len(revs) + 1

\* _write: the revision and the head, in one transaction with the rows.
WriteRevision(u, doc, parent, base, run) ==
  /\ revs' = Append(revs, [doc |-> doc, parent |-> parent, base |-> base,
                           author |-> u, run |-> run])
  /\ head' = Len(revs) + 1

\* Mutant: the flags are computed before the head moves.
RebuiltEarly(u) == ReviewedRows(mem[u].reviewed, head, revs)

\* _write rebuilds the rows and sync_review_flags marks them, from the
\* reviewed pointer of the Table object in memory and the new head.
Rebuilt(u) == ReviewedRows(mem[u].reviewed, head', revs')

SaveRevision(u) ==
  /\ Accepted(u)
  /\ lock = None
  /\ Merged(u) # mem[u].doc
  /\ WriteRevision(u, Merged(u), mem[u].head, mem[u].base, None)
  /\ flagged' = Rebuilt(u)
  /\ Settle(u, head')
  /\ UNCHANGED <<reviewed, published, ready, lock, vouched>>

\* A restore reads the row again before it marks it.
Refresh(u) ==
  /\ pc[u] = "refreshing"
  /\ mem' = [mem EXCEPT ![u].head = head]
  /\ Goto(u, "marking")
  /\ UNCHANGED <<table, lock, form, vouched>>

\* The rows the author of an edit had in front of them: the whole document,
\* the rows a form showed, or the ones a program sent.
Submitted(u) ==
  LET f == form[u]
      rows == IF f.kind \in {"upsert", "metadata"} THEN f.touched
              ELSE IF f.kind = "entries"
              THEN f.touched \union {e \in Entries : f.digest[e] # Absent}
              ELSE Entries
  IN  {p \in Pairs(f.mine) : p[1] \in rows}

\* table.save(update_fields=['reviewed_at_revision', ...]), a statement of
\* its own.
Mark(u) ==
  /\ pc[u] = "marking"
  /\ lock = None
  /\ reviewed' = mem[u].head
  /\ vouched' = vouched \union Submitted(u)
  /\ Goto(u, "syncing")
  /\ UNCHANGED <<revs, head, published, ready, flagged, lock, form, mem>>

\* Mutant: the review mark is written and the flags are not.
SyncNothing(u) ==
  /\ pc[u] = "syncing"
  /\ Finish(u)
  /\ UNCHANGED <<table, lock, vouched>>

\* sync_review_flags, another: both pointers of the object in memory are the
\* same revision, so every row is set.
Sync(u) ==
  /\ pc[u] = "syncing"
  /\ flagged' = Entries
  /\ Finish(u)
  /\ UNCHANGED <<revs, head, reviewed, published, ready, lock, vouched>>
------------------------------------------------------------------------------
(* Review, and the drafts waiting for it.                                  *)

OpenReview(u) ==
  /\ pc[u] = "idle"
  /\ u \in Board
  /\ Goto(u, "reviewing")
  /\ form' = [form EXCEPT ![u] = [NoForm EXCEPT !.kind = "review",
                                                !.digest = HeadDoc]]
  /\ UNCHANGED <<table, lock, mem, vouched>>

\* Mutant: the digest of the page the reviewer read is not compared.
ConfirmLoadAny(u) ==
  /\ pc[u] = "reviewing"
  /\ WorkerFree
  /\ Goto(u, "confirming")
  /\ mem' = [mem EXCEPT ![u] = Loaded(head, HeadDoc)]
  /\ UNCHANGED <<table, lock, form, vouched>>

\* POST: nothing is confirmed when the head's digest is not the one shown.  The
\* page's form always sends the digest; without one nothing is compared.
ConfirmLoad(u) ==
  /\ pc[u] = "reviewing"
  /\ WorkerFree
  /\ IF form[u].digest # HeadDoc
     THEN Finish(u)
     ELSE /\ Goto(u, "confirming")
          /\ mem' = [mem EXCEPT ![u] = Loaded(head, HeadDoc)]
          /\ UNCHANGED form
  /\ UNCHANGED <<table, lock, vouched>>

\* Mutant: confirming a draft marks it and does not publish it.
ConfirmMarkOnly(u) ==
  /\ pc[u] = "confirming"
  /\ lock = None
  /\ reviewed' = mem[u].head
  /\ vouched' = vouched \union Pairs(form[u].digest)
  /\ Goto(u, "syncing")
  /\ UNCHANGED <<revs, head, published, ready, flagged, lock, form, mem>>

ConfirmMark(u) ==
  /\ pc[u] = "confirming"
  /\ lock = None
  /\ reviewed' = mem[u].head
  /\ vouched' = vouched \union Pairs(form[u].digest)
  /\ Goto(u, IF mem[u].published THEN "syncing" ELSE "publishing")
  /\ UNCHANGED <<revs, head, published, ready, flagged, lock, form, mem>>

\* publish_table refuses a draft with no entries; the mark stays.
Publish(u) ==
  /\ pc[u] = "publishing"
  /\ lock = None
  /\ IF HasEntries(mem[u].doc)
     THEN /\ published' = TRUE
          /\ Goto(u, "syncing")
          /\ UNCHANGED <<form, mem>>
     ELSE /\ Finish(u)
          /\ UNCHANGED published
  /\ UNCHANGED <<revs, head, reviewed, ready, flagged, lock, vouched>>

\* The author, or the board, says that a draft is finished or takes it back.
OfferDraft(u, wanted) ==
  /\ pc[u] = "idle"
  /\ WorkerFree
  /\ lock = None
  /\ ~published
  /\ u \in Board \union {Author}
  /\ wanted => HasEntries(HeadDoc)
  /\ ready' = wanted
  /\ UNCHANGED <<revs, head, reviewed, published, flagged, lock, pc, form,
                 mem, vouched>>
------------------------------------------------------------------------------
(* POST /api/table/T/entries: read, merge and write under the row lock.    *)

\* What a program may send: something for some of the entries.
Payloads ==
  [Entries -> Values \union {Absent}]

Send(u, mode, sent) ==
  /\ pc[u] = "idle" /\ u \in Programs
  /\ RoomToWrite /\ WorkerFree
  /\ LET named == {e \in Entries : sent[e] # Absent}
     IN  /\ Cardinality(named) <= MaxTouched
         /\ form' = [form EXCEPT ![u] =
              [kind |-> mode, digest |-> Blank,
               mine |-> [f \in Fields |->
                           IF f \in Entries THEN sent[f] ELSE Absent],
               touched |-> IF mode = "replace" THEN Entries ELSE named]]
  /\ Goto(u, "waiting")
  /\ UNCHANGED <<table, lock, mem, vouched>>

\* Mutant: the row is read without select_for_update.
TakeLockUnlocked(u) ==
  /\ pc[u] = "waiting"
  /\ mem' = [mem EXCEPT ![u] = Loaded(head, HeadDoc)]
  /\ Goto(u, "locked")
  /\ UNCHANGED <<table, lock, form, vouched>>

TakeLock(u) ==
  /\ pc[u] = "waiting"
  /\ lock = None
  /\ lock' = u
  /\ mem' = [mem EXCEPT ![u] = Loaded(head, HeadDoc)]
  /\ Goto(u, "locked")
  /\ UNCHANGED <<table, form, vouched>>

\* Mutant: no lock_timeout.
GiveUpNever(u) ==
  /\ pc[u] = "waiting"
  /\ \E v \in Users : pc[v] = "saving"
  /\ Finish(u)
  /\ UNCHANGED <<table, lock, vouched>>

\* lock_timeout: 429 after LOCK_WAIT behind whoever holds the row.
GiveUp(u) ==
  /\ pc[u] = "waiting"
  /\ \/ lock # None
     \/ \E v \in Users : pc[v] = "saving"
  /\ Finish(u)
  /\ UNCHANGED <<table, lock, vouched>>

\* The entries a submission sets.  Records are merged into the others by their
\* identity; a mapping is taken for the whole table, and where entries have no
\* identity whatever arrives replaces them all, unless nothing arrives.
Sets(page) ==
  IF /\ page.touched # {}
     /\ page.kind = "mapping" \/ (Bare /\ page.kind = "upsert")
  THEN Entries
  ELSE page.touched

\* Mutant: an upsert always replaces all the entries.
WithEntriesReplaced(u) ==
  [f \in Fields |-> IF f \in Entries THEN form[u].mine[f] ELSE mem[u].doc[f]]

\* The entries set into the document as it stands.  Values without an identity
\* are dropped by a merge into none.
WithEntries(u) ==
  IF Bare /\ form[u].kind = "upsert" /\ ~HasEntries(mem[u].doc)
  THEN mem[u].doc
  ELSE [f \in Fields |-> IF f \in Sets(form[u]) THEN form[u].mine[f]
                                                ELSE mem[u].doc[f]]

\* The same run by the same author, continuing: its revision grows in place.
Amends(u, run) ==
  /\ run # None
  /\ revs[mem[u].head].run = run
  /\ revs[mem[u].head].author = u

\* Everything up to the mark and the flags is one transaction.
WriteEntries(u, run) ==
  /\ pc[u] = "locked"
  /\ IF WithEntries(u) = mem[u].doc
     THEN UNCHANGED <<revs, head>>
     ELSE IF Amends(u, run)
     THEN /\ revs' = [revs EXCEPT ![mem[u].head].doc = WithEntries(u)]
          /\ UNCHANGED head
     ELSE WriteRevision(u, WithEntries(u), mem[u].head, mem[u].head, run)
  /\ IF mem[u].published /\ u \in Standing
     THEN /\ reviewed' = head'
          /\ flagged' = Entries
          /\ vouched' = vouched \union Submitted(u)
     ELSE /\ flagged' = IF revs' = revs THEN flagged ELSE Rebuilt(u)
          /\ UNCHANGED <<reviewed, vouched>>
  /\ lock' = None
  /\ Finish(u)
  /\ UNCHANGED <<published, ready>>
------------------------------------------------------------------------------
\* A worker killed in the middle of a request (gunicorn's timeout, a
\* redeploy): the statements already committed stay, the transaction that is
\* open does not.
Crash(u) ==
  /\ Crashes
  /\ pc[u] \in Serving
  /\ Finish(u)
  /\ lock' = IF lock = u THEN None ELSE lock
  /\ UNCHANGED <<table, vouched>>

Step(u) ==
  \/ \E kind \in Surfaces : OpenPage(u, kind)
  \/ ClosePage(u)
  \/ PostSource(u) \/ PostForm(u) \/ PutDocument(u) \/ PutUnnamed(u)
  \/ \E i \in 1..Len(revs) : PostRestore(u, i)
  \/ RefuseParameters(u) \/ RefuseStale(u)
  \/ SaveNothing(u) \/ SaveRevision(u)
  \/ Refresh(u) \/ Mark(u) \/ Sync(u)
  \/ OpenReview(u)
  \/ ConfirmLoad(u) \/ ConfirmMark(u) \/ Publish(u)
  \/ \E wanted \in BOOLEAN : OfferDraft(u, wanted)
  \/ \E mode \in Modes, sent \in Payloads : Send(u, mode, sent)
  \/ TakeLock(u) \/ GiveUp(u)
  \/ \E run \in Runs \union {None} : WriteEntries(u, run)
  \/ Crash(u)

Next == \E u \in Users : Step(u)

Spec == Init /\ [][Next]_vars

\* What a worker does with a request it has taken.  A worker that is alive
\* goes on with its request, and the wait for the row lock has a deadline.
Serve(u) ==
  \/ RefuseParameters(u) \/ RefuseStale(u)
  \/ SaveNothing(u) \/ SaveRevision(u)
  \/ Refresh(u) \/ Mark(u) \/ Sync(u)
  \/ ConfirmMark(u) \/ Publish(u)
  \/ TakeLock(u) \/ GiveUp(u)
  \/ \E run \in Runs \union {None} : WriteEntries(u, run)

FairSpec == Spec /\ \A u \in Users : WF_vars(Serve(u))
------------------------------------------------------------------------------
(* What the history promises.                                              *)

\* The revisions are one chain and the table's head is its end: no revision
\* has a sibling (editing.py commit_table: head is read and advanced in two
\* places that must not be interleaved).
LinearHistory ==
  /\ head = Len(revs)
  /\ \A i \in 1..Len(revs) : revs[i].parent = i - 1

\* This step is u's request writing a document.
Writes(u) ==
  /\ pc[u] \in {"saving", "locked"}
  /\ pc'[u] # pc[u]
  /\ revs' # revs

\* A save is the author's patch: the head after it is the head before it with
\* the changes the author made to the version their page named, and nothing
\* else (editing.py: "A stale write that silently wins is the failure this
\* whole design exists to avoid").
SaveIsThePatch ==
  [][\A u \in Users : Writes(u) /\ pc[u] = "saving" =>
       HeadDoc' = Overlay(form[u].digest, form[u].mine, HeadDoc)]_vars

\* No request takes away what somebody else wrote: a path its author did not
\* change, since they opened the page or in the records they sent, says after
\* the commit what it said just before it (api.py _upsert_entries: "Anything not
\* mentioned is left exactly as it was"; of a mapping and of values without
\* parameters the code does not promise it).
NothingUntouchedIsLost ==
  [][\A u \in Users : Writes(u) =>
       \A f \in Fields \ form[u].touched : HeadDoc'[f] = HeadDoc[f]]_vars

\* On a published table the parameters, once declared, change in a restore
\* and no other way (editing.py commit_table and restore_revision), whatever
\* the base of an edit said about them.
ParametersFrozen ==
  [][\A u \in Users :
       (Writes(u) /\ published /\ HeadDoc[Parameters] # Absent
                  /\ form[u].kind # "restore")
       => HeadDoc'[Parameters] = HeadDoc[Parameters]]_vars

\* What an account's request will change: where a save differs from the page
\* it began with, and the entries a submission sets.
Edited(phase, page) ==
  IF phase = "saving" THEN Touching(page.digest, page.mine)
  ELSE IF phase \in {"waiting", "locked"} THEN Sets(page)
  ELSE {}

EditOf(u) == [f \in Edited(pc[u], form[u]) |-> form[u].mine[f]]

Asked == [u \in Users |-> EditOf(u)]

Register == INSTANCE TableRegister
              WITH doc <- HeadDoc, asked <- Asked, Says <- Values \union {Absent}

\* However requests interleave, a revision says what it is: it is its author's,
\* its text is what that author changed, laid over the text of its parent, and
\* the base of a save is a revision that says what the author's page said; and
\* no revision changes afterwards (models.py TableRevision: "``parent`` is what
\* this was applied to"; this is what a writer that loses the race to the head
\* leaves in the history).
RevisionsArePatches ==
  [][/\ Len(revs') >= Len(revs)
     /\ \A i \in 1..Len(revs) : revs'[i] = revs[i]
     /\ \A u \in Users : Writes(u) =>
          LET new == revs'[Len(revs')]
          IN  /\ Len(revs') = Len(revs) + 1
              /\ head' = Len(revs')
              /\ new.author = u
              /\ new.parent \in 1..Len(revs)
              /\ new.doc =
                   Register!LaidOver(EditOf(u), revs[new.parent].doc)
              /\ new.base \in 1..Len(revs)
              /\ pc[u] = "saving" => revs[new.base].doc = form[u].digest]_vars

\* To its editors the table is one register: a save through any page and a
\* submission under the row lock each change the head at one moment, by exactly
\* what their author asked for and once, whatever was merged, refused, amended
\* or lost beside them (editing.py commit_table, api.py write_entries).  Records
\* ask for the entries they name; a mapping, and anything sent to a table of bare
\* values, asks for all of them.
EditsAreAtomic == Register!Spec
------------------------------------------------------------------------------
(* What review promises.                                                   *)

\* The rows search by number answers with.
Searched ==
  IF published THEN {p \in Pairs(HeadDoc) : p[1] \in flagged} ELSE {}

\* Search by number answers with values that somebody with standing had
\* before them (review.py: an unreviewed entry is held out of search).
SearchedIsConfirmed == Searched \subseteq vouched

\* The reviewed pointer never names a revision with an entry nobody vouched
\* for, whatever runs beside the review (views.py review_table: "approving
\* work nobody looked at is the one thing a review queue must not do").
ReviewedWasRead ==
  reviewed # 0 => Pairs(revs[reviewed].doc) \subseteq vouched

\* Whenever no request is between its mark and its flags, the rows carry what
\* the two pointers say (review.py sync_review_flags: "so the flag always
\* describes the table's current head").
FlagsDescribeHead ==
  (\A u \in Users : pc[u] \notin {"publishing", "syncing"}) =>
    \A p \in Pairs(HeadDoc) :
      p[1] \in flagged <=> p[1] \in ReviewedRows(reviewed, head, revs)

\* A draft becomes public by being read: every entry it holds at that moment
\* was on a reviewer's screen, and there is at least one.
PublishedWasRead ==
  [][published' /\ ~published =>
       HasEntries(HeadDoc) /\ Pairs(HeadDoc) \subseteq vouched]_vars

\* _waiting: what the review queue lists.
Waiting ==
  /\ published \/ ready
  /\ \/ reviewed = 0
     \/ \E p \in Pairs(HeadDoc) : p[1] \notin flagged

\* A draft its author has offered is in the queue until it is published or
\* taken back: nothing an editor does drops it out of sight.
OfferedDraftQueued ==
  (/\ ~published /\ ready
   /\ HasEntries(HeadDoc)
   /\ \A u \in Users : pc[u] \notin Serving) => Waiting

\* A program that submits entries is answered: it gets the row lock or it is
\* told to try again, however busy the table is (api.py LOCK_WAIT).
EverySubmissionAnswered ==
  \A u \in Users : pc[u] \in {"waiting", "locked"} ~> pc[u] \in Pages

\* The row is locked by the request that is between its read and its commit,
\* and by nobody when there is none: a worker that dies takes its lock along,
\* and nobody waits for a lock that will not be given back.
LockIsHeld == \A u \in Users : pc[u] = "locked" <=> lock = u

\* The statements a request still has before it when it is in this phase.
Ahead(phase) ==
  CASE phase = "saving" -> 4
    [] phase \in {"refreshing", "confirming"} -> 3
    [] phase \in {"marking", "publishing", "waiting"} -> 2
    [] phase \in {"syncing", "locked"} -> 1
    [] OTHER -> 0

\* Whatever a request is served, it has less before it afterwards, and no other
\* request gives it more: none is sent back to wait, to merge or to lock again.
RequestsAreShort ==
  [][\A u \in Users :
       /\ Serve(u) => Ahead(pc'[u]) < Ahead(pc[u])
       /\ pc[u] \in Serving => Ahead(pc'[u]) <= Ahead(pc[u])]_vars
==============================================================================
