# NumberDB: a TLA+ development

NumberDB is a Django site that holds tables of mathematical constants. Anybody
with an account edits a table in the browser, programs write to it through an
API, and accounts with standing review what others wrote. An edit is public at
once; what review decides is whether the values it changed answer *search by
number*. This directory specifies the parts of the site where that can go
wrong: how an edit reaches a table's history, how review, publication and the
search flags follow it, how tables are created and related, who may write to a
table for how long, and how the programs that fill tables and the agents that
build them get through crashes, retries and each other.

## 1. Inventory

| Component | State | Operations | Talks to |
|---|---|---|---|
| Commits and history (`editing.py`) | `TableRevision` rows (content, digest, parent, base, author, run), `Table.head_revision` | `commit_table`, `_amend`, `restore_revision`, `create_table`, `publish_table`, `apply_revision` | merge, review flags, data pipeline |
| Three-way merge (`merge.py`) | none | `merge(base, mine, theirs)` | called by commits |
| Browser editing (`views.py`, `*_form.py`) | the open page: text and the digest of the version it shows | source editor, settings, sections and entries forms, restore, offer of a draft | commits, review |
| Write API (`api.py`) | request bodies; the row lock of `select_for_update` | PUT of a document, POST of entries (upsert, replace), files, create, offer | commits, review, leases |
| Review (`review.py`, `views.py`) | `reviewed_at_revision`, `published`, `ready_for_review`, `reviewed` on each number row | queue, review page, confirm, publish, `sync_review_flags` | commits, search |
| Search (`search.py`) | indexes over the number rows | reads rows with `reviewed` and `table.published`; folds tables that repeat another | review flags, repeats |
| Table creation (`editing.py`, `permissions.py`) | T-numbers, unique titles and addresses, draft allowance | `create_table`, `slug_for`, `draft_allowance` | commits |
| Repeats, tags (`editing.py`) | `Table.repeats`, tag counters | `_sync_title`, `_sync_repeats`, `_sync_tags`, `recount_tags` | commits, publication, search |
| Leases (`api.py`, `TableLease`) | owner, run, expiry per table | take, refresh, drop, `_lease_allows`, `_refresh_lease` | write API |
| Proposal claims (`api.py`, `agents/queue.py`, `agents/campaign.sh`) | one row per (family, proposal); a checklist in an issue; what each campaign is building | claim, take over when expired, tick, skip, release, close a family | table creation |
| Generator runs (`clients/python`) | value cache on the disk, entries not sent yet | `publish`, batches with `_with_retry`, replacement, attachment | write API, leases |
| Attached files | `Attachment`, `Blob` | `write_file`, `merge_manifests` | commits, leases |
| Cost ledger (`costs.py`) | `TableCost` rows | `ingest` | agents |
| Trust (`permissions.py`) | derived from accepted edits | `edits_are_reviewed`, `may_write_through_api` | every writer |
| Rate limits, validation, evaluator, number representation, data pipeline, discussion, accounts, commands, generators | see PROJECT.json | | |

**What is hard.** The site sets no `ATOMIC_REQUESTS`: a request reads the
`Table` row, works on that object in memory, commits a revision in a
transaction, and then writes the review mark and the search flags in
statements of their own. Only the entries and files endpoints hold the row
lock from the read to the write. So two workers interleave between any two of
those steps; a page may be hours old when it comes back; a digest names
content and not a revision; a run amends the head revision in place while
pages, reviews and pointers still refer to it; a worker may be killed between
two statements; and what is published, what is reviewed and what is flagged
are three facts kept by different statements. Across tables, a save reads rows
it does not lock. A lease is checked before a wait and renewed after a write.
A generator dies anywhere, also within a line of its cache, and does not know
whether a request whose answer was lost was done. A campaign edits a whole
issue body to change one line of it.

**What makes each part correct.** History: one chain, nobody's change undone
by a save that did not mean it, parameters of a published table fixed (citations
resolve on them). Review: the reviewed pointer, publication and search never
run ahead of what somebody with standing read, and an offered draft does not
drop out of the queue. Entries endpoint: serial, nothing lost, always answered.
Catalogue: T-numbers without gaps, rows that say what their documents say,
bounded drafts, fixed addresses of published tables, a relation of repeats by
which a search hides no table. Leases and claims: one live holder, nobody
takes or extends another's, the dead do not block the living. Runs: what is
stored was computed by the code stored beside it, nothing is overwritten that
was not asked for, a value is paid for once. The hazards behind these, with
their lines, are in PROJECT.json.

## 2. Modules

| Module | What it is |
|---|---|
| `Merge` | `merge.py` over flat documents: clash, merged value, and the reference `Overlay` |
| `MergeTree` | `merge.py` over nested documents, by their paths |
| `MergeRecursion`, `MCMergeTree` | `_merge_node`'s recursion over trees, beside it; only TLC uses them |
| `MergeTreeProofs` | what a merge promises, for documents of any width and depth, that it is the recursion, and that the flat merge of `Merge` is an instance of it |
| `TableCommit`, `MCTableCommit` | one table: revisions, head, review state, row lock, and every request against it |
| `TableRegister` | what a table is to its editors: one document, and edits applied whole, once and at one moment |
| `TableCommitProofs` | type correctness, the merge lemma, and `ReviewedWasRead` for any number of workers |
| `TableSerialProofs` | what one worker guarantees: that it implements `TableRegister`, the history, patches, what others wrote, search, flags, the queue, publication, frozen parameters |
| `TableLockProofs` | what holds for any number of workers: under the row lock of the entries endpoint `TableRegister` again, the history and the flags; with every way to write, what a revision says of itself, that the lock has a holder and that requests end |
| `Catalogue`, `MCCatalogue` | the rows of several tables: numbers, addresses, repeats, tag counters, publication, the allowance of drafts |
| `CatalogueProofs` | types, rows, addresses, repeats, drafts and tag counters, for any number of tables |
| `Lease`, `MCLease` | a table's lease beside the submissions that check and renew it |
| `LeaseProofs` | types, one late submission, a live lease is kept |
| `GeneratorRun`, `MCGeneratorRun` | a generator's session: cache, comparison, batches, retries, replacement, files |
| `GeneratorRunProofs` | types, the three promises about what a run stores, that it pays once, and that it goes on and ends |
| `ProposalQueue` | one family of proposals and the campaigns that build them: the claim on the site, the checklist in the issue, the draft |
| `OneBuilder` | what the queue promises: at most one worker builds a table at a time |
| `ProposalQueueProofs` | its types, one holder per proposal, ticks are tables, and that it implements `OneBuilder` |

The modules meet at what they leave to each other. `Catalogue` takes the saves
of one table as they come, one at a time; how they interleave, merge and are
reviewed is `TableCommit`, which has one table and leaves the rows beside its
document out. `TableCommit` assumes of a merge what `Merge` says, and that this is
what `MergeTree` says of the same documents is proved (`FlatMergeIsMerge`). `Lease` stands where `TableCommit`'s `Send` begins and
`WriteEntries` ends, with the same row lock. `GeneratorRun` sees the server as
a table that takes a batch whole, loses it or is busy, which is what
`WriteEntries` and `GiveUp` are to it. `ProposalQueue` ends where a draft holds
values, and `Catalogue` begins with a draft.

### `TableCommit`: state

| Variable | In the code |
|---|---|
| `revs`, `head` | the table's `TableRevision` rows in creation order, and `head_revision` |
| `reviewed` | `reviewed_at_revision` (0: null) |
| `published`, `ready` | the two booleans of `Table` |
| `flagged` | entries whose number rows carry `reviewed=True` |
| `lock` | the holder of `select_for_update` on the row |
| `pc[u]` | an open page (`editing`, `reviewing`) or the step a request has reached |
| `form[u]` | the page or request body: which surface, the version its digest names, the document sent, the paths its author touched |
| `mem[u]` | the `Table` object the request loaded, with its base |
| `vouched` | history: entry/value pairs somebody with standing had before them; read by properties only |

A document is a function from paths to values, `Absent` included. Entries are
paths (an entry's identity is its parameter values); one path of the rest is
the parameter declaration. `ListedEntries` chooses between the two ways the
corpus writes entries: nested, merged one by one, or a YAML list, merged whole.
With `Bare` an entry is a value without parameters: entries are then places of
the list, and all of them have one identity together (`ChangedParams`). `Modes`
is how programs submit: records sent to be added or updated (`upsert`), a
mapping sent in that mode (`mapping`), or all the entries (`replace`). Which
entries a submission sets is `Sets`: the ones it names, or all of them where
`_upsert_entries` takes what arrived for the whole table, which it does with a
mapping and with values that have no identity (`api.py:1285-1291,1313-1314`).
An upsert of nothing changes nothing, and one of bare values into a table
without entries loses them in a merge into none. A digest is represented by the
content it hashes.

### `TableCommit`: actions

| Actions | Code |
|---|---|
| `OpenPage`, `ClosePage` | GET of the editor or a form; a program reading the document |
| `PostSource`, `PostForm`, `PutDocument`, `PutUnnamed`, `PostRestore` | the request up to `commit_table`: find the base by digest, build the document, load the row |
| `RefuseParameters`, `RefuseStale` | `ParametersChanged`, `StaleEdit`; the source editor gets its text back with a new base digest |
| `SaveNothing`, `SaveRevision` | `CommitOutcome(unchanged)`, and `_write` as one transaction |
| `Refresh`, `Mark`, `Sync` | what follows a commit by an account with standing, a statement each |
| `OpenReview`, `ConfirmLoad`, `ConfirmMark`, `Publish`, `Sync` | the review page and its POST, a statement each |
| `OfferDraft` | `offer_draft`, `offer_table` |
| `Send`, `TakeLock`, `GiveUp`, `WriteEntries` | POST of entries: wait for the row lock, 429 after `LOCK_WAIT`, write or amend under it |
| `Crash` | a worker killed at any step; its open transaction and its lock go with it |

`ConfirmLoad` always compares the digest the review page sent. The page's form
always sends one; a request made by hand may leave the field empty, and then
nothing is compared (`views.py:2805-2806`), which is not modelled.

`WriteEntries` is one action because everything in it happens inside one
transaction under the row lock; the steps after `SaveRevision` are separate
because the code commits each. The steps that write the `Table` row wait for
`lock = None`, as an UPDATE waits for `FOR UPDATE`.

`TableRegister` is the abstract specification of a table: a document, and for
each account the edit it waits for, a function from some paths to what it says
there. An edit is asked for, then applied whole to the document as it is at
that moment, or dropped. The refinement (`EditsAreAtomic`) maps the document to
the head's, and the edit an account waits for (`EditOf`) to what its request
carries: for a save the paths at which what was sent differs from the version
its page names, for a submission the entries it sets (`Sets`), and nothing for
anybody whose request has been answered. A second writer's base, the merge, the row
lock and the amended revision have no place in the register; that they make no
difference to it is what the refinement says. The marks, the flags and the
review pages are no part of it: what search and the queue show is
stated by the properties of section 3.

### `MergeTree`

`base`, `mine`, `theirs` are any three of `Documents`, and `result` is the
`MergeResult`: the merged document and the paths of its conflicts. A document
is a function from paths to a value, `Opened` (a mapping is there) or `Missing`.
`Decide` is what `_merge_node` does with the node at a path, in the order of its
tests. A path is `Reached` when the recursion descends into everything above
it, and what is returned there is the copy taken at the one node at or above
it where the recursion stops (`Settling`). Lists are values, as the code
compares them whole; the order of keys is left out.

`MergeRecursion` has the same code the way it is written, call by call over
trees (`Merged`, `ConflictsFrom`). Nothing can be proved about a recursive
operator, so the account by paths is the one the proofs are about; that the two
say the same is checked (`RecursionAgrees`), and that the account by paths
satisfies the equations of the recursion is proved (`MergeUnfolds`).

### `Catalogue`

| Variable | In the code |
|---|---|
| `table` | the `Table` rows by T-number: title, address, publication, creator, what it repeats, tags, the count of its number rows, the head document |
| `counter` | `Tag.table_count` and `number_count` |
| `req[w]` | a worker: idle, past the allowance (`admitted`), in a transaction, with the row and the counters it will write, or in a publication, with the tags it has yet to count |
| `missed` | history: the tags that a killed publication left uncounted, and nothing has counted since |
| `saves` | how many saves opened, for the bound |

| Actions | Code |
|---|---|
| `Admit` | the checks before `create_table`: the draft allowance, who may create on the board |
| `OpenCreation`, `OpenSave` | the transaction up to its writes: number, address, title, relation, tags, and the counters (`Rebuilt`: `recount_tags`, then the numbers moved by the difference in rows, as `build_number_table` has it); everything is read here |
| `CommitCreation`, `CommitSave` | the commit, which meets the unique keys and fails as a whole when one collides |
| `Publish`, `RecountTag` | `publish_table`: the flag is saved, and after it the counters of each tag, a statement each |
| `Fail` | a refusal or a killed worker: a transaction has written nothing, a publication what it came to |

A transaction that has opened does not see what others commit in between, and
its commit writes what it read: this is where two saves at once go wrong. With
`SavesAtOnce = FALSE` a save, a publication and a creation with more than a
bare title wait for one another, and only bare creations overlap; it is what
one worker does, and the other creations are there because several programs
and several people may pass the allowance and pick a number together even so.
How a document comes to the row through the forms is `TableCommit`'s.

### `Lease`

| Variable | In the code |
|---|---|
| `lease` | the `TableLease` row: owner, run, and whether `expires_at` is still to come |
| `lock` | the holder of `select_for_update` on the table's row |
| `req[p]` | a program's request: its step, whether it stores entries or a file, and what it has seen of the lease (nothing, the row, a row that is gone) |
| `intrusions` | history: submissions of each program that landed against a live lease of somebody else, in its present tenure |

| Actions | Code |
|---|---|
| `Take`, `FindNone`, `Insert` | POST of a lease: the row read for update and saved, or found missing and inserted against the unique key |
| `OpenDrop`, `CloseDrop` | DELETE: the row is read, then deleted by its primary key |
| `Check`, `TakeLock`, `StoreFile`, `ReadLease`, `Renew` | `write_entries` and `write_file`: the lease before the wait, the row lock, the write, and `_refresh_lease`; entries commit with the renewal, a file before it |
| `Fail` | the wait ran out, the payload is refused, the worker died |
| `Expire` | twenty minutes pass |

### `GeneratorRun`

| Variable | In the code |
|---|---|
| `disk` | the version of the generator's files on the disk |
| `cache` | for each fingerprint the documents of its cache file, each whole or torn by a crash, and what it reads as |
| `stored`, `attached` | the table's entries, and the version of the files beside them |
| `run` | the process and the publish call in it: code imported, files fingerprinted, flags, what it read of the table, what the cache gave, what is still to enumerate, what it produced, what is not sent, attempts |
| `touched` | history: entries somebody else changed since the run began |

| Actions | Code |
|---|---|
| `EditCode`, `Import` | somebody edits the files; a process imports them |
| `Start` | `_publish` up to its loop: fingerprint, snapshot, cache |
| `Skip`, `Produce` | one entry: skipped, or taken from the cache or computed and cached, judged by `_check_rigour`, `_check_precision` and `_judge` (`Refused`), added to the batch, which is sent at once when it is full; a refusal ends the run |
| `Tear`, `Crash` | death within `RunCache.put`, which leaves a torn document, and elsewhere |
| `Flush`, `Replace` | `_Sender.add`, `close` and `replace_with` |
| `Delivered`, `AnswerLost`, `Undelivered`, `Busy` | what `_with_retry` meets: done, done with the answer lost, not done, busy and tried again up to `Attempts` |
| `Attach` | `_attach`, best effort |
| `OtherEdit` | somebody else writes or deletes an entry |

A value is its claim, its number of digits and its spelling. `Unreadable` are
the pairs `compare` declines to judge, expressions and polynomials mostly: they
are neither a contradiction nor a loss nor a respelling, and the new value is
sent (`_compare.py:97-111`, `_generate.py:715-737`). `Unfit` are values a run
stops at whatever is stored, `Short` those with fewer digits than were asked
for.

A torn document may be lost, alone or with its neighbours: how it runs into
them is `Readable`, from the way the file is cut at its `---` rules. Or it still
parses, and is read (`_cache.py:141-155`): `number: 17/3` cut after `17` is 17,
an identity cut short is another's, a line cut behind a key may pair one
document's identity with another's value. What it can then read as is
`TornReadings`, from the set `Cuts` of values a text can be cut to.

`HasFile` says whether the generator is in a file. A class defined in a session
has none; the digest of an empty mapping is then handed to `fingerprint_of`, and
as it is no empty string the fallback to the compiled bodies is never taken
(`_cache.py:60-62,72-81`, `_generate.py:686,1332-1342`): the fingerprint
(`Fingerprint`) stays what it was while the code changes, and nothing is
attached.

### `ProposalQueue`

| Variable | In the code |
|---|---|
| `mark`, `closed` | the boxes of the family's issue (`ITEM`; `stale` is a `[~]` past `CLAIM_MINUTES`), and whether it is open |
| `site`, `expired` | `ProposalClaim`: the worker of each row, and the rows past `MINUTES` |
| `draft` | the table with the proposal's title: none, an empty draft, or one that holds values |
| `run[w]` | a campaign: its step, the proposal in hand, what it edits the body for (`errand`), the body it is about to write (`copy`), whether the row it read is unchanged (`sure`), whether its ninety minutes are past (`late`) |

| Actions | Code |
|---|---|
| `Next_table` | `next_table`: a waiting line nobody else holds; which one is the batch's ranking |
| `Insert`, `InsertRefused`, `AskHolder`, `TakeOver`, `TooLate` | POST /api/claim, a statement each; `sure` is the filter on `pk` and `claimed_at` |
| `ReadBody`, `NoSuchLine`, `PatchBody`, `ReadAgain`, `CloseFamily` | `cmd_claim`, `cmd_built`, `cmd_release`: a GET, an edit of one line, a PATCH of the whole body, and for a tick or a skip the second reading that may close the family |
| `CreateDraft`, `Fill`, `AgentSettles`, `EndBuild` | the build run. It is an agent following its prompt, so within the prompt every choice is open |
| `GiveBack`, `Finish`, `NoTable`, `Abandon` | what `campaign.sh` makes of it; death, failing `gh`, a failed run |
| `Age`, `AgeMark` | ninety minutes pass for a row or a line. Old claims in the copies of the body age with it |

The site's row and the mark on the line are two facts, written one after the
other by processes that may die between them; the row decides and the mark is
rewritten from an old copy. What the model keeps of time is only whether a
claim is past. A campaign that meets the same item twice in a row stops and is
started again under the same name; that is `Abandon` and an idle worker.

`OneBuilder` is the abstract specification: a proposal is free or has a
builder, and only its builder creates and fills the draft. The refinement maps
the builder of a proposal to the worker that is at work on it (`BuilderOf`) and
the draft to itself; every other step is a stutter.

## 3. Runs

`expect: pass` (bounds in each `.cfg`):

* `serial_forms` -- one worker; forms, PUT with and without a base, entries and
  restores, by accounts with and without standing. Submissions are of records
  with parameters, or of all the entries (`Modes` without `mapping`, `Bare`
  false), because `NothingUntouchedIsLost` holds of no others. The only prose is
  the parameter declaration, which the settings form does not edit, so here it
  saves what it shows. The table is one register
  (`EditsAreAtomic`, the refinement), what an author did not touch stays
  (`NothingUntouchedIsLost`), a published table keeps its parameters
  (`ParametersFrozen`), the flags follow the head (`FlagsDescribeHead`).
* `serial_review` -- one worker; an editor with the source editor and the
  forms, a program, and a reviewer, over a document that lists bare values.
  Search, the reviewed pointer and publication show only what a reviewer had on
  the screen (`SearchedIsConfirmed`, `ReviewedWasRead`, `PublishedWasRead`), an
  offered draft stays in the queue (`OfferedDraftQueued`), and saves are
  patches also after refusals (`SaveIsThePatch`).
* `generators` -- two workers, only the entries endpoint with all its `Modes`,
  amending runs, an author with standing, crashes. `LinearHistory`, `EditsAreAtomic`,
  `FlagsDescribeHead`, and `EverySubmissionAnswered` under fairness. With no
  reviewer the model stops once the history is full, so deadlock is not checked
  there.
* `merge_tree` -- every three of sixty documents: a clean merge is the author's
  changes laid over the head, edits at disjoint paths never conflict, nothing
  written is lost without a conflict at or above it, who saved first decides
  nothing, and the recursion over trees returns the same document and the same
  conflicts. There is one step, so deadlock is not checked.
* `catalogue` -- two workers, three tables, two tags, two saves one at a time
  beside creations, and publications killed between any two statements. `RowsFollowDocuments`, `FoldLosesNothing`, `TagsCountThePublic`,
  `DraftsBounded`, `AddressesStay`.
* `lease` -- three programs of two owners, one of which may die. `OneLateSubmission`,
  `LiveLeaseIsKept`, and `DeadLeaseFalls` under fairness.
* `generator_run` -- two versions of a generator, two entries, three sets of
  flags, beside edits, crashes, torn documents that are lost or read as
  something else, busy and lost answers.
  `AppliedIsStored`, `PaidOnce`, `StoredByItsFiles`, `ReplacesOnlyAsAsked`, and
  `RunEnds` under fairness.
* `proposals` -- two workers and two proposals of one family, with deaths at
  any step. `OneHolder`, `TickedIsFilled`, `BuildsOneAtATime` (the refinement),
  and under fairness `LeftBehindComesBack`. A closed family leaves nothing to
  do, so deadlock is not checked.

Each of these but `serial_review`, `generators` and `merge_tree` also checks its
module's `TypeOK`.

`expect: violation`, each a sentence of the repository the code does not keep:

* `lost_update` -- two workers, two forms: a stale write silently wins. The
  compose file starts one worker by default; `deploy/docker/Dockerfile` starts
  three and `deploy/gunicorn/gunicorn_start` two.
* `amended_after_review` -- one worker: a run amends the revision that was just
  confirmed, both pointers stay equal, and its new entries are searchable.
* `repeats_cycle` -- two saves at once, each declaring that its table repeats
  the other's, both pass the check of depth and leave a cycle; a search then
  folds each of the two tables into the other.
* `stale_cache` -- a generator's file is edited while a session has it
  imported: the next publish fingerprints, caches and attaches the new bytes
  with values the old ones computed.

**Bounds.** Each is a guard on a counter or the size of a set.

* `TableCommit`: `MaxRevisions` (3 or 4) and `MaxTouched` (1 path changed per
  edit). `RoomToWrite` stops new writers early enough that no request is left
  stuck. Two entries, one or two values, the parameter path, and two or three
  accounts are the least in which an edit can be stale, two edits can clash or
  touch different entries, a digest can come back through a restore, and a
  review can interleave with a commit. Three revisions are enough for base,
  head and new head to differ.
* `Catalogue`: three tables (a chain of repeats, a cycle, two drafts with one
  stem and a third), two saves, one entry, a ceiling of one draft with two
  workers. Two titles suggest one address and a third another.
* `GeneratorRun`: a batch of two entries, two attempts, one edit of the code,
  one edit by others, which respells an entry, one torn document. The second
  version computes one more digit and enumerates one entry less, and a torn
  document may read as another number, as words that compare with no number, or
  as a stump no entry can have: so refinement, coarsening, contradiction,
  respelling, deletion and values that cannot be compared all occur. 772
  thousand states, about two minutes; two tears at once are left to the
  theorems.
* `Lease` and `ProposalQueue` have finite data: two owners of three programs
  (one owner with two, of which one names no run), two workers and two
  proposals. A worker that dies and comes back is a third party under an old
  name; two proposals are the least in which one line's edit can undo another's.
* `MergeTree`: seven paths on three levels, two leaves; a key may hold a leaf
  in one version, a mapping in another and nothing in the third, and a mapping
  may be empty.

Every counterexample of the violation runs fits in these bounds, and every
property is also shown to fail there on a mutant of the code (the operators
marked *Mutant* in the modules).

**Fairness.**

* `TableCommit` assumes weak fairness of each account's request steps
  (`Serve`): a live worker goes on with the request it took. Nothing is assumed
  of people or of crashes. It is enough for `EverySubmissionAnswered` because a
  waiting submission can always either take the lock or give up: the deadline
  is what the property rests on. A review's or a save's UPDATE has no deadline
  and may in principle wait behind an endless succession of lock holders; no
  property is claimed for it.
* `ProposalQueue` assumes only that time passes (`Age`, `AgeMark`). Workers may
  die, dawdle or never come back, which is what the ninety minutes are for.
* `Lease` assumes that time passes (`Expire`), that the server answers
  (`Serve`), and strong fairness of `Take` for the programs that do not die: a
  run that was refused is started again by its operator, often enough to meet
  the lease expired. Strong, because renewals make the lease live again and
  again. `DeadLeaseFalls` is about a program that dies with the lease while
  others go on writing: a submission of theirs that read its expired lease
  brings it back to life, but not for ever.
* `GeneratorRun` assumes that a process that runs goes on (`RunSteps`); it may
  crash all the same, and nobody has to start it.

**Assumptions that matter.**

* *One worker* (`Workers = 1`) for the properties of saves, search and
  publication; `SavesAtOnce = FALSE` for repeats, tag counters and addresses.
  `lost_update` and `repeats_cycle` show what two do.
* *Writers without standing* (`WritersAreReviewed`) for `SearchedIsConfirmed`,
  `PublishedWasRead`, `ReviewedWasRead` and `OfferedDraftQueued`: the save of an account with
  standing marks the whole head reviewed, including what others wrote before
  and nobody confirmed. The design document describes this
  (`docs/design/user-editing.md`), so it is an assumption here and no finding.
* *No crashes* for `OfferedDraftQueued`: a worker killed between the mark and
  the publication of a review leaves a draft in the state the property forbids;
  and for `FlagsDescribeHead` where marks and flags are separate statements
  (`serial_forms`): killed between them, the flags stay behind until the next
  commit or review. Under the row lock (`generators`) it holds with crashes.
  The theorems about the two assume `~Crashes` for these reasons. `serial_review` is therefore without them; the theorems about search,
  publication and the reviewed pointer allow crashes.
* *No amending runs* (`Runs = {}`) wherever a base is named by its digest: an
  amendment changes the digest, and an editor's page then names no revision, so
  the save falls back to the current head. Among submissions, which name no
  base, `EditsAreAtomic` is checked and proved with amending runs.
* `NothingUntouchedIsLost` is neither checked nor proved of the source editor: after a
  conflict its old text comes back with the new head as base, and saving that
  unchanged is, by the code's rules, an edit that removes the other change.
* `Overrun = FALSE` in `ProposalQueue`: no build outlasts its claim. The source
  says so of the builds measured (`agents/queue.py:277-280`); a resumed run goes on
  under the claim of the first (`campaign.sh:533`). `TickedIsFilled` and the type
  invariant are proved without it.
* `RunsHaveOneOwner` in `Lease`: two accounts do not use one run's name, which
  is generated. `LateDrops = FALSE`: no run drops a lease it let run out. With
  late drops `LiveLeaseIsKept` fails: the row a late run has read, expired, is
  taken over in place by somebody else and then deleted by its primary key.
* `LiveEdits = FALSE` in `GeneratorRun`: files are edited between sessions;
  `stale_cache` is the other case. `HasFile = TRUE`: a class without a file keeps
  one fingerprint through changes of its code, and a later run takes the old
  code's values from its cache; `StoredByItsFiles` does not hold of it. `RemovalsOverwrite`: `removing=` is given
  together with `overwrite=`. Without it a run skips what the table has, and the
  replacement at its end then deletes what it was told to leave untouched
  (`_generate.py:315,749`).

**Seen while modelling, and checked by no run.**

* With two workers a commit that falls between the digest check of a review and
  its publication goes public unread (`views.py:2804-2818`).
* A reviewer's browser edit marks an offered draft reviewed, which the API
  refuses to do, and the queue then drops the draft (`views.py:3408-3413`,
  `api.py:919-920`); `serial_review` keeps reviewers from editing.
* A release names the proposal and not its holder: after a build that outlasted
  its claim, it deletes its successor's row (`api.py:1418`).
* A family is closed, "Every table in this family now exists", while a worker
  still builds one of its lines (`queue.py:585-588`).
* A submission by somebody else extends an expired lease of another run
  (`api.py:1681`). The model has it (`Renew`); it costs the next taker twenty
  minutes, and `DeadLeaseFalls` shows that it is not for ever.
* A save that opened before a publication writes the address it chose for the
  draft: with several workers, a published address can move once
  (`editing.py:490`).
* A mapping posted to be added, or values posted to a table of bare ones,
  replace every entry, also those added by others since
  (`api.py:1285-1291,1313-1314`). The model has it (`Sets`); `EditsAreAtomic`
  holds of it as of an edit of all the entries, `NothingUntouchedIsLost` does
  not. Bare values posted to a table without entries are dropped
  (`WithEntries`).
* A publication killed between its flag and its last tag leaves the tables and
  numbers of the rest of its tags uncounted until somebody next saves or
  publishes a table under them, or runs `manage.py recount_tags`
  (`editing.py:1087-1093`). The model has it (`missed`); `TagsCountThePublic`
  excepts these tags and no others.
* A torn document costs more than "the one value it held" (`_cache.py:103-105`).
  It may take both its neighbours along, which `PaidOnce` says exactly. Or it
  parses, and a value cut short is published as the generator's: a whole number
  where a fraction was, fewer terms of an expression. What catches some of them
  is `Refused`: too few digits, no bound, or a contradiction of the table. But
  then every later run meets the same document and stops there, until the cache
  file is removed by hand.
* A class without a file: see `HasFile` above.
* An expression or a polynomial that differs from the stored one is replaced by a
  call with `overwrite` alone, without `correcting` or `restating`
  (`_generate.py:715-737`): `compare` makes nothing of the two.
* `replace_with` deletes what others added since the run took its snapshot,
  which may be hours old. With `removing=` an entry that agrees but is spelled
  differently is respelled although `restating` is off.
* `merge.py:109-111` says a conflict keeps "my value"; where one side deleted
  and the other edited, the merged tree keeps the side that is not missing.

## 4. Proofs

All for arbitrary sets of paths, accounts, titles, tables and programs, any
values and any number of revisions, saves, edits and tears.

**`TableCommit`.**

* `TypeCorrect` -- `Spec => []TypeOK`, from `TypeInv`, which adds that every
  revision a request holds in memory exists.
* `MergeIsOverlay` -- without a clash, and with one path per unit, merging is
  laying the author's changes over the head. It is what turns `commit_table`'s
  merge into `SaveIsThePatch`.
* `ReviewIsRead` -- `[]ReviewedWasRead` with any number of workers, assuming
  `WritersAreReviewed`. The invariant carries, for every reviewer between check
  and mark, that the revision it loaded is the page it showed
  (`ConfirmingInv`); the mark is safe because it names that revision and not
  the head.
* `OneWorkerLinear`, `OneWorkerSavesPatches` -- with one worker at most one
  request is between its load and its last statement (`OneServed`), so what it
  has in memory is still the head (`FreshLoad`), and what it sent agrees with
  the base its page named (`PageInv`).
* `OneWorkerSearchIsConfirmed`, `OneWorkerPublishesRead` -- the same invariant
  with three more conjuncts: flagged rows are vouched for, a pending
  publication or flag update is of a confirmed head, and what a request loaded
  as reviewed was read (`GateInv`). Crashes are allowed.
* `OneWorkerKeepsFlags` -- `[]FlagsDescribeHead` with one worker, any writers,
  reviewers and amending runs. Between its commit and its flags a request is
  the only one served, and it holds the head and the reviewed pointer it will
  compute the flags from (`PhaseInv`); the property itself excuses exactly these
  requests.
* `OneWorkerKeepsQueue` -- `[]OfferedDraftQueued`, from the same and `DraftInv`:
  while a table is a draft, its reviewed pointer names a revision with entries
  only between the two statements of a review that is about to publish it.
* `OneWorkerLosesNothing` -- `NothingUntouchedIsLost` for forms, PUT, restores
  and submissions of records or of all the entries (`~Bare`, `"mapping" \notin
  Modes`), with crashes. What a page shows is the version its digest
  names, and what was sent differs from it only in what the author touched
  (`TouchInv`); the merge lemma then says that the rest is the head's.
* `OneWorkerIsRegister` -- `EditsAreAtomic`, with one worker and no amending runs,
  crashes included, for every way to write. A step of one request leaves the
  edits the others wait for alone, so it asks, applies or drops its own
  (`RegisterStep`); a request that goes on waiting has only taken the lock
  (`GoesOnAsking`). What is left is the step that writes: a save holds the head
  and its base agrees with its page (`PatchInv`), a submission has read the head
  (`FreshLoad`), and laying the edit over the head is what each of them writes.
* `OneWorkerFreezesParameters` -- `ParametersFrozen` with one worker, runs that
  amend included: a request about to write holds the table's document and its
  `published` as they are, and a submission names entries only (`FreezeInv`).
  The freeze compares what was sent with the head, so a merge that leaves the
  sent value and one that takes the head's leave the same.
* `LockKeepsLinear`, `LockLosesNothing` -- `[]LinearHistory` and
  `NothingUntouchedIsLost` for any number of workers, when nobody uses the edit
  pages or PUT (`EntriesOnly`); reviews, crashes and amending runs may happen.
  The second assumes `~Bare` and `"mapping" \notin Modes` like
  `OneWorkerLosesNothing`: the submissions it leaves out replace every entry,
  and it does not hold of them. The first assumes nothing of how programs
  submit.
  Who is inside the lock holds it and has loaded the head (`LockInv`): a second
  one cannot be inside, and a crash frees only its own lock. `lost_update` shows
  what becomes of it among requests that take no lock.
* `LockIsRegister` -- `EditsAreAtomic` under `EntriesOnly`, for any number of
  workers, with crashes, reviews and amending runs, from `LockInv`: nobody saves,
  and who is inside the lock has loaded the head it writes on. It is about every
  kind of submission: what one sets (`Sets`) is fixed when it is sent, be it the
  entries it names or all of them, and is what becomes of the document, or
  nothing does.
* `HistoryIsOfPatches` -- `RevisionsArePatches` with any number of workers, every
  way to write, reviews and crashes, assuming `Runs = {}`. Two saves at once may
  both write on one head; what is proved is that even then nobody's revision is
  misdescribed: it is its author's edit of the parent it names, its base says
  what the author's page said, and it is never changed. A request about to write
  holds *some* revision as its head, and a save also the base its page named
  (`HoldInv`); that this revision still is the head is what only `OneServed` or
  the lock gives. With amending runs it fails: an amendment rewrites a revision
  that a request holds.
* `LockHasHolder`, `RequestsEnd` -- `[]LockIsHeld` and `RequestsAreShort`, for any
  constants. A request is at the step between its read under the lock and its
  commit exactly when it has the lock (`HeldInv`), also when workers die there.
  The statements still before a request (`Ahead`, at most four) become fewer
  with each it is served and no more by anybody else's step. With weak fairness
  of `Serve` these two are the argument for `EverySubmissionAnswered`.
* `LockKeepsFlags` -- `[]FlagsDescribeHead` under the same assumption with
  nobody reviewing: the flags equal `ReviewedRows` at every moment, as who is
  inside the lock read the reviewed pointer too (`FlagInv`).

**`MergeTree`.** For any prefix-closed set of paths, any keys and any values.
Of two paths above a third one is above the other, so there is at most one node
at which the recursion stops on the way to a path (`SettledOnce`), and if there
is none it descends at the path itself (`SettledOrOpened`, by the shortest such
path). Where two versions without a mapping at a node differ below it, they
differ at it (`DifferentThere`). From these:

* `NestedMergeIsOverlay`, `DisjointEditsNeverConflict`, `MergeLosesNothing`,
  `MergeHasNoOrder` -- the four properties of the run. The second needs that a
  conflict has a touched path of each side at or below it (`ConflictHas`), and
  the last that the two decisions at a path are each other's mirror image until
  a conflict stops them both (`Exchanged`).
* `MergeIsDocument` -- the merged tree is a document, conflicts or not
  ("always a usable document", `merge.py:109-111`).
* `MergeUnfolds` -- over all paths of keys, the merge of three documents is a
  version whole, or a mapping of the merges of what they say under each key with
  exactly the conflicts of these: the equations `_merge_node` is written in. A
  finite document of the code is one of these, so by induction on its depth,
  which is outside the prover, the account by paths is the code's recursion.
* `FlatMergeIsMerge` -- the bridge to `TableCommit`. A flat document is laid out
  as a nested one (`Laid`) by giving each field a path; the fields at one path
  are a unit, as a list of entries is, and no unit stands inside another
  (`FlatLayout`). Around the units is a skeleton that the three versions share,
  the sections of a table. Then the nested merge names a conflict exactly at the
  paths of the units that clash, and without a clash returns the flat merge laid
  out. A unit's subtree is its leaf (`LeafIsSubtree`), two leaves are equal when
  the versions agree on the unit (`LeafIsUnit`), and above units on which two
  versions differ every mapping is open (`SkeletonOpen`), so the recursion comes
  to them. Both settings of `ListedEntries` are instances. The shared skeleton
  is an assumption of `TableCommit`: a save that drops a whole section while
  another edits inside it conflicts at the section, where the flat merge may
  see a conflict at the entries only.

**`Catalogue`.** All rest on `Shape`: numbers, and rows that follow their
documents in every table and in every transaction.

* `CatalogueTypeCorrect` -- `[]TypeOK`. A counter is the size of a set of table
  numbers, or of pairs of a number and a position in its list of values, so its
  bounds are those of finite sets.
* `TagsStayCounted` -- `[]TagsCountThePublic` when saves run one at a time and
  publications are killed anywhere. What a pending transaction counted, first
  whole and then by the difference its rows make, is the count of what it will
  leave (`Reckoned`): the only thing that commits meanwhile is a creation with a
  bare title, a draft under no tag, which is in no counter. A publication makes
  the tags of its table uncounted with its first statement and counts them one
  by one; the property excepts those it has not come to, and what a worker died
  over until the next save or publication counts it.

* `RowsFollow` -- `[]RowsFollowDocuments`, with saves overlapping or not. The
  strengthening is `Numbered`: a transaction that creates has a number in use
  or the next one, so the one that commits has the next one, and the unique key
  turns the other away.
* `FoldKeepsAll` -- `[]FoldLosesNothing` when saves run one at a time. `OneHop`
  is the relation's depth; `Related` says that what a pending transaction found
  about the other tables still holds; `Exclusive`, that of two pending ones one
  is a creation with a bare title, which cannot undo it.
* `PublishedAddressStays` -- `AddressesStay` under the same assumption: a
  pending save of a published table carries its address (`Addressed`).
* `DraftsStayBounded` -- `[]DraftsBounded`: the capped drafts of an account and
  the requests that may still make one are counted together (`Bounded`), which
  is where the one draft for each other worker comes from.

**`Lease`.** `LeaseTypeCorrect`. `OneLateEach`: who has landed late in this
tenure is not on the way to landing again (`LateInv`). `LiveLeaseStays`: who is
about to delete the row it read is its holder (`DropInv`), which is where the
two assumptions come in.

**`GeneratorRun`.** `RunTypeCorrect`. `RunStoresItsFiles`, assuming `~LiveEdits`
and `HasFile`: the files on the disk are those imported, and every whole
document of a cache, every value known or pending is of its version or is what a
torn document of that entry there reads as (`CodeInv`). `RunReplacesAsAsked`:
what is pending was judged against what the run read (`JudgeInv`, with
`RemovalsOverwrite`), wherever `compare` can read the two. `RunAppliedIsStored`:
everything seen is stored or pending, unless touched by others (`TableInv`).
`RunPaysOnce`, with no assumption: of two whole documents of an entry in a cache
file the first is one that tears took from readers (`CacheOnce`), and so is
whatever the file has and a run does not know (`OnceInv`). What there is to show
of a file is that appending to it a document, torn or not, gives back nothing
that was lost and loses nothing whole except as `LostToTears` says
(`AppendLost`, `AppendPaid`, `AppendKnows`).

`RunNeverStuck` and `RunEndsInTime`, for any batch size, entries, flags and
constants. A batch holds at most `Batch` entries, and one that is full while the
run is enumerating was filled by the last entry and is sent before anything else
(`BatchInv`): so a run at work always has a next step (`RunGoesOn`). `StepsLeft`
counts the entries still to come, each with its computation and the attempts to
send the batch it fills, and the last batch or replacement and the files. Every
step of the run lowers it, an edit of the files or of the table, or a crash,
never raises it, and it starts at no more than `(entries + 1) * (Attempts + 3)`
(`RunIsShort`). With weak fairness of `RunSteps` this is the argument for
`RunEnds`, which the run checks.

**`ProposalQueue`.**

* `QueueTypeCorrect`, `TicksAreTables` -- the second needs that no draft is
  emptied, that a worker about to tick has a filled draft, and that every copy
  of the body in anybody's hands has only honest ticks (`TickInv`): this is why
  overwriting one another's edits cannot make a false tick.
* `ProposalHasOneHolder` -- assuming `~Overrun`. `HolderInv` says that whoever
  is at work on a proposal has its row, unexpired (`HoldsItsRow`), and that a
  worker about to take a row over with `sure` still true faces an expired one
  (`SureIsExpired`): so the update cannot take a renewed claim, and the
  release that names nobody deletes only the releaser's row.
* `QueueImplementsOneBuilder` -- under `HolderInv` every step of the queue is,
  through the mapping `BuilderOf`, a step of `OneBuilder` or a stutter.

**Only model-checked.** Liveness (`EverySubmissionAnswered`, `DeadLeaseFalls`,
`RunEnds`, `LeftBehindComesBack`), which is beyond the proof system.
`RecursionAgrees`, which is about recursive operators: `MergeUnfolds` is what the
prover takes of it. Every other property of a passing run is a theorem, under
assumptions that run's constants satisfy.

**Only proved.** `RevisionsArePatches`, `LockIsHeld`, `RequestsAreShort`,
`RunGoesOn` and `RunIsShort` are properties of no run. `RunEnds` and
`EverySubmissionAnswered` check what follows of the last four with fairness, and
for one worker `LinearHistory` and `SaveIsThePatch` say more of a save than the
first. Each held in TLC on a small instance before it was proved: the first
three with two workers, crashes, the source editor, forms, PUT and submissions
at three revisions, the other two also with three entries and a batch of one.

## 5. Not modelled

Inside the modelled components: key order in the merge, the rigour header,
`reviewed_by`, file manifests; rejected documents (size, schema, unreadable
numbers) write nothing and are left out, because they are refusals before any
state is touched. `MaxTouched = 1` leaves multi-path edits to the proofs. Time
is only whether something is past: `GiveUp` may happen whenever somebody holds
the lock. `Catalogue` deletes no table: no view or endpoint does.

Of runs: `only=`, generators that produce everything at once, `preview` and
`verify`, and the lease, which is `Lease`'s; the server is a table that takes a
batch whole. Which values carry a bound and how many digits is data (`Unfit`,
`Short`).

Of the queue: one family only, so not the order of families, demands, growth
and sweeps, screening, or the closing of answered requests; titles match
exactly, where the code compares their words. The site always answers: when it
does not, `take` returns True and the campaign goes on without exclusion, and a
draft that cannot be read is ticked; the source accepts the first in so many
words (`agents/queue.py:739-743`). The build is an agent and is modelled from
its prompt.

Whole components, with the reason in PROJECT.json: the cost ledger (one command
on one machine), rate limits (a counter per process whose documentation already
states how it undercounts), validation, the evaluator, number representation
and the data pipeline (sequential and numeric: functions of one document),
discussion and notifications (append-only), accounts (third-party), maintenance
commands (run alone). The generators, more than half of the lines of the
repository, are mathematical programs and their data; what a run does with what
they compute is `GeneratorRun`.

## 6. What the plan has left

Attached files as further paths of a document. Today they could not clash:
whoever passes files passes the head as the base (`write_file`,
`restore_revision`), so the one call of `merge_manifests`, in the branch of
`commit_table` where the two differ, is made with nothing changed on my side.

The composition of `GeneratorRun` with `Lease` that an earlier plan had is not
needed: the Python client asks for no lease, and what a run meets of somebody
else's is the answer `_with_retry` takes for a busy table (`Busy`).
