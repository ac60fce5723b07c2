------------------------------ MODULE Catalogue ------------------------------
(***************************************************************************)
(* The rows beside a table's document: its number, its address, the table  *)
(* it repeats and the counters of its tags (numberdb_app/editing.py).      *)
(*                                                                         *)
(* A save runs in one transaction.  Here a transaction opens in one step,  *)
(* which reads everything it depends on, and commits in another, which     *)
(* meets the unique keys; what others commit in between it has not seen.   *)
(* A publication runs in none: the flag and the counters of each tag are   *)
(* statements of their own, and a worker may be killed between two.        *)
(***************************************************************************)
EXTENDS Integers, FiniteSets

CONSTANTS
  Workers,      \* the requests served at once
  Accounts,     \* who creates tables
  Board,        \* those of them who publish, and who hold any number of drafts
  Titles,       \* the titles a document may have
  Stem,         \* the address each title suggests
  Declarable,   \* the addresses a document may declare that it repeats
  NoUrl,        \* a document that repeats no table
  NoDocument,   \* a row that was never given a document
  Tags,         \* the tags
  NewDocuments, \* the documents a table is created with
  MaxTables,    \* bound: the tables created
  MaxSaves,     \* bound: the saves that open
  MaxEntries,   \* bound: the entries of a document
  Ceiling,      \* DRAFTS_IN_FLIGHT
  SavesAtOnce   \* TRUE: two saves of different tables may overlap

ASSUME CatalogueOK ==
  /\ Board \subseteq Accounts
  /\ MaxTables \in Nat \ {0}
  /\ MaxEntries \in Nat
  /\ MaxSaves \in Nat
  /\ Ceiling \in Nat \ {0}
  /\ SavesAtOnce \in BOOLEAN
  /\ IsFiniteSet(Workers)
  /\ Declarable \subseteq {Stem[t] : t \in Titles} \X (1..MaxTables)
  /\ NoUrl \notin {Stem[t] : t \in Titles} \X (1..MaxTables)

VARIABLES
  table,    \* the rows, by T-number
  counter,  \* what each tag says it reaches
  req,      \* what each worker is doing
  missed,   \* history: the tags a killed publication left uncounted
  saves     \* how many saves have opened, for the bound

vars == <<table, counter, req, missed, saves>>
------------------------------------------------------------------------------
Numbers == 1..MaxTables
None == 0
Urls == {Stem[t] : t \in Titles} \X Numbers

Documents == [title : Titles, repeats : Declarable \union {NoUrl},
              tags : SUBSET Tags, entries : 0..MaxEntries]

ASSUME DocumentsOK ==
  /\ NewDocuments \subseteq Documents
  /\ NoDocument \notin Documents

\* doc is the head revision; capped: a draft made under the allowance; the
\* rest is what the listings read.
Row == [title : Titles, url : Urls, published : BOOLEAN, creator : Accounts,
        capped : BOOLEAN, repeats : Numbers \union {None}, tags : SUBSET Tags,
        count : 0..MaxEntries, doc : Documents \union {NoDocument}]

Counters == [tables : Nat, numbers : Nat]
Zero == [tables |-> 0, numbers |-> 0]

\* A request that may create a table, a transaction with what it will write
\* (the row of a number, and the counters of the tags it recounts), and a
\* publication with the tags it has yet to count.
Admission == [step : {"admitted"}, creator : Accounts, capped : BOOLEAN,
              published : BOOLEAN]
Transaction == [step : {"creating", "saving"}, number : Numbers, row : Row,
                recounted : SUBSET Tags, counts : [Tags -> Counters]]
Publication == [step : {"recounting"}, left : SUBSET Tags]
Idle == [step |-> "idle"]

TypeOK ==
  /\ DOMAIN table \subseteq Numbers
  /\ table \in [DOMAIN table -> Row]
  /\ counter \in [Tags -> Counters]
  /\ req \in [Workers ->
               {Idle} \union Admission \union Transaction \union Publication]
  /\ missed \in SUBSET Tags
  /\ saves \in 0..MaxSaves

Init ==
  /\ table = [n \in {} |-> None]
  /\ counter = [g \in Tags |-> Zero]
  /\ req = [w \in Workers |-> Idle]
  /\ missed = {}
  /\ saves = 0

Tables == DOMAIN table
Put(n, row) == [m \in Tables \union {n} |-> IF m = n THEN row ELSE table[m]]
Leave(w) == req' = [req EXCEPT ![w] = Idle]
------------------------------------------------------------------------------
(* What a save derives from the document and from the other rows.          *)

\* slug_for: the title's own address, or the first number after it that is
\* free.
SlugFor(title, taken) ==
  <<Stem[title],
    CHOOSE k \in Numbers :
      /\ <<Stem[title], k>> \notin taken
      /\ \A j \in 1 .. k - 1 : <<Stem[title], j>> \in taken>>

OthersUrls(n) == {table[m].url : m \in Tables \ {n}}

\* Mutant: a rename moves a published table too.
ReaddressedAlways(n, row) ==
  IF row.title = row.doc.title THEN row.url
  ELSE SlugFor(row.doc.title, OthersUrls(n))

\* _sync_title: the address of a draft follows its title, and freezes at
\* publication.
Readdressed(n, row) ==
  IF row.title = row.doc.title \/ row.published THEN row.url
  ELSE SlugFor(row.doc.title, OthersUrls(n))

\* Mutant: a table that others repeat may still repeat another.
MayRepeatFirst(n, m) == m # n /\ table[m].repeats = None

\* Not itself, not a repetition, and not while others repeat this one.
MayRepeat(n, m) ==
  /\ m # n
  /\ table[m].repeats = None
  /\ \A k \in Tables : table[k].repeats # n

\* _sync_repeats: the table declared by its address, or none.
Original(n, declared) ==
  LET found == {m \in Tables : /\ declared # NoUrl
                               /\ table[m].url = declared
                               /\ MayRepeat(n, m)} IN
  IF found = {} THEN None ELSE CHOOSE m \in found : TRUE

\* The row as the document makes it: the title, the tags, the relation and
\* the number rows, in that order.
Derived(n, row) ==
  [row EXCEPT !.title = row.doc.title,
              !.url = Readdressed(n, row),
              !.tags = row.doc.tags,
              !.repeats = Original(n, row.doc.repeats),
              !.count = row.doc.entries]

\* public_tables: the tables under a tag that anybody may see.
PublicTables(tag, rows) ==
  {m \in DOMAIN rows : tag \in rows[m].tags /\ rows[m].published}

\* Their numbers: as many of each as its row counts.
PublicNumbers(tag, rows) ==
  {p \in PublicTables(tag, rows) \X (1..MaxEntries) : p[2] <= rows[p[1]].count}

\* recount_tags: both counters of a tag, over rows as they stand.
Recount(tag, rows) ==
  [tables |-> Cardinality(PublicTables(tag, rows)),
   numbers |-> Cardinality(PublicNumbers(tag, rows))]

\* The numbers a table had before the transaction that writes it.
Before(n) == IF n \in Tables THEN table[n].count ELSE 0

\* Mutant: the rebuild moves the counters of a draft's tags too.
RebuiltAlways(g, n, row) ==
  LET counts == Recount(g, Put(n, [row EXCEPT !.count = Before(n)])) IN
  IF g \in row.tags
  THEN [counts EXCEPT !.numbers = @ + row.count - Before(n)] ELSE counts

\* _sync_tags counts the tag while the row still has its old numbers; then
\* the rebuild of the number rows moves the counter of a public table's tags
\* by the difference it makes.
Rebuilt(g, n, row) ==
  LET counts == Recount(g, Put(n, [row EXCEPT !.count = Before(n)])) IN
  IF row.published /\ g \in row.tags
  THEN [counts EXCEPT !.numbers = @ + row.count - Before(n)] ELSE counts

\* A transaction that will write this row of table n has read what it needs.
Opened(step, n, row, tagsBefore) ==
  LET touched == tagsBefore \union row.tags IN
  [step |-> step, number |-> n, row |-> row, recounted |-> touched,
   counts |-> [g \in Tags |-> IF g \in touched THEN Rebuilt(g, n, row)
                              ELSE Zero]]

\* A new table with a bare title shares nothing with a save of another.
Plain(r) ==
  r.step = "creating" /\ r.row.doc.repeats = NoUrl /\ r.row.doc.tags = {}

\* Whether a transaction may open beside those that are open.
MayOpen(plain) ==
  \/ SavesAtOnce \/ plain
  \/ \A v \in Workers : req[v].step \in {"idle", "admitted"} \/ Plain(req[v])
------------------------------------------------------------------------------
(* Creating a table (create_table in api.py, new_table in views.py).       *)

Drafts(a) == {n \in Tables : table[n].creator = a /\ ~table[n].published}

\* Mutant: the comparison of the allowance is off by one.
AllowanceOver(a) == a \in Board \/ Cardinality(Drafts(a)) <= Ceiling

\* may_create_drafts_through_api: counted before the draft exists.
Allowance(a) == a \in Board \/ Cardinality(Drafts(a)) < Ceiling

\* A program creates drafts up to its allowance, and tables on the board; the
\* site lets anybody do both, one form at a time.
Admit(w, a, program, published) ==
  /\ req[w].step = "idle"
  /\ program /\ ~published => Allowance(a)
  /\ program /\ published => a \in Board
  /\ req' = [req EXCEPT ![w] =
               [step |-> "admitted", creator |-> a, published |-> published,
                capped |-> program /\ ~published /\ a \notin Board]]
  /\ UNCHANGED <<table, counter, missed, saves>>

\* One above the highest number in use; the rows are not locked, since an
\* aggregate drops FOR UPDATE.
NextNumber ==
  1 + CHOOSE h \in Tables \union {0} : \A m \in Tables : m <= h

TitleTaken(title) == \E n \in Tables : table[n].title = title

\* The title is free, and a published table has entries: the row and its
\* first revision are written in one transaction.
OpenCreation(w, doc) ==
  /\ req[w].step = "admitted"
  /\ LET n == NextNumber
         new == [title |-> doc.title, doc |-> doc,
                 url |-> SlugFor(doc.title, OthersUrls(n)),
                 published |-> req[w].published, creator |-> req[w].creator,
                 capped |-> req[w].capped, repeats |-> None, tags |-> {},
                 count |-> 0] IN
       /\ ~TitleTaken(doc.title)
       /\ new.published => doc.entries > 0
       /\ n \in Numbers
       /\ MayOpen(doc.repeats = NoUrl /\ doc.tags = {})
       /\ req' = [req EXCEPT ![w] = Opened("creating", n, Derived(n, new), {})]
  /\ UNCHANGED <<table, counter, missed, saves>>

\* The tags whose counters a publication has yet to write.
Left(w) == IF req[w].step = "recounting" THEN req[w].left ELSE {}

\* The tags that do not know of a publication.
Uncounted == missed \union UNION {Left(w) : w \in Workers}

\* The title is taken, a published table would be empty, the document is over
\* a limit or cannot be read, or the request is killed: no transaction has
\* written anything, and a publication has what it has written.
Fail(w) ==
  /\ req[w].step # "idle"
  /\ Leave(w)
  /\ missed' = missed \union Left(w)
  /\ UNCHANGED <<table, counter, saves>>

\* The unique keys: number, title and address.
Collides(n, row, creating) ==
  \/ creating /\ n \in Tables
  \/ \E m \in Tables \ {n} : table[m].title = row.title \/ table[m].url = row.url

\* Mutant: the numbers of a tag move by the difference a save makes.
CountedByDifference(w) ==
  LET n == req[w].number
      before == IF n \in Tables THEN table[n].count ELSE 0 IN
  [g \in Tags |->
     IF g \in req[w].recounted
     THEN [tables |-> req[w].counts[g].tables,
           numbers |-> counter[g].numbers + req[w].row.count - before]
     ELSE counter[g]]

\* The counters of the tags it touched, counted again; the others stay.
Counted(w) ==
  [g \in Tags |-> IF g \in req[w].recounted THEN req[w].counts[g]
                  ELSE counter[g]]

\* Mutant: the row is committed before its first revision is accepted.
CommitCreationHalf(w) ==
  /\ req[w].step = "creating"
  /\ LET n == req[w].number IN
       IF Collides(n, req[w].row, TRUE) THEN UNCHANGED <<table, counter, missed>>
       ELSE /\ \E doc \in {req[w].row.doc, NoDocument} :
                 table' = Put(n, [req[w].row EXCEPT !.doc = doc])
            /\ counter' = Counted(w)
            /\ missed' = missed \ req[w].recounted
  /\ Leave(w)
  /\ UNCHANGED saves

\* The second of two creations with one number, title or address fails as a
\* whole.
CommitCreation(w) ==
  /\ req[w].step = "creating"
  /\ LET n == req[w].number IN
       IF Collides(n, req[w].row, TRUE) THEN UNCHANGED <<table, counter, missed>>
       ELSE /\ table' = Put(n, req[w].row)
            /\ counter' = Counted(w)
            /\ missed' = missed \ req[w].recounted
  /\ Leave(w)
  /\ UNCHANGED saves
------------------------------------------------------------------------------
(* Saving and publishing.                                                  *)

\* A form changes one field of the document it loaded.
Edited(doc) ==
  ({[doc EXCEPT !.title = t] : t \in Titles}
     \union {[doc EXCEPT !.repeats = u] : u \in Declarable \union {NoUrl}}
     \union {[doc EXCEPT !.tags = gs] : gs \in SUBSET Tags}
     \union {[doc EXCEPT !.entries = k] : k \in 0..MaxEntries}) \ {doc}

\* Saves of one table one after another are TableCommit's subject: here a
\* table is saved by one request at a time.
OpenSave(w, n, doc) ==
  /\ req[w].step = "idle"
  /\ saves < MaxSaves
  /\ \A v \in Workers : req[v].step = "saving" => req[v].number # n
  /\ MayOpen(FALSE)
  /\ LET row == [table[n] EXCEPT !.doc = doc] IN
       req' = [req EXCEPT ![w] =
                 Opened("saving", n, Derived(n, row), table[n].tags)]
  /\ saves' = saves + 1
  /\ UNCHANGED <<table, counter, missed>>

\* Mutant: the row keeps the title it had.
WrittenUntitled(n, row) ==
  [table[n] EXCEPT !.url = row.url, !.repeats = row.repeats,
                   !.tags = row.tags, !.count = row.count, !.doc = row.doc]

\* The fields a save writes.
Written(n, row) ==
  [table[n] EXCEPT !.title = row.title, !.url = row.url,
                   !.repeats = row.repeats, !.tags = row.tags,
                   !.count = row.count, !.doc = row.doc]

\* A rename to a title that was taken meanwhile fails as a whole.
CommitSave(w) ==
  /\ req[w].step = "saving"
  /\ LET n == req[w].number IN
       IF Collides(n, req[w].row, FALSE) THEN UNCHANGED <<table, counter, missed>>
       ELSE /\ table' = Put(n, Written(n, req[w].row))
            /\ counter' = Counted(w)
            /\ missed' = missed \ req[w].recounted
  /\ Leave(w)
  /\ UNCHANGED saves

\* What a publication has before it when these tags are still to be counted.
Counting(tags) ==
  IF tags = {} THEN Idle ELSE [step |-> "recounting", left |-> tags]

\* publish_table: the flag is saved.
Publish(w, n) ==
  /\ req[w].step = "idle"
  /\ ~table[n].published
  /\ table[n].doc.entries > 0
  /\ MayOpen(FALSE)
  /\ table' = Put(n, [table[n] EXCEPT !.published = TRUE, !.capped = FALSE])
  /\ req' = [req EXCEPT ![w] = Counting(table[n].tags)]
  /\ UNCHANGED <<counter, missed, saves>>

\* recount_tags after it: one tag after another, in any order.
RecountTag(w, g) ==
  /\ g \in Left(w)
  /\ counter' = [counter EXCEPT ![g] = Recount(g, table)]
  /\ missed' = missed \ {g}
  /\ req' = [req EXCEPT ![w] = Counting(Left(w) \ {g})]
  /\ UNCHANGED <<table, saves>>

Next ==
  \/ \E w \in Workers, a \in Accounts, program, published \in BOOLEAN :
       Admit(w, a, program, published)
  \/ \E w \in Workers, doc \in NewDocuments : OpenCreation(w, doc)
  \/ \E w \in Workers : CommitCreation(w) \/ CommitSave(w) \/ Fail(w)
  \/ \E w \in Workers, n \in Tables :
       \E doc \in Edited(table[n].doc) : OpenSave(w, n, doc)
  \/ \E w \in Workers, n \in Tables : Publish(w, n)
  \/ \E w \in Workers, g \in Tags : RecountTag(w, g)

Spec == Init /\ [][Next]_vars
------------------------------------------------------------------------------
(* Properties.                                                             *)

\* Every T-number up to the highest is a table with a document, and its row
\* says what the document says: creations that collide, fail or race leave
\* neither a gap nor half a table, and no save, rename or publication lets
\* the listings and the page drift apart (create_table, apply_revision).
RowsFollowDocuments ==
  /\ Tables = 1 .. Cardinality(Tables)
  /\ \A n \in Tables :
       /\ table[n].doc # NoDocument
       /\ table[n].title = table[n].doc.title
       /\ table[n].tags = table[n].doc.tags
       /\ table[n].count = table[n].doc.entries

\* fold_repeats, over the tables that hold one value.
Kept(n, shown) == table[n].repeats \notin shown

\* Whatever tables hold a value, the answer folds none of them away: each is
\* shown, or named beside the one it repeats (fold_repeats in search.py, with
\* the relation _sync_repeats keeps one hop deep).
FoldLosesNothing ==
  \A shown \in SUBSET Tables : \A n \in shown :
    Kept(n, shown) \/ Kept(table[n].repeats, shown)

\* After every save, rename and publication a tag says how many tables and
\* numbers a reader can reach under it: counting by recount and by difference
\* come to the same, and what a publication killed before the tag's turn leaves
\* uncounted is put right by the next save or publication that touches the tag
\* (recount_tags, build_number_table, publish_table).
TagsCountThePublic ==
  \A g \in Tags \ Uncounted : counter[g] = Recount(g, table)

\* However many requests pass the allowance together, an account's program
\* holds at most one draft more than its ceiling for each other worker.
DraftsBounded ==
  \A a \in Accounts \ Board :
    Cardinality({n \in Drafts(a) : table[n].capped})
      <= Ceiling + Cardinality(Workers) - 1

\* The address of a published table never changes, whatever its title does,
\* and nor does the number of any (_sync_title, publish_table).
AddressesStay ==
  [][\A n \in Tables :
       /\ n \in DOMAIN table'
       /\ table[n].published => table'[n].url = table[n].url]_vars
==============================================================================
