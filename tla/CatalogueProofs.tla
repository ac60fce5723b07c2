--------------------------- MODULE CatalogueProofs ---------------------------
(***************************************************************************)
(* Theorems about Catalogue, for any titles, addresses, tags, workers and  *)
(* accounts, and any number of tables and saves.                           *)
(***************************************************************************)
EXTENDS Catalogue, FiniteSetTheorems, TLAPS

------------------------------------------------------------------------------
(* Rows and transactions.                                                  *)

\* A row has the fields of a row, whatever they hold.
IsRow(r) ==
  r \in [title : {r.title}, url : {r.url}, published : {r.published},
         creator : {r.creator}, capped : {r.capped}, repeats : {r.repeats},
         tags : {r.tags}, count : {r.count}, doc : {r.doc}]

\* The row says what its document says.
Follows(r) ==
  /\ r.doc \in Documents
  /\ r.title = r.doc.title
  /\ r.tags = r.doc.tags
  /\ r.count = r.doc.entries

Pending(w) == req[w].step \in {"creating", "saving"}
Creating(w) == req[w].step = "creating"
Saving(w) == req[w].step = "saving"

Steps == {"idle", "admitted", "creating", "saving", "recounting"}

\* The shape of the state: rows of numbers, and a row in every transaction.
Shape ==
  /\ Tables \subseteq Numbers
  /\ \A n \in Tables : IsRow(table[n]) /\ Follows(table[n])
  /\ req = [w \in Workers |-> req[w]]
  /\ \A w \in Workers :
       /\ req[w].step \in Steps
       /\ Pending(w) => /\ req[w].number \in Numbers
                        /\ IsRow(req[w].row)
                        /\ Follows(req[w].row)
       /\ Saving(w) => req[w].number \in Tables

\* What a save derives, field by field.
LEMMA DerivedRow ==
  ASSUME NEW n, NEW row, IsRow(row), row.doc \in Documents
  PROVE  /\ IsRow(Derived(n, row))
         /\ Follows(Derived(n, row))
         /\ Derived(n, row).url = Readdressed(n, row)
         /\ Derived(n, row).repeats = Original(n, row.doc.repeats)
         /\ Derived(n, row).published = row.published
         /\ Derived(n, row).creator = row.creator
         /\ Derived(n, row).capped = row.capped
         /\ Derived(n, row).doc = row.doc
  <1> DEFINE url == Readdressed(n, row)
             repeats == Original(n, row.doc.repeats)
  <1> HIDE DEF url, repeats
  <1>1. /\ IsRow(Derived(n, row))
        /\ Derived(n, row).title = row.doc.title
        /\ Derived(n, row).tags = row.doc.tags
        /\ Derived(n, row).count = row.doc.entries
        /\ Derived(n, row).url = url
        /\ Derived(n, row).repeats = repeats
        /\ Derived(n, row).published = row.published
        /\ Derived(n, row).creator = row.creator
        /\ Derived(n, row).capped = row.capped
        /\ Derived(n, row).doc = row.doc
    BY DEF Derived, IsRow, url, repeats
  <1> QED
    BY <1>1 DEF Follows, url, repeats

\* The row a save starts from.
LEMMA RowWithDocument ==
  ASSUME NEW r, IsRow(r), NEW doc
  PROVE  /\ IsRow([r EXCEPT !.doc = doc])
         /\ [r EXCEPT !.doc = doc].doc = doc
         /\ [r EXCEPT !.doc = doc].url = r.url
         /\ [r EXCEPT !.doc = doc].title = r.title
         /\ [r EXCEPT !.doc = doc].published = r.published
  BY DEF IsRow

\* The row a save writes: its own fields, and the standing of the table's.
LEMMA WrittenRow ==
  ASSUME NEW n, NEW row, IsRow(row), IsRow(table[n])
  PROVE  LET r == Written(n, row) IN
         /\ IsRow(r)
         /\ Follows(row) => Follows(r)
         /\ r.url = row.url
         /\ r.repeats = row.repeats
         /\ r.published = table[n].published
         /\ r.creator = table[n].creator
         /\ r.capped = table[n].capped
  <1>1. /\ IsRow(Written(n, row))
        /\ Written(n, row).title = row.title
        /\ Written(n, row).tags = row.tags
        /\ Written(n, row).count = row.count
        /\ Written(n, row).doc = row.doc
        /\ Written(n, row).url = row.url
        /\ Written(n, row).repeats = row.repeats
        /\ Written(n, row).published = table[n].published
        /\ Written(n, row).creator = table[n].creator
        /\ Written(n, row).capped = table[n].capped
    BY DEF Written, IsRow
  <1> QED
    BY <1>1 DEF Follows

\* The row of a table that became public.
LEMMA PublicRow ==
  ASSUME NEW r, IsRow(r)
  PROVE  LET p == [r EXCEPT !.published = TRUE, !.capped = FALSE] IN
         /\ IsRow(p)
         /\ Follows(r) => Follows(p)
         /\ p.url = r.url
         /\ p.repeats = r.repeats
         /\ p.published
         /\ ~p.capped
  <1> DEFINE p == [r EXCEPT !.published = TRUE, !.capped = FALSE]
  <1>1. /\ IsRow(p)
        /\ p.title = r.title
        /\ p.tags = r.tags
        /\ p.count = r.count
        /\ p.doc = r.doc
        /\ p.url = r.url
        /\ p.repeats = r.repeats
        /\ p.published
        /\ ~p.capped
    BY DEF IsRow
  <1> QED
    BY <1>1 DEF Follows

\* A row is put under its number, whatever it holds.
LEMMA PutRow ==
  ASSUME NEW n, NEW row
  PROVE  /\ DOMAIN Put(n, row) = Tables \union {n}
         /\ Put(n, row)[n] = row
         /\ \A m \in Tables \ {n} : Put(n, row)[m] = table[m]
  BY DEF Put

\* A number in use stays the only thing a write touches.
LEMMA PutInUse ==
  ASSUME NEW n \in Tables, NEW row
  PROVE  DOMAIN Put(n, row) = Tables
  BY DEF Put

\* A form leaves a document a document.
LEMMA EditedDocument ==
  ASSUME NEW old \in Documents, NEW doc \in Edited(old)
  PROVE  doc \in Documents
  BY DEF Edited, Documents
------------------------------------------------------------------------------
(* What each action does.                                                  *)

LEMMA AdmitDoes ==
  ASSUME Shape, NEW w \in Workers, NEW a \in Accounts,
         NEW program \in BOOLEAN, NEW published \in BOOLEAN,
         Admit(w, a, program, published)
  PROVE  /\ UNCHANGED table
         /\ req[w].step = "idle"
         /\ req' = [v \in Workers |-> IF v = w THEN req'[w] ELSE req[v]]
         /\ req'[w].step = "admitted"
         /\ req'[w].creator = a
         /\ req'[w].capped = (program /\ ~published /\ a \notin Board)
         /\ program /\ ~published => Allowance(a)
         /\ req'[w].published = published
  BY DEF Admit, Shape

\* The transaction of a creation as it opens.
NewRow(w, doc) ==
  [title |-> doc.title, doc |-> doc,
   url |-> SlugFor(doc.title, OthersUrls(NextNumber)),
   published |-> req[w].published, creator |-> req[w].creator,
   capped |-> req[w].capped, repeats |-> None, tags |-> {}, count |-> 0]

LEMMA OpenCreationDoes ==
  ASSUME Shape, NEW w \in Workers, NEW doc \in NewDocuments, OpenCreation(w, doc)
  PROVE  /\ UNCHANGED table
         /\ req[w].step = "admitted"
         /\ NextNumber \in Numbers
         /\ MayOpen(doc.repeats = NoUrl /\ doc.tags = {})
         /\ req' = [v \in Workers |-> IF v = w THEN req'[w] ELSE req[v]]
         /\ req'[w].step = "creating"
         /\ req'[w].number = NextNumber
         /\ req'[w].row = Derived(NextNumber, NewRow(w, doc))
  BY DEF OpenCreation, Opened, Shape, NewRow

LEMMA OpenSaveDoes ==
  ASSUME Shape, NEW w \in Workers, NEW n \in Tables,
         NEW doc \in Edited(table[n].doc), OpenSave(w, n, doc)
  PROVE  /\ UNCHANGED table
         /\ req[w].step = "idle"
         /\ MayOpen(FALSE)
         /\ req' = [v \in Workers |-> IF v = w THEN req'[w] ELSE req[v]]
         /\ req'[w].step = "saving"
         /\ req'[w].number = n
         /\ req'[w].row = Derived(n, [table[n] EXCEPT !.doc = doc])
  BY DEF OpenSave, Opened, Shape

\* A request that is over.
Ended(w) ==
  /\ req' = [v \in Workers |-> IF v = w THEN Idle ELSE req[v]]
  /\ req'[w].step = "idle"

LEMMA LeaveDoes ==
  ASSUME Shape, NEW w \in Workers, Leave(w)
  PROVE  Ended(w)
  BY DEF Leave, Ended, Shape, Idle

LEMMA FailDoes ==
  ASSUME Shape, NEW w \in Workers, Fail(w)
  PROVE  UNCHANGED table /\ Ended(w)
  BY LeaveDoes DEF Fail

LEMMA CommitCreationDoes ==
  ASSUME Shape, NEW w \in Workers, CommitCreation(w)
  PROVE  /\ Creating(w)
         /\ Ended(w)
         /\ \/ UNCHANGED table
            \/ /\ req[w].number \notin Tables
               /\ table' = Put(req[w].number, req[w].row)
  BY LeaveDoes DEF CommitCreation, Collides, Creating

LEMMA CommitSaveDoes ==
  ASSUME Shape, NEW w \in Workers, CommitSave(w)
  PROVE  /\ Saving(w)
         /\ Ended(w)
         /\ \/ UNCHANGED table
            \/ table' = Put(req[w].number, Written(req[w].number, req[w].row))
  BY LeaveDoes DEF CommitSave, Saving

LEMMA PublishDoes ==
  ASSUME Shape, NEW w \in Workers, NEW n \in Tables, Publish(w, n)
  PROVE  /\ ~table[n].published
         /\ MayOpen(FALSE)
         /\ table' = Put(n, [table[n] EXCEPT !.published = TRUE, !.capped = FALSE])
         /\ req[w].step = "idle"
         /\ req' = [v \in Workers |-> IF v = w THEN req'[w] ELSE req[v]]
         /\ req'[w].step \in {"idle", "recounting"}
         /\ Left(w)' = table[n].tags
  <1>1. req'[w] = Counting(table[n].tags)
    BY DEF Publish, Shape
  <1>2. req' = [v \in Workers |-> IF v = w THEN req'[w] ELSE req[v]]
    BY DEF Publish, Shape
  <1> QED
    BY <1>1, <1>2 DEF Publish, Counting, Left, Idle

LEMMA RecountTagDoes ==
  ASSUME Shape, NEW w \in Workers, NEW g \in Tags, RecountTag(w, g)
  PROVE  /\ UNCHANGED table
         /\ req' = [v \in Workers |-> IF v = w THEN req'[w] ELSE req[v]]
         /\ req'[w].step \in {"idle", "recounting"}
         /\ Left(w)' = Left(w) \ {g}
  <1>1. req'[w] = Counting(Left(w) \ {g})
    BY DEF RecountTag, Shape
  <1>2. req' = [v \in Workers |-> IF v = w THEN req'[w] ELSE req[v]]
    BY DEF RecountTag, Shape
  <1> QED
    BY <1>1, <1>2 DEF RecountTag, Counting, Left, Idle
------------------------------------------------------------------------------
(* The kinds of step, as the theorems need them.                           *)

Only(w) == req' = [v \in Workers |-> IF v = w THEN req'[w] ELSE req[v]]

\* A request is admitted, fails, loses to a unique key, or counts a tag: no row
\* is written.
Waits(w) ==
  /\ UNCHANGED table
  /\ Only(w)
  /\ req'[w].step \in {"idle", "admitted", "recounting"}
  /\ req'[w].step = "admitted" /\ req'[w].capped =>
       Cardinality(Drafts(req'[w].creator)) < Ceiling

OpensCreation(w, doc) ==
  /\ UNCHANGED table
  /\ req[w].step = "admitted"
  /\ NextNumber \in Numbers
  /\ MayOpen(doc.repeats = NoUrl /\ doc.tags = {})
  /\ Only(w)
  /\ req'[w].step = "creating"
  /\ req'[w].number = NextNumber
  /\ req'[w].row = Derived(NextNumber, NewRow(w, doc))

OpensSave(w, n, doc) ==
  /\ UNCHANGED table
  /\ req[w].step = "idle"
  /\ MayOpen(FALSE)
  /\ Only(w)
  /\ req'[w].step = "saving"
  /\ req'[w].number = n
  /\ req'[w].row = Derived(n, [table[n] EXCEPT !.doc = doc])

Creates(w) ==
  /\ Creating(w)
  /\ Only(w)
  /\ req'[w].step = "idle"
  /\ req[w].number \notin Tables
  /\ table' = Put(req[w].number, req[w].row)

Saves(w) ==
  /\ Saving(w)
  /\ Only(w)
  /\ req'[w].step = "idle"
  /\ table' = Put(req[w].number, Written(req[w].number, req[w].row))

Publishes(w, n) ==
  /\ ~table[n].published
  /\ MayOpen(FALSE)
  /\ table' = Put(n, [table[n] EXCEPT !.published = TRUE, !.capped = FALSE])
  /\ req[w].step = "idle"
  /\ Only(w)
  /\ req'[w].step \in {"idle", "recounting"}

LEMMA StepKinds ==
  ASSUME Shape, [Next]_vars
  PROVE  \/ UNCHANGED <<table, req>>
         \/ \E w \in Workers : Waits(w)
         \/ \E w \in Workers, doc \in NewDocuments : OpensCreation(w, doc)
         \/ \E w \in Workers, n \in Tables :
              \E doc \in Edited(table[n].doc) : OpensSave(w, n, doc)
         \/ \E w \in Workers : Creates(w) \/ Saves(w)
         \/ \E w \in Workers, n \in Tables : Publishes(w, n)
  <1>1. CASE UNCHANGED vars
    BY <1>1 DEF vars
  <1>2. ASSUME NEW w \in Workers, NEW a \in Accounts, NEW program \in BOOLEAN,
               NEW published \in BOOLEAN, Admit(w, a, program, published)
        PROVE  Waits(w)
    BY <1>2, AdmitDoes DEF Waits, Only, Allowance
  <1>3. ASSUME NEW w \in Workers, NEW doc \in NewDocuments, OpenCreation(w, doc)
        PROVE  OpensCreation(w, doc)
    BY <1>3, OpenCreationDoes DEF OpensCreation, Only
  <1>4. ASSUME NEW w \in Workers, CommitCreation(w)
        PROVE  Waits(w) \/ Creates(w)
    BY <1>4, CommitCreationDoes DEF Waits, Creates, Ended, Only
  <1>5. ASSUME NEW w \in Workers, CommitSave(w)
        PROVE  Waits(w) \/ Saves(w)
    BY <1>5, CommitSaveDoes DEF Waits, Saves, Ended, Only
  <1>6. ASSUME NEW w \in Workers, Fail(w)
        PROVE  Waits(w)
    BY <1>6, FailDoes DEF Waits, Ended, Only
  <1>7. ASSUME NEW w \in Workers, NEW n \in Tables,
               NEW doc \in Edited(table[n].doc), OpenSave(w, n, doc)
        PROVE  OpensSave(w, n, doc)
    BY <1>7, OpenSaveDoes DEF OpensSave, Only
  <1>8. ASSUME NEW w \in Workers, NEW n \in Tables, Publish(w, n)
        PROVE  Publishes(w, n)
    BY <1>8, PublishDoes DEF Publishes, Only
  <1>9. ASSUME NEW w \in Workers, NEW g \in Tags, RecountTag(w, g)
        PROVE  Waits(w)
    BY <1>9, RecountTagDoes DEF Waits, Only
  <1> QED
    BY <1>1, <1>2, <1>3, <1>4, <1>5, <1>6, <1>7, <1>8, <1>9 DEF Next

\* The row a creation opens with.
LEMMA CreatedRow ==
  ASSUME NEW w \in Workers, NEW doc \in NewDocuments, OpensCreation(w, doc)
  PROVE  /\ IsRow(req'[w].row)
         /\ Follows(req'[w].row)
         /\ req'[w].row.doc = doc
         /\ req'[w].row.repeats = Original(NextNumber, doc.repeats)
         /\ req'[w].row.creator = req[w].creator
         /\ req'[w].row.capped = req[w].capped
  <1> DEFINE new == NewRow(w, doc)
  <1>1. /\ IsRow(new)
        /\ new.doc = doc
        /\ new.creator = req[w].creator
        /\ new.capped = req[w].capped
    <2> HIDE DEF SlugFor, OthersUrls, NextNumber
    <2> QED
      BY DEF IsRow, NewRow
  <1>2. doc \in Documents
    BY DocumentsOK
  <1> HIDE DEF new
  <1>3. req'[w].row = Derived(NextNumber, new)
    BY DEF OpensCreation, new
  <1> QED
    BY <1>1, <1>2, <1>3, DerivedRow

\* The row a save opens with.
LEMMA SavedRow ==
  ASSUME Shape, NEW w \in Workers, NEW n \in Tables,
         NEW doc \in Edited(table[n].doc), OpensSave(w, n, doc)
  PROVE  /\ IsRow(req'[w].row)
         /\ Follows(req'[w].row)
         /\ req'[w].row.repeats = Original(n, doc.repeats)
         /\ table[n].published => req'[w].row.url = table[n].url
  <1> DEFINE row == [table[n] EXCEPT !.doc = doc]
  <1>1. IsRow(table[n]) /\ table[n].doc \in Documents
    BY DEF Shape, Follows
  <1>2. doc \in Documents
    BY <1>1, EditedDocument
  <1>3. /\ IsRow(row)
        /\ row.doc = doc
        /\ row.url = table[n].url
        /\ row.published = table[n].published
    BY <1>1, RowWithDocument
  <1> HIDE DEF row
  <1>4. req'[w].row = Derived(n, row)
    BY DEF OpensSave, row
  <1>5. row.published => Readdressed(n, row) = row.url
    BY DEF Readdressed
  <1> QED
    BY <1>2, <1>3, <1>4, <1>5, DerivedRow

\* The rows keep their shape, and every number in use stays in use.
LEMMA ShapeInit ==
  ASSUME Init
  PROVE  Shape
  BY DEF Init, Shape, Idle, Steps, Pending, Saving, Tables

LEMMA ShapeStep ==
  ASSUME Shape, [Next]_vars
  PROVE  Shape' /\ Tables \subseteq Tables'
  <1>1. CASE UNCHANGED <<table, req>>
    BY <1>1 DEF Shape, Pending, Saving, Tables
  <1>2. ASSUME NEW w \in Workers, Waits(w)
        PROVE  Shape' /\ Tables \subseteq Tables'
    BY <1>2 DEF Shape, Pending, Saving, Tables, Waits, Only, Steps
  <1>3. ASSUME NEW w \in Workers, NEW doc \in NewDocuments, OpensCreation(w, doc)
        PROVE  Shape' /\ Tables \subseteq Tables'
    <2>1. IsRow(req'[w].row) /\ Follows(req'[w].row)
      BY <1>3, CreatedRow
    <2>2. req'[w].number \in Numbers /\ req'[w].step = "creating"
      BY <1>3 DEF OpensCreation
    <2>3. Only(w) /\ UNCHANGED table
      BY <1>3 DEF OpensCreation
    <2> QED
      BY <2>1, <2>2, <2>3 DEF Shape, Pending, Saving, Tables, Only, Steps
  <1>4. ASSUME NEW w \in Workers, NEW n \in Tables,
               NEW doc \in Edited(table[n].doc), OpensSave(w, n, doc)
        PROVE  Shape' /\ Tables \subseteq Tables'
    <2>1. IsRow(req'[w].row) /\ Follows(req'[w].row)
      BY <1>4, SavedRow
    <2>2. req'[w].number = n /\ req'[w].step = "saving"
      BY <1>4 DEF OpensSave
    <2>3. Only(w) /\ UNCHANGED table
      BY <1>4 DEF OpensSave
    <2> QED
      BY <2>1, <2>2, <2>3 DEF Shape, Pending, Saving, Tables, Only, Steps
  <1>5. ASSUME NEW n \in Numbers, NEW row, IsRow(row), Follows(row),
               table' = Put(n, row),
               \E w \in Workers :
                 Only(w) /\ req'[w].step \in {"idle", "recounting"}
        PROVE  Shape' /\ Tables \subseteq Tables'
    <2>1. /\ Tables' = Tables \union {n}
          /\ \A m \in Tables' : IsRow(table'[m]) /\ Follows(table'[m])
      <3>1. /\ DOMAIN Put(n, row) = Tables \union {n}
            /\ Put(n, row)[n] = row
            /\ \A m \in Tables \ {n} : Put(n, row)[m] = table[m]
        BY PutRow
      <3>2. /\ Tables' = Tables \union {n}
            /\ table'[n] = row
            /\ \A m \in Tables \ {n} : table'[m] = table[m]
        BY <1>5, <3>1 DEF Tables
      <3> QED
        BY <1>5, <3>2 DEF Shape
    <2>2. /\ req' = [v \in Workers |-> req'[v]]
          /\ \A v \in Workers :
               \/ req'[v] = req[v]
               \/ req'[v].step \in {"idle", "recounting"}
      BY <1>5 DEF Only, Shape
    <2> QED
      BY <2>1, <2>2 DEF Shape, Pending, Saving, Steps
  <1>6. ASSUME NEW w \in Workers, Creates(w)
        PROVE  Shape' /\ Tables \subseteq Tables'
    BY <1>5, <1>6 DEF Creates, Creating, Shape, Pending
  <1>7. ASSUME NEW w \in Workers, Saves(w)
        PROVE  Shape' /\ Tables \subseteq Tables'
    <2> DEFINE n == req[w].number
               row == Written(n, req[w].row)
    <2>1. /\ n \in Tables
          /\ IsRow(table[n])
          /\ IsRow(req[w].row)
          /\ Follows(req[w].row)
      BY <1>7 DEF Saves, Saving, Shape, Pending
    <2>2. IsRow(row) /\ Follows(row)
      BY <2>1, WrittenRow
    <2> HIDE DEF row
    <2>3. table' = Put(n, row) /\ Only(w) /\ req'[w].step = "idle"
      BY <1>7 DEF Saves, row
    <2>4. n \in Numbers
      BY <2>1 DEF Shape
    <2> QED
      BY <1>5, <2>2, <2>3, <2>4
  <1>8. ASSUME NEW w \in Workers, NEW n \in Tables, Publishes(w, n)
        PROVE  Shape' /\ Tables \subseteq Tables'
    <2> DEFINE row == [table[n] EXCEPT !.published = TRUE, !.capped = FALSE]
    <2>1. IsRow(row) /\ Follows(row)
      BY PublicRow DEF Shape
    <2> HIDE DEF row
    <2>2. /\ table' = Put(n, row) /\ n \in Numbers
          /\ Only(w) /\ req'[w].step \in {"idle", "recounting"}
      BY <1>8 DEF Publishes, row, Shape
    <2> QED
      BY <1>5, <2>1, <2>2
  <1> QED
    BY <1>1, <1>2, <1>3, <1>4, <1>6, <1>7, <1>8, StepKinds
------------------------------------------------------------------------------
(* The numbers have no gap.                                                *)

\* A transaction that creates a table has a number in use, or the next one.
Numbered ==
  \E h \in Nat :
    /\ Tables = 1..h
    /\ \A w \in Workers : Creating(w) => req[w].number \in 1 .. h + 1

LEMMA NextIs ==
  ASSUME NEW h \in Nat, Tables = 1..h
  PROVE  NextNumber = h + 1
  <1>1. h \in Tables \union {0} /\ \A m \in Tables : m <= h
    OBVIOUS
  <1>2. \A x \in Tables \union {0} :
          (\A m \in Tables : m <= x) => x = h
    OBVIOUS
  <1>3. (CHOOSE x \in Tables \union {0} : \A m \in Tables : m <= x) = h
    BY <1>1, <1>2
  <1>4. NextNumber = 1 + h
    BY <1>3, Zenon DEF NextNumber
  <1> QED
    BY <1>4

LEMMA NumberedStep ==
  ASSUME Shape, Numbered, [Next]_vars
  PROVE  Numbered'
  <1> PICK h \in Nat :
        /\ Tables = 1..h
        /\ \A w \in Workers : Creating(w) => req[w].number \in 1 .. h + 1
    BY DEF Numbered
  <1>1. CASE UNCHANGED <<table, req>>
    BY <1>1 DEF Numbered, Tables, Creating
  <1>2. ASSUME NEW w \in Workers, Waits(w)
        PROVE  Numbered'
    BY <1>2 DEF Numbered, Tables, Creating, Waits, Only
  <1>3. ASSUME NEW w \in Workers, NEW doc \in NewDocuments, OpensCreation(w, doc)
        PROVE  Numbered'
    <2>1. Tables' = 1..h /\ Only(w) /\ req'[w].number = h + 1
      BY <1>3, NextIs DEF OpensCreation, Tables
    <2> QED
      BY <2>1 DEF Numbered, Creating, Only
  <1>4. ASSUME NEW w \in Workers, NEW n \in Tables,
               NEW doc \in Edited(table[n].doc), OpensSave(w, n, doc)
        PROVE  Numbered'
    BY <1>4 DEF Numbered, Tables, Creating, OpensSave, Only
  <1>5. ASSUME NEW w \in Workers, Creates(w)
        PROVE  Numbered'
    <2>1. req[w].number = h + 1
      BY <1>5 DEF Creates
    <2>2. Tables' = Tables \union {h + 1}
      BY <1>5, <2>1, PutRow DEF Creates, Tables
    <2>3. Tables' = 1 .. h + 1
      BY <2>2
    <2>4. \A v \in Workers : Creating(v)' => req'[v].number \in 1 .. h + 1
      BY <1>5 DEF Creates, Only, Creating
    <2> QED
      BY <2>3, <2>4 DEF Numbered
  <1>6. ASSUME NEW w \in Workers, Saves(w)
        PROVE  Numbered'
    <2>1. req[w].number \in Tables
      BY <1>6 DEF Saves, Shape
    <2>2. Tables' = Tables
      <3>1. Tables' = DOMAIN Put(req[w].number, Written(req[w].number, req[w].row))
        BY <1>6 DEF Saves, Tables
      <3> QED
        BY <2>1, <3>1, PutInUse
    <2> QED
      BY <1>6, <2>2 DEF Numbered, Saves, Only, Creating
  <1>7. ASSUME NEW w \in Workers, NEW n \in Tables, Publishes(w, n)
        PROVE  Numbered'
    <2>1. Tables' = Tables
      <3> DEFINE row == [table[n] EXCEPT !.published = TRUE, !.capped = FALSE]
      <3>1. Tables' = DOMAIN Put(n, row)
        BY <1>7 DEF Publishes, Tables
      <3> HIDE DEF row
      <3> QED
        BY <3>1, PutInUse
    <2> QED
      BY <1>7, <2>1 DEF Numbered, Publishes, Only, Creating
  <1> QED
    BY <1>1, <1>2, <1>3, <1>4, <1>5, <1>6, <1>7, StepKinds

LEMMA NumberedInit ==
  ASSUME Init
  PROVE  Numbered
  <1>1. Tables = 1..0 /\ \A w \in Workers : ~Creating(w)
    BY DEF Init, Tables, Creating, Idle
  <1> QED
    BY <1>1 DEF Numbered

\* Whatever creations, saves and publications overlap, the tables are numbered
\* without a gap, and every row has the title, the tags and the count of the
\* document it stands for (create_table, apply_revision, publish_table).
THEOREM RowsFollow == Spec => []RowsFollowDocuments
  <1>1. Init => Shape /\ Numbered
    BY ShapeInit, NumberedInit
  <1>2. Shape /\ Numbered /\ [Next]_vars => (Shape /\ Numbered)'
    BY ShapeStep, NumberedStep
  <1>3. Shape /\ Numbered => RowsFollowDocuments
    <2> SUFFICES ASSUME Shape, Numbered
                 PROVE  RowsFollowDocuments
      OBVIOUS
    <2>1. PICK h \in Nat : Tables = 1..h
      BY DEF Numbered
    <2>2. Cardinality(Tables) = h
      BY <2>1, FS_Interval
    <2>3. \A n \in Tables : table[n].doc # NoDocument
      BY DocumentsOK DEF Shape, Follows
    <2> QED
      BY <2>1, <2>2, <2>3 DEF Shape, Follows, RowsFollowDocuments
  <1> QED
    BY <1>1, <1>2, <1>3, PTL DEF Spec
------------------------------------------------------------------------------
(* Saves one at a time: what the site runs with.                           *)

\* Of two open transactions, one creates a table with a bare title.
Exclusive ==
  \A v, w \in Workers :
    v # w /\ Pending(v) /\ Pending(w) => Plain(req[v]) \/ Plain(req[w])

\* When a transaction that shares something opens, or a table is published,
\* every open one is plain.
LEMMA OpensAlone ==
  ASSUME ~SavesAtOnce, MayOpen(FALSE), NEW v \in Workers, Pending(v)
  PROVE  Plain(req[v])
  BY DEF MayOpen, Pending

LEMMA ExclusiveStep ==
  ASSUME Shape, ~SavesAtOnce, Exclusive, [Next]_vars
  PROVE  Exclusive'
  <1>1. CASE UNCHANGED <<table, req>>
    BY <1>1 DEF Exclusive, Pending, Plain
  <1>2. ASSUME NEW w \in Workers, Only(w), ~Pending(w)'
        PROVE  Exclusive'
    BY <1>2 DEF Exclusive, Pending, Plain, Only
  <1>3. ASSUME NEW w \in Workers, NEW doc \in NewDocuments, OpensCreation(w, doc)
        PROVE  Exclusive'
    <2>1. CASE doc.repeats = NoUrl /\ doc.tags = {}
      <3>1. Plain(req'[w])
        BY <1>3, <2>1, CreatedRow DEF OpensCreation, Plain
      <3>2. \A v \in Workers \ {w} : req'[v] = req[v]
        BY <1>3 DEF OpensCreation, Only
      <3> QED
        BY <3>1, <3>2 DEF Exclusive, Pending
    <2>2. CASE ~(doc.repeats = NoUrl /\ doc.tags = {})
      <3>1. MayOpen(FALSE)
        BY <1>3, <2>2 DEF OpensCreation, MayOpen
      <3>2. \A v \in Workers \ {w} : req'[v] = req[v]
        BY <1>3 DEF OpensCreation, Only
      <3>3. \A v \in Workers \ {w} : Pending(v)' => Plain(req'[v])
        BY <3>1, <3>2, OpensAlone DEF Pending
      <3> QED
        BY <3>3 DEF Exclusive
    <2> QED
      BY <2>1, <2>2
  <1>4. ASSUME NEW w \in Workers, NEW n \in Tables,
               NEW doc \in Edited(table[n].doc), OpensSave(w, n, doc)
        PROVE  Exclusive'
    <2>1. MayOpen(FALSE)
      BY <1>4 DEF OpensSave
    <2>2. \A v \in Workers \ {w} : req'[v] = req[v]
      BY <1>4 DEF OpensSave, Only
    <2>3. \A v \in Workers \ {w} : Pending(v)' => Plain(req'[v])
      BY <2>1, <2>2, OpensAlone DEF Pending
    <2> QED
      BY <2>3 DEF Exclusive
  <1>5. ASSUME NEW w \in Workers, Waits(w) \/ Creates(w) \/ Saves(w)
        PROVE  Exclusive'
    BY <1>2, <1>5 DEF Waits, Creates, Saves, Pending
  <1>6. ASSUME NEW w \in Workers, NEW n \in Tables, Publishes(w, n)
        PROVE  Exclusive'
    BY <1>2, <1>6 DEF Publishes, Pending
  <1> QED
    BY <1>1, <1>3, <1>4, <1>5, <1>6, StepKinds

LEMMA ExclusiveInit ==
  ASSUME Init
  PROVE  Exclusive
  BY DEF Init, Exclusive, Pending, Idle

\* A save of a published table carries its address.
Addressed ==
  \A w \in Workers :
    Saving(w) /\ table[req[w].number].published
      => req[w].row.url = table[req[w].number].url

\* While a table is written by one save, no other save is open.
LEMMA OneSaves ==
  ASSUME Exclusive, NEW v \in Workers, NEW w \in Workers, Saving(v), Saving(w)
  PROVE  v = w
  BY DEF Exclusive, Saving, Pending, Plain

\* What a step does to the rows there are.
LEMMA RowsAfter ==
  ASSUME Shape, ~SavesAtOnce, Exclusive, Addressed, [Next]_vars,
         NEW n \in Tables
  PROVE  /\ n \in Tables'
         /\ table[n].published => table'[n].url = table[n].url
         /\ \/ table'[n] = table[n]
            \/ \E w \in Workers : Saves(w) /\ req[w].number = n
            \/ MayOpen(FALSE)
  <1>1. n \in Tables'
    BY ShapeStep
  <1>2. CASE UNCHANGED table
    BY <1>1, <1>2
  <1>3. ASSUME NEW w \in Workers, Creates(w)
        PROVE  table'[n] = table[n]
    <2>1. req[w].number # n
      BY <1>3 DEF Creates
    <2>2. Put(req[w].number, req[w].row)[n] = table[n]
      BY <2>1 DEF Put
    <2> QED
      BY <1>3, <2>2 DEF Creates
  <1>4. ASSUME NEW w \in Workers, Saves(w)
        PROVE  /\ table[n].published => table'[n].url = table[n].url
               /\ table'[n] = table[n] \/ req[w].number = n
    <2> DEFINE k == req[w].number
               row == Written(k, req[w].row)
    <2>1. /\ Saving(w)
          /\ k \in Tables
          /\ IsRow(table[k])
          /\ IsRow(req[w].row)
      BY <1>4 DEF Saves, Saving, Shape, Pending
    <2>2. row.url = req[w].row.url
      BY <2>1, WrittenRow
    <2>3. table[k].published => row.url = table[k].url
      BY <2>1, <2>2 DEF Addressed
    <2> HIDE DEF row
    <2>4. table' = Put(k, row)
      BY <1>4 DEF Saves, row
    <2>5. Put(k, row)[k] = row /\ (n # k => Put(k, row)[n] = table[n])
      BY DEF Put
    <2>6. table'[k] = row /\ (n # k => table'[n] = table[n])
      BY <2>4, <2>5
    <2> QED
      BY <2>3, <2>6
  <1>5. ASSUME NEW w \in Workers, NEW k \in Tables, Publishes(w, k)
        PROVE  /\ table[n].published => table'[n].url = table[n].url
               /\ MayOpen(FALSE)
    <2> DEFINE row == [table[k] EXCEPT !.published = TRUE, !.capped = FALSE]
    <2>1. ~table[k].published /\ MayOpen(FALSE)
      BY <1>5 DEF Publishes
    <2>2. table' = Put(k, row)
      BY <1>5 DEF Publishes
    <2> HIDE DEF row
    <2>3. n # k => Put(k, row)[n] = table[n]
      BY PutRow
    <2> QED
      BY <2>1, <2>2, <2>3
  <1> QED
    BY <1>1, <1>2, <1>3, <1>4, <1>5, StepKinds
       DEF Waits, OpensCreation, OpensSave

LEMMA AddressedStep ==
  ASSUME Shape, ~SavesAtOnce, Exclusive, Addressed, [Next]_vars
  PROVE  Addressed'
  <1> SUFFICES ASSUME NEW v \in Workers, Saving(v)',
                      table'[req'[v].number].published
               PROVE  req'[v].row.url = table'[req'[v].number].url
    BY DEF Addressed
  <1>1. CASE UNCHANGED <<table, req>>
    BY <1>1 DEF Addressed, Saving
  <1>2. ASSUME req'[v] = req[v]
        PROVE  req'[v].row.url = table'[req'[v].number].url
    <2> DEFINE n == req[v].number
    <2>1. Saving(v) /\ n \in Tables
      BY <1>2 DEF Saving, Shape
    <2>2. ~MayOpen(FALSE)
      BY <2>1, OpensAlone DEF Pending, Saving, Plain
    <2>3. ASSUME NEW w \in Workers, Saves(w)
          PROVE  FALSE
      BY <1>2, <2>1, <2>3, OneSaves DEF Saves, Saving
    <2>4. table'[n] = table[n]
      BY <2>1, <2>2, <2>3, RowsAfter
    <2> QED
      BY <1>2, <2>1, <2>4 DEF Addressed
  <1>3. ASSUME NEW w \in Workers, Waits(w) \/ Creates(w) \/ Saves(w)
        PROVE  req'[v] = req[v]
    BY <1>3 DEF Waits, Creates, Saves, Only, Saving
  <1>4. ASSUME NEW w \in Workers, NEW doc \in NewDocuments, OpensCreation(w, doc)
        PROVE  req'[v] = req[v]
    BY <1>4 DEF OpensCreation, Only, Saving
  <1>5. ASSUME NEW w \in Workers, NEW n \in Tables,
               NEW doc \in Edited(table[n].doc), OpensSave(w, n, doc)
        PROVE  req'[v].row.url = table'[req'[v].number].url
    <2>1. table[n].published => req'[w].row.url = table[n].url
      BY <1>5, SavedRow
    <2>2. v = w \/ req'[v] = req[v]
      BY <1>5 DEF OpensSave, Only
    <2>3. UNCHANGED table /\ req'[w].number = n
      BY <1>5 DEF OpensSave
    <2> QED
      BY <1>2, <2>1, <2>2, <2>3
  <1>6. ASSUME NEW w \in Workers, NEW n \in Tables, Publishes(w, n)
        PROVE  req'[v] = req[v]
    BY <1>6 DEF Publishes, Only, Saving
  <1> QED
    BY <1>1, <1>2, <1>3, <1>4, <1>5, <1>6, StepKinds

LEMMA AddressedInit ==
  ASSUME Init
  PROVE  Addressed
  BY DEF Init, Addressed, Saving, Idle

\* While saves run one at a time, no table is ever lost and the address of a
\* published one never changes, whatever its title does (_sync_title,
\* publish_table).
THEOREM PublishedAddressStays == ASSUME ~SavesAtOnce PROVE Spec => AddressesStay
  <1>1. Init => Shape /\ Exclusive /\ Addressed
    BY ShapeInit, ExclusiveInit, AddressedInit
  <1>2. Shape /\ Exclusive /\ Addressed /\ [Next]_vars
          => (Shape /\ Exclusive /\ Addressed)'
    BY ShapeStep, ExclusiveStep, AddressedStep
  <1>3. Shape /\ Exclusive /\ Addressed /\ [Next]_vars =>
          [\A n \in Tables :
             /\ n \in DOMAIN table'
             /\ table[n].published => table'[n].url = table[n].url]_vars
    BY RowsAfter DEF Tables
  <1> QED
    BY <1>1, <1>2, <1>3, PTL DEF Spec, AddressesStay
------------------------------------------------------------------------------
(* The relation stays one hop deep.                                        *)

OneHop ==
  \A n \in Tables :
    table[n].repeats # None =>
      /\ table[n].repeats \in Tables
      /\ table[table[n].repeats].repeats = None

\* A transaction that will write the relation may still write it.
Related ==
  \A w \in Workers :
    Pending(w) /\ req[w].row.repeats # None =>
      /\ ~Plain(req[w])
      /\ req[w].row.repeats \in Tables
      /\ MayRepeat(req[w].number, req[w].row.repeats)

LEMMA OriginalIs ==
  ASSUME NEW n, NEW declared, Original(n, declared) # None
  PROVE  /\ declared # NoUrl
         /\ Original(n, declared) \in Tables
         /\ MayRepeat(n, Original(n, declared))
  <1> DEFINE found == {m \in Tables : /\ declared # NoUrl
                                      /\ table[m].url = declared
                                      /\ MayRepeat(n, m)}
  <1>1. found # {} /\ Original(n, declared) = CHOOSE m \in found : TRUE
    BY DEF Original
  <1>2. Original(n, declared) \in found
    BY <1>1
  <1> QED
    BY <1>2

\* A row written with a relation it may have leaves the others one hop deep.
LEMMA WriteKeepsHop ==
  ASSUME OneHop, NEW n, NEW row, table' = Put(n, row),
         row.repeats # None =>
           row.repeats \in Tables /\ MayRepeat(n, row.repeats)
  PROVE  OneHop'
  <1>1. /\ Tables' = Tables \union {n}
        /\ table'[n] = row
        /\ \A m \in Tables : m # n => table'[m] = table[m]
    BY DEF Put, Tables
  <1>2. CASE row.repeats = None
    BY <1>1, <1>2 DEF OneHop
  <1>3. CASE row.repeats # None
    <2>1. /\ row.repeats \in Tables
          /\ row.repeats # n
          /\ table[row.repeats].repeats = None
          /\ \A k \in Tables : table[k].repeats # n
      BY <1>3 DEF MayRepeat
    <2> QED
      BY <1>1, <2>1 DEF OneHop
  <1> QED
    BY <1>2, <1>3

LEMMA OneHopStep ==
  ASSUME Shape, OneHop, Related, [Next]_vars
  PROVE  OneHop'
  <1>1. CASE UNCHANGED table
    BY <1>1 DEF OneHop, Tables
  <1>2. ASSUME NEW w \in Workers, Creates(w)
        PROVE  OneHop'
    <2>1. req[w].row.repeats # None =>
            /\ req[w].row.repeats \in Tables
            /\ MayRepeat(req[w].number, req[w].row.repeats)
      BY <1>2 DEF Creates, Creating, Related, Pending
    <2>2. table' = Put(req[w].number, req[w].row)
      BY <1>2 DEF Creates
    <2> QED
      BY <2>1, <2>2, WriteKeepsHop
  <1>3. ASSUME NEW w \in Workers, Saves(w)
        PROVE  OneHop'
    <2> DEFINE n == req[w].number
               row == Written(n, req[w].row)
    <2>1. /\ Saving(w)
          /\ IsRow(table[n])
          /\ IsRow(req[w].row)
      BY <1>3 DEF Saves, Saving, Shape, Pending
    <2>2. row.repeats = req[w].row.repeats
      BY <2>1, WrittenRow
    <2>3. row.repeats # None => row.repeats \in Tables /\ MayRepeat(n, row.repeats)
      BY <2>1, <2>2 DEF Related, Pending, Saving
    <2> HIDE DEF row
    <2>4. table' = Put(n, row)
      BY <1>3 DEF Saves, row
    <2> QED
      BY <2>3, <2>4, WriteKeepsHop
  <1>4. ASSUME NEW w \in Workers, NEW n \in Tables, Publishes(w, n)
        PROVE  OneHop'
    <2> DEFINE row == [table[n] EXCEPT !.published = TRUE, !.capped = FALSE]
    <2>1. row.repeats = table[n].repeats
      BY PublicRow DEF Shape
    <2>2. table' = Put(n, row)
      BY <1>4 DEF Publishes
    <2> HIDE DEF row
    <2>3. n # None
      BY DEF Shape, Numbers, None
    <2>4. row.repeats # None => row.repeats \in Tables /\ MayRepeat(n, row.repeats)
      BY <2>1, <2>3 DEF OneHop, MayRepeat
    <2> QED
      BY <2>2, <2>4, WriteKeepsHop
  <1> QED
    BY <1>1, <1>2, <1>3, <1>4, StepKinds DEF Waits, OpensCreation, OpensSave

LEMMA RelatedStep ==
  ASSUME Shape, ~SavesAtOnce, Exclusive, Related, [Next]_vars
  PROVE  Related'
  <1> DEFINE Good(v) ==
        Pending(v) /\ req[v].row.repeats # None =>
          /\ ~Plain(req[v])
          /\ req[v].row.repeats \in Tables
          /\ MayRepeat(req[v].number, req[v].row.repeats)
  <1> SUFFICES ASSUME NEW v \in Workers
               PROVE  Good(v)'
    BY DEF Related
  <1>1. ASSUME UNCHANGED table, req'[v] = req[v]
        PROVE  Good(v)'
    BY <1>1 DEF Related, Pending, Plain, MayRepeat, Tables
  <1>2. ASSUME ~Pending(v)'
        PROVE  Good(v)'
    BY <1>2
  <1>3. ASSUME NEW w \in Workers, Waits(w)
        PROVE  Good(v)'
    <2>1. req'[v] = req[v] \/ ~Pending(v)'
      BY <1>3 DEF Waits, Only, Pending
    <2> QED
      BY <1>1, <1>2, <1>3, <2>1 DEF Waits
  <1>4. ASSUME NEW w \in Workers, NEW doc \in NewDocuments, OpensCreation(w, doc)
        PROVE  Good(v)'
    <2>1. v = w \/ req'[v] = req[v]
      BY <1>4 DEF OpensCreation, Only
    <2>2. CASE v = w
      <3>1. /\ req'[v].row.doc = doc
            /\ req'[v].row.repeats = Original(NextNumber, doc.repeats)
            /\ req'[v].number = NextNumber
            /\ UNCHANGED table
        BY <1>4, <2>2, CreatedRow DEF OpensCreation
      <3>2. req'[v].row.repeats # None =>
              /\ doc.repeats # NoUrl
              /\ req'[v].row.repeats \in Tables
              /\ MayRepeat(NextNumber, req'[v].row.repeats)
        BY <3>1, OriginalIs
      <3> QED
        BY <3>1, <3>2 DEF Plain, MayRepeat, Tables
    <2> QED
      BY <1>1, <1>4, <2>1, <2>2 DEF OpensCreation
  <1>5. ASSUME NEW w \in Workers, NEW n \in Tables,
               NEW doc \in Edited(table[n].doc), OpensSave(w, n, doc)
        PROVE  Good(v)'
    <2>1. v = w \/ req'[v] = req[v]
      BY <1>5 DEF OpensSave, Only
    <2>2. CASE v = w
      <3>1. /\ req'[v].step = "saving"
            /\ req'[v].row.repeats = Original(n, doc.repeats)
            /\ req'[v].number = n
            /\ UNCHANGED table
        BY <1>5, <2>2, SavedRow DEF OpensSave
      <3>2. req'[v].row.repeats # None =>
              /\ req'[v].row.repeats \in Tables
              /\ MayRepeat(n, req'[v].row.repeats)
        BY <3>1, OriginalIs
      <3> QED
        BY <3>1, <3>2 DEF Plain, MayRepeat, Tables
    <2> QED
      BY <1>1, <1>5, <2>1, <2>2 DEF OpensSave
  <1>6. ASSUME req'[v] = req[v], Pending(v), ~Plain(req[v]), Good(v),
               NEW n, NEW row, n \notin Tables, table' = Put(n, row),
               row.repeats = None
        PROVE  Good(v)'
    <2>1. /\ Tables' = Tables \union {n}
          /\ table'[n] = row
          /\ \A m \in Tables : m # n => table'[m] = table[m]
      BY <1>6 DEF Put, Tables
    <2>2. req[v].number # None
      BY <1>6 DEF Shape, Numbers, None
    <2> HIDE DEF None
    <2> QED
      BY <1>6, <2>1, <2>2 DEF MayRepeat, Plain
  <1>7. ASSUME NEW w \in Workers, Creates(w)
        PROVE  Good(v)'
    <2>1. req'[v] = req[v] \/ ~Pending(v)'
      BY <1>7 DEF Creates, Only, Pending
    <2>2. CASE req'[v] = req[v] /\ Pending(v) /\ req[v].row.repeats # None
      <3>1. Good(v) /\ ~Plain(req[v])
        BY <2>2 DEF Related
      <3>2. v # w
        BY <1>7, <2>2 DEF Creates, Pending
      <3>3. Pending(w) /\ Plain(req[w])
        BY <1>7, <2>2, <3>1, <3>2 DEF Exclusive, Creates, Creating, Pending
      <3>4. req[w].row.repeats = None
        BY <3>3 DEF Related
      <3> QED
        BY <1>6, <1>7, <2>2, <3>1, <3>4 DEF Creates
    <2> QED
      BY <1>2, <2>1, <2>2 DEF Pending
  <1>8. ASSUME NEW w \in Workers, Saves(w)
        PROVE  Good(v)'
    <2>1. req'[v] = req[v] \/ ~Pending(v)'
      BY <1>8 DEF Saves, Only, Pending
    <2>2. CASE req'[v] = req[v] /\ Pending(v) /\ req[v].row.repeats # None
      <3>1. ~Plain(req[v])
        BY <2>2 DEF Related
      <3>2. v # w
        BY <1>8, <2>2 DEF Saves, Pending
      <3>3. Pending(w) /\ ~Plain(req[w])
        BY <1>8 DEF Saves, Saving, Pending, Plain
      <3> QED
        BY <2>2, <3>1, <3>2, <3>3 DEF Exclusive
    <2> QED
      BY <1>2, <2>1, <2>2 DEF Pending
  <1>9. ASSUME NEW w \in Workers, NEW n \in Tables, Publishes(w, n)
        PROVE  Good(v)'
    <2>1. Pending(v) => Plain(req[v])
      BY <1>9, OpensAlone DEF Publishes
    <2>2. Pending(v)' => v # w /\ req'[v] = req[v]
      BY <1>9 DEF Publishes, Only, Pending
    <2> QED
      BY <1>9, <2>1, <2>2 DEF Publishes, Related, Pending
  <1> QED
    BY <1>1, <1>3, <1>4, <1>5, <1>7, <1>8, <1>9, StepKinds

LEMMA RelationInit ==
  ASSUME Init
  PROVE  OneHop /\ Related
  BY DEF Init, OneHop, Related, Tables, Pending, Idle

\* While saves run one at a time, the relation of repeats stays one hop deep,
\* so that folding the answer by it loses no table (_sync_repeats, and
\* fold_repeats in search.py).
THEOREM FoldKeepsAll == ASSUME ~SavesAtOnce PROVE Spec => []FoldLosesNothing
  <1> DEFINE Inv == Shape /\ Exclusive /\ OneHop /\ Related
  <1>1. Init => Inv
    BY ShapeInit, ExclusiveInit, RelationInit
  <1>2. Inv /\ [Next]_vars => Inv'
    BY ShapeStep, ExclusiveStep, OneHopStep, RelatedStep
  <1>3. Inv => FoldLosesNothing
    <2> SUFFICES ASSUME Inv, NEW shown \in SUBSET Tables, NEW n \in shown
                 PROVE  Kept(n, shown) \/ Kept(table[n].repeats, shown)
      BY DEF FoldLosesNothing
    <2>1. None \notin shown
      BY DEF Shape, Numbers, None
    <2>2. table[n].repeats # None => table[table[n].repeats].repeats = None
      BY DEF OneHop
    <2> QED
      BY <2>1, <2>2 DEF Kept
  <1> QED
    BY <1>1, <1>2, <1>3, PTL DEF Spec
------------------------------------------------------------------------------
(* The allowance of drafts.                                                *)

CappedDrafts(a) == {n \in Drafts(a) : table[n].capped}

\* The requests that may still create one of an account's capped drafts.
Asks(w, a) ==
  \/ /\ req[w].step = "admitted"
     /\ req[w].creator = a
     /\ req[w].capped
  \/ /\ Creating(w)
     /\ req[w].row.creator = a
     /\ req[w].row.capped

Asking(a) == {w \in Workers : Asks(w, a)}

\* What an account holds and asks for, together.
Bounded ==
  \A a \in Accounts \ Board :
    Cardinality(CappedDrafts(a)) + Cardinality(Asking(a))
      <= Ceiling + Cardinality(Workers) - 1

LEMMA Counts ==
  ASSUME Shape, NEW a
  PROVE  /\ IsFiniteSet(Drafts(a)) /\ Cardinality(Drafts(a)) \in Nat
         /\ IsFiniteSet(CappedDrafts(a)) /\ Cardinality(CappedDrafts(a)) \in Nat
         /\ Cardinality(CappedDrafts(a)) <= Cardinality(Drafts(a))
         /\ IsFiniteSet(Asking(a)) /\ Cardinality(Asking(a)) \in Nat
         /\ Cardinality(Asking(a)) <= Cardinality(Workers)
         /\ Cardinality(Workers) \in Nat
  <1>1. IsFiniteSet(Numbers)
    BY CatalogueOK, FS_Interval DEF Numbers
  <1>2. Drafts(a) \subseteq Numbers /\ CappedDrafts(a) \subseteq Drafts(a)
    BY DEF Shape, Drafts, CappedDrafts
  <1>3. IsFiniteSet(Drafts(a))
    BY <1>1, <1>2, FS_Subset
  <1>4. /\ IsFiniteSet(CappedDrafts(a))
        /\ Cardinality(CappedDrafts(a)) <= Cardinality(Drafts(a))
    BY <1>2, <1>3, FS_Subset
  <1>5. IsFiniteSet(Workers) /\ Asking(a) \subseteq Workers
    BY CatalogueOK DEF Asking
  <1>6. IsFiniteSet(Asking(a)) /\ Cardinality(Asking(a)) <= Cardinality(Workers)
    BY <1>5, FS_Subset
  <1> QED
    BY <1>3, <1>4, <1>5, <1>6, FS_CardinalityType

LEMMA BoundedStep ==
  ASSUME Shape, Bounded, [Next]_vars
  PROVE  Bounded'
  <1> SUFFICES ASSUME NEW a \in Accounts \ Board
               PROVE  Cardinality(CappedDrafts(a)') + Cardinality(Asking(a)')
                        <= Ceiling + Cardinality(Workers) - 1
    BY DEF Bounded
  <1> DEFINE D == CappedDrafts(a)
             R == Asking(a)
             Fits == Cardinality(D') + Cardinality(R')
                       <= Ceiling + Cardinality(Workers) - 1
  <1>1. Shape'
    BY ShapeStep
  <1>2. /\ IsFiniteSet(D) /\ Cardinality(D) \in Nat
        /\ IsFiniteSet(R) /\ Cardinality(R) \in Nat
        /\ Cardinality(Workers) \in Nat
    BY Counts
  <1>3. /\ Cardinality(D') \in Nat
        /\ Cardinality(R') \in Nat
        /\ Cardinality(R') <= Cardinality(Workers)
    <2>1. D' \subseteq Numbers /\ R' \subseteq Workers
      BY <1>1 DEF Shape, CappedDrafts, Drafts, Asking
    <2>2. IsFiniteSet(Numbers) /\ IsFiniteSet(Workers)
      BY CatalogueOK, FS_Interval DEF Numbers
    <2> HIDE DEF D, R
    <2> QED
      BY <2>1, <2>2, FS_Subset, FS_CardinalityType
  <1>4. Cardinality(D) + Cardinality(R) <= Ceiling + Cardinality(Workers) - 1
    BY DEF Bounded
  <1>5. Ceiling \in Nat
    BY CatalogueOK
  <1>6. ASSUME D' \subseteq D, R' \subseteq R
        PROVE  Fits
    <2>1. Cardinality(D') <= Cardinality(D) /\ Cardinality(R') <= Cardinality(R)
      BY <1>2, <1>6, FS_Subset
    <2> HIDE DEF D, R
    <2> QED
      BY <1>2, <1>3, <1>4, <1>5, <2>1
  <1>7. ASSUME NEW n, NEW w \in R, D' \subseteq D \union {n}, R' \subseteq R \ {w}
        PROVE  Fits
    <2>1. /\ IsFiniteSet(D \union {n})
          /\ Cardinality(D \union {n}) <= Cardinality(D) + 1
      <3> HIDE DEF D
      <3>1. /\ IsFiniteSet(D \union {n})
            /\ Cardinality(D \union {n}) =
                 IF n \in D THEN Cardinality(D) ELSE Cardinality(D) + 1
        BY <1>2, FS_AddElement
      <3> QED
        BY <1>2, <3>1
    <2>2. Cardinality(D') <= Cardinality(D \union {n})
      BY <1>7, <2>1, FS_Subset
    <2>3. /\ IsFiniteSet(R \ {w})
          /\ Cardinality(R \ {w}) = Cardinality(R) - 1
      BY <1>2, <1>7, FS_RemoveElement
    <2>4. Cardinality(R') <= Cardinality(R \ {w})
      BY <1>7, <2>3, FS_Subset
    <2>5. Cardinality(D \union {n}) \in Nat
      BY <2>1, FS_CardinalityType
    <2> HIDE DEF D, R
    <2> QED
      BY <1>2, <1>3, <1>4, <1>5, <2>1, <2>2, <2>3, <2>4, <2>5
  <1>8. CASE UNCHANGED <<table, req>>
    BY <1>6, <1>8 DEF CappedDrafts, Drafts, Tables, Asking, Asks, Creating
  <1>9. ASSUME NEW w \in Workers, Waits(w)
        PROVE  Fits
    <2>1. D' = D /\ Drafts(a)' = Drafts(a)
      BY <1>9 DEF Waits, CappedDrafts, Drafts, Tables
    <2>2. R' \subseteq R \/ (Asks(w, a)' /\ req'[w].step = "admitted")
      BY <1>9 DEF Waits, Only, Asking, Asks, Creating
    <2>3. CASE Asks(w, a)' /\ req'[w].step = "admitted"
      <3>1. Cardinality(Drafts(a)) < Ceiling
        BY <1>9, <2>3 DEF Waits, Asks, Creating
      <3>2. Cardinality(D) <= Cardinality(Drafts(a)) /\ Cardinality(Drafts(a)) \in Nat
        BY Counts
      <3> HIDE DEF D, R
      <3> QED
        BY <1>2, <1>3, <1>5, <2>1, <3>1, <3>2
    <2> QED
      BY <1>6, <2>1, <2>2, <2>3
  <1>10. ASSUME NEW w \in Workers, NEW doc \in NewDocuments, OpensCreation(w, doc)
         PROVE  Fits
    <2>1. D' = D
      BY <1>10 DEF OpensCreation, CappedDrafts, Drafts, Tables
    <2>2. /\ req[w].step = "admitted"
          /\ req'[w].step = "creating"
          /\ req'[w].row.creator = req[w].creator
          /\ req'[w].row.capped = req[w].capped
          /\ Only(w)
      BY <1>10, CreatedRow DEF OpensCreation
    <2>3. R' \subseteq R
      BY <2>2 DEF Asking, Asks, Creating, Only
    <2> QED
      BY <1>6, <2>1, <2>3
  <1>11. ASSUME NEW w \in Workers, NEW n \in Tables,
                NEW doc \in Edited(table[n].doc), OpensSave(w, n, doc)
         PROVE  Fits
    <2>1. D' = D
      BY <1>11 DEF OpensSave, CappedDrafts, Drafts, Tables
    <2>2. R' \subseteq R
      BY <1>11 DEF OpensSave, Asking, Asks, Creating, Only
    <2> QED
      BY <1>6, <2>1, <2>2
  <1>12. ASSUME NEW w \in Workers, Creates(w)
         PROVE  Fits
    <2> DEFINE n == req[w].number
               row == req[w].row
    <2>1. /\ Tables' = Tables \union {n}
          /\ table'[n] = row
          /\ \A m \in Tables : m # n => table'[m] = table[m]
      BY <1>12 DEF Creates, Put, Tables
    <2>2. R' \subseteq R \ {w}
      BY <1>12 DEF Creates, Only, Asking, Asks, Creating
    <2>3. CASE w \in R
      <3>1. D' \subseteq D \union {n}
        BY <2>1 DEF CappedDrafts, Drafts
      <3> QED
        BY <1>7, <2>2, <2>3, <3>1
    <2>4. CASE w \notin R
      <3>1. ~(row.creator = a /\ row.capped)
        BY <1>12, <2>4 DEF Creates, Asking, Asks
      <3>2. D' \subseteq D
        BY <2>1, <3>1 DEF CappedDrafts, Drafts
      <3> QED
        BY <1>6, <2>2, <3>2
    <2> QED
      BY <2>3, <2>4
  <1>13. ASSUME NEW n \in Tables, NEW row, table' = Put(n, row),
                row.capped /\ ~row.published =>
                  /\ table[n].capped
                  /\ ~table[n].published
                  /\ row.creator = table[n].creator
         PROVE  D' \subseteq D
    <2>1. /\ Tables' = Tables
          /\ table'[n] = row
          /\ \A m \in Tables : m # n => table'[m] = table[m]
      BY <1>13 DEF Put, Tables
    <2> QED
      BY <1>13, <2>1 DEF CappedDrafts, Drafts
  <1>14. ASSUME NEW w \in Workers, Saves(w)
         PROVE  Fits
    <2> DEFINE n == req[w].number
               row == Written(n, req[w].row)
    <2>1. /\ n \in Tables
          /\ IsRow(table[n])
          /\ IsRow(req[w].row)
      BY <1>14 DEF Saves, Saving, Shape, Pending
    <2>2. /\ row.published = table[n].published
          /\ row.creator = table[n].creator
          /\ row.capped = table[n].capped
      BY <2>1, WrittenRow
    <2>3. table' = Put(n, row)
      BY <1>14 DEF Saves
    <2> HIDE DEF row
    <2>4. D' \subseteq D
      BY <1>13, <2>1, <2>2, <2>3
    <2>5. R' \subseteq R
      BY <1>14 DEF Saves, Only, Asking, Asks, Creating
    <2> QED
      BY <1>6, <2>4, <2>5
  <1>15. ASSUME NEW w \in Workers, NEW n \in Tables, Publishes(w, n)
         PROVE  Fits
    <2> DEFINE row == [table[n] EXCEPT !.published = TRUE, !.capped = FALSE]
    <2>1. ~row.capped
      BY PublicRow DEF Shape
    <2>2. table' = Put(n, row)
      BY <1>15 DEF Publishes
    <2> HIDE DEF row
    <2>3. D' \subseteq D
      BY <1>13, <2>1, <2>2
    <2>4. R' \subseteq R
      BY <1>15 DEF Publishes, Only, Asking, Asks, Creating
    <2> QED
      BY <1>6, <2>3, <2>4
  <1> QED
    BY <1>8, <1>9, <1>10, <1>11, <1>12, <1>14, <1>15, StepKinds

LEMMA BoundedInit ==
  ASSUME Init
  PROVE  Bounded
  <1> SUFFICES ASSUME NEW a \in Accounts \ Board
               PROVE  Cardinality(CappedDrafts(a)) + Cardinality(Asking(a))
                        <= Ceiling + Cardinality(Workers) - 1
    BY DEF Bounded
  <1>1. CappedDrafts(a) = {} /\ Asking(a) = {}
    BY DEF Init, CappedDrafts, Drafts, Tables, Asking, Asks, Creating, Idle
  <1>2. Cardinality({}) = 0
    BY FS_EmptySet
  <1>3. Cardinality(Workers) \in Nat /\ Ceiling \in Nat \ {0}
    BY CatalogueOK, FS_CardinalityType
  <1> QED
    BY <1>1, <1>2, <1>3

\* However many requests pass the allowance before any of them has created its
\* draft, an account's programs hold at most one draft more than the ceiling
\* for each other worker (may_create_drafts_through_api).
THEOREM DraftsStayBounded == Spec => []DraftsBounded
  <1>1. Init => Shape /\ Bounded
    BY ShapeInit, BoundedInit
  <1>2. Shape /\ Bounded /\ [Next]_vars => (Shape /\ Bounded)'
    BY ShapeStep, BoundedStep
  <1>3. Shape /\ Bounded => DraftsBounded
    <2> SUFFICES ASSUME Shape, Bounded, NEW a \in Accounts \ Board
                 PROVE  Cardinality(CappedDrafts(a))
                          <= Ceiling + Cardinality(Workers) - 1
      BY DEF DraftsBounded, CappedDrafts
    <2>1. /\ Cardinality(CappedDrafts(a)) \in Nat
          /\ Cardinality(Asking(a)) \in Nat
          /\ Cardinality(Workers) \in Nat
      BY Counts
    <2>2. Cardinality(CappedDrafts(a)) + Cardinality(Asking(a))
            <= Ceiling + Cardinality(Workers) - 1
      BY DEF Bounded
    <2> QED
      BY <2>1, <2>2, CatalogueOK
  <1> QED
    BY <1>1, <1>2, <1>3, PTL DEF Spec
------------------------------------------------------------------------------
(* What the rows, the requests and the counters hold.                      *)

\* A set of positions has a smallest one.
LEMMA SmallestNumber ==
  ASSUME NEW S, S \subseteq Nat, S # {}
  PROVE  \E k \in S : \A j \in S : k <= j
  <1>1. PICK k \in S : \A j \in S : ~ (<<j, k>> \in OpToRel(<, Nat))
    BY NatLessThanWellFounded, WFMin
  <1>2. \A j \in S : ~ (j < k)
    BY <1>1 DEF OpToRel
  <1> QED
    BY <1>2

\* The other tables leave one of the addresses of a title free, and slug_for
\* finds the first.
LEMMA SlugIsFree ==
  ASSUME NEW n \in Numbers, Tables \subseteq Numbers, NEW title \in Titles
  PROVE  SlugFor(title, OthersUrls(n)) \in Urls
  <1> DEFINE taken == OthersUrls(n)
             free == {k \in Numbers : <<Stem[title], k>> \notin taken}
             at(k) == CHOOSE m \in Tables \ {n} : table[m].url = <<Stem[title], k>>
             f == [k \in Numbers |-> at(k)]
  <1>1. IsFiniteSet(Numbers) /\ Cardinality(Numbers) \in Nat
    <2>1. IsFiniteSet(Numbers)
      BY CatalogueOK, FS_Interval DEF Numbers
    <2> QED
      BY <2>1, FS_CardinalityType
  <1>2. free # {}
    <2> SUFFICES ASSUME free = {} PROVE FALSE
      OBVIOUS
    <2>1. \A k \in Numbers : /\ f[k] \in Tables \ {n}
                             /\ table[f[k]].url = <<Stem[title], k>>
      BY DEF OthersUrls
    <2>2. f \in [Numbers -> Numbers \ {n}]
      BY <2>1
    <2>3. /\ IsFiniteSet(Numbers \ {n})
          /\ Cardinality(Numbers \ {n}) = Cardinality(Numbers) - 1
      BY <1>1, FS_RemoveElement
    <2>4. Cardinality(Numbers \ {n}) < Cardinality(Numbers)
      BY <1>1, <2>3
    <2> HIDE DEF f
    <2>5. \E x, y \in Numbers : x # y /\ f[x] = f[y]
      BY <1>1, <2>2, <2>3, <2>4, FS_PigeonHole
    <2> QED
      BY <2>1, <2>5
  <1>3. PICK k \in free : \A j \in free : k <= j
    <2>1. free \subseteq Nat
      BY CatalogueOK DEF Numbers
    <2> HIDE DEF free
    <2> QED
      BY <1>2, <2>1, SmallestNumber
  <1>4. /\ k \in Numbers
        /\ <<Stem[title], k>> \notin taken
        /\ \A j \in 1 .. k - 1 : <<Stem[title], j>> \in taken
    BY <1>3, CatalogueOK DEF Numbers
  <1> QED
    BY <1>4 DEF SlugFor, Urls

\* The counters of a tag are numbers.
LEMMA RecountType ==
  ASSUME NEW tag, NEW rows, DOMAIN rows \subseteq Numbers
  PROVE  Recount(tag, rows) \in Counters
  <1>1. IsFiniteSet(Numbers) /\ IsFiniteSet(1..MaxEntries)
    BY CatalogueOK, FS_Interval DEF Numbers
  <1>2. IsFiniteSet(Numbers \X (1..MaxEntries))
    BY <1>1, FS_Product
  <1>3. /\ PublicTables(tag, rows) \subseteq Numbers
        /\ PublicNumbers(tag, rows) \subseteq Numbers \X (1..MaxEntries)
    BY DEF PublicTables, PublicNumbers
  <1>4. /\ Cardinality(PublicTables(tag, rows)) \in Nat
        /\ Cardinality(PublicNumbers(tag, rows)) \in Nat
    BY <1>1, <1>2, <1>3, FS_Subset, FS_CardinalityType
  <1> QED
    BY <1>4 DEF Recount, Counters

\* Rows that make the same tables public under a tag, with as many numbers
\* each, are counted alike.
LEMMA RecountSame ==
  ASSUME NEW g, NEW before, NEW after,
         PublicTables(g, before) = PublicTables(g, after),
         \A m \in PublicTables(g, before) : before[m].count = after[m].count
  PROVE  Recount(g, before) = Recount(g, after)
  <1>1. PublicNumbers(g, before) = PublicNumbers(g, after)
    BY DEF PublicNumbers
  <1> QED
    BY <1>1 DEF Recount

\* A public table adds its numbers to those of the others under its tags.
LEMMA NumbersOfOne ==
  ASSUME NEW g, NEW rows, DOMAIN rows \subseteq Numbers,
         NEW n \in PublicTables(g, rows), rows[n].count \in 0..MaxEntries
  PROVE  LET others == {p \in PublicNumbers(g, rows) : p[1] # n} IN
         /\ Cardinality(others) \in Nat
         /\ Cardinality(PublicNumbers(g, rows)) =
              Cardinality(others) + rows[n].count
  <1> DEFINE all == PublicNumbers(g, rows)
             others == {p \in all : p[1] # n}
             k == rows[n].count
             own == {n} \X (1..k)
  <1>1. MaxEntries \in Nat /\ k \in Nat /\ k <= MaxEntries
    BY CatalogueOK
  <1>2. IsFiniteSet(all)
    <2>1. IsFiniteSet(Numbers) /\ IsFiniteSet(1..MaxEntries)
      BY CatalogueOK, FS_Interval DEF Numbers
    <2>2. IsFiniteSet(Numbers \X (1..MaxEntries))
      BY <2>1, FS_Product
    <2>3. all \subseteq Numbers \X (1..MaxEntries)
      BY DEF PublicTables, PublicNumbers
    <2> QED
      BY <2>2, <2>3, FS_Subset
  <1>3. all = others \union own /\ others \intersect own = {}
    <2>1. \A p \in all : p[1] = n => p \in own
      BY <1>1 DEF PublicNumbers
    <2>2. own \subseteq all
      BY <1>1 DEF PublicNumbers
    <2>3. \A p \in own : p[1] = n
      OBVIOUS
    <2> QED
      BY <2>1, <2>2, <2>3
  <1>4. IsFiniteSet(own) /\ Cardinality(own) = k
    <2>1. IsFiniteSet({n}) /\ Cardinality({n}) = 1
      BY FS_Singleton
    <2>2. IsFiniteSet(1..k) /\ Cardinality(1..k) = k
      <3> HIDE DEF k
      <3>1. 1 \in Int /\ k \in Int
        BY <1>1
      <3>2. /\ IsFiniteSet(1..k)
            /\ Cardinality(1..k) = IF 1 > k THEN 0 ELSE k - 1 + 1
        BY <3>1, FS_Interval, Zenon
      <3> QED
        BY <1>1, <3>2
    <2>3. IsFiniteSet(own) /\ Cardinality(own) = Cardinality({n}) * Cardinality(1..k)
      BY <2>1, <2>2, FS_Product
    <2> QED
      BY <1>1, <2>1, <2>2, <2>3
  <1>5. IsFiniteSet(others) /\ Cardinality(others) \in Nat
    BY <1>2, FS_Subset, FS_CardinalityType
  <1> HIDE DEF all, others, own, k
  <1>6. Cardinality(all) =
          Cardinality(others) + Cardinality(own) - Cardinality({})
    BY <1>3, <1>4, <1>5, FS_Union
  <1>7. Cardinality(all) = Cardinality(others) + k
    BY <1>1, <1>4, <1>5, <1>6, FS_EmptySet
  <1> QED
    BY <1>5, <1>7 DEF all, others, k

\* Recounting before the rebuild and moving the number by its difference
\* comes to recounting after it.
LEMMA RebuiltIsRecount ==
  ASSUME NEW g, NEW n \in Numbers, Tables \subseteq Numbers,
         NEW row, IsRow(row), row.count \in 0..MaxEntries,
         n \in Tables => table[n].count \in 0..MaxEntries
  PROVE  Rebuilt(g, n, row) = Recount(g, Put(n, row))
  <1> DEFINE b == Before(n)
             old == Put(n, [row EXCEPT !.count = b])
             new == Put(n, row)
  <1>1. MaxEntries \in Nat /\ b \in 0..MaxEntries
    BY CatalogueOK DEF Before
  <1>2. /\ DOMAIN old = Tables \union {n} /\ DOMAIN new = Tables \union {n}
        /\ new[n] = row
        /\ old[n].count = b /\ old[n].tags = row.tags
        /\ old[n].published = row.published
        /\ \A m \in Tables \ {n} : old[m] = table[m] /\ new[m] = table[m]
    BY DEF Put, IsRow
  <1>3. Rebuilt(g, n, row) =
          IF row.published /\ g \in row.tags
          THEN [Recount(g, old) EXCEPT !.numbers = @ + row.count - b]
          ELSE Recount(g, old)
    BY DEF Rebuilt
  <1> HIDE DEF b, old, new
  <1>4. PublicTables(g, old) = PublicTables(g, new)
    BY <1>2 DEF PublicTables
  <1>5. CASE ~(row.published /\ g \in row.tags)
    <2>1. \A m \in PublicTables(g, old) : old[m].count = new[m].count
      BY <1>2, <1>5 DEF PublicTables
    <2>2. Recount(g, old) = Recount(g, new)
      BY <1>4, <2>1, RecountSame
    <2> QED
      BY <1>3, <1>5, <2>2 DEF new
  <1>6. CASE row.published /\ g \in row.tags
    <2> DEFINE others == {p \in PublicNumbers(g, old) : p[1] # n}
               still == {p \in PublicNumbers(g, new) : p[1] # n}
    <2>1. n \in PublicTables(g, old) /\ n \in PublicTables(g, new)
      BY <1>2, <1>6 DEF PublicTables
    <2>2. /\ Cardinality(others) \in Nat
          /\ Cardinality(PublicNumbers(g, old)) = Cardinality(others) + b
      BY <1>1, <1>2, <2>1, NumbersOfOne
    <2>3. Cardinality(PublicNumbers(g, new)) = Cardinality(still) + row.count
      BY <1>2, <2>1, NumbersOfOne
    <2>4. others = still
      <3>1. \A m \in PublicTables(g, old) : m # n => old[m].count = new[m].count
        BY <1>2 DEF PublicTables
      <3> QED
        BY <1>4, <3>1 DEF PublicNumbers
    <2> HIDE DEF others, still
    <2>5. Cardinality(PublicNumbers(g, new)) =
            Cardinality(PublicNumbers(g, old)) + row.count - b
      BY <1>1, <2>2, <2>3, <2>4
    <2> QED
      BY <1>3, <1>4, <1>6, <2>5 DEF Recount, new
  <1> QED
    BY <1>5, <1>6

LEMMA CreatedType ==
  ASSUME TypeOK, NEW w \in Workers, NEW doc \in NewDocuments,
         req[w].step = "admitted", NextNumber \in Numbers
  PROVE  NewRow(w, doc) \in Row
  <1>1. doc \in Documents
    BY DocumentsOK
  <1>2. req[w] \in Admission
    BY DEF TypeOK, Transaction, Publication, Idle
  <1>3. SlugFor(doc.title, OthersUrls(NextNumber)) \in Urls
    BY <1>1, SlugIsFree DEF TypeOK, Tables, Documents
  <1> QED
    BY <1>1, <1>2, <1>3, CatalogueOK DEF NewRow, Row, Admission, Documents, None

LEMMA DerivedType ==
  ASSUME TypeOK, NEW n \in Numbers, NEW row \in Row, row.doc \in Documents
  PROVE  Derived(n, row) \in Row
  <1>1. Readdressed(n, row) \in Urls
    BY SlugIsFree DEF Readdressed, TypeOK, Tables, Row, Documents
  <1>2. Original(n, row.doc.repeats) \in Numbers \union {None}
    BY DEF Original, TypeOK, Tables
  <1> QED
    BY <1>1, <1>2 DEF Derived, Row, Documents

LEMMA OpenedType ==
  ASSUME TypeOK, NEW step \in {"creating", "saving"}, NEW n \in Numbers,
         NEW row \in Row, NEW before \in SUBSET Tags
  PROVE  Opened(step, n, row, before) \in Transaction
  <1> DEFINE counts == [g \in Tags |-> IF g \in before \union row.tags
                                       THEN Rebuilt(g, n, row) ELSE Zero]
  <1>1. DOMAIN Put(n, row) \subseteq Numbers
    BY DEF Put, TypeOK, Tables
  <1>2. \A g : Rebuilt(g, n, row) = Recount(g, Put(n, row))
    <2>1. IsRow(row) /\ row.count \in 0..MaxEntries
      BY DEF Row, IsRow
    <2>2. Tables \subseteq Numbers
      BY DEF TypeOK, Tables
    <2>3. n \in Tables => table[n].count \in 0..MaxEntries
      BY DEF TypeOK, Tables, Row
    <2> QED
      BY <2>1, <2>2, <2>3, RebuiltIsRecount
  <1>3. counts \in [Tags -> Counters]
    BY <1>1, <1>2, RecountType DEF Zero, Counters
  <1>4. before \union row.tags \subseteq Tags
    BY DEF Row
  <1> HIDE DEF counts
  <1> QED
    BY <1>3, <1>4 DEF Opened, Transaction, counts

\* A transaction carries what it will write.
LEMMA PendingType ==
  ASSUME TypeOK, NEW w \in Workers, Pending(w)
  PROVE  req[w] \in Transaction
  BY DEF TypeOK, Pending, Idle, Admission, Publication

\* What opens is a transaction.
LEMMA CreationOpens ==
  ASSUME Shape, TypeOK, NEW w \in Workers, NEW doc \in NewDocuments,
         OpenCreation(w, doc)
  PROVE  req'[w] \in Transaction
  <1> DEFINE new == NewRow(w, doc)
             n == NextNumber
  <1>1. req[w].step = "admitted" /\ n \in Numbers
    BY OpenCreationDoes
  <1>2. new \in Row
    BY <1>1, CreatedType
  <1>3. new.doc \in Documents
    BY DocumentsOK DEF NewRow
  <1>4. req'[w] = Opened("creating", n, Derived(n, new), {})
    BY DEF OpenCreation, NewRow, Shape
  <1> HIDE DEF new, n
  <1>5. Derived(n, new) \in Row
    BY <1>1, <1>2, <1>3, DerivedType DEF n
  <1> QED
    BY <1>1, <1>4, <1>5, OpenedType

LEMMA SaveOpens ==
  ASSUME Shape, TypeOK, NEW w \in Workers, NEW n \in Tables,
         NEW doc \in Edited(table[n].doc), OpenSave(w, n, doc)
  PROVE  req'[w] \in Transaction
  <1> DEFINE row == [table[n] EXCEPT !.doc = doc]
  <1>1. n \in Numbers /\ table[n] \in Row /\ table[n].doc \in Documents
    BY DEF Shape, Follows, TypeOK, Tables
  <1>2. doc \in Documents
    BY <1>1, EditedDocument
  <1>3. row \in Row /\ row.doc = doc
    BY <1>1, <1>2 DEF Row
  <1>4. req'[w] = Opened("saving", n, Derived(n, row), table[n].tags)
    BY DEF OpenSave, Shape
  <1> HIDE DEF row
  <1>5. Derived(n, row) \in Row
    BY <1>1, <1>2, <1>3, DerivedType
  <1>6. table[n].tags \in SUBSET Tags
    BY <1>1 DEF Row
  <1> QED
    BY <1>1, <1>4, <1>5, <1>6, OpenedType

\* What is written is a row.
LEMMA WrittenType ==
  ASSUME NEW n, NEW row \in Row, table[n] \in Row
  PROVE  Written(n, row) \in Row
  BY DEF Written, Row

LEMMA PutType ==
  ASSUME TypeOK, NEW n \in Numbers, NEW row \in Row, table' = Put(n, row)
  PROVE  DOMAIN table' \subseteq Numbers /\ table' \in [DOMAIN table' -> Row]
  BY DEF TypeOK, Put, Tables

LEMMA CountedType ==
  ASSUME TypeOK, NEW w \in Workers, Pending(w)
  PROVE  Counted(w) \in [Tags -> Counters]
  BY PendingType DEF TypeOK, Counted, Transaction

Requests ==
  [Workers -> {Idle} \union Admission \union Transaction \union Publication]

LEMMA LeaveType ==
  ASSUME TypeOK, NEW w \in Workers, Leave(w)
  PROVE  req' \in Requests
  BY DEF TypeOK, Leave, Requests

LEMMA TypeStep ==
  ASSUME Shape, TypeOK, [Next]_vars
  PROVE  TypeOK'
  <1>1. CASE UNCHANGED vars
    BY <1>1 DEF TypeOK, vars
  <1>2. ASSUME NEW w \in Workers, NEW a \in Accounts, NEW program \in BOOLEAN,
               NEW published \in BOOLEAN, Admit(w, a, program, published)
        PROVE  TypeOK'
    BY <1>2 DEF Admit, TypeOK, Admission
  <1>3. ASSUME NEW w \in Workers, NEW doc \in NewDocuments, OpenCreation(w, doc)
        PROVE  TypeOK'
    <2>1. Only(w) /\ UNCHANGED <<table, counter, missed, saves>>
      BY <1>3, OpenCreationDoes DEF Only, OpenCreation
    <2>2. req'[w] \in Transaction
      BY <1>3, CreationOpens
    <2> QED
      BY <2>1, <2>2 DEF TypeOK, Only
  <1>4. ASSUME NEW w \in Workers, CommitCreation(w)
        PROVE  TypeOK'
    <2>1. Pending(w) /\ req[w] \in Transaction
      BY <1>4, PendingType DEF CommitCreation, Pending
    <2>2. \/ UNCHANGED <<table, counter>>
          \/ /\ table' = Put(req[w].number, req[w].row)
             /\ counter' = Counted(w)
      BY <1>4 DEF CommitCreation
    <2>3. DOMAIN table' \subseteq Numbers /\ table' \in [DOMAIN table' -> Row]
      BY <2>1, <2>2, PutType DEF TypeOK, Transaction
    <2>4. counter' \in [Tags -> Counters]
      BY <2>1, <2>2, CountedType DEF TypeOK
    <2>5. /\ req' \in Requests
          /\ saves' \in 0..MaxSaves /\ missed' \in SUBSET Tags
      BY <1>4, LeaveType DEF CommitCreation, TypeOK
    <2> QED
      BY <2>3, <2>4, <2>5 DEF TypeOK, Requests
  <1>5. ASSUME NEW w \in Workers, CommitSave(w)
        PROVE  TypeOK'
    <2> DEFINE n == req[w].number
    <2>1. Pending(w) /\ Saving(w) /\ req[w] \in Transaction
      BY <1>5, PendingType DEF CommitSave, Pending, Saving
    <2>2. \/ UNCHANGED <<table, counter>>
          \/ /\ table' = Put(n, Written(n, req[w].row))
             /\ counter' = Counted(w)
      BY <1>5 DEF CommitSave
    <2>3. n \in Numbers /\ Written(n, req[w].row) \in Row
      BY <2>1, WrittenType DEF Shape, TypeOK, Tables, Transaction
    <2>4. DOMAIN table' \subseteq Numbers /\ table' \in [DOMAIN table' -> Row]
      BY <2>2, <2>3, PutType DEF TypeOK
    <2>5. counter' \in [Tags -> Counters]
      BY <2>1, <2>2, CountedType DEF TypeOK
    <2>6. /\ req' \in Requests
          /\ saves' \in 0..MaxSaves /\ missed' \in SUBSET Tags
      BY <1>5, LeaveType DEF CommitSave, TypeOK
    <2> QED
      BY <2>4, <2>5, <2>6 DEF TypeOK, Requests
  <1>6. ASSUME NEW w \in Workers, Fail(w)
        PROVE  TypeOK'
    <2>1. Left(w) \in SUBSET Tags
      BY DEF TypeOK, Left, Publication, Idle, Admission, Transaction
    <2> QED
      BY <1>6, <2>1, LeaveType DEF Fail, TypeOK, Requests
  <1>7. ASSUME NEW w \in Workers, NEW n \in Tables,
               NEW doc \in Edited(table[n].doc), OpenSave(w, n, doc)
        PROVE  TypeOK'
    <2>1. /\ Only(w)
          /\ UNCHANGED <<table, counter, missed>>
          /\ saves < MaxSaves /\ saves' = saves + 1
      BY <1>7, OpenSaveDoes DEF Only, OpenSave
    <2>2. req'[w] \in Transaction
      BY <1>7, SaveOpens
    <2>3. saves' \in 0..MaxSaves
      BY <2>1, CatalogueOK DEF TypeOK
    <2>4. req' \in Requests
      BY <2>1, <2>2 DEF TypeOK, Only, Requests
    <2> QED
      BY <2>1, <2>3, <2>4 DEF TypeOK, Requests
  <1>8. ASSUME NEW w \in Workers, NEW n \in Tables, Publish(w, n)
        PROVE  TypeOK'
    <2> DEFINE row == [table[n] EXCEPT !.published = TRUE, !.capped = FALSE]
    <2>1. /\ table' = Put(n, row)
          /\ UNCHANGED <<counter, missed, saves>>
      BY <1>8 DEF Publish
    <2>2. n \in Numbers /\ row \in Row /\ table[n].tags \in SUBSET Tags
      BY DEF TypeOK, Tables, Row
    <2> HIDE DEF row
    <2>3. DOMAIN table' \subseteq Numbers /\ table' \in [DOMAIN table' -> Row]
      BY <2>1, <2>2, PutType
    <2>4. req' \in Requests
      BY <1>8, <2>2 DEF Publish, Counting, TypeOK, Requests, Publication
    <2> QED
      BY <2>1, <2>3, <2>4 DEF TypeOK, Requests
  <1>9. ASSUME NEW w \in Workers, NEW g \in Tags, RecountTag(w, g)
        PROVE  TypeOK'
    <2>1. counter' \in [Tags -> Counters]
      BY <1>9, RecountType DEF RecountTag, TypeOK
    <2>2. Left(w) \in SUBSET Tags
      BY DEF TypeOK, Left, Publication, Idle, Admission, Transaction
    <2>3. req' \in Requests
      BY <1>9, <2>2 DEF RecountTag, Counting, TypeOK, Requests, Publication
    <2> QED
      BY <1>9, <2>1, <2>3 DEF RecountTag, TypeOK, Requests
  <1> QED
    BY <1>1, <1>2, <1>3, <1>4, <1>5, <1>6, <1>7, <1>8, <1>9 DEF Next

\* Every row, request and counter holds what its declaration says: slug_for
\* always finds a free number for an address, a save derives a whole row from
\* whatever document it is given, and a count is a number.
THEOREM CatalogueTypeCorrect == Spec => []TypeOK
  <1>1. Init => Shape /\ TypeOK
    BY ShapeInit, CatalogueOK DEF Init, TypeOK, Zero, Counters
  <1>2. Shape /\ TypeOK /\ [Next]_vars => (Shape /\ TypeOK)'
    BY ShapeStep, TypeStep
  <1> QED
    BY <1>1, <1>2, PTL DEF Spec
------------------------------------------------------------------------------
(* What a tag counts.                                                      *)

\* The rows with this one under its number (Put, for any rows).
With(rows, n, row) ==
  [m \in DOMAIN rows \union {n} |-> IF m = n THEN row ELSE rows[m]]

\* A row that is not public under a tag, in the place of none or of another
\* that was not, changes no count of it.
LEMMA PutUncounted ==
  ASSUME NEW g, NEW rows, NEW n, NEW row, g \notin row.tags,
         n \in DOMAIN rows => g \notin rows[n].tags
  PROVE  Recount(g, With(rows, n, row)) = Recount(g, rows)
  <1> DEFINE after == With(rows, n, row)
  <1>1. /\ DOMAIN after = DOMAIN rows \union {n}
        /\ after[n] = row
        /\ \A m \in DOMAIN rows \ {n} : after[m] = rows[m]
    BY DEF With
  <1> HIDE DEF after
  <1>2. PublicTables(g, after) = PublicTables(g, rows)
    BY <1>1 DEF PublicTables
  <1>3. \A m \in PublicTables(g, rows) : after[m].count = rows[m].count
    BY <1>1 DEF PublicTables
  <1> QED
    BY <1>2, <1>3, RecountSame DEF after

\* Two rows of one table that agree on what is counted are counted alike.
LEMMA PutAlike ==
  ASSUME NEW g, NEW rows, NEW n, NEW row, NEW other,
         row.tags = other.tags, row.published = other.published,
         row.count = other.count
  PROVE  Recount(g, With(rows, n, row)) = Recount(g, With(rows, n, other))
  <1> DEFINE before == With(rows, n, row)
             after == With(rows, n, other)
  <1>1. /\ DOMAIN before = DOMAIN after
        /\ \A m \in DOMAIN before :
             /\ before[m].tags = after[m].tags
             /\ before[m].published = after[m].published
             /\ before[m].count = after[m].count
    BY DEF With
  <1> HIDE DEF before, after
  <1>2. PublicTables(g, before) = PublicTables(g, after)
    BY <1>1 DEF PublicTables
  <1>3. \A m \in PublicTables(g, before) : before[m].count = after[m].count
    BY <1>1 DEF PublicTables
  <1> QED
    BY <1>2, <1>3, RecountSame DEF before, after

\* A bare row put under another number leaves what a transaction has counted.
LEMMA PutBeside ==
  ASSUME NEW g, NEW rows, NEW n, NEW row, NEW k, NEW bare, k # n,
         k \notin DOMAIN rows, bare.tags = {}
  PROVE  Recount(g, With(With(rows, k, bare), n, row)) =
           Recount(g, With(rows, n, row))
  <1> DEFINE before == With(rows, n, row)
             after == With(With(rows, k, bare), n, row)
  <1>1. /\ DOMAIN after = DOMAIN before \union {k}
        /\ after[k] = bare
        /\ k \notin DOMAIN before
        /\ \A m \in DOMAIN before : after[m] = before[m]
    BY DEF With
  <1> HIDE DEF before, after
  <1>2. PublicTables(g, before) = PublicTables(g, after)
    BY <1>1 DEF PublicTables
  <1>3. \A m \in PublicTables(g, before) : before[m].count = after[m].count
    BY <1>1 DEF PublicTables
  <1> QED
    BY <1>2, <1>3, RecountSame DEF before, after

\* A transaction recounts every tag its table had or gets, and what it has
\* counted is what will be true when it commits.
Reckons(r, rows) ==
  /\ r.row.tags \subseteq r.recounted
  /\ Plain(r) => r.recounted = {}
  /\ r.step = "saving" => /\ rows[r.number].tags \subseteq r.recounted
                          /\ r.row.published = rows[r.number].published
  /\ (r.step = "creating" => r.number \notin DOMAIN rows) =>
       \A g \in Tags \intersect r.recounted :
         r.counts[g] = Recount(g, With(rows, r.number, r.row))

Reckoned == \A w \in Workers : Pending(w) => Reckons(req[w], table)

\* What a transaction reckons with as it opens.
LEMMA OpenedReckons ==
  ASSUME NEW step, NEW n, NEW row, NEW before,
         step \in {"creating", "saving"},
         row.tags = row.doc.tags,
         step = "creating" => before = {},
         step = "saving" => /\ before = table[n].tags
                            /\ row.published = table[n].published,
         Shape, n \in Numbers, IsRow(row), Follows(row)
  PROVE  Reckons(Opened(step, n, row, before), table)
  <1> DEFINE r == Opened(step, n, row, before)
  <1>0. \A g : Rebuilt(g, n, row) = Recount(g, Put(n, row))
    <2>1. row.count \in 0..MaxEntries
      BY DEF Follows, Documents
    <2>2. Tables \subseteq Numbers
          /\ (n \in Tables => table[n].count \in 0..MaxEntries)
      BY DEF Shape, Follows, Documents
    <2> QED
      BY <2>1, <2>2, RebuiltIsRecount
  <1>1. /\ r.step = step
        /\ r.number = n
        /\ r.row = row
        /\ r.recounted = before \union row.tags
        /\ \A g \in Tags \intersect r.recounted :
             r.counts[g] = Recount(g, Put(n, row))
    <2> HIDE DEF Rebuilt
    <2> QED
      BY <1>0 DEF Opened
  <1>2. Put(n, row) = With(table, n, row)
    BY DEF Put, With, Tables
  <1> HIDE DEF r
  <1>3. Plain(r) => r.recounted = {}
    BY <1>1 DEF Plain
  <1> QED
    BY <1>1, <1>2, <1>3 DEF Reckons, r

LEMMA CreationReckons ==
  ASSUME Shape, NEW w \in Workers, NEW doc \in NewDocuments, OpenCreation(w, doc)
  PROVE  Reckons(req'[w], table')
  <1> DEFINE n == NextNumber
             row == Derived(NextNumber, NewRow(w, doc))
  <1>1. req'[w] = Opened("creating", n, row, {})
    BY DEF OpenCreation, NewRow, Shape
  <1>2. OpensCreation(w, doc)
    BY OpenCreationDoes DEF OpensCreation, Only
  <1>3. /\ IsRow(row) /\ Follows(row) /\ n \in Numbers
        /\ UNCHANGED table
    BY <1>2, CreatedRow DEF OpensCreation
  <1> HIDE DEF n, row
  <1>4. Reckons(Opened("creating", n, row, {}), table)
    BY <1>3, OpenedReckons DEF Follows
  <1> QED
    BY <1>1, <1>3, <1>4

LEMMA SaveReckons ==
  ASSUME Shape, NEW w \in Workers, NEW n \in Tables,
         NEW doc \in Edited(table[n].doc), OpenSave(w, n, doc)
  PROVE  Reckons(req'[w], table')
  <1> DEFINE old == [table[n] EXCEPT !.doc = doc]
             row == Derived(n, [table[n] EXCEPT !.doc = doc])
  <1>1. req'[w] = Opened("saving", n, row, table[n].tags)
    BY DEF OpenSave, Shape
  <1>2. IsRow(table[n]) /\ doc \in Documents
    BY EditedDocument DEF Shape, Follows
  <1>3. /\ IsRow(old)
        /\ old.doc = doc
        /\ old.published = table[n].published
    BY <1>2, RowWithDocument
  <1>4. row = Derived(n, old)
    OBVIOUS
  <1> HIDE DEF row, old
  <1>5. /\ IsRow(row) /\ Follows(row) /\ n \in Numbers
        /\ row.published = table[n].published
    BY <1>2, <1>3, <1>4, DerivedRow DEF Shape
  <1>6. UNCHANGED table
    BY DEF OpenSave
  <1>7. Reckons(Opened("saving", n, row, table[n].tags), table)
    BY <1>5, OpenedReckons DEF Follows
  <1> QED
    BY <1>1, <1>6, <1>7

\* A tag is known again when a publication counts it, or a commit does.
LEMMA UncountedAfter ==
  ASSUME NEW w \in Workers, Only(w), NEW g \in Uncounted,
         g \in Left(w) => g \in Left(w)' \union missed',
         g \in missed => g \in missed'
  PROVE  g \in Uncounted'
  <1>1. \A v \in Workers : v # w => Left(v)' = Left(v)
    BY DEF Only, Left
  <1>2. g \in missed \/ \E v \in Workers : g \in Left(v)
    BY DEF Uncounted
  <1>3. g \in missed' \/ \E v \in Workers : g \in Left(v)'
    BY <1>1, <1>2
  <1> QED
    BY <1>3 DEF Uncounted

\* What a step does to the rows and to the counters.
LEMMA CounterKinds ==
  ASSUME Shape, [Next]_vars
  PROVE  \/ UNCHANGED <<table, counter>> /\ Uncounted \subseteq Uncounted'
         \/ \E w \in Workers :
              /\ Creates(w) \/ Saves(w)
              /\ counter' = Counted(w)
              /\ Uncounted \ req[w].recounted \subseteq Uncounted'
         \/ \E w \in Workers, n \in Tables :
              /\ Publishes(w, n)
              /\ UNCHANGED counter
              /\ Uncounted \union table[n].tags \subseteq Uncounted'
         \/ \E g \in Tags :
              /\ UNCHANGED table
              /\ counter' = [counter EXCEPT ![g] = Recount(g, table)]
              /\ Uncounted \ {g} \subseteq Uncounted'
  <1>1. ASSUME NEW w \in Workers, Only(w), req[w].step # "recounting",
               UNCHANGED missed
        PROVE  Uncounted \subseteq Uncounted'
    BY <1>1, UncountedAfter DEF Left
  <1>2. ASSUME NEW w \in Workers, CommitCreation(w)
        PROVE  \/ UNCHANGED <<table, counter>> /\ Uncounted \subseteq Uncounted'
               \/ /\ Creates(w) /\ counter' = Counted(w)
                  /\ Uncounted \ req[w].recounted \subseteq Uncounted'
    <2>1. Ended(w) /\ Only(w) /\ req[w].step = "creating"
      BY <1>2, LeaveDoes DEF CommitCreation, Ended, Only
    <2>2. CASE UNCHANGED missed /\ UNCHANGED <<table, counter>>
      BY <1>1, <2>1, <2>2
    <2>3. CASE /\ ~Collides(req[w].number, req[w].row, TRUE)
               /\ missed' = missed \ req[w].recounted
      <3>1. Uncounted \ req[w].recounted \subseteq Uncounted'
        BY <2>1, <2>3, UncountedAfter DEF Left
      <3> QED
        BY <1>2, <2>1, <2>3, <3>1
           DEF CommitCreation, Collides, Creates, Creating, Ended
    <2> QED
      BY <1>2, <2>2, <2>3 DEF CommitCreation
  <1>3. ASSUME NEW w \in Workers, CommitSave(w)
        PROVE  \/ UNCHANGED <<table, counter>> /\ Uncounted \subseteq Uncounted'
               \/ /\ Saves(w) /\ counter' = Counted(w)
                  /\ Uncounted \ req[w].recounted \subseteq Uncounted'
    <2>1. Ended(w) /\ Only(w) /\ req[w].step = "saving"
      BY <1>3, LeaveDoes DEF CommitSave, Ended, Only
    <2>2. CASE UNCHANGED missed /\ UNCHANGED <<table, counter>>
      BY <1>1, <2>1, <2>2
    <2>3. CASE /\ ~Collides(req[w].number, req[w].row, FALSE)
               /\ missed' = missed \ req[w].recounted
      <3>1. Uncounted \ req[w].recounted \subseteq Uncounted'
        BY <2>1, <2>3, UncountedAfter DEF Left
      <3> QED
        BY <1>3, <2>1, <2>3, <3>1 DEF CommitSave, Saves, Saving, Ended
    <2> QED
      BY <1>3, <2>2, <2>3 DEF CommitSave
  <1>4. ASSUME NEW w \in Workers, NEW n \in Tables, Publish(w, n)
        PROVE  /\ Publishes(w, n) /\ UNCHANGED counter
               /\ Uncounted \union table[n].tags \subseteq Uncounted'
    <2>1. Publishes(w, n) /\ Left(w)' = table[n].tags
      BY <1>4, PublishDoes DEF Publishes, Only
    <2>2. Uncounted \subseteq Uncounted'
      BY <1>1, <1>4, <2>1 DEF Publish, Publishes
    <2> QED
      BY <1>4, <2>1, <2>2 DEF Publish, Uncounted
  <1>5. ASSUME NEW w \in Workers, NEW g \in Tags, RecountTag(w, g)
        PROVE  /\ UNCHANGED table
               /\ counter' = [counter EXCEPT ![g] = Recount(g, table)]
               /\ Uncounted \ {g} \subseteq Uncounted'
    <2>1. Only(w) /\ Left(w)' = Left(w) \ {g} /\ missed' = missed \ {g}
      BY <1>5, RecountTagDoes DEF Only, RecountTag
    <2> QED
      BY <1>5, <2>1, UncountedAfter DEF RecountTag
  <1>6. ASSUME NEW w \in Workers, Fail(w)
        PROVE  UNCHANGED <<table, counter>> /\ Uncounted \subseteq Uncounted'
    <2>1. Only(w) /\ missed' = missed \union Left(w)
      BY <1>6, LeaveDoes DEF Fail, Ended, Only
    <2> QED
      BY <1>6, <2>1, UncountedAfter DEF Fail
  <1>7. ASSUME NEW w \in Workers, NEW a \in Accounts, NEW program \in BOOLEAN,
               NEW published \in BOOLEAN, Admit(w, a, program, published)
        PROVE  UNCHANGED <<table, counter>> /\ Uncounted \subseteq Uncounted'
    BY <1>1, <1>7, AdmitDoes DEF Admit, Only
  <1>8. ASSUME NEW w \in Workers, NEW doc \in NewDocuments, OpenCreation(w, doc)
        PROVE  UNCHANGED <<table, counter>> /\ Uncounted \subseteq Uncounted'
    BY <1>1, <1>8, OpenCreationDoes DEF OpenCreation, Only
  <1>9. ASSUME NEW w \in Workers, NEW n \in Tables,
               NEW doc \in Edited(table[n].doc), OpenSave(w, n, doc)
        PROVE  UNCHANGED <<table, counter>> /\ Uncounted \subseteq Uncounted'
    BY <1>1, <1>9, OpenSaveDoes DEF OpenSave, Only
  <1>10. CASE UNCHANGED vars
    BY <1>10 DEF vars, Uncounted, Left
  <1> QED
    BY <1>2, <1>3, <1>4, <1>5, <1>6, <1>7, <1>8, <1>9, <1>10 DEF Next

\* A transaction's counters are those of the rows it commits.
LEMMA CommitCounts ==
  ASSUME Shape, TagsCountThePublic, Reckoned, NEW w \in Workers,
         Creates(w) \/ Saves(w), counter' = Counted(w),
         Uncounted \ req[w].recounted \subseteq Uncounted'
  PROVE  TagsCountThePublic'
  <1> SUFFICES ASSUME NEW g \in Tags \ Uncounted'
               PROVE  counter'[g] = Recount(g, table')
    BY DEF TagsCountThePublic
  <1> DEFINE r == req[w]
             n == r.number
  <1>1. Pending(w) /\ Reckons(r, table)
    BY DEF Reckoned, Creates, Creating, Saves, Saving, Pending
  <1>2. /\ r.step = "creating" => n \notin Tables
        /\ r.step = "saving" => n \in Tables
    BY DEF Creates, Creating, Saves, Saving, Shape
  <1>3. PICK row : /\ table' = With(table, n, row)
                   /\ row.tags = r.row.tags
                   /\ row.count = r.row.count
                   /\ row.published = r.row.published
    <2>1. CASE Creates(w)
      BY <2>1 DEF Creates, Put, With, Tables
    <2>2. CASE Saves(w)
      <3> DEFINE row == Written(n, r.row)
      <3>1. Saving(w) /\ IsRow(table[n]) /\ IsRow(r.row) /\ Follows(r.row)
        BY <2>2 DEF Saves, Saving, Shape, Pending
      <3>2. Follows(row) /\ row.published = table[n].published
        BY <3>1, WrittenRow
      <3>3. row.tags = r.row.tags /\ row.count = r.row.count
        BY <3>1 DEF Written, IsRow
      <3>4. row.published = r.row.published
        BY <1>1, <3>1, <3>2 DEF Reckons, Saving
      <3>5. table' = With(table, n, row)
        BY <2>2 DEF Saves, Put, With, Tables
      <3> HIDE DEF row
      <3> QED
        BY <3>3, <3>4, <3>5
    <2> QED
      BY <2>1, <2>2
  <1>4. Recount(g, table') = Recount(g, With(table, n, r.row))
    BY <1>3, PutAlike
  <1>5. CASE g \in r.recounted
    <2>1. r.counts[g] = Recount(g, With(table, n, r.row))
      BY <1>1, <1>2, <1>5 DEF Reckons, Tables
    <2> QED
      BY <1>4, <1>5, <2>1 DEF Counted
  <1>6. CASE g \notin r.recounted
    <2>1. /\ g \notin r.row.tags
          /\ n \in DOMAIN table => g \notin table[n].tags
      BY <1>1, <1>2, <1>6 DEF Reckons, Tables, Pending
    <2>2. Recount(g, With(table, n, r.row)) = Recount(g, table)
      BY <2>1, PutUncounted
    <2> QED
      BY <1>4, <1>6, <2>2 DEF Counted, TagsCountThePublic
  <1> QED
    BY <1>5, <1>6

\* A publication is known to no tag of the table before it is counted.
LEMMA PublishCounts ==
  ASSUME Shape, TagsCountThePublic, NEW w \in Workers, NEW n \in Tables,
         Publishes(w, n), UNCHANGED counter,
         Uncounted \union table[n].tags \subseteq Uncounted'
  PROVE  TagsCountThePublic'
  <1> SUFFICES ASSUME NEW g \in Tags \ Uncounted'
               PROVE  counter'[g] = Recount(g, table')
    BY DEF TagsCountThePublic
  <1> DEFINE row == [table[n] EXCEPT !.published = TRUE, !.capped = FALSE]
  <1>1. table' = With(table, n, row) /\ row.tags = table[n].tags
    BY DEF Publishes, Put, With, Tables, Shape, IsRow
  <1> HIDE DEF row
  <1>2. Recount(g, table') = Recount(g, table)
    BY <1>1, PutUncounted
  <1> QED
    BY <1>2 DEF TagsCountThePublic

\* What a transaction has counted outlives every step but its own.
LEMMA ReckonedStep ==
  ASSUME Shape, ~SavesAtOnce, Exclusive, Reckoned, [Next]_vars
  PROVE  Reckoned'
  <1> SUFFICES ASSUME NEW v \in Workers, Pending(v)'
               PROVE  Reckons(req'[v], table')
    BY DEF Reckoned
  <1>1. ASSUME UNCHANGED table, req'[v] = req[v]
        PROVE  Reckons(req'[v], table')
    BY <1>1 DEF Reckoned, Pending
  <1>2. ASSUME req'[v] = req[v], Plain(req[v])
        PROVE  Reckons(req'[v], table')
    <2>1. /\ req[v].row.tags \subseteq {}
          /\ req[v].recounted = {}
          /\ req[v].step = "creating"
      BY <1>2 DEF Reckoned, Reckons, Pending, Plain
    <2> QED
      BY <1>2, <2>1 DEF Reckons
  <1>3. CASE UNCHANGED vars
    BY <1>1, <1>3 DEF vars
  <1>4. ASSUME NEW w \in Workers, Waits(w)
        PROVE  Reckons(req'[v], table')
    BY <1>1, <1>4 DEF Waits, Only, Pending
  <1>5. ASSUME NEW w \in Workers, NEW doc \in NewDocuments, OpenCreation(w, doc)
        PROVE  Reckons(req'[v], table')
    BY <1>1, <1>5, CreationReckons, OpenCreationDoes
  <1>6. ASSUME NEW w \in Workers, NEW n \in Tables,
               NEW doc \in Edited(table[n].doc), OpenSave(w, n, doc)
        PROVE  Reckons(req'[v], table')
    BY <1>1, <1>6, SaveReckons, OpenSaveDoes
  <1>7. ASSUME NEW w \in Workers, Creates(w)
        PROVE  Reckons(req'[v], table')
    <2> DEFINE k == req[w].number
               bare == req[w].row
               r == req[v]
    <2>1. v # w /\ req'[v] = r /\ Pending(v)
      BY <1>7 DEF Creates, Only, Pending
    <2>2. CASE Plain(req[w])
      <3>1. bare.tags = {} /\ k \notin Tables /\ table' = With(table, k, bare)
        BY <1>7, <2>2 DEF Creates, Creating, Shape, Pending, Follows, Plain,
                          Put, With, Tables
      <3>2. Reckons(r, table)
        BY <2>1 DEF Reckoned
      <3>3. r.number # k =>
              \A g : Recount(g, With(table', r.number, r.row)) =
                       Recount(g, With(table, r.number, r.row))
        BY <3>1, PutBeside DEF Tables
      <3>4. /\ DOMAIN table' = Tables \union {k}
            /\ \A m \in Tables : table'[m] = table[m]
        BY <3>1 DEF With, Tables
      <3>5. r.step = "saving" => r.number \in Tables
        BY DEF Shape, Saving
      <3> HIDE DEF k, bare, r
      <3>6. r.step = "creating" /\ r.number \notin DOMAIN table' =>
              r.number # k /\ r.number \notin Tables
        BY <3>4
      <3>7. r.step = "saving" => r.number # k /\ table'[r.number] = table[r.number]
        BY <3>1, <3>4, <3>5
      <3>8. r.step \in {"creating", "saving"}
        BY <2>1 DEF Pending, r
      <3>9. Reckons(r, table')
        BY <3>2, <3>3, <3>6, <3>7, <3>8 DEF Reckons, Tables
      <3> QED
        BY <2>1, <3>9 DEF r
    <2>3. CASE ~Plain(req[w])
      <3>1. Plain(r)
        BY <1>7, <2>1, <2>3 DEF Exclusive, Creates, Creating, Pending
      <3> QED
        BY <1>2, <2>1, <3>1
    <2> QED
      BY <2>2, <2>3
  <1>8. ASSUME NEW w \in Workers, Saves(w)
        PROVE  Reckons(req'[v], table')
    <2>1. v # w /\ req'[v] = req[v] /\ Pending(v)
      BY <1>8 DEF Saves, Only, Pending
    <2>2. Pending(w) /\ ~Plain(req[w])
      BY <1>8 DEF Saves, Saving, Pending, Plain
    <2>3. Plain(req[v])
      BY <2>1, <2>2 DEF Exclusive
    <2> QED
      BY <1>2, <2>1, <2>3
  <1>9. ASSUME NEW w \in Workers, NEW n \in Tables, Publishes(w, n)
        PROVE  Reckons(req'[v], table')
    <2>1. req'[v] = req[v] /\ MayOpen(FALSE) /\ Pending(v)
      BY <1>9 DEF Publishes, Only, Pending
    <2>2. Plain(req[v])
      BY <2>1, OpensAlone
    <2> QED
      BY <1>2, <2>1, <2>2
  <1>10. ASSUME NEW w \in Workers, NEW a \in Accounts, NEW program \in BOOLEAN,
                NEW published \in BOOLEAN, Admit(w, a, program, published)
         PROVE  Reckons(req'[v], table')
    BY <1>1, <1>10, AdmitDoes DEF Pending
  <1>11. ASSUME NEW w \in Workers, CommitCreation(w) \/ CommitSave(w) \/ Fail(w)
         PROVE  Reckons(req'[v], table')
    BY <1>4, <1>7, <1>8, <1>11, CommitCreationDoes, CommitSaveDoes, FailDoes
       DEF Waits, Creates, Saves, Ended, Only
  <1>12. ASSUME NEW w \in Workers, NEW n \in Tables, Publish(w, n)
         PROVE  Reckons(req'[v], table')
    BY <1>9, <1>12, PublishDoes DEF Publishes, Only
  <1>13. ASSUME NEW w \in Workers, NEW g \in Tags, RecountTag(w, g)
         PROVE  Reckons(req'[v], table')
    BY <1>1, <1>13, RecountTagDoes DEF Pending
  <1> QED
    BY <1>3, <1>5, <1>6, <1>10, <1>11, <1>12, <1>13 DEF Next

LEMMA CountInit ==
  ASSUME Init
  PROVE  TagsCountThePublic /\ Reckoned
  <1>1. table = [n \in {} |-> None] /\ counter = [g \in Tags |-> Zero]
    BY DEF Init
  <1>2. \A g : PublicTables(g, table) = {} /\ PublicNumbers(g, table) = {}
    BY <1>1 DEF PublicTables, PublicNumbers
  <1>3. \A g : Recount(g, table) = Zero
    BY <1>2, FS_EmptySet DEF Recount, Zero
  <1> QED
    BY <1>1, <1>3 DEF Init, TagsCountThePublic, Reckoned, Pending, Idle

\* While saves run one at a time, the counters of a tag are those of the tables
\* and numbers anybody may see, after every creation, save and failure, for
\* every tag but those a publication has not reached yet or was killed before
\* reaching.  Recounting before the rebuild and moving by its difference loses
\* and doubles nothing, what a transaction counts before it writes is still
\* true when it commits, and a save or a publication puts right the tags that
\* an earlier one left (recount_tags, build_number_table, publish_table).
THEOREM TagsStayCounted == ASSUME ~SavesAtOnce PROVE Spec => []TagsCountThePublic
  <1> DEFINE Inv == Shape /\ Exclusive /\ Reckoned /\ TypeOK /\ TagsCountThePublic
  <1>1. Init => Inv
    BY ShapeInit, ExclusiveInit, CountInit, CatalogueOK
       DEF Init, TypeOK, Zero, Counters
  <1>2. ASSUME Inv, [Next]_vars
        PROVE  TagsCountThePublic'
    <2>1. CASE UNCHANGED <<table, counter>> /\ Uncounted \subseteq Uncounted'
      BY <1>2, <2>1 DEF TagsCountThePublic
    <2>2. ASSUME NEW g \in Tags, UNCHANGED table,
                 counter' = [counter EXCEPT ![g] = Recount(g, table)],
                 Uncounted \ {g} \subseteq Uncounted'
          PROVE  TagsCountThePublic'
      BY <1>2, <2>2 DEF TagsCountThePublic, TypeOK
    <2> QED
      BY <1>2, <2>1, <2>2, CommitCounts, PublishCounts, CounterKinds
  <1>3. Inv /\ [Next]_vars => Inv'
    BY <1>2, ShapeStep, ExclusiveStep, ReckonedStep, TypeStep
  <1> QED
    BY <1>1, <1>3, PTL DEF Spec
==============================================================================
