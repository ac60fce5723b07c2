-------------------------------- MODULE Lease --------------------------------
(***************************************************************************)
(* The lease a generator takes on a table, beside the submissions that     *)
(* check it and renew it (numberdb_app/api.py, models.TableLease).         *)
(*                                                                         *)
(* Every statement of a request is a step.  Of time the model keeps only   *)
(* whether the lease has run out.                                          *)
(***************************************************************************)
EXTENDS Naturals

CONSTANTS
  Programs,   \* generators and other scripts that write to the table
  OwnerOf,    \* the account whose key a program uses
  RunOf,      \* the run it names, or NoRun
  NoRun,      \* no X-Run-Id header
  NoLease,    \* no TableLease row
  Nobody,     \* nobody holds the lock of the table's row
  Mortal,     \* the programs that may stop for good
  LateDrops   \* TRUE: a run may drop a lease it let run out

Owners == {OwnerOf[p] : p \in Programs}
Runs == {RunOf[p] : p \in Programs}
TableLease == [owner : Owners, run : Runs, live : BOOLEAN]

ASSUME LeaseOK ==
  /\ NoLease \notin TableLease
  /\ Nobody \notin Programs
  /\ Mortal \subseteq Programs
  /\ LateDrops \in BOOLEAN

VARIABLES
  lease,      \* the TableLease row
  lock,       \* the holder of SELECT FOR UPDATE on the Table row
  req,        \* what each program's request is doing
  intrusions  \* history: the submissions that landed against a live lease

vars == <<lease, lock, req, intrusions>>
------------------------------------------------------------------------------
\* What the request has read of the row: nothing, the row that is there, or a
\* row that was deleted since.
Sight == {"nothing", "row", "gone"}
Steps == {"idle", "inserting", "dropping", "waiting", "writing", "stored",
          "refreshing"}
Request == [step : Steps, kind : {"entries", "file"}, sees : Sight]
Idle == [step |-> "idle", kind |-> "entries", sees |-> "nothing"]

TypeOK ==
  /\ lease \in TableLease \union {NoLease}
  /\ lock \in Programs \union {Nobody}
  /\ req \in [Programs -> Request]
  /\ intrusions \in [Programs -> 0..2]
  /\ \A p \in Programs :
       /\ req[p].sees = "row" => lease # NoLease
       /\ lock = p <=> \/ req[p].step = "writing"
                       \/ req[p].step = "refreshing" /\ req[p].kind = "entries"

Init ==
  /\ lease = NoLease
  /\ lock = Nobody
  /\ req = [p \in Programs |-> Idle]
  /\ intrusions = [p \in Programs |-> 0]
------------------------------------------------------------------------------
Belongs(row, p) ==
  \/ RunOf[p] # NoRun /\ row.run = RunOf[p]
  \/ row.owner = OwnerOf[p]

\* Mutant: a lease that ran out still refuses everybody else.
HeldByForever(p) == Belongs(lease, p)

\* held_by: an expired lease is anybody's.
HeldBy(p) == ~lease.live \/ Belongs(lease, p)

\* _lease_allows
LeaseAllows(p) == lease # NoLease => HeldBy(p)

\* A new tenure begins when nothing live was there; a history variable.
Held(p) == [owner |-> OwnerOf[p], run |-> RunOf[p], live |-> TRUE]
NewTenure ==
  intrusions' = IF lease # NoLease /\ lease.live THEN intrusions
                ELSE [p \in Programs |-> 0]

\* What a run's name stands for: two accounts do not use one name.
RunsHaveOneOwner ==
  \A p, q \in Programs :
    RunOf[p] # NoRun /\ RunOf[p] = RunOf[q] => OwnerOf[p] = OwnerOf[q]

Go(p, step) == req' = [req EXCEPT ![p].step = step]
Finish(p) == req' = [req EXCEPT ![p] = Idle]
FreeLock(p) == lock' = IF lock = p THEN Nobody ELSE lock
------------------------------------------------------------------------------
(* POST and DELETE of the lease (table_lease).                             *)

\* The row is read FOR UPDATE and saved in one transaction.
Take(p) ==
  /\ req[p].step = "idle"
  /\ lease # NoLease
  /\ HeldBy(p)
  /\ lease' = Held(p)
  /\ NewTenure
  /\ UNCHANGED <<lock, req>>

\* There is no row to lock: two requests may get here together.
FindNone(p) ==
  /\ req[p].step = "idle"
  /\ lease = NoLease
  /\ Go(p, "inserting")
  /\ UNCHANGED <<lease, lock, intrusions>>

\* Mutant: the row is written whether or not somebody else's is there.
InsertOver(p) ==
  /\ req[p].step = "inserting"
  /\ lease' = Held(p)
  /\ NewTenure
  /\ Finish(p)
  /\ UNCHANGED lock

\* One lease per table: the second of two inserts fails on the unique key.
Insert(p) ==
  /\ req[p].step = "inserting"
  /\ IF lease = NoLease THEN lease' = Held(p) /\ NewTenure
     ELSE UNCHANGED <<lease, intrusions>>
  /\ Finish(p)
  /\ UNCHANGED lock

\* DELETE reads the row first, and deletes by primary key what it read.
OpenDrop(p) ==
  /\ req[p].step = "idle"
  /\ lease # NoLease
  /\ HeldBy(p)
  /\ lease.live \/ LateDrops
  /\ req' = [req EXCEPT ![p].step = "dropping", ![p].sees = "row"]
  /\ UNCHANGED <<lease, lock, intrusions>>

\* Mutant: the others still believe in the row.
ForgottenByOne(p) == [req EXCEPT ![p] = Idle]

\* The row is gone, for whoever had read it too.
Forgotten(p) ==
  [q \in Programs |->
     IF q = p THEN Idle
     ELSE [req[q] EXCEPT !.sees = IF @ = "row" THEN "gone" ELSE @]]

CloseDrop(p) ==
  /\ req[p].step = "dropping"
  /\ IF req[p].sees = "row" THEN lease' = NoLease /\ req' = Forgotten(p)
     ELSE UNCHANGED lease /\ Finish(p)
  /\ UNCHANGED <<lock, intrusions>>
------------------------------------------------------------------------------
(* Submissions (write_entries, write_file).                                *)

\* Mutant: a program writes without asking whose table it is.
CheckNothing(p, kind) ==
  /\ req[p].step = "idle"
  /\ req' = [req EXCEPT ![p].step = "waiting", ![p].kind = kind]
  /\ UNCHANGED <<lease, lock, intrusions>>

\* The lease is looked at before the wait for the table.
Check(p, kind) ==
  /\ req[p].step = "idle"
  /\ LeaseAllows(p)
  /\ req' = [req EXCEPT ![p].step = "waiting", ![p].kind = kind]
  /\ UNCHANGED <<lease, lock, intrusions>>

TakeLock(p) ==
  /\ req[p].step = "waiting"
  /\ lock = Nobody
  /\ lock' = p
  /\ Go(p, "writing")
  /\ UNCHANGED <<lease, intrusions>>

\* The lock did not come in time, the payload is refused, or the worker dies:
\* the transaction is undone.
Fail(p) ==
  /\ req[p].step # "idle"
  /\ Finish(p)
  /\ FreeLock(p)
  /\ UNCHANGED <<lease, intrusions>>

\* A submission becomes visible; against the lease of somebody else it is an
\* intrusion.
Landed(p) ==
  intrusions' =
    [intrusions EXCEPT ![p] =
       IF lease # NoLease /\ lease.live /\ ~Belongs(lease, p) /\ @ < 2
       THEN @ + 1 ELSE @]

\* A file is committed, and its lock released, before the lease is renewed.
StoreFile(p) ==
  /\ req[p].step = "writing"
  /\ req[p].kind = "file"
  /\ Landed(p)
  /\ Go(p, "stored")
  /\ lock' = Nobody
  /\ UNCHANGED lease

\* _refresh_lease reads the row, for entries before the commit.
ReadLease(p) ==
  /\ req[p].step = IF req[p].kind = "file" THEN "stored" ELSE "writing"
  /\ req' = [req EXCEPT ![p].step = "refreshing",
                        ![p].sees = IF lease # NoLease /\ HeldBy(p) THEN "row"
                                    ELSE "nothing"]
  /\ UNCHANGED <<lease, lock, intrusions>>

\* It pushes the expiry out, whoever owns the row by then; a row that is gone
\* fails the request, and undoes the entries.
Renew(p) ==
  /\ req[p].step = "refreshing"
  /\ LET renewed == req[p].sees = "row"
         revived == renewed /\ ~lease.live
         lands == req[p].kind = "entries" /\ req[p].sees # "gone" IN
       /\ lease' = IF renewed THEN [lease EXCEPT !.live = TRUE] ELSE lease
       /\ IF revived THEN NewTenure
          ELSE IF lands THEN Landed(p) ELSE UNCHANGED intrusions
  /\ Finish(p)
  /\ FreeLock(p)

\* Twenty minutes pass.  Without late drops the lease outlives the request of
\* its holder that drops it.
Expire ==
  /\ lease # NoLease
  /\ lease.live
  /\ LateDrops \/ \A p \in Programs : req[p].step # "dropping"
  /\ lease' = [lease EXCEPT !.live = FALSE]
  /\ UNCHANGED <<lock, req, intrusions>>

Submit(p) == \E kind \in {"entries", "file"} : Check(p, kind)

Serve(p) ==
  \/ Insert(p) \/ CloseDrop(p) \/ TakeLock(p) \/ Fail(p)
  \/ StoreFile(p) \/ ReadLease(p) \/ Renew(p)

Next ==
  \/ \E p \in Programs :
       Take(p) \/ FindNone(p) \/ OpenDrop(p) \/ Submit(p) \/ Serve(p)
  \/ Expire

Spec == Init /\ [][Next]_vars

\* Time passes, the server answers, and a program that wants the table and is
\* not dead goes on asking, often enough to meet an expired lease.
FairSpec ==
  /\ Spec
  /\ WF_vars(Expire)
  /\ \A p \in Programs : WF_vars(Serve(p))
  /\ \A p \in Programs \ Mortal : SF_vars(Take(p))
------------------------------------------------------------------------------
(* Properties.                                                             *)

\* The check comes before the wait, so a submission may land against a lease
\* that was taken meanwhile; but however long the wait and whoever renews the
\* lease, no program does that twice in one tenure (_lease_allows,
\* write_entries).
OneLateSubmission == \A p \in Programs : intrusions[p] <= 1

\* A live lease stays until it runs out, or until its own owner or run takes
\* it again or drops it: two first requests, renewals and drops of others
\* leave it alone (table_lease, held_by).
LiveLeaseIsKept ==
  [][lease # NoLease /\ lease.live =>
       \/ lease' # NoLease /\ lease'.owner = lease.owner
                           /\ lease'.run = lease.run
       \/ \E p \in Programs : /\ Belongs(lease, p)
                              /\ \/ lease' = Held(p)
                                 \/ /\ lease' = NoLease
                                    /\ req[p].step = "dropping"
                                    /\ req'[p].step = "idle"]_vars

\* A program that dies with the lease does not lock the table for good, though
\* the submissions of others keep its lease alive (TableLease: "It expires").
DeadLeaseFalls ==
  \A p \in Mortal :
    <>[](req[p].step = "idle") =>
      []<>(lease = NoLease \/ lease.owner # OwnerOf[p])
==============================================================================
