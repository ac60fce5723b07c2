----------------------------- MODULE LeaseProofs -----------------------------
(***************************************************************************)
(* Theorems about Lease: its types, who lands against a lease, and who may *)
(* end one, for any programs, accounts and runs.                           *)
(***************************************************************************)
EXTENDS Lease, TLAPS

\* The row is what some program wrote, whether or not it has run out since.
Written == lease # NoLease =>
  \E p \in Programs : lease.owner = OwnerOf[p] /\ lease.run = RunOf[p]

TypeInv == TypeOK /\ Written

\* What a program writes is a row of the table.
LEMMA HeldType ==
  ASSUME NEW p \in Programs
  PROVE  Held(p) \in TableLease /\ Held(p) # NoLease
<1>1. OwnerOf[p] \in Owners /\ RunOf[p] \in Runs
  BY DEF Owners, Runs
<1>2. Held(p) \in TableLease
  BY <1>1 DEF Held, TableLease
<1> QED BY <1>2, LeaseOK

LEMMA InitType == Init => TypeInv
  BY LeaseOK DEF Init, TypeInv, TypeOK, Written, Request, Steps, Sight, Idle

LEMMA NextType == TypeInv /\ [Next]_vars => TypeInv'
<1> SUFFICES ASSUME TypeInv, [Next]_vars PROVE TypeInv'
  OBVIOUS
<1> USE LeaseOK DEF TypeInv
<1> DEFINE Parts == /\ lease' \in TableLease \union {NoLease}
                    /\ Written'
<1>1. ASSUME NEW p \in Programs, Take(p) PROVE TypeInv'
  <2>1. Parts
    BY <1>1, HeldType DEF Take, Written, Held
  <2>2. intrusions' \in [Programs -> 0..2]
    BY <1>1 DEF Take, NewTenure, TypeOK
  <2> QED BY <1>1, <2>1, <2>2, HeldType DEF Take, TypeOK
<1>2. ASSUME NEW p \in Programs, FindNone(p) PROVE TypeInv'
  BY <1>2 DEF FindNone, Go, TypeOK, Written, Request, Steps
<1>3. ASSUME NEW p \in Programs, Insert(p) PROVE TypeInv'
  <2>1. Parts
    BY <1>3, HeldType DEF Insert, Written, Held, TypeOK
  <2>2. intrusions' \in [Programs -> 0..2]
    BY <1>3 DEF Insert, NewTenure, TypeOK
  <2>3. lease # NoLease => lease' # NoLease
    BY <1>3 DEF Insert
  <2> QED BY <1>3, <2>1, <2>2, <2>3
          DEF Insert, Finish, TypeOK, Request, Steps, Sight, Idle
<1>4. ASSUME NEW p \in Programs, OpenDrop(p) PROVE TypeInv'
  <2>1. lease # NoLease /\ UNCHANGED <<lease, lock, intrusions>>
    BY <1>4 DEF OpenDrop
  <2>2. req[p].step = "idle"
    BY <1>4 DEF OpenDrop
  <2>3. req' = [req EXCEPT ![p].step = "dropping", ![p].sees = "row"]
    BY <1>4 DEF OpenDrop
  <2>4. req' \in [Programs -> Request]
    BY <2>3 DEF TypeOK, Request, Steps, Sight
  <2>5. /\ req'[p].step = "dropping"
        /\ \A q \in Programs : q # p => req'[q] = req[q]
    BY <2>3 DEF TypeOK, Request
  <2>6. TypeOK'
    BY <2>1, <2>2, <2>4, <2>5 DEF TypeOK
  <2> QED BY <2>1, <2>6 DEF Written
<1>5. ASSUME NEW p \in Programs, CloseDrop(p) PROVE TypeInv'
  BY <1>5 DEF CloseDrop, Forgotten, Finish, TypeOK, Written, Request, Steps,
              Sight, Idle
<1>6. ASSUME NEW p \in Programs, Submit(p) PROVE TypeInv'
  <2>1. PICK kind \in {"entries", "file"} : Check(p, kind)
    BY <1>6 DEF Submit
  <2> QED BY <2>1 DEF Check, TypeOK, Written, Request, Steps
<1>7. ASSUME NEW p \in Programs, TakeLock(p) PROVE TypeInv'
  BY <1>7 DEF TakeLock, Go, TypeOK, Written, Request, Steps
<1>8. ASSUME NEW p \in Programs, Fail(p) PROVE TypeInv'
  BY <1>8 DEF Fail, Finish, FreeLock, TypeOK, Written, Request, Steps, Sight,
              Idle
<1>9. ASSUME NEW p \in Programs, StoreFile(p) PROVE TypeInv'
  <2>1. intrusions' \in [Programs -> 0..2]
    BY <1>9 DEF StoreFile, Landed, TypeOK
  <2> QED BY <1>9, <2>1 DEF StoreFile, Go, TypeOK, Written, Request, Steps
<1>10. ASSUME NEW p \in Programs, ReadLease(p) PROVE TypeInv'
  <2>1. PICK sight \in Sight :
          /\ req' = [req EXCEPT ![p].step = "refreshing", ![p].sees = sight]
          /\ sight = "row" => lease # NoLease
    BY <1>10 DEF ReadLease, Sight
  <2>2. UNCHANGED <<lease, lock, intrusions>>
    BY <1>10 DEF ReadLease
  <2>3. req[p].step \in {"writing", "stored"}
    BY <1>10 DEF ReadLease
  <2>4. req[p].step = "writing" <=> req[p].kind # "file"
    BY <1>10 DEF ReadLease
  <2>5. req' \in [Programs -> Request]
    BY <2>1 DEF TypeOK, Request, Steps
  <2>6. /\ req'[p].step = "refreshing"
        /\ req'[p].kind = req[p].kind
        /\ req'[p].sees = sight
        /\ \A q \in Programs : q # p => req'[q] = req[q]
    BY <2>1 DEF TypeOK, Request
  <2>7. req[p].kind \in {"entries", "file"}
    BY DEF TypeOK, Request
  <2>8. TypeOK'
    BY <2>7, <2>1, <2>2, <2>3, <2>4, <2>5, <2>6 DEF TypeOK
  <2> QED BY <2>2, <2>8 DEF Written
<1>11. ASSUME NEW p \in Programs, Renew(p) PROVE TypeInv'
  <2>1. intrusions' \in [Programs -> 0..2]
    BY <1>11 DEF Renew, NewTenure, Landed, TypeOK
  <2>2. /\ Parts
        /\ lease = NoLease <=> lease' = NoLease
    <3>1. CASE req[p].sees = "row"
      <4>1. lease # NoLease /\ lease' = [lease EXCEPT !.live = TRUE]
        BY <1>11, <3>1 DEF Renew, TypeOK
      <4>2. lease \in TableLease
        BY <4>1 DEF TypeOK
      <4>3. lease' \in TableLease
        BY <4>1, <4>2 DEF TableLease
      <4>4. lease'.owner = lease.owner /\ lease'.run = lease.run
        BY <4>1, <4>2 DEF TableLease
      <4> QED BY <4>1, <4>3, <4>4, LeaseOK DEF Written
    <3>2. CASE req[p].sees # "row"
      BY <1>11, <3>2 DEF Renew, TypeOK, Written
    <3> QED BY <3>1, <3>2
  <2> QED BY <1>11, <2>1, <2>2
          DEF Renew, Finish, FreeLock, TypeOK, Request, Steps, Sight, Idle
<1>12. ASSUME Expire PROVE TypeInv'
  <2>1. lease \in TableLease /\ lease # NoLease
    BY <1>12 DEF Expire, TypeOK
  <2>2. /\ lease' \in TableLease
        /\ lease'.owner = lease.owner
        /\ lease'.run = lease.run
    BY <1>12, <2>1 DEF Expire, TableLease
  <2>3. lease' # NoLease
    BY <2>2, LeaseOK
  <2>4. Written'
    BY <2>1, <2>2 DEF Written
  <2>5. UNCHANGED <<lock, req, intrusions>>
    BY <1>12 DEF Expire
  <2>6. TypeOK'
    BY <2>2, <2>3, <2>5 DEF TypeOK
  <2> QED BY <2>4, <2>6
<1>13. CASE UNCHANGED vars
  BY <1>13 DEF vars, TypeOK, Written
<1> QED BY <1>1, <1>2, <1>3, <1>4, <1>5, <1>6, <1>7, <1>8, <1>9, <1>10, <1>11,
           <1>12, <1>13 DEF Next, Serve

\* The row, the lock and every request keep their types; a row that a request
\* has read and that was not deleted is still there, and only a submission
\* being written holds the table's lock.
THEOREM LeaseTypeCorrect == Spec => []TypeOK
<1>1. Spec => []TypeInv
  BY InitType, NextType, PTL DEF Spec
<1> QED BY <1>1, PTL DEF TypeInv
------------------------------------------------------------------------------
(* Who lands against a lease, and who may end one.                         *)

\* With one owner to a run, a lease belongs to the programs of its owner.
LEMMA BelongsByOwner ==
  ASSUME RunsHaveOneOwner, TypeInv, lease # NoLease, NEW p \in Programs
  PROVE  Belongs(lease, p) <=> lease.owner = OwnerOf[p]
  BY DEF RunsHaveOneOwner, TypeInv, Written, Belongs

\* On its way to landing, with the lease checked already.
Bound(p) ==
  \/ req[p].step \in {"waiting", "writing"}
  \/ (req[p].step = "refreshing" /\ req[p].kind = "entries")

\* Who has landed against the lease that is live is not on the way again.
LateInv ==
  \A p \in Programs :
    /\ intrusions[p] <= 1
    /\ lease # NoLease /\ lease.live /\ intrusions[p] = 1 =>
         lease.owner # OwnerOf[p] /\ ~Bound(p)

\* A request that is dropping a row it read drops its own live lease.
DropInv ==
  \A p \in Programs :
    req[p].step = "dropping" /\ req[p].sees = "row" =>
      lease # NoLease /\ lease.live /\ lease.owner = OwnerOf[p]

\* What a landing does to the count of one program that was bound to land.
LEMMA LandingCounts ==
  ASSUME RunsHaveOneOwner, TypeInv, LateInv,
         NEW p \in Programs, Landed(p), Bound(p)
  PROVE  /\ \A q \in Programs : q # p => intrusions'[q] = intrusions[q]
         /\ intrusions'[p] <= 1
         /\ lease # NoLease /\ lease.live /\ intrusions'[p] = 1 =>
              lease.owner # OwnerOf[p]
<1> USE DEF LateInv
<1>1. intrusions \in [Programs -> 0..2]
  BY DEF TypeInv, TypeOK
<1>2. CASE lease # NoLease /\ lease.live /\ ~Belongs(lease, p)
  <2>1. intrusions[p] = 0
    BY <1>1, <1>2
  <2> QED BY <1>1, <1>2, <2>1, BelongsByOwner DEF Landed
<1>3. CASE ~(lease # NoLease /\ lease.live /\ ~Belongs(lease, p))
  BY <1>1, <1>3 DEF Landed
<1> QED BY <1>2, <1>3

LEMMA NextLate ==
  ASSUME RunsHaveOneOwner, TypeInv, LateInv, [Next]_vars
  PROVE  LateInv'
<1> USE DEF LateInv
<1>t. /\ lease # NoLease => lease \in TableLease
      /\ req \in [Programs -> Request]
      /\ intrusions \in [Programs -> 0..2]
  BY DEF TypeInv, TypeOK
<1>1. ASSUME NEW p \in Programs, Take(p) PROVE LateInv'
  <2>1. CASE lease.live
    <3>1. lease.owner = OwnerOf[p] /\ lease'.owner = OwnerOf[p]
      BY <1>1, <2>1, BelongsByOwner DEF Take, HeldBy, Held
    <3> QED BY <1>1, <2>1, <3>1 DEF Take, NewTenure, Bound
  <2>2. CASE ~lease.live
    BY <1>1, <2>2 DEF Take, NewTenure
  <2> QED BY <2>1, <2>2
<1>2. ASSUME NEW p \in Programs, FindNone(p) PROVE LateInv'
  BY <1>2 DEF FindNone
<1>3. ASSUME NEW p \in Programs, Insert(p) PROVE LateInv'
  <2>1. CASE lease = NoLease
    BY <1>3, <2>1 DEF Insert, NewTenure
  <2>2. CASE lease # NoLease
    BY <1>3, <1>t, <2>2 DEF Insert, Finish, Idle, Bound
  <2> QED BY <2>1, <2>2
<1>4. ASSUME NEW p \in Programs, OpenDrop(p) PROVE LateInv'
  BY <1>4, <1>t DEF OpenDrop, Bound, Request
<1>5. ASSUME NEW p \in Programs, CloseDrop(p) PROVE LateInv'
  <2>1. CASE req[p].sees = "row"
    BY <1>5, <2>1 DEF CloseDrop
  <2>2. CASE req[p].sees # "row"
    BY <1>5, <1>t, <2>2 DEF CloseDrop, Finish, Idle, Bound
  <2> QED BY <2>1, <2>2
<1>6. ASSUME NEW p \in Programs, Submit(p) PROVE LateInv'
  <2>1. PICK kind \in {"entries", "file"} : Check(p, kind)
    BY <1>6 DEF Submit
  <2>2. lease # NoLease /\ lease.live => lease.owner = OwnerOf[p]
    BY <2>1, BelongsByOwner DEF Check, LeaseAllows, HeldBy
  <2>3. \A q \in Programs : q # p => req'[q] = req[q]
    BY <1>t, <2>1 DEF Check
  <2> QED BY <2>1, <2>2, <2>3 DEF Check, Bound
<1>7. ASSUME NEW p \in Programs, TakeLock(p) PROVE LateInv'
  <2>1. /\ req'[p].step = "writing" /\ req[p].step = "waiting"
        /\ \A q \in Programs : q # p => req'[q] = req[q]
    BY <1>7, <1>t DEF TakeLock, Go, Request
  <2> QED BY <1>7, <2>1 DEF TakeLock, Bound
<1>8. ASSUME NEW p \in Programs, Fail(p) PROVE LateInv'
  BY <1>8, <1>t DEF Fail, Finish, Idle, Bound
<1>9. ASSUME NEW p \in Programs, StoreFile(p) PROVE LateInv'
  <2>1. /\ req'[p].step = "stored" /\ Landed(p) /\ Bound(p)
        /\ \A q \in Programs : q # p => req'[q] = req[q]
    BY <1>9, <1>t DEF StoreFile, Go, Request, Bound
  <2> QED BY <1>9, <2>1, LandingCounts DEF StoreFile, Bound
<1>10. ASSUME NEW p \in Programs, ReadLease(p) PROVE LateInv'
  <2>1. /\ req'[p].step = "refreshing" /\ req'[p].kind = req[p].kind
        /\ \A q \in Programs : q # p => req'[q] = req[q]
    BY <1>10, <1>t DEF ReadLease, Request
  <2>2. req[p].kind = "entries" => Bound(p)
    BY <1>10 DEF ReadLease, Bound
  <2> QED BY <1>10, <2>1, <2>2 DEF ReadLease, Bound
<1>11. ASSUME NEW p \in Programs, Renew(p) PROVE LateInv'
  <2>1. CASE req[p].sees = "row" /\ ~lease.live
    BY <1>11, <2>1, <1>t DEF Renew, NewTenure, TypeInv, TypeOK
  <2>2. CASE ~(req[p].sees = "row" /\ ~lease.live)
    <3>1. lease' = lease
      <4>1. CASE req[p].sees = "row"
        <5>1. lease # NoLease /\ lease.live
          BY <4>1, <2>2 DEF TypeInv, TypeOK
        <5> QED BY <1>11, <4>1, <5>1, <1>t DEF Renew, TableLease
      <4>2. CASE req[p].sees # "row"
        BY <1>11, <4>2 DEF Renew
      <4> QED BY <4>1, <4>2
    <3>2. /\ ~Bound(p)'
          /\ \A q \in Programs : q # p => req'[q] = req[q]
      BY <1>11, <1>t DEF Renew, Finish, Idle, Bound
    <3>3. CASE req[p].kind = "entries" /\ req[p].sees # "gone"
      <4>1. Landed(p) /\ Bound(p)
        BY <1>11, <2>2, <3>3 DEF Renew, Bound
      <4> QED BY <3>1, <3>2, <4>1, LandingCounts DEF Bound
    <3>4. CASE ~(req[p].kind = "entries" /\ req[p].sees # "gone")
      BY <1>11, <2>2, <3>1, <3>2, <3>4 DEF Renew, Bound
    <3> QED BY <3>3, <3>4
  <2> QED BY <2>1, <2>2
<1>12. ASSUME Expire PROVE LateInv'
  BY <1>12, <1>t DEF Expire, TableLease, Bound
<1>13. CASE UNCHANGED vars
  BY <1>13 DEF vars, Bound
<1> QED BY <1>1, <1>2, <1>3, <1>4, <1>5, <1>6, <1>7, <1>8, <1>9, <1>10, <1>11,
           <1>12, <1>13 DEF Next, Serve

\* Any number of programs: however long submissions wait for the table, no
\* program lands twice against one tenure of somebody else's lease.
THEOREM OneLateEach ==
  ASSUME RunsHaveOneOwner
  PROVE  Spec => []OneLateSubmission
<1>1. Init => LateInv
  <2> SUFFICES ASSUME Init, NEW p \in Programs
               PROVE  intrusions[p] = 0 /\ 0 <= 1
    BY DEF Init, LateInv
  <2> QED BY DEF Init
<1>2. TypeInv /\ LateInv /\ [Next]_vars => LateInv'
  BY NextLate, RunsHaveOneOwner
<1>3. LateInv => OneLateSubmission
  BY DEF LateInv, OneLateSubmission
<1> QED BY InitType, NextType, <1>1, <1>2, <1>3, PTL DEF Spec

LEMMA NextDrop ==
  ASSUME RunsHaveOneOwner, ~LateDrops, TypeInv, DropInv, [Next]_vars
  PROVE  DropInv'
<1> USE DEF DropInv
<1>t. /\ lease # NoLease => lease \in TableLease
      /\ req \in [Programs -> Request]
  BY DEF TypeInv, TypeOK
<1>r. ASSUME NEW p \in Programs, UNCHANGED lease,
             \A q \in Programs : q # p => req'[q] = req[q],
             ~(req'[p].step = "dropping" /\ req'[p].sees = "row")
      PROVE  DropInv'
  BY <1>r
<1>1. ASSUME NEW p \in Programs, Take(p) PROVE DropInv'
  <2>1. ASSUME NEW q \in Programs, req[q].step = "dropping", req[q].sees = "row"
        PROVE  OwnerOf[q] = OwnerOf[p]
    BY <1>1, <2>1, BelongsByOwner DEF Take, HeldBy
  <2>2. req' = req /\ lease' = Held(p) /\ lease' # NoLease
    BY <1>1, HeldType DEF Take
  <2> QED BY <2>1, <2>2 DEF Held
<1>2. ASSUME NEW p \in Programs, FindNone(p) PROVE DropInv'
  BY <1>2, <1>t DEF FindNone, Go, Request
<1>3. ASSUME NEW p \in Programs, Insert(p) PROVE DropInv'
  BY <1>3, <1>t DEF Insert, Finish, Idle
<1>4. ASSUME NEW p \in Programs, OpenDrop(p) PROVE DropInv'
  <2>1. lease # NoLease /\ lease.live /\ lease.owner = OwnerOf[p]
    BY <1>4, BelongsByOwner DEF OpenDrop, HeldBy
  <2> QED BY <1>4, <1>t, <2>1 DEF OpenDrop, Request
<1>5. ASSUME NEW p \in Programs, CloseDrop(p) PROVE DropInv'
  <2>1. CASE req[p].sees = "row"
    <3>1. \A q \in Programs : req'[q].sees # "row"
      BY <1>5, <1>t, <2>1 DEF CloseDrop, Forgotten, Idle, Request
    <3> QED BY <3>1
  <2>2. CASE req[p].sees # "row"
    BY <1>5, <1>t, <2>2 DEF CloseDrop, Finish, Idle
  <2> QED BY <2>1, <2>2
<1>6. ASSUME NEW p \in Programs, Submit(p) PROVE DropInv'
  <2>1. PICK kind \in {"entries", "file"} : Check(p, kind)
    BY <1>6 DEF Submit
  <2> QED BY <1>t, <2>1 DEF Check, Request
<1>7. ASSUME NEW p \in Programs, TakeLock(p) PROVE DropInv'
  BY <1>7, <1>t DEF TakeLock, Go, Request
<1>8. ASSUME NEW p \in Programs, Fail(p) PROVE DropInv'
  BY <1>8, <1>t DEF Fail, Finish, Idle
<1>9. ASSUME NEW p \in Programs, StoreFile(p) PROVE DropInv'
  BY <1>9, <1>t DEF StoreFile, Go, Request
<1>10. ASSUME NEW p \in Programs, ReadLease(p) PROVE DropInv'
  <2>1. /\ req'[p].step = "refreshing"
        /\ \A q \in Programs : q # p => req'[q] = req[q]
    BY <1>10, <1>t DEF ReadLease, Request
  <2> QED BY <1>10, <2>1, <1>r DEF ReadLease
<1>11. ASSUME NEW p \in Programs, Renew(p) PROVE DropInv'
  <2>1. /\ req'[p].step = "idle"
        /\ \A q \in Programs : q # p => req'[q] = req[q]
    BY <1>11, <1>t DEF Renew, Finish, Idle
  <2>2. CASE req[p].sees = "row"
    <3>1. lease # NoLease /\ lease' = [lease EXCEPT !.live = TRUE]
      BY <1>11, <2>2 DEF Renew, TypeInv, TypeOK
    <3>2. lease' \in TableLease /\ lease'.live /\ lease'.owner = lease.owner
      BY <1>t, <3>1 DEF TableLease
    <3> QED BY <2>1, <3>2, LeaseOK
  <2>3. CASE req[p].sees # "row"
    BY <1>11, <2>1, <2>3, <1>r DEF Renew
  <2> QED BY <2>2, <2>3
<1>12. ASSUME Expire PROVE DropInv'
  BY <1>12 DEF Expire
<1>13. CASE UNCHANGED vars
  BY <1>13 DEF vars
<1> QED BY <1>1, <1>2, <1>3, <1>4, <1>5, <1>6, <1>7, <1>8, <1>9, <1>10, <1>11,
           <1>12, <1>13 DEF Next, Serve

\* What a step may do to a live lease, as LiveLeaseIsKept says it.
Keeps ==
  lease # NoLease /\ lease.live =>
       \/ lease' # NoLease /\ lease'.owner = lease.owner
                           /\ lease'.run = lease.run
       \/ \E p \in Programs : /\ Belongs(lease, p)
                              /\ \/ lease' = Held(p)
                                 \/ /\ lease' = NoLease
                                    /\ req[p].step = "dropping"
                                    /\ req'[p].step = "idle"

LEMMA NextKeeps ==
  ASSUME RunsHaveOneOwner, TypeInv, DropInv, [Next]_vars
  PROVE  Keeps
<1> SUFFICES ASSUME lease # NoLease, lease.live, lease' # lease PROVE Keeps
  BY DEF Keeps
<1>t. lease \in TableLease /\ req \in [Programs -> Request]
  BY DEF TypeInv, TypeOK
<1>1. ASSUME NEW p \in Programs, Take(p) PROVE Keeps
  BY <1>1 DEF Take, HeldBy, Keeps
<1>2. ASSUME NEW p \in Programs, CloseDrop(p) PROVE Keeps
  <2>1. req[p].sees = "row" /\ lease' = NoLease /\ req[p].step = "dropping"
    BY <1>2 DEF CloseDrop
  <2>2. req'[p].step = "idle"
    BY <1>2, <2>1 DEF CloseDrop, Forgotten, Idle
  <2>3. Belongs(lease, p)
    BY <2>1, BelongsByOwner DEF DropInv
  <2> QED BY <2>1, <2>2, <2>3 DEF Keeps
<1>3. ASSUME NEW p \in Programs, Renew(p) PROVE Keeps
  <2>1. lease' = [lease EXCEPT !.live = TRUE]
    BY <1>3 DEF Renew
  <2> QED BY <1>t, <2>1, LeaseOK DEF Keeps, TableLease
<1>4. ASSUME Expire PROVE Keeps
  <2>1. lease' = [lease EXCEPT !.live = FALSE]
    BY <1>4 DEF Expire
  <2>2. /\ lease' \in TableLease
        /\ lease'.owner = lease.owner
        /\ lease'.run = lease.run
    BY <1>t, <2>1 DEF TableLease
  <2> QED BY <2>2, LeaseOK DEF Keeps
<1>5. ASSUME NEW p \in Programs,
             \/ FindNone(p) \/ OpenDrop(p) \/ Submit(p) \/ Insert(p)
             \/ TakeLock(p) \/ Fail(p) \/ StoreFile(p) \/ ReadLease(p)
      PROVE  FALSE
  BY <1>5 DEF FindNone, OpenDrop, Submit, Check, Insert, TakeLock, Fail,
              StoreFile, ReadLease
<1> QED BY <1>1, <1>2, <1>3, <1>4, <1>5 DEF Next, Serve, vars

\* If no run drops a lease it let run out, a live lease ends only by its own
\* holder or by running out, whatever first requests, renewals, take-overs
\* and drops of others come together.
THEOREM LiveLeaseStays ==
  ASSUME RunsHaveOneOwner, ~LateDrops
  PROVE  Spec => LiveLeaseIsKept
<1>1. Init => DropInv
  BY DEF Init, DropInv, Idle
<1>2. TypeInv /\ DropInv /\ [Next]_vars => DropInv'
  BY NextDrop, RunsHaveOneOwner, ~LateDrops
<1>3. TypeInv /\ DropInv /\ [Next]_vars => [Keeps]_vars
  BY NextKeeps, RunsHaveOneOwner
<1>4. [][Keeps]_vars => LiveLeaseIsKept
  BY PTL DEF Keeps, LiveLeaseIsKept
<1> QED BY InitType, NextType, <1>1, <1>2, <1>3, <1>4, PTL DEF Spec
==============================================================================
