\* Two owners, three programs; the first may die with the lease.
SPECIFICATION FairSpec
CONSTANTS
  Programs <- Three
  OwnerOf <- OwnerOfThree
  RunOf <- RunOfThree
  NoRun = NoRun
  NoLease = NoLease
  Nobody = Nobody
  p1 = p1
  p2 = p2
  p3 = p3
  ann = ann
  bob = bob
  r1 = r1
  r2 = r2
  Mortal = {p1}
  LateDrops = FALSE
INVARIANTS TypeOK OneLateSubmission
PROPERTIES LiveLeaseIsKept DeadLeaseFalls
