------------------------------- MODULE MCLease -------------------------------
(* Instances of Lease for TLC.                                             *)
EXTENDS Lease

CONSTANTS p1, p2, p3, ann, bob, r1, r2

\* ann's program names its run, bob has two: one with a run and one without.
Three == {p1, p2, p3}
OwnerOfThree == [p \in Three |-> IF p = p1 THEN ann ELSE bob]
RunOfThree == [p \in Three |-> IF p = p1 THEN r1 ELSE IF p = p2 THEN r2 ELSE NoRun]
==============================================================================
