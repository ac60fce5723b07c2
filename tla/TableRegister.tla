---------------------------- MODULE TableRegister ----------------------------
(***************************************************************************)
(* What a table is to the people and programs that edit it: one document,  *)
(* and edits that are each applied to it whole, once, and at one moment    *)
(* between being asked for and being answered, or not at all.  TableCommit *)
(* is how pages, bases, merges and the row lock keep that promise.         *)
(***************************************************************************)
CONSTANTS Users, Fields, Says

VARIABLES
  doc,   \* what the table says
  asked  \* the edit each account waits for, empty when it waits for none

\* An edit says something at some paths.
Edit == UNION {[F -> Says] : F \in SUBSET Fields}

LaidOver(edit, old) ==
  [f \in Fields |-> IF f \in DOMAIN edit THEN edit[f] ELSE old[f]]

Init ==
  /\ doc \in [Fields -> Says]
  /\ asked \in [Users -> [{} -> Says]]

Waits(u) == DOMAIN asked[u] # {}

\* What the others wait for stays.
Only(u) ==
  /\ asked' \in [Users -> Edit]
  /\ \A v \in Users \ {u} : asked'[v] = asked[v]

Ask(u) ==
  /\ ~Waits(u)
  /\ Only(u)
  /\ UNCHANGED doc

Apply(u) ==
  /\ doc' = LaidOver(asked[u], doc)
  /\ Only(u) /\ ~Waits(u)'

\* The edit is refused or lost.
Drop(u) ==
  /\ Only(u) /\ ~Waits(u)'
  /\ UNCHANGED doc

Next == \E u \in Users : Ask(u) \/ Apply(u) \/ Drop(u)

Spec == Init /\ [][Next]_<<doc, asked>>
==============================================================================
