---------------------------- MODULE MCMergeTree ----------------------------
(***************************************************************************)
(* Documents with two keys at the top: one may hold a mapping of two more  *)
(* or of three levels, the other a leaf or a mapping, over two leaves.     *)
(***************************************************************************)
EXTENDS MergeRecursion

CONSTANTS v, w

X == <<"x">>
XA == <<"x", "a">>
XB == <<"x", "b">>
XAC == <<"x", "a", "c">>
Y == <<"y">>
YA == <<"y", "a">>

MCPaths == {<<>>, X, XA, XB, XAC, Y, YA}

\* The document that says this much and nothing else.
Saying(said) == [p \in MCPaths |-> IF p = <<>> THEN Opened
                                   ELSE IF p \in DOMAIN said THEN said[p]
                                   ELSE Missing]

Leaves == {v, w}
UnderX ==
  {X :> at : at \in Leaves \union {Missing}}
  \union {X :> Opened @@ XA :> a @@ XB :> b : a, b \in Leaves \union {Missing}}
  \union {X :> Opened @@ XA :> Opened @@ XAC :> c : c \in Leaves \union {Missing}}
UnderY ==
  {Y :> at : at \in Leaves \union {Missing}} \union {Y :> Opened @@ YA :> v}

MCDocuments == {Saying(x @@ y) : x \in UnderX, y \in UnderY}
============================================================================
