--------------------------- MODULE MergeRecursion ---------------------------
(***************************************************************************)
(* _merge_node of numberdb_app/merge.py as it is written, one call for     *)
(* each node of three trees, beside MergeTree's account of it by paths.    *)
(*                                                                         *)
(* A tree is nothing, a leaf, or a mapping.                                *)
(***************************************************************************)
EXTENDS MergeTree

Nothing == [kind |-> "nothing"]
Leaf(value) == [kind |-> "leaf", value |-> value]
Mapping(at) == [kind |-> "mapping", at |-> at]

KeysOf(node) == IF node.kind = "mapping" THEN DOMAIN node.at ELSE {}

\* dict.get(key, MISSING), of an empty dict when the node is none.
At(node, key) == IF key \in KeysOf(node) THEN node.at[key] ELSE Nothing

\* Mutant: a key that only the other side has is forgotten.
AllKeysMine(b, m, t) == KeysOf(b) \union KeysOf(m)

\* The keys of all three, _ordered_keys.
AllKeys(b, m, t) == KeysOf(b) \union KeysOf(m) \union KeysOf(t)

RECURSIVE Merged(_, _, _)
\* The tree _merge_node returns.
Merged(b, m, t) ==
  LET sub == [key \in AllKeys(b, m, t) |->
                Merged(At(b, key), At(m, key), At(t, key))]
  IN  CASE m = t -> m
        [] m # t /\ b = m -> t
        [] m # t /\ b = t -> m
        [] m \notin {b, t} /\ b # t /\ m = Nothing -> t
        [] m \notin {b, t} /\ b # t /\ m.kind = "mapping" /\ t.kind = "mapping" ->
             Mapping([key \in {k \in DOMAIN sub : sub[k] # Nothing} |->
                        sub[key]])
        [] OTHER -> m

RECURSIVE ConflictsFrom(_, _, _, _)
\* The paths it appends a Conflict for.
ConflictsFrom(b, m, t, path) ==
  CASE m = t \/ b \in {m, t} -> {}
    [] m # t /\ b \notin {m, t} /\ m.kind = "mapping" /\ t.kind = "mapping" ->
         UNION {ConflictsFrom(At(b, key), At(m, key), At(t, key),
                              Append(path, key)) : key \in AllKeys(b, m, t)}
    [] OTHER -> {path}

RECURSIVE TreeAt(_, _)
\* The tree of what a document says at and below a path.
TreeAt(doc, path) ==
  CASE doc[path] = Missing -> Nothing
    [] doc[path] = Opened ->
         Mapping([key \in {k \in Keys : /\ Append(path, k) \in Paths
                                        /\ doc[Append(path, k)] # Missing} |->
                    TreeAt(doc, Append(path, key))])
    [] OTHER -> Leaf(doc[path])

Tree == [doc \in Documents |-> TreeAt(doc, <<>>)]

\* The recursion over the trees of three documents returns the tree of the
\* merge by paths, and names its conflicts.
RecursionAgrees ==
  Done =>
    /\ Merged(Tree[base], Tree[mine], Tree[theirs]) = TreeAt(result.doc, <<>>)
    /\ ConflictsFrom(Tree[base], Tree[mine], Tree[theirs], <<>>)
       = result.conflicts
=============================================================================
