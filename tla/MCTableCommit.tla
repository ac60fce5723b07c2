---------------------------- MODULE MCTableCommit ----------------------------
(* Instances of TableCommit for TLC; the .cfg files give the constants.    *)
EXTENDS TableCommit, TLC

\* Entries are interchangeable in every definition, and so are the values.
Symmetry == Permutations(Entries) \union Permutations(Values)
==============================================================================
