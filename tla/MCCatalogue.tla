----------------------------- MODULE MCCatalogue -----------------------------
(* Instances of Catalogue for TLC.                                         *)
EXTENDS Catalogue, TLC

CONSTANTS f, g, z

\* "Values of $f$" and "Values of $g$" suggest one address, "Zeros" another.
Titled == {f, g, z}
Suggests == [t \in Titled |-> IF t = z THEN "Zeros" ELSE "Values_of"]

\* Two addresses are enough for a chain, and for two tables that name each other.
Named == {<<"Values_of", 1>>, <<"Values_of", 2>>}

\* Created with a title, and one of them with an entry; the rest comes with
\* later saves.
Bare == {d \in Documents : /\ d.repeats = NoUrl /\ d.tags = {}
                           /\ d.entries > 0 => d.title = z}

Symmetry == Permutations(Workers) \union Permutations({f, g}) \union Permutations(Tags)
==============================================================================
