---- MODULE MCGeneratorRun ----
(***************************************************************************)
(* Two entries that two versions of a generator compute: to one digit; and *)
(* with a second digit for the one, while the other is enumerated no more. *)
(* A torn document may read as another number, as words that compare with  *)
(* no number, or as a stump that is no entry.                              *)
(***************************************************************************)
EXTENDS GeneratorRun

CONSTANTS a, b

Value(claim, digits, text) == [claim |-> claim, digits |-> digits, text |-> text]

Other == Value(2, 1, 1)
Words == Value(3, 0, 1)
Stump == Value(4, 0, 1)

MCValues == {Value(1, 1, 1), Value(1, 1, 2), Value(1, 2, 1), Other, Words, Stump}

MCUnreadable == {pair \in MCValues \X MCValues :
                    pair[1] # pair[2] /\ Words \in {pair[1], pair[2]}}
MCUnfit == {Stump}
MCShort == {Words}
MCCuts == {Other, Words, Stump}

MCEnumerates == <<<<a, b>>, <<a>>>>

MCComputes ==
    <<[id \in {a, b} |-> Value(1, 1, 1)],
      [id \in {a, b} |-> Value(1, 2, 1)]>>

Asked(flags) == [flag \in Flags |-> flag \in flags]

MCCalls == {Asked({}),
            Asked({"overwrite", "lowering", "restating"}),
            Asked({"overwrite", "correcting", "removing"})}

ASSUME RemovalsOverwrite

MCOtherValues == {Value(1, 1, 2)}
====
