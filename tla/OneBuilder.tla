----------------------------- MODULE OneBuilder ------------------------------
(***************************************************************************)
(* What the queue promises of a proposal: at most one worker builds its    *)
(* table at a time, and nobody else touches the draft.  ProposalQueue is   *)
(* how rows on the site and marks on a checklist keep that promise.        *)
(***************************************************************************)
CONSTANTS Workers, Proposals, Nobody

VARIABLES
  builder,  \* who builds each proposal, or Nobody
  draft     \* what there is of its table

Init ==
  /\ builder = [p \in Proposals |-> Nobody]
  /\ draft = [p \in Proposals |-> "none"]

Begin(w, p) ==
  /\ builder[p] = Nobody
  /\ builder' = [builder EXCEPT ![p] = w]
  /\ UNCHANGED draft

Build(w, p) ==
  /\ builder[p] = w
  /\ \/ draft[p] = "none" /\ draft' = [draft EXCEPT ![p] = "empty"]
     \/ draft[p] = "empty" /\ draft' = [draft EXCEPT ![p] = "filled"]
  /\ UNCHANGED builder

End(w, p) ==
  /\ builder[p] = w
  /\ builder' = [builder EXCEPT ![p] = Nobody]
  /\ UNCHANGED draft

Next == \E w \in Workers, p \in Proposals : Begin(w, p) \/ Build(w, p) \/ End(w, p)

Spec == Init /\ [][Next]_<<builder, draft>>
==============================================================================
