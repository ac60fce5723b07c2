------------------------- MODULE ProposalQueueProofs -------------------------
(***************************************************************************)
(* Type correctness of ProposalQueue, and that a proposal has one holder   *)
(* while builds stay within their claims, for any workers and proposals.   *)
(***************************************************************************)
EXTENDS ProposalQueue, TLAPS

\* The errand a worker is on fits the step it has reached.
ErrandFits ==
  \A w \in Workers :
    /\ run[w].step \in {"idle"} \union Requests => run[w].errand = "none"
    /\ run[w].step = "building" => run[w].errand = "claim"
    /\ run[w].step = "ended" => run[w].errand \in {"claim", "tick", "skip"}
    /\ run[w].step \in Edits => run[w].errand # "none"
    /\ run[w].step \in {"rereading", "closing"} =>
         run[w].errand \in {"tick", "skip", "finish"}

\* Whoever is at work has its row, and the row has not aged out.
HoldsItsRow ==
  \A w \in Workers, p \in Proposals :
    AtWork(w, p) => site[p] = w /\ p \notin expired

\* A row read for taking over, and not written since, has aged out.
SureIsExpired ==
  \A w \in Workers : run[w].sure => run[w].job \in expired

\* It is remembered only until the update that takes it over.
SureTaking == \A w \in Workers : run[w].sure => run[w].step = "taking"

TypeInv == TypeOK /\ ErrandFits
RowInv == HoldsItsRow /\ SureIsExpired /\ SureTaking
HolderInv == TypeInv /\ RowInv

------------------------------------------------------------------------------
\* What the commands of the checklist write and where they lead.
LEMMA Commands ==
  ASSUME NEW e \in Errands \ {"none"}
  PROVE  /\ Command[e].box \in Boxes
         /\ e = "claim" => Command[e].after = "building"
         /\ e \in {"tick", "skip"} => Command[e].after = "ended"
         /\ e \in {"finish", "release"} => Command[e].after = "idle"
  BY DEF Errands, Command, Boxes, Freed

\* A worker that has left is of the right type and on no errand.
LEMMA IdleType == Idle \in Campaign /\ Idle.step = "idle" /\ Idle.errand = "none"
  BY DEF Idle, Campaign, Blank, Boxes, Errands
------------------------------------------------------------------------------
\* What TypeInv says of one worker; most steps change one worker's record.
Fits(r) ==
  /\ r.step # "idle" => r.job \in Proposals
  /\ r.step \in {"idle"} \union Requests => r.errand = "none"
  /\ r.step = "building" => r.errand = "claim"
  /\ r.step = "ended" => r.errand \in {"claim", "tick", "skip"}
  /\ r.step \in Edits => r.errand # "none"
  /\ r.step \in {"rereading", "closing"} => r.errand \in {"tick", "skip", "finish"}

\* The parts of the type invariant that are not about the workers' records.
QueueOK ==
  /\ mark \in [Proposals -> Boxes]
  /\ closed \in BOOLEAN
  /\ site \in [Proposals -> Workers \union {Nobody}]
  /\ expired \in SUBSET {p \in Proposals : site[p] # Nobody}
  /\ draft \in [Proposals -> {"none", "empty", "filled"}]

\* The type invariant, worker by worker.
LEMMA Split ==
  TypeInv <=> /\ QueueOK
              /\ run \in [Workers -> Campaign]
              /\ \A w \in Workers : Fits(run[w])
  BY DEF TypeInv, TypeOK, ErrandFits, QueueOK, Fits

\* A step that replaces one worker's record keeps the invariant.
LEMMA OneRecord ==
  ASSUME TypeInv, QueueOK', NEW w \in Workers, NEW r \in Campaign, Fits(r),
         run' = [run EXCEPT ![w] = r]
  PROVE  TypeInv'
<1>1. /\ run' \in [Workers -> Campaign]
      /\ \A v \in Workers : Fits(run'[v])
  BY Split
<1> QED BY <1>1, Split DEF TypeInv, TypeOK, ErrandFits, QueueOK, Fits

\* Going to another step, and leaving, are such steps.
LEMMA StepKeeps ==
  ASSUME TypeInv, QueueOK', NEW w \in Workers,
         NEW s \in {"idle", "building", "ended"} \union Requests \union Edits,
         Step(w, s), Fits([run[w] EXCEPT !.step = s])
  PROVE  TypeInv'
<1> DEFINE r == [run[w] EXCEPT !.step = s]
<1>1. run[w] \in Campaign
  BY Split
<1>2. r \in Campaign
  BY <1>1 DEF Campaign
<1>3. run' = [run EXCEPT ![w] = r]
  BY DEF Step
<1> QED BY <1>2, <1>3, OneRecord

LEMMA LeaveKeeps ==
  ASSUME TypeInv, QueueOK', NEW w \in Workers, Leave(w)
  PROVE  TypeInv'
<1>1. Fits(Idle)
  BY IdleType DEF Fits, Requests, Edits
<1> QED BY <1>1, IdleType, OneRecord DEF Leave

LEMMA ErrandKeeps ==
  ASSUME TypeInv, QueueOK', NEW w \in Workers, NEW e \in Errands \ {"none"},
         Errand(w, e), run[w].step # "idle"
  PROVE  TypeInv'
<1> DEFINE r == [run[w] EXCEPT !.step = "reading", !.errand = e]
<1>1. run[w] \in Campaign /\ Fits(run[w])
  BY Split
<1>2. r \in Campaign
  BY <1>1 DEF Campaign, Edits
<1>3. Fits(r)
  BY <1>1, <1>2 DEF Fits, Campaign, Requests, Edits
<1>4. run' = [run EXCEPT ![w] = r]
  BY DEF Errand
<1> QED BY <1>2, <1>3, <1>4, OneRecord

\* Writing the row sends its writer to the checklist and makes others unsure.
LEMMA RowKeeps ==
  ASSUME TypeInv, QueueOK', NEW w \in Workers, NEW p \in Proposals,
         NEW e \in {"claim", "release"}, RowWritten(w, p, e),
         run[w].step # "idle"
  PROVE  TypeInv'
<1>1. \A v \in Workers : run[v] \in Campaign /\ Fits(run[v])
  BY Split
<1>2. [run[w] EXCEPT !.step = "reading", !.errand = e, !.sure = FALSE]
        \in Campaign
  BY <1>1 DEF Campaign, Edits, Errands
<1>3. \A v \in Workers : [run[v] EXCEPT !.sure = FALSE] \in Campaign
  BY <1>1 DEF Campaign
<1>4. run' \in [Workers -> Campaign]
  BY <1>1, <1>2, <1>3 DEF RowWritten
<1>5. ASSUME NEW v \in Workers PROVE Fits(run'[v])
  BY <1>1 DEF RowWritten, Fits, Campaign, Requests, Edits
<1> QED BY <1>4, <1>5, Split DEF TypeInv, TypeOK, ErrandFits, QueueOK, Fits

LEMMA DoneKeeps ==
  ASSUME TypeInv, QueueOK', NEW w \in Workers,
         run[w].errand \in Errands \ {"none"},
         Done(w, Command[run[w].errand].after), run[w].step # "idle"
  PROVE  TypeInv'
<1> DEFINE after == Command[run[w].errand].after
<1>1. CASE after = "idle"
  BY <1>1, LeaveKeeps DEF Done
<1>2. CASE after # "idle"
  <2>1. Step(w, after)
    BY <1>2 DEF Done
  <2>2. \/ after = "building" /\ run[w].errand = "claim"
        \/ after = "ended" /\ run[w].errand \in {"tick", "skip"}
    BY <1>2, Commands DEF Errands
  <2>3. run[w] \in Campaign /\ Fits(run[w])
    BY Split
  <2>4. Fits([run[w] EXCEPT !.step = after])
    BY <2>2, <2>3 DEF Fits, Campaign, Requests, Edits
  <2> QED BY <2>1, <2>2, <2>4, StepKeeps
<1> QED BY <1>1, <1>2
------------------------------------------------------------------------------
\* Claiming keeps the type invariant.
LEMMA ClaimTypes ==
  ASSUME TypeInv, NEW w \in Workers, ClaimStep(w)
  PROVE  TypeInv'
<1>0. QueueOK /\ run[w] \in Campaign /\ Fits(run[w])
  BY Split
<1>1. CASE Next_table(w)
  <2>1. PICK p \in Proposals :
          run' = [run EXCEPT ![w].step = "claiming", ![w].job = p]
    BY <1>1 DEF Next_table
  <2> DEFINE r == [run[w] EXCEPT !.step = "claiming", !.job = p]
  <2>2. r \in Campaign /\ run' = [run EXCEPT ![w] = r]
    BY <1>0, <2>1 DEF Campaign, Requests
  <2>3. Fits(r)
    BY <1>0, <1>1 DEF Next_table, Fits, Campaign, Requests, Edits
  <2>4. QueueOK'
    BY <1>0, <1>1 DEF Next_table, QueueOK
  <2> QED BY <2>2, <2>3, <2>4, OneRecord
<1>2. CASE Insert(w)
  <2>1. run[w].job \in Proposals /\ run[w].step # "idle"
    BY <1>0, <1>2 DEF Insert, Fits
  <2>2. QueueOK'
    BY <1>0, <1>2, <2>1, NamesOK DEF Insert, QueueOK
  <2>3. RowWritten(w, run[w].job, "claim")
    BY <1>2 DEF Insert
  <2> QED BY <2>1, <2>2, <2>3, RowKeeps
<1>3. CASE InsertRefused(w)
  <2> DEFINE s == IF run[w].step = "claiming" THEN "asking" ELSE "asking again"
  <2>1. QueueOK' /\ Step(w, s)
    BY <1>0, <1>3 DEF InsertRefused, QueueOK
  <2>2. Fits([run[w] EXCEPT !.step = s])
    BY <1>0, <1>3 DEF InsertRefused, Fits, Campaign, Requests, Edits
  <2>3. s \in Requests
    BY DEF Requests
  <2> QED BY <2>1, <2>2, <2>3, StepKeeps
<1>4. CASE AskHolder(w)
  <2>1. QueueOK'
    BY <1>0, <1>4 DEF AskHolder, QueueOK
  <2>2. CASE Leave(w)
    BY <2>1, <2>2, LeaveKeeps
  <2>3. CASE Step(w, "retrying")
    <3>1. Fits([run[w] EXCEPT !.step = "retrying"])
      BY <1>0, <1>4 DEF AskHolder, Fits, Campaign, Requests, Edits
    <3> QED BY <2>1, <2>3, <3>1, StepKeeps DEF Requests
  <2>4. CASE run' = [run EXCEPT ![w].step = "taking", ![w].sure = TRUE]
    <3> DEFINE r == [run[w] EXCEPT !.step = "taking", !.sure = TRUE]
    <3>1. r \in Campaign /\ run' = [run EXCEPT ![w] = r]
      BY <1>0, <2>4 DEF Campaign, Requests
    <3>2. Fits(r)
      BY <1>0, <1>4 DEF AskHolder, Fits, Campaign, Requests, Edits
    <3> QED BY <2>1, <3>1, <3>2, OneRecord
  <2> QED BY <1>4, <2>2, <2>3, <2>4 DEF AskHolder
<1>5. CASE TakeOver(w)
  <2>1. run[w].job \in Proposals /\ run[w].step # "idle"
    BY <1>0, <1>5 DEF TakeOver, Fits
  <2>2. QueueOK'
    BY <1>0, <1>5, <2>1, NamesOK DEF TakeOver, QueueOK
  <2>3. RowWritten(w, run[w].job, "claim")
    BY <1>5 DEF TakeOver
  <2> QED BY <2>1, <2>2, <2>3, RowKeeps
<1>6. CASE TooLate(w)
  <2>1. QueueOK' /\ Leave(w)
    BY <1>0, <1>6 DEF TooLate, QueueOK
  <2> QED BY <2>1, LeaveKeeps
<1> QED BY <1>1, <1>2, <1>3, <1>4, <1>5, <1>6 DEF ClaimStep

\* Rewriting the checklist keeps the type invariant.
LEMMA ListTypes ==
  ASSUME TypeInv, NEW w \in Workers, ListStep(w)
  PROVE  TypeInv'
<1>0. QueueOK /\ run[w] \in Campaign /\ Fits(run[w])
  BY Split
<1>1. /\ run[w].step # "idle"
      /\ run[w].job \in Proposals
      /\ run[w].errand \in Errands \ {"none"}
  BY <1>0 DEF ListStep, ReadBody, NoSuchLine, PatchBody, ReadAgain,
              CloseFamily, Fits, Edits, Campaign
<1>2. CASE ReadBody(w)
  <2> DEFINE p == run[w].job
             body == [mark EXCEPT ![p] = Command[run[w].errand].box]
             r == [run[w] EXCEPT !.step = "patching", !.copy = body]
  <2>1. body \in [Proposals -> Boxes]
    BY <1>0, <1>1, Commands DEF QueueOK
  <2>2. r \in Campaign /\ run' = [run EXCEPT ![w] = r]
    BY <1>0, <1>2, <2>1 DEF ReadBody, Campaign, Edits
  <2>3. Fits(r)
    BY <1>0, <1>1 DEF Fits, Campaign, Requests, Edits
  <2>4. QueueOK'
    BY <1>0, <1>2 DEF ReadBody, QueueOK
  <2> QED BY <2>2, <2>3, <2>4, OneRecord
<1>3. CASE NoSuchLine(w)
  <2>1. QueueOK'
    BY <1>0, <1>3 DEF NoSuchLine, QueueOK
  <2>2. CASE run[w].errand = "claim"
    <3>1. Leave(w)
      BY <1>3, <2>2 DEF NoSuchLine, Done
    <3> QED BY <2>1, <3>1, LeaveKeeps
  <2>3. CASE run[w].errand # "claim"
    <3>1. Done(w, Command[run[w].errand].after)
      BY <1>3, <2>3 DEF NoSuchLine
    <3> QED BY <1>1, <2>1, <3>1, DoneKeeps
  <2> QED BY <2>2, <2>3
<1>4. CASE PatchBody(w)
  <2>1. run[w].copy \in [Proposals -> Boxes]
    BY <1>0 DEF Campaign
  <2>2. QueueOK'
    BY <1>0, <1>4, <2>1 DEF PatchBody, QueueOK
  <2>3. CASE run[w].errand = "release"
    <3>1. Leave(w)
      BY <1>4, <2>3, Commands DEF PatchBody, Errands
    <3> QED BY <2>2, <3>1, LeaveKeeps
  <2>4. CASE run[w].errand # "release"
    <3> DEFINE s == IF run[w].errand = "claim" THEN "building" ELSE "rereading"
               r == [run[w] EXCEPT !.step = s, !.copy = Blank]
    <3>1. run' = [run EXCEPT ![w].step = s, ![w].copy = Blank]
      BY <1>4, <2>4, Commands DEF PatchBody, Errands
    <3>2. r \in Campaign /\ run' = [run EXCEPT ![w] = r]
      BY <1>0, <3>1 DEF Campaign, Edits, Blank, Boxes
    <3>3. Fits(r)
      BY <1>0, <1>1, <2>4 DEF Fits, Campaign, Requests, Edits, Errands
    <3> QED BY <2>2, <3>2, <3>3, OneRecord
  <2> QED BY <2>3, <2>4
<1>5. CASE ReadAgain(w)
  <2>1. QueueOK'
    BY <1>0, <1>5 DEF ReadAgain, QueueOK
  <2>2. CASE Step(w, "closing")
    <3>1. Fits([run[w] EXCEPT !.step = "closing"])
      BY <1>0, <1>5 DEF ReadAgain, Fits, Campaign, Requests, Edits
    <3> QED BY <2>1, <2>2, <3>1, StepKeeps DEF Edits
  <2>3. CASE Done(w, Command[run[w].errand].after)
    BY <1>1, <2>1, <2>3, DoneKeeps
  <2> QED BY <1>5, <2>2, <2>3 DEF ReadAgain
<1>6. CASE CloseFamily(w)
  <2>1. QueueOK' /\ Done(w, Command[run[w].errand].after)
    BY <1>0, <1>6 DEF CloseFamily, QueueOK
  <2> QED BY <1>1, <2>1, DoneKeeps
<1> QED BY <1>2, <1>3, <1>4, <1>5, <1>6 DEF ListStep

\* The build, and what the campaign makes of it, keep the type invariant.
LEMMA BuildTypes ==
  ASSUME TypeInv, NEW w \in Workers, BuildStep(w)
  PROVE  TypeInv'
<1>0. QueueOK /\ run[w] \in Campaign /\ Fits(run[w])
  BY Split
<1>1. run[w].step # "idle" /\ run[w].job \in Proposals
  BY <1>0 DEF BuildStep, CreateDraft, Fill, AgentSettles, EndBuild, NoTable,
              GiveBack, Finish, Abandon, Fits
<1>2. CASE CreateDraft(w) \/ Fill(w)
  <2>1. QueueOK' /\ UNCHANGED run
    BY <1>0, <1>1, <1>2 DEF CreateDraft, Fill, QueueOK
  <2> QED BY <2>1, Split DEF TypeInv, TypeOK, ErrandFits, QueueOK, Fits
<1>3. CASE AgentSettles(w)
  <2>1. QueueOK'
    BY <1>0, <1>3 DEF AgentSettles, QueueOK
  <2>2. Errand(w, "tick") \/ Errand(w, "skip")
    BY <1>3 DEF AgentSettles
  <2> QED BY <1>1, <2>1, <2>2, ErrandKeeps DEF Errands
<1>4. CASE EndBuild(w)
  <2>1. QueueOK' /\ Step(w, "ended")
    BY <1>0, <1>4 DEF EndBuild, QueueOK
  <2>2. Fits([run[w] EXCEPT !.step = "ended"])
    BY <1>0, <1>4 DEF EndBuild, Fits, Campaign, Requests, Edits
  <2> QED BY <2>1, <2>2, StepKeeps
<1>5. CASE NoTable(w) \/ Abandon(w)
  <2>1. QueueOK' /\ Leave(w)
    BY <1>0, <1>5 DEF NoTable, Abandon, QueueOK
  <2> QED BY <2>1, LeaveKeeps
<1>6. CASE GiveBack(w)
  <2>1. QueueOK'
    BY <1>0, <1>1, <1>6 DEF GiveBack, ForgetRow, QueueOK
  <2>2. RowWritten(w, run[w].job, "release")
    BY <1>6 DEF GiveBack
  <2> QED BY <1>1, <2>1, <2>2, RowKeeps
<1>7. CASE Finish(w)
  <2>1. QueueOK' /\ Errand(w, "finish")
    BY <1>0, <1>7 DEF Finish, QueueOK
  <2> QED BY <1>1, <2>1, ErrandKeeps DEF Errands
<1> QED BY <1>2, <1>3, <1>4, <1>5, <1>6, <1>7 DEF BuildStep

\* Time keeps it.
LEMMA AgeTypes ==
  ASSUME TypeInv, NEW p \in Proposals,
         AgeMark(p) \/ \E w \in Workers : Age(w, p)
  PROVE  TypeInv'
<1>0. /\ QueueOK
      /\ run \in [Workers -> Campaign]
      /\ \A v \in Workers : Fits(run[v])
  BY Split
<1>1. CASE AgeMark(p)
  <2>1. QueueOK'
    BY <1>0, <1>1 DEF AgeMark, QueueOK, Boxes
  <2> DEFINE aged(v) == [run[v] EXCEPT !.copy[p] =
                           IF @ = "claimed" THEN "stale" ELSE @]
  <2>2. ASSUME NEW v \in Workers PROVE aged(v) \in Campaign /\ Fits(aged(v))
    <3>1. run[v] \in Campaign
      BY <1>0
    <3>2. [run[v].copy EXCEPT ![p] = IF @ = "claimed" THEN "stale" ELSE @]
            \in [Proposals -> Boxes]
      BY <3>1 DEF Campaign, Boxes
    <3>3. aged(v) \in Campaign
      BY <3>1, <3>2 DEF Campaign
    <3>4. Fits(aged(v))
      BY <1>0, <3>1 DEF Fits, Campaign
    <3> QED BY <3>3, <3>4
  <2>3. run' = [v \in Workers |-> IF run[v].job = p /\ run[v].errand = "claim"
                                 THEN run[v] ELSE aged(v)]
    BY <1>1 DEF AgeMark
  <2> HIDE DEF aged
  <2>4. run' \in [Workers -> Campaign] /\ \A v \in Workers : Fits(run'[v])
    BY <1>0, <2>2, <2>3
  <2> QED BY <2>1, <2>4, Split DEF TypeInv, TypeOK, ErrandFits, QueueOK, Fits
<1>2. CASE \E w \in Workers : Age(w, p)
  <2>1. PICK w \in Workers : Age(w, p)
    BY <1>2
  <2> DEFINE r == [run[w] EXCEPT !.late = AtWork(w, p) \/ @]
  <2>2. QueueOK'
    BY <1>0, <2>1, NamesOK DEF Age, QueueOK
  <2>3. run[w] \in Campaign
    BY <1>0
  <2>4. (AtWork(w, p) \/ run[w].late) \in BOOLEAN
    OBVIOUS
  <2>5. r \in Campaign
    BY <2>3, <2>4 DEF Campaign
  <2>6. Fits(r)
    BY <1>0, <2>3 DEF Fits, Campaign
  <2>7. run' = [run EXCEPT ![w] = r]
    BY <1>0, <2>1 DEF Age
  <2> QED BY <2>2, <2>5, <2>6, <2>7, OneRecord
<1> QED BY <1>1, <1>2

\* Every step keeps the type invariant.
LEMMA NextTypes == ASSUME TypeInv, [Next]_vars PROVE TypeInv'
<1>1. CASE UNCHANGED vars
  BY <1>1 DEF vars, TypeInv, TypeOK, ErrandFits
<1>2. CASE Next
  BY <1>2, ClaimTypes, ListTypes, BuildTypes, AgeTypes DEF Next
<1> QED BY <1>1, <1>2

\* A family starts well typed.
LEMMA InitTypes == Init => TypeInv
BY IdleType, NamesOK DEF Init, TypeInv, TypeOK, ErrandFits, Blank, Boxes,
     Requests, Edits

\* Type correctness: the boxes written back are boxes, an aged row exists,
\* and a worker between two requests has a proposal in hand.
THEOREM QueueTypeCorrect == Spec => []TypeOK
<1>1. TypeInv => TypeOK
  BY DEF TypeInv
<1> QED BY <1>1, InitTypes, NextTypes, PTL DEF Spec
------------------------------------------------------------------------------
\* A record that puts its worker to no work it had not, nor makes it sure.
Quiet(old, new) ==
  /\ new.errand \notin {"none", "release"} =>
       new.job = old.job /\ old.errand \notin {"none", "release"}
  /\ new.sure => old.sure /\ new.job = old.job /\ new.step = old.step

\* A step that leaves the rows alone and the workers quiet keeps the holders.
LEMMA QuietKeeps ==
  ASSUME HolderInv, UNCHANGED <<site, expired>>,
         \A v \in Workers : Quiet(run[v], run'[v])
  PROVE  RowInv'
<1>1. \A v \in Workers, p \in Proposals : AtWork(v, p)' => AtWork(v, p)
  BY DEF AtWork, Quiet
<1>2. HoldsItsRow'
  BY <1>1 DEF HolderInv, RowInv, HoldsItsRow
<1>3. SureIsExpired' /\ SureTaking'
  BY DEF HolderInv, RowInv, SureIsExpired, SureTaking, Quiet
<1> QED BY <1>2, <1>3 DEF RowInv

\* The same when one record changes.
LEMMA OneQuiet ==
  ASSUME HolderInv, UNCHANGED <<site, expired>>, NEW w \in Workers, NEW r,
         run' = [run EXCEPT ![w] = r], Quiet(run[w], r)
  PROVE  RowInv'
<1>1. run \in [Workers -> Campaign]
  BY Split DEF HolderInv
<1>2. \A v \in Workers : Quiet(run[v], run'[v])
  BY <1>1 DEF Quiet
<1> QED BY <1>2, QuietKeeps

\* Leaving, and going to another step, are such steps: only a worker about to
\* take over is sure.
LEMMA LeaveQuiet ==
  ASSUME HolderInv, UNCHANGED <<site, expired>>, NEW w \in Workers, Leave(w)
  PROVE  RowInv'
<1>1. Quiet(run[w], Idle)
  BY DEF Quiet, Idle
<1> QED BY <1>1, OneQuiet DEF Leave

LEMMA StepQuiet ==
  ASSUME HolderInv, UNCHANGED <<site, expired>>, NEW w \in Workers, NEW s,
         Step(w, s), run[w].step # "taking"
  PROVE  RowInv'
<1> DEFINE r == [run[w] EXCEPT !.step = s]
<1>1. run[w] \in Campaign /\ ~run[w].sure
  BY Split DEF HolderInv, RowInv, SureTaking
<1>2. Quiet(run[w], r)
  BY <1>1 DEF Quiet, Campaign
<1>3. run' = [run EXCEPT ![w] = r]
  BY DEF Step
<1> QED BY <1>2, <1>3, OneQuiet

\* Claiming: an insert finds no row, so nobody is at work on the proposal; a
\* row that is taken over is the one that was read, and had aged out.
LEMMA ClaimHolds ==
  ASSUME HolderInv, NEW w \in Workers, ClaimStep(w)
  PROVE  RowInv'
<1>0. /\ run \in [Workers -> Campaign]
      /\ QueueOK
      /\ \A v \in Workers : Fits(run[v])
  BY Split DEF HolderInv
<1>1. CASE Next_table(w)
  <2>1. PICK p \in Proposals :
          run' = [run EXCEPT ![w].step = "claiming", ![w].job = p]
    BY <1>1 DEF Next_table
  <2> DEFINE r == [run[w] EXCEPT !.step = "claiming", !.job = p]
  <2>2. run[w].errand = "none" /\ ~run[w].sure
    BY <1>0, <1>1 DEF Next_table, Fits, HolderInv, RowInv, SureTaking
  <2>3. Quiet(run[w], r)
    BY <1>0, <2>2 DEF Quiet, Campaign
  <2>4. run' = [run EXCEPT ![w] = r]
    BY <2>1
  <2>5. UNCHANGED <<site, expired>>
    BY <1>1 DEF Next_table
  <2> QED BY <2>3, <2>4, <2>5, OneQuiet
<1>2. CASE Insert(w) \/ TakeOver(w)
  <2> DEFINE p == run[w].job
  <2>1. p \in Proposals
    BY <1>0, <1>2 DEF Insert, TakeOver, Fits
  <2>2. /\ site' = [site EXCEPT ![p] = w]
        /\ RowWritten(w, p, "claim")
    BY <1>2 DEF Insert, TakeOver
  <2>3. /\ p \notin expired'
        /\ \A q \in Proposals \ {p} : q \in expired' <=> q \in expired
    BY <1>0, <1>2 DEF Insert, TakeOver, QueueOK
  <2>4. \A v \in Workers : ~AtWork(v, p)
    <3>1. site[p] = Nobody \/ p \in expired
      BY <1>2 DEF Insert, TakeOver, RowUnchanged, HolderInv, RowInv,
                  SureIsExpired
    <3> QED BY <2>1, <3>1, NamesOK DEF HolderInv, RowInv, HoldsItsRow
  <2>5. /\ run'[w].job = p /\ ~run'[w].sure
        /\ \A v \in Workers :
             v # w => /\ run'[v].job = run[v].job
                      /\ run'[v].step = run[v].step
                      /\ run'[v].errand = run[v].errand
                      /\ run'[v].sure => run[v].sure /\ run[v].job # p
    BY <1>0, <2>2 DEF RowWritten, Campaign
  <2>6. HoldsItsRow'
    BY <1>0, <2>1, <2>2, <2>3, <2>4, <2>5
       DEF HolderInv, RowInv, HoldsItsRow, QueueOK, AtWork
  <2>7. SureIsExpired' /\ SureTaking'
    BY <1>0, <2>3, <2>5
       DEF HolderInv, RowInv, SureIsExpired, SureTaking, QueueOK
  <2> QED BY <2>6, <2>7 DEF RowInv
<1>3. CASE InsertRefused(w)
  <2>1. /\ UNCHANGED <<site, expired>>
        /\ run[w].step # "taking"
        /\ \E s : Step(w, s)
    BY <1>3 DEF InsertRefused
  <2> QED BY <2>1, StepQuiet
<1>4. CASE TooLate(w)
  <2>1. UNCHANGED <<site, expired>> /\ Leave(w)
    BY <1>4 DEF TooLate
  <2> QED BY <2>1, LeaveQuiet
<1>5. CASE AskHolder(w)
  <2>1. UNCHANGED <<site, expired>> /\ run[w].step # "taking"
    BY <1>5 DEF AskHolder
  <2>2. CASE Leave(w) \/ Step(w, "retrying")
    BY <2>1, <2>2, LeaveQuiet, StepQuiet
  <2>3. CASE /\ run[w].job \in expired
             /\ run' = [run EXCEPT ![w].step = "taking", ![w].sure = TRUE]
    <3>1. /\ run'[w].job = run[w].job
          /\ run'[w].errand = run[w].errand
          /\ run'[w].step = "taking"
          /\ \A v \in Workers : v # w => run'[v] = run[v]
      BY <1>0, <2>3 DEF Campaign
    <3>2. HoldsItsRow'
      BY <2>1, <3>1 DEF HolderInv, RowInv, HoldsItsRow, AtWork
    <3>3. ASSUME NEW v \in Workers, run'[v].sure
          PROVE  run'[v].job \in expired' /\ run'[v].step = "taking"
      <4>1. CASE v = w
        BY <2>1, <2>3, <3>1, <4>1
      <4>2. CASE v # w
        BY <2>1, <3>1, <3>3, <4>2 DEF HolderInv, RowInv, SureIsExpired, SureTaking
      <4> QED BY <4>1, <4>2
    <3> QED BY <3>2, <3>3 DEF RowInv, SureIsExpired, SureTaking
  <2> QED BY <1>5, <2>2, <2>3 DEF AskHolder
<1> QED BY <1>1, <1>2, <1>3, <1>4, <1>5 DEF ClaimStep

\* Rewriting the checklist touches no row.
LEMMA ListHolds ==
  ASSUME HolderInv, NEW w \in Workers, ListStep(w)
  PROVE  RowInv'
<1>1. /\ UNCHANGED <<site, expired>>
      /\ run[w].step # "taking"
  BY DEF ListStep, ReadBody, NoSuchLine, PatchBody, ReadAgain, CloseFamily
<1>2. run[w] \in Campaign /\ ~run[w].sure
  BY <1>1, Split DEF HolderInv, RowInv, SureTaking
<1>3. CASE ReadBody(w)
  <2> DEFINE r == [run[w] EXCEPT !.step = "patching",
                     !.copy = [mark EXCEPT ![run[w].job] =
                                 Command[run[w].errand].box]]
  <2>1. run' = [run EXCEPT ![w] = r]
    BY <1>3 DEF ReadBody
  <2>2. Quiet(run[w], r)
    BY <1>2 DEF Quiet, Campaign
  <2> QED BY <1>1, <2>1, <2>2, OneQuiet
<1>4. CASE Leave(w) \/ \E s : Step(w, s)
  BY <1>1, <1>4, LeaveQuiet, StepQuiet
<1>5. CASE PatchBody(w)
  <2>1. CASE \E s : run' = [run EXCEPT ![w].step = s, ![w].copy = Blank]
    <3>1. PICK s : run' = [run EXCEPT ![w].step = s, ![w].copy = Blank]
      BY <2>1
    <3> DEFINE r == [run[w] EXCEPT !.step = s, !.copy = Blank]
    <3>2. Quiet(run[w], r)
      BY <1>2 DEF Quiet, Campaign
    <3>3. run' = [run EXCEPT ![w] = r]
      BY <3>1
    <3> QED BY <1>1, <3>2, <3>3, OneQuiet
  <2> QED BY <1>4, <1>5, <2>1 DEF PatchBody
<1>6. CASE NoSuchLine(w) \/ ReadAgain(w) \/ CloseFamily(w)
  BY <1>4, <1>6 DEF NoSuchLine, ReadAgain, CloseFamily, Done
<1> QED BY <1>3, <1>5, <1>6 DEF ListStep

\* Giving back: whoever gives a proposal back is at work on it, so the row is
\* its own and nobody else is at work on it.
LEMMA BuildHolds ==
  ASSUME HolderInv, NEW w \in Workers, BuildStep(w)
  PROVE  RowInv'
<1>0. /\ run \in [Workers -> Campaign]
      /\ QueueOK
      /\ \A v \in Workers : Fits(run[v])
  BY Split DEF HolderInv
<1>1. CASE CreateDraft(w) \/ Fill(w)
  <2>1. UNCHANGED <<site, expired>> /\ UNCHANGED run
    BY <1>1 DEF CreateDraft, Fill
  <2> QED BY <2>1, QuietKeeps DEF Quiet
<1>2. CASE AgentSettles(w) \/ Finish(w)
  <2>1. UNCHANGED <<site, expired>> /\ run[w].step \in {"building", "ended"}
    BY <1>2 DEF AgentSettles, Finish
  <2>2. PICK e \in {"tick", "skip", "finish"} : Errand(w, e)
    BY <1>2 DEF AgentSettles, Finish
  <2> DEFINE r == [run[w] EXCEPT !.step = "reading", !.errand = e]
  <2>3. ~run[w].sure /\ run[w].errand \notin {"none", "release"}
    BY <1>0, <2>1 DEF HolderInv, RowInv, SureTaking, Fits
  <2>4. Quiet(run[w], r)
    BY <1>0, <2>3 DEF Quiet, Campaign
  <2>5. run' = [run EXCEPT ![w] = r]
    BY <2>2 DEF Errand
  <2> QED BY <2>1, <2>4, <2>5, OneQuiet
<1>3. CASE EndBuild(w)
  <2>1. /\ UNCHANGED <<site, expired>>
        /\ run[w].step # "taking"
        /\ Step(w, "ended")
    BY <1>3 DEF EndBuild
  <2> QED BY <2>1, StepQuiet
<1>4. CASE NoTable(w) \/ Abandon(w)
  <2>1. UNCHANGED <<site, expired>> /\ Leave(w)
    BY <1>4 DEF NoTable, Abandon
  <2> QED BY <2>1, LeaveQuiet
<1>5. CASE GiveBack(w)
  <2> DEFINE p == run[w].job
  <2>1. /\ p \in Proposals
        /\ AtWork(w, p)
    BY <1>0, <1>5 DEF GiveBack, Fits, AtWork
  <2>2. \A v \in Workers : AtWork(v, p) => v = w
    BY <2>1 DEF HolderInv, RowInv, HoldsItsRow
  <2>3. /\ site' = [site EXCEPT ![p] = Nobody]
        /\ expired' = expired \ {p}
        /\ RowWritten(w, p, "release")
    BY <1>5 DEF GiveBack, ForgetRow
  <2>4. /\ run'[w].errand = "release" /\ ~run'[w].sure
        /\ \A v \in Workers :
             v # w => /\ run'[v].job = run[v].job
                      /\ run'[v].step = run[v].step
                      /\ run'[v].errand = run[v].errand
                      /\ run'[v].sure => run[v].sure /\ run[v].job # p
    BY <1>0, <2>3 DEF RowWritten, Campaign
  <2>5. HoldsItsRow'
    BY <1>0, <2>1, <2>2, <2>3, <2>4
       DEF HolderInv, RowInv, HoldsItsRow, QueueOK, AtWork
  <2>6. SureIsExpired' /\ SureTaking'
    BY <1>0, <2>3, <2>4
       DEF HolderInv, RowInv, SureIsExpired, SureTaking, QueueOK
  <2> QED BY <2>5, <2>6 DEF RowInv
<1> QED BY <1>1, <1>2, <1>3, <1>4, <1>5 DEF BuildStep

\* Time: while builds stay within their claims only the row of somebody who
\* is not at work ages out.
LEMMA AgeHolds ==
  ASSUME HolderInv, ~Overrun, NEW p \in Proposals,
         AgeMark(p) \/ \E w \in Workers : Age(w, p)
  PROVE  RowInv'
<1>0. run \in [Workers -> Campaign]
  BY Split DEF HolderInv
<1>1. CASE AgeMark(p)
  <2>1. \A v \in Workers : /\ run'[v].job = run[v].job
                            /\ run'[v].step = run[v].step
                            /\ run'[v].errand = run[v].errand
                            /\ run'[v].sure = run[v].sure
    BY <1>0, <1>1 DEF AgeMark, Campaign
  <2>2. UNCHANGED <<site, expired>>
    BY <1>1 DEF AgeMark
  <2> QED BY <2>1, <2>2, QuietKeeps DEF Quiet
<1>2. CASE \E w \in Workers : Age(w, p)
  <2>1. PICK w \in Workers : Age(w, p)
    BY <1>2
  <2>2. ~AtWork(w, p) /\ site[p] = w /\ expired' = expired \union {p}
    BY <2>1 DEF Age
  <2>3. \A v \in Workers : ~AtWork(v, p)
    BY <2>2 DEF HolderInv, RowInv, HoldsItsRow
  <2>4. \A v \in Workers : /\ run'[v].job = run[v].job
                            /\ run'[v].step = run[v].step
                            /\ run'[v].errand = run[v].errand
                            /\ run'[v].sure = run[v].sure
    BY <1>0, <2>1 DEF Age, Campaign
  <2>5. UNCHANGED site
    BY <2>1 DEF Age
  <2>6. HoldsItsRow'
    BY <2>2, <2>3, <2>4, <2>5 DEF HolderInv, RowInv, HoldsItsRow, AtWork
  <2>7. SureIsExpired' /\ SureTaking'
    BY <2>2, <2>4 DEF HolderInv, RowInv, SureIsExpired, SureTaking
  <2> QED BY <2>6, <2>7 DEF RowInv
<1> QED BY <1>1, <1>2

\* Every step keeps the holders.
LEMMA NextHolds ==
  ASSUME HolderInv, ~Overrun, [Next]_vars
  PROVE  HolderInv'
<1>1. TypeInv'
  BY NextTypes DEF HolderInv
<1>2. RowInv'
  <2>1. CASE UNCHANGED vars
    BY <2>1, QuietKeeps DEF vars, Quiet
  <2>2. CASE Next
    BY <2>2, ClaimHolds, ListHolds, BuildHolds, AgeHolds DEF Next
  <2> QED BY <2>1, <2>2
<1> QED BY <1>1, <1>2 DEF HolderInv

\* Mutual exclusion of the site's claims: however inserts, take-overs of
\* expired rows, releases and dying workers interleave, a proposal has one
\* holder, provided no build outlasts its claim.
THEOREM ProposalHasOneHolder ==
  ASSUME ~Overrun
  PROVE  Spec => []OneHolder
<1>1. Init => HolderInv
  BY InitTypes DEF Init, HolderInv, RowInv, HoldsItsRow, SureIsExpired,
                   SureTaking, AtWork, Idle
<1>2. HolderInv /\ [Next]_vars => HolderInv'
  BY NextHolds
<1>3. HolderInv => OneHolder
  BY DEF HolderInv, RowInv, HoldsItsRow, OneHolder
<1> QED BY <1>1, <1>2, <1>3, PTL DEF Spec
------------------------------------------------------------------------------
\* A tick, in the body or in any copy of it, is of a table that holds values,
\* and so is the tick a worker is about to make.
TickInv ==
  /\ TickedIsFilled
  /\ \A w \in Workers :
       /\ \A p \in Proposals : run[w].copy[p] = "built" => draft[p] = "filled"
       /\ run[w].errand \in {"tick", "finish"} => draft[run[w].job] = "filled"

\* No draft is emptied again.
LEMMA DraftsGrow ==
  ASSUME TypeInv, [Next]_vars, NEW p \in Proposals, draft[p] = "filled"
  PROVE  draft'[p] = "filled"
<1>1. draft \in [Proposals -> {"none", "empty", "filled"}]
  BY Split DEF QueueOK
<1>2. CASE \E w \in Workers : CreateDraft(w) \/ Fill(w)
  BY <1>1, <1>2 DEF CreateDraft, Fill
<1>3. CASE UNCHANGED draft
  BY <1>3
<1> QED BY <1>2, <1>3 DEF vars, Next, ClaimStep, ListStep, BuildStep,
      Next_table, Insert, InsertRefused, AskHolder, TakeOver, TooLate,
      ReadBody, NoSuchLine, PatchBody, ReadAgain, CloseFamily, AgentSettles,
      EndBuild, NoTable, GiveBack, Finish, Abandon, Age, AgeMark

\* A step that ticks nothing new keeps TickInv.
LEMMA NoNewTick ==
  ASSUME TypeInv, TickInv, [Next]_vars,
         \A p \in Proposals : mark'[p] = "built" => draft[p] = "filled",
         \A w \in Workers :
           /\ \A p \in Proposals :
                run'[w].copy[p] = "built" => draft[p] = "filled"
           /\ run'[w].errand \in {"tick", "finish"} =>
                run'[w].job \in Proposals /\ draft[run'[w].job] = "filled"
  PROVE  TickInv'
BY DraftsGrow DEF TickInv, TickedIsFilled

\* Every step keeps TickInv.
LEMMA NextTicks ==
  ASSUME TypeInv, TickInv, [Next]_vars
  PROVE  TickInv'
<1>0. /\ run \in [Workers -> Campaign]
      /\ QueueOK
      /\ \A v \in Workers : Fits(run[v])
  BY Split
<1>1. \A v \in Workers : run[v].errand \in {"tick", "finish"} =>
                            run[v].job \in Proposals
  BY <1>0 DEF Fits, Requests
<1>2. ASSUME UNCHANGED mark,
             NEW w \in Workers, \A v \in Workers : v # w => run'[v] = run[v],
             \A p \in Proposals :
               run'[w].copy[p] = "built" => draft[p] = "filled",
             run'[w].errand \in {"tick", "finish"} =>
               run'[w].job \in Proposals /\ draft[run'[w].job] = "filled"
      PROVE  TickInv'
  BY <1>1, <1>2, NoNewTick DEF TickInv, TickedIsFilled
<1>3. ASSUME UNCHANGED mark,
             \A v \in Workers : /\ run'[v].copy = run[v].copy
                                /\ run'[v].errand \in {"tick", "finish"} =>
                                     /\ run[v].errand = run'[v].errand
                                     /\ run'[v].job = run[v].job
      PROVE  TickInv'
  BY <1>1, <1>3, NoNewTick DEF TickInv, TickedIsFilled
<1>4. ASSUME NEW w \in Workers, Leave(w) \/ (\E s : Step(w, s)), UNCHANGED mark
      PROVE  TickInv'
  BY <1>0, <1>1, <1>2, <1>4 DEF Leave, Step, Idle, Blank, TickInv, Campaign
<1>5. ASSUME NEW w \in Workers, NEW e \in {"claim", "release"},
             NEW p \in Proposals, RowWritten(w, p, e), UNCHANGED mark
      PROVE  TickInv'
  BY <1>0, <1>3, <1>5 DEF RowWritten, Campaign
<1>6. ASSUME NEW w \in Workers, ClaimStep(w) PROVE TickInv'
  <2>1. CASE Next_table(w)
    BY <1>0, <1>1, <1>2, <2>1 DEF Next_table, Fits, TickInv, Campaign
  <2>2. CASE Insert(w) \/ TakeOver(w)
    BY <1>0, <1>5, <2>2 DEF Insert, TakeOver, Fits
  <2>3. CASE InsertRefused(w) \/ TooLate(w)
    BY <1>4, <2>3 DEF InsertRefused, TooLate
  <2>4. CASE AskHolder(w)
    <3>1. CASE run' = [run EXCEPT ![w].step = "taking", ![w].sure = TRUE]
      BY <1>0, <1>3, <2>4, <3>1 DEF AskHolder, Campaign
    <3> QED BY <1>4, <2>4, <3>1 DEF AskHolder
  <2> QED BY <1>6, <2>1, <2>2, <2>3, <2>4 DEF ClaimStep
<1>7. ASSUME NEW w \in Workers, ListStep(w) PROVE TickInv'
  <2>1. CASE ReadBody(w)
    <3> DEFINE p == run[w].job
               body == [mark EXCEPT ![p] = Command[run[w].errand].box]
    <3>1. /\ p \in Proposals
          /\ run[w].errand \in Errands \ {"none"}
      BY <1>0, <2>1 DEF ReadBody, Fits, Edits, Campaign
    <3>2. Command[run[w].errand].box = "built" =>
            run[w].errand \in {"tick", "finish"}
      BY <3>1 DEF Command, Errands, Freed
    <3>3. \A q \in Proposals : body[q] = "built" => draft[q] = "filled"
      BY <1>0, <3>1, <3>2 DEF TickInv, TickedIsFilled, QueueOK
    <3>4. /\ UNCHANGED mark
          /\ run' = [run EXCEPT ![w].step = "patching", ![w].copy = body]
      BY <2>1 DEF ReadBody
    <3>5. /\ run'[w].copy = body
          /\ run'[w].errand = run[w].errand
          /\ run'[w].job = run[w].job
          /\ \A v \in Workers : v # w => run'[v] = run[v]
      BY <1>0, <3>4 DEF Campaign
    <3> QED BY <1>1, <1>2, <3>3, <3>4, <3>5 DEF TickInv
  <2>2. CASE PatchBody(w)
    <3>1. /\ \A v \in Workers : v # w => run'[v] = run[v]
          /\ mark' = run[w].copy
          /\ \/ run'[w] = Idle
             \/ /\ run'[w].copy = Blank
                /\ run'[w].errand = run[w].errand
                /\ run'[w].job = run[w].job
      BY <1>0, <2>2 DEF PatchBody, Leave, Campaign
    <3>2. \A v \in Workers, p \in Proposals :
            run'[v].copy[p] = "built" => draft[p] = "filled"
      BY <3>1 DEF TickInv, Idle, Blank
    <3>3. \A v \in Workers : run'[v].errand \in {"tick", "finish"} =>
            run'[v].job \in Proposals /\ draft[run'[v].job] = "filled"
      BY <1>1, <3>1 DEF TickInv, Idle
    <3>4. \A p \in Proposals : mark'[p] = "built" => draft[p] = "filled"
      BY <3>1 DEF TickInv
    <3> QED BY <3>2, <3>3, <3>4, NoNewTick
  <2>3. CASE NoSuchLine(w) \/ ReadAgain(w) \/ CloseFamily(w)
    BY <1>4, <2>3 DEF NoSuchLine, ReadAgain, CloseFamily, Done
  <2> QED BY <1>7, <2>1, <2>2, <2>3 DEF ListStep
<1>8. ASSUME NEW w \in Workers, BuildStep(w) PROVE TickInv'
  <2>1. CASE CreateDraft(w) \/ Fill(w)
    <3>1. UNCHANGED <<mark, run>>
      BY <2>1 DEF CreateDraft, Fill
    <3> QED BY <1>3, <3>1
  <2>2. CASE AgentSettles(w) \/ Finish(w)
    <3>1. PICK e \in {"tick", "skip", "finish"} :
            /\ Errand(w, e)
            /\ e \in {"tick", "finish"} => draft[run[w].job] = "filled"
      BY <2>2 DEF AgentSettles, Finish, IsTable
    <3>2. run[w].job \in Proposals /\ UNCHANGED mark
      BY <1>0, <2>2 DEF AgentSettles, Finish, Fits
    <3>3. /\ run'[w].copy = run[w].copy
          /\ run'[w].errand = e
          /\ run'[w].job = run[w].job
          /\ \A v \in Workers : v # w => run'[v] = run[v]
      BY <1>0, <3>1 DEF Errand, Campaign
    <3> QED BY <1>2, <3>1, <3>2, <3>3 DEF TickInv
  <2>3. CASE EndBuild(w) \/ NoTable(w) \/ Abandon(w)
    BY <1>4, <2>3 DEF EndBuild, NoTable, Abandon
  <2>4. CASE GiveBack(w)
    BY <1>0, <1>5, <2>4 DEF GiveBack, Fits
  <2> QED BY <1>8, <2>1, <2>2, <2>3, <2>4 DEF BuildStep
<1>9. ASSUME NEW w \in Workers, NEW p \in Proposals, Age(w, p) PROVE TickInv'
  <2>1. /\ UNCHANGED mark
        /\ \A v \in Workers : /\ run'[v].copy = run[v].copy
                              /\ run'[v].errand = run[v].errand
                              /\ run'[v].job = run[v].job
    BY <1>0, <1>9 DEF Age, Campaign
  <2> QED BY <1>3, <2>1
<1>10. ASSUME NEW p \in Proposals, AgeMark(p) PROVE TickInv'
  <2>1. /\ \A q \in Proposals : mark'[q] = "built" => mark[q] = "built"
        /\ \A v \in Workers :
             /\ run'[v].errand = run[v].errand
             /\ run'[v].job = run[v].job
             /\ \A q \in Proposals :
                  run'[v].copy[q] = "built" => run[v].copy[q] = "built"
    BY <1>0, <1>10 DEF AgeMark, Campaign, QueueOK
  <2> QED BY <1>1, <2>1, NoNewTick DEF TickInv, TickedIsFilled
<1>11. CASE UNCHANGED vars
  BY <1>3, <1>11 DEF vars
<1> QED BY <1>6, <1>7, <1>8, <1>9, <1>10, <1>11 DEF Next

\* A line is ticked only for a table that holds values, however many workers
\* overwrite one another's copies of the checklist.
THEOREM TicksAreTables == Spec => []TickedIsFilled
<1>1. Init => TypeInv /\ TickInv
  BY InitTypes DEF Init, TickInv, TickedIsFilled, Blank, Idle
<1>2. TypeInv /\ TickInv /\ [Next]_vars => TypeInv' /\ TickInv'
  BY NextTypes, NextTicks
<1>3. TickInv => TickedIsFilled
  BY DEF TickInv
<1> QED BY <1>1, <1>2, <1>3, PTL DEF Spec
------------------------------------------------------------------------------
(* The queue implements OneBuilder.                                        *)

At(r) == r.errand \notin {"none", "release"}

\* Whoever is at work is the builder.
LEMMA BuilderMeans ==
  ASSUME HolderInv, NEW p \in Proposals
  PROVE  /\ BuilderOf(p) \in Workers \union {Nobody}
         /\ \A w \in Workers : BuilderOf(p) = w <=> AtWork(w, p)
<1>1. site \in [Proposals -> Workers \union {Nobody}]
  BY Split DEF HolderInv, QueueOK
<1>2. \A w \in Workers : AtWork(w, p) => site[p] = w
  BY DEF HolderInv, RowInv, HoldsItsRow
<1> QED BY <1>1, <1>2, NamesOK DEF BuilderOf

\* The same in the next state.
LEMMA BuilderMeansNext ==
  ASSUME HolderInv', NEW p \in Proposals
  PROVE  /\ BuilderOf(p)' \in Workers \union {Nobody}
         /\ \A w \in Workers : BuilderOf(p)' = w <=> AtWork(w, p)'
<1>1. (site \in [Proposals -> Workers \union {Nobody}])'
  BY DEF HolderInv, TypeInv, TypeOK
<1>2. \A w \in Workers : AtWork(w, p)' => site'[p] = w
  BY DEF HolderInv, RowInv, HoldsItsRow
<1> QED BY <1>1, <1>2, NamesOK DEF BuilderOf

\* What a step does to the others: their job and errand stay.
OthersStay(w) ==
  \A v \in Workers \ {w} : /\ run'[v].job = run[v].job
                            /\ run'[v].errand = run[v].errand

\* A worker that gets no new work: a stutter, or the end of a build.
LEMMA RestBuilds ==
  ASSUME HolderInv, HolderInv', UNCHANGED draft, NEW w \in Workers,
         OthersStay(w),
         At(run'[w]) => At(run[w]) /\ run'[w].job = run[w].job
  PROVE  [Builds!Next]_<<[p \in Proposals |-> BuilderOf(p)], draft>>
<1> DEFINE builder == [p \in Proposals |-> BuilderOf(p)]
<1>0. run[w].job \in Proposals \/ ~At(run[w])
  BY Split DEF HolderInv, Fits, At, Requests, Edits, Campaign
<1>1. \A v \in Workers \ {w}, p \in Proposals : AtWork(v, p)' <=> AtWork(v, p)
  BY DEF OthersStay, AtWork
<1>2. CASE At(run'[w]) \/ ~At(run[w])
  <2>1. \A v \in Workers, p \in Proposals : AtWork(v, p)' <=> AtWork(v, p)
    BY <1>1, <1>2 DEF AtWork, At
  <2>2. \A p \in Proposals : BuilderOf(p)' = BuilderOf(p)
    BY <2>1, BuilderMeans, BuilderMeansNext, NamesOK
  <2> QED BY <2>2
<1>3. CASE ~At(run'[w]) /\ At(run[w])
  <2>0. PICK q \in Proposals : q = run[w].job
    BY <1>0, <1>3
  <2>1. AtWork(w, q)
    BY <2>0, <1>3 DEF AtWork, At
  <2>2. \A p \in Proposals \ {q} : ~AtWork(w, p)
    BY <2>0 DEF AtWork
  <2>3. \A p \in Proposals : ~AtWork(w, p)'
    BY <1>3 DEF AtWork, At
  <2>4. \A p \in Proposals \ {q} : BuilderOf(p)' = BuilderOf(p)
    BY <1>1, <2>2, <2>3, BuilderMeans, BuilderMeansNext, NamesOK
  <2>5. BuilderOf(q) = w
    BY <2>1, BuilderMeans
  <2>6. BuilderOf(q)' = Nobody
    BY <1>1, <2>1, <2>3, <2>5, BuilderMeans, BuilderMeansNext, NamesOK
  <2>7. builder' = [builder EXCEPT ![q] = Nobody]
    BY <2>4, <2>6
  <2>8. Builds!End(w, q)
    BY <2>1, <2>5, <2>7 DEF Builds!End
  <2> QED BY <2>1, <2>8 DEF Builds!Next
<1> QED BY <1>2, <1>3

\* A granted claim, of a proposal nobody is at work on, begins a build.
LEMMA GrantBuilds ==
  ASSUME HolderInv, HolderInv', NEW w \in Workers, Insert(w) \/ TakeOver(w)
  PROVE  [Builds!Next]_<<[p \in Proposals |-> BuilderOf(p)], draft>>
<1> DEFINE builder == [p \in Proposals |-> BuilderOf(p)]
<1>0. /\ run \in [Workers -> Campaign]
      /\ Fits(run[w])
  BY Split DEF HolderInv
<1>q. PICK q \in Proposals : q = run[w].job
  BY <1>0 DEF Insert, TakeOver, Fits
<1>1. ~At(run[w])
  BY <1>0 DEF Insert, TakeOver, Fits, At, Requests
<1>2. \A v \in Workers : ~AtWork(v, q)
  <2>1. site[q] = Nobody \/ q \in expired
    BY <1>q DEF Insert, TakeOver, RowUnchanged, HolderInv, RowInv, SureIsExpired
  <2> QED BY <1>1, <2>1, NamesOK DEF HolderInv, RowInv, HoldsItsRow
<1>3. RowWritten(w, q, "claim") /\ UNCHANGED draft
  BY <1>q DEF Insert, TakeOver
<1>4. /\ run'[w].job = q /\ run'[w].errand = "claim"
      /\ OthersStay(w)
  BY <1>q, <1>0, <1>3 DEF RowWritten, Campaign, OthersStay
<1>5. \A v \in Workers \ {w}, p \in Proposals : AtWork(v, p)' <=> AtWork(v, p)
  BY <1>4 DEF OthersStay, AtWork
<1>6. \A p \in Proposals \ {q} : ~AtWork(w, p) /\ ~AtWork(w, p)'
  BY <1>4, <1>q DEF AtWork
<1>7. AtWork(w, q)'
  BY <1>4 DEF AtWork
<1>8. \A p \in Proposals \ {q} : BuilderOf(p)' = BuilderOf(p)
  BY <1>5, <1>6, BuilderMeans, BuilderMeansNext, NamesOK
<1>9. BuilderOf(q) = Nobody /\ BuilderOf(q)' = w
  BY <1>1, <1>2, <1>7, BuilderMeans, BuilderMeansNext, NamesOK
<1>10. builder' = [builder EXCEPT ![q] = w]
  BY <1>8, <1>9
<1>11. Builds!Begin(w, q)
  BY <1>1, <1>3, <1>9, <1>10 DEF Builds!Begin
<1> QED BY <1>1, <1>11 DEF Builds!Next

\* A draft moves in the hands of its builder.
LEMMA DraftBuilds ==
  ASSUME HolderInv, NEW w \in Workers, CreateDraft(w) \/ Fill(w)
  PROVE  [Builds!Next]_<<[p \in Proposals |-> BuilderOf(p)], draft>>
<1> DEFINE builder == [p \in Proposals |-> BuilderOf(p)]
<1>q. PICK q \in Proposals : q = run[w].job
  BY Split DEF HolderInv, CreateDraft, Fill, Fits
<1>1. AtWork(w, q)
  BY <1>q, Split DEF HolderInv, CreateDraft, Fill, Fits, AtWork
<1>2. BuilderOf(q) = w
  BY <1>1, BuilderMeans
<1>3. \A p \in Proposals : BuilderOf(p)' = BuilderOf(p)
  BY DEF CreateDraft, Fill, BuilderOf, AtWork
<1>4. Builds!Build(w, q)
  BY <1>q, <1>1, <1>2, <1>3 DEF Builds!Build, CreateDraft, Fill
<1> QED BY <1>1, <1>4 DEF Builds!Next

\* The other steps of a worker give it no new work.
LEMMA OtherRests ==
  ASSUME HolderInv, NEW w \in Workers,
         \/ Next_table(w) \/ InsertRefused(w) \/ AskHolder(w) \/ TooLate(w)
         \/ ListStep(w) \/ AgentSettles(w) \/ EndBuild(w) \/ NoTable(w)
         \/ GiveBack(w) \/ Finish(w) \/ Abandon(w)
  PROVE  /\ UNCHANGED draft
         /\ OthersStay(w)
         /\ At(run'[w]) => At(run[w]) /\ run'[w].job = run[w].job
<1>0. /\ run \in [Workers -> Campaign]
      /\ Fits(run[w])
  BY Split DEF HolderInv
<1> DEFINE Rests == /\ OthersStay(w)
                    /\ At(run'[w]) => At(run[w]) /\ run'[w].job = run[w].job
<1>1. ASSUME Leave(w) PROVE Rests
  BY <1>0, <1>1 DEF Leave, Idle, OthersStay, At
<1>2. ASSUME NEW s, Step(w, s) PROVE Rests
  BY <1>0, <1>2 DEF Step, Campaign, OthersStay, At
<1>3. CASE Next_table(w)
  <2>1. run[w].errand = "none"
    BY <1>0, <1>3 DEF Next_table, Fits
  <2> QED BY <1>0, <1>3, <2>1 DEF Next_table, Campaign, OthersStay, At
<1>4. CASE InsertRefused(w) \/ TooLate(w) \/ EndBuild(w) \/ NoTable(w)
             \/ Abandon(w)
  BY <1>1, <1>2, <1>4 DEF InsertRefused, TooLate, EndBuild, NoTable, Abandon
<1>5. CASE AskHolder(w)
  <2>1. CASE run' = [run EXCEPT ![w].step = "taking", ![w].sure = TRUE]
    BY <1>0, <1>5, <2>1 DEF AskHolder, Campaign, OthersStay, At
  <2> QED BY <1>1, <1>2, <1>5, <2>1 DEF AskHolder
<1>6. CASE ListStep(w)
  <2>1. UNCHANGED draft
    BY <1>6 DEF ListStep, ReadBody, NoSuchLine, PatchBody, ReadAgain, CloseFamily
  <2>2. CASE ReadBody(w)
    BY <1>0, <2>1, <2>2 DEF ReadBody, Campaign, OthersStay, At
  <2>3. CASE PatchBody(w)
    <3>1. CASE \E s : run' = [run EXCEPT ![w].step = s, ![w].copy = Blank]
      BY <1>0, <2>1, <3>1 DEF Campaign, OthersStay, At
    <3> QED BY <1>1, <2>1, <2>3, <3>1 DEF PatchBody
  <2>4. CASE NoSuchLine(w) \/ ReadAgain(w) \/ CloseFamily(w)
    BY <1>1, <1>2, <2>1, <2>4 DEF NoSuchLine, ReadAgain, CloseFamily, Done
  <2> QED BY <1>6, <2>2, <2>3, <2>4 DEF ListStep
<1>7. CASE AgentSettles(w) \/ Finish(w)
  <2>1. PICK e \in {"tick", "skip", "finish"} : Errand(w, e)
    BY <1>7 DEF AgentSettles, Finish
  <2>2. At(run[w]) /\ UNCHANGED draft
    BY <1>0, <1>7 DEF AgentSettles, Finish, Fits, At
  <2> QED BY <1>0, <2>1, <2>2 DEF Errand, Campaign, OthersStay, At
<1>8. CASE GiveBack(w)
  <2>1. RowWritten(w, run[w].job, "release") /\ UNCHANGED draft
    BY <1>8 DEF GiveBack
  <2> QED BY <1>0, <2>1 DEF RowWritten, Campaign, OthersStay, At
<1> QED BY <1>3, <1>4, <1>5, <1>6, <1>7, <1>8

\* Time gives nobody work.
LEMMA TimeRests ==
  ASSUME HolderInv, NEW w \in Workers, NEW p \in Proposals,
         AgeMark(p) \/ \E v \in Workers : Age(v, p)
  PROVE  /\ UNCHANGED draft
         /\ OthersStay(w)
         /\ run'[w].job = run[w].job /\ run'[w].errand = run[w].errand
<1>1. run \in [Workers -> Campaign]
  BY Split DEF HolderInv
<1>2. CASE AgeMark(p)
  BY <1>1, <1>2 DEF AgeMark, Campaign, OthersStay
<1>3. CASE \E v \in Workers : Age(v, p)
  BY <1>1, <1>3 DEF Age, Campaign, OthersStay
<1> QED BY <1>2, <1>3

LEMMA NextBuilds ==
  ASSUME HolderInv, HolderInv', [Next]_vars
  PROVE  [Builds!Next]_<<[p \in Proposals |-> BuilderOf(p)], draft>>
<1>1. CASE UNCHANGED vars
  BY <1>1 DEF vars, BuilderOf, AtWork
<1>2. CASE Next
  <2>1. ASSUME NEW w \in Workers, ClaimStep(w) \/ ListStep(w) \/ BuildStep(w)
        PROVE  [Builds!Next]_<<[p \in Proposals |-> BuilderOf(p)], draft>>
    BY <2>1, RestBuilds, GrantBuilds, DraftBuilds, OtherRests
       DEF ClaimStep, BuildStep
  <2>2. ASSUME NEW w \in Workers, NEW p \in Proposals, Age(w, p)
        PROVE  [Builds!Next]_<<[q \in Proposals |-> BuilderOf(q)], draft>>
    BY <2>2, RestBuilds, TimeRests DEF At
  <2>3. ASSUME NEW p \in Proposals, AgeMark(p)
        PROVE  [Builds!Next]_<<[q \in Proposals |-> BuilderOf(q)], draft>>
    <3>1. CASE Workers = {}
      <4>1. \A q \in Proposals : BuilderOf(q) = Nobody /\ BuilderOf(q)' = Nobody
        BY <3>1, BuilderMeans, BuilderMeansNext
      <4>2. UNCHANGED draft
        BY <2>3 DEF AgeMark
      <4> QED BY <4>1, <4>2
    <3>2. CASE Workers # {}
      BY <2>3, <3>2, RestBuilds, TimeRests DEF At
    <3> QED BY <3>1, <3>2
  <2> QED BY <1>2, <2>1, <2>2, <2>3 DEF Next
<1> QED BY <1>1, <1>2

\* Any number of workers and proposals: while builds stay within their claims
\* the rows, marks, copies and deaths of the queue implement one builder at a
\* time, and drafts move only in its hands.
THEOREM QueueImplementsOneBuilder ==
  ASSUME ~Overrun
  PROVE  Spec => BuildsOneAtATime
<1>1. Init => HolderInv
  BY InitTypes DEF Init, HolderInv, RowInv, HoldsItsRow, SureIsExpired,
                   SureTaking, AtWork, Idle
<1>2. HolderInv /\ [Next]_vars => HolderInv'
  BY NextHolds
<1>3. Init => Builds!Init
  BY DEF Init, Builds!Init, BuilderOf
<1>4. HolderInv /\ HolderInv' /\ [Next]_vars =>
        [Builds!Next]_<<[p \in Proposals |-> BuilderOf(p)], draft>>
  BY NextBuilds
<1> QED BY <1>1, <1>2, <1>3, <1>4, PTL DEF Spec, BuildsOneAtATime, Builds!Spec
==============================================================================
