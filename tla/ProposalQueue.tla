---------------------------- MODULE ProposalQueue ----------------------------
(***************************************************************************)
(* Building the proposals of one family with several workers               *)
(* (agents/campaign.sh and agents/queue.py).                               *)
(*                                                                         *)
(* A worker takes a proposal twice over: a row on the site, whose unique   *)
(* constraint decides (claim in numberdb_app/api.py), and a mark on the    *)
(* checklist of the family's issue, which is rewritten as a whole from a   *)
(* copy read before.  Both age out ninety minutes after they were made.    *)
(***************************************************************************)
CONSTANTS
  Workers,    \* the campaigns, by the name each of them claims under
  Proposals,  \* the lines of the family's checklist
  Nobody,     \* no worker
  Nothing,    \* no proposal
  Overrun     \* TRUE: a build may outlast its claim

ASSUME NamesOK ==
  /\ Nobody \notin Workers
  /\ Nothing \notin Proposals
  /\ Overrun \in BOOLEAN

VARIABLES
  mark,     \* the box of each line of the issue
  closed,   \* the issue is closed
  site,     \* ProposalClaim: who holds each proposal, or Nobody
  expired,  \* the proposals whose row is past its ninety minutes
  draft,    \* the table that holds the proposal's title
  run       \* what each worker is doing

vars == <<mark, closed, site, expired, draft, run>>
------------------------------------------------------------------------------
(* "stale" is a [~] older than CLAIM_MINUTES; "skipped" is every way a     *)
(* line is settled without a table of its own.                             *)

Boxes == {"open", "claimed", "stale", "built", "skipped"}
Settled == {"built", "skipped"}

Requests == {"claiming", "asking", "retrying", "asking again", "taking"}
Edits == {"reading", "patching", "rereading", "closing"}
Errands == {"none", "claim", "tick", "skip", "finish", "release"}

\* errand: what the worker holds the proposal for, and why it edits the body;
\* copy: the body as it is about to write it; sure: the row it read is still
\* that row, the same key and claimed_at; late: ninety minutes are past.
Campaign == [step : {"idle", "building", "ended"} \union Requests \union Edits,
             job : Proposals \union {Nothing},
             errand : Errands,
             copy : [Proposals -> Boxes],
             sure : BOOLEAN,
             late : BOOLEAN]

Blank == [p \in Proposals |-> "open"]
Idle == [step |-> "idle", job |-> Nothing, errand |-> "none", copy |-> Blank,
         sure |-> FALSE, late |-> FALSE]

TypeOK ==
  /\ mark \in [Proposals -> Boxes]
  /\ closed \in BOOLEAN
  /\ site \in [Proposals -> Workers \union {Nobody}]
  /\ expired \in SUBSET {p \in Proposals : site[p] # Nobody}
  /\ draft \in [Proposals -> {"none", "empty", "filled"}]
  /\ run \in [Workers -> Campaign]
  /\ \A w \in Workers : run[w].step # "idle" => run[w].job \in Proposals

\* A family as cmd_post files it.
Init ==
  /\ mark = Blank
  /\ closed = FALSE
  /\ site = [p \in Proposals |-> Nobody]
  /\ expired = {}
  /\ draft = [p \in Proposals |-> "none"]
  /\ run = [w \in Workers |-> Idle]
------------------------------------------------------------------------------
(* Which lines are offered.                                                *)

\* Mutant: a claim on the checklist never ages out.
OpenOnly(box) == box = "open"

\* waiting: unsettled, or claimed and abandoned.
Waiting(box) == box \in {"open", "stale"}

\* unheld: the same, minus what somebody else is holding on the site.
Offered(w, p) ==
  /\ Waiting(mark[p])
  /\ site[p] \in {Nobody, w} \/ p \in expired

\* From the moment a worker is told the claim is its own until it gives the
\* proposal back or goes on to the next.
AtWork(w, p) == run[w].job = p /\ run[w].errand \notin {"none", "release"}

Step(w, step) == run' = [run EXCEPT ![w].step = step]
Leave(w) == run' = [run EXCEPT ![w] = Idle]
Errand(w, errand) ==
  run' = [run EXCEPT ![w].step = "reading", ![w].errand = errand]

\* The row of p is written: whoever read it before has an old claimed_at.
RowWritten(w, p, errand) ==
  run' = [v \in Workers |->
            IF v = w
            THEN [run[w] EXCEPT !.step = "reading", !.errand = errand,
                                !.sure = FALSE]
            ELSE IF run[v].job = p THEN [run[v] EXCEPT !.sure = FALSE]
            ELSE run[v]]

\* next_table: which of the offered lines comes first is the batch's ranking.
Next_table(w) ==
  /\ run[w].step = "idle"
  /\ ~closed
  /\ \E p \in Proposals :
       /\ Offered(w, p)
       /\ run' = [run EXCEPT ![w].step = "claiming", ![w].job = p]
  /\ UNCHANGED <<mark, closed, site, expired, draft>>
------------------------------------------------------------------------------
(* POST /api/claim, a statement at a time.                                 *)

\* The insert succeeds: 201.
Insert(w) ==
  /\ run[w].step \in {"claiming", "retrying"}
  /\ LET p == run[w].job IN
       /\ site[p] = Nobody
       /\ site' = [site EXCEPT ![p] = w]
       /\ RowWritten(w, p, "claim")
  /\ UNCHANGED <<mark, closed, expired, draft>>

\* The unique constraint refuses it.
InsertRefused(w) ==
  /\ run[w].step \in {"claiming", "retrying"}
  /\ site[run[w].job] # Nobody
  /\ Step(w, IF run[w].step = "claiming" THEN "asking" ELSE "asking again")
  /\ UNCHANGED <<mark, closed, site, expired, draft>>

\* Who has it: nobody any more, a live claim (409), or an expired one.
AskHolder(w) ==
  /\ run[w].step \in {"asking", "asking again"}
  /\ LET p == run[w].job IN
       \/ /\ site[p] = Nobody
          /\ IF run[w].step = "asking" THEN Step(w, "retrying") ELSE Leave(w)
       \/ site[p] # Nobody /\ p \notin expired /\ Leave(w)
       \/ /\ p \in expired
          /\ run' = [run EXCEPT ![w].step = "taking", ![w].sure = TRUE]
  /\ UNCHANGED <<mark, closed, site, expired, draft>>

\* Mutant: the update names the row and not the claimed_at it read.
RowStillThere(w) == site[run[w].job] # Nobody

\* The filter of the update: pk and claimed_at as they were read.
RowUnchanged(w) == run[w].sure

\* One update renews the row, if it is still the one that was read.
TakeOver(w) ==
  /\ run[w].step = "taking"
  /\ RowUnchanged(w)
  /\ LET p == run[w].job IN
       /\ site' = [site EXCEPT ![p] = w]
       /\ expired' = expired \ {p}
       /\ RowWritten(w, p, "claim")
  /\ UNCHANGED <<mark, closed, draft>>

\* It matched no row: another worker was quicker.
TooLate(w) ==
  /\ run[w].step = "taking"
  /\ ~RowUnchanged(w)
  /\ Leave(w)
  /\ UNCHANGED <<mark, closed, site, expired, draft>>
------------------------------------------------------------------------------
(* Rewriting the checklist: read the body, change one line, write the body *)
(* back.  What each command looks for, what it writes, and where the       *)
(* worker is afterwards.                                                   *)

\* Mutant: a box that parse_family does not know.
FreedUnreadable == "free"

\* The box of a released line.
Freed == "open"

Command == [claim   |-> [on |-> {"open", "stale"}, box |-> "claimed",
                         after |-> "building"],
            tick    |-> [on |-> {"open", "claimed", "stale"}, box |-> "built",
                         after |-> "ended"],
            skip    |-> [on |-> {"open", "claimed", "stale"}, box |-> "skipped",
                         after |-> "ended"],
            finish  |-> [on |-> {"open", "claimed", "stale"}, box |-> "built",
                         after |-> "idle"],
            release |-> [on |-> {"claimed", "stale"}, box |-> Freed,
                         after |-> "idle"]]

Done(w, after) == IF after = "idle" THEN Leave(w) ELSE Step(w, after)

\* The line is found; the copy with its new box is what will be written.
ReadBody(w) ==
  /\ run[w].step = "reading"
  /\ LET p == run[w].job
         command == Command[run[w].errand] IN
       /\ mark[p] \in command.on
       /\ run' = [run EXCEPT ![w].step = "patching",
                             ![w].copy = [mark EXCEPT ![p] = command.box]]
  /\ UNCHANGED <<mark, closed, site, expired, draft>>

\* No such line.  A claim is then given up, though the site's row stays.
NoSuchLine(w) ==
  /\ run[w].step = "reading"
  /\ LET command == Command[run[w].errand] IN
       /\ mark[run[w].job] \notin command.on
       /\ Done(w, IF run[w].errand = "claim" THEN "idle" ELSE command.after)
  /\ UNCHANGED <<mark, closed, site, expired, draft>>

\* PATCH of the whole body.
PatchBody(w) ==
  /\ run[w].step = "patching"
  /\ mark' = run[w].copy
  /\ LET after == IF run[w].errand \in {"claim", "release"}
                  THEN Command[run[w].errand].after ELSE "rereading" IN
       IF after = "idle" THEN Leave(w)
       ELSE run' = [run EXCEPT ![w].step = after, ![w].copy = Blank]
  /\ UNCHANGED <<closed, site, expired, draft>>

\* cmd_built reads the family again, and closes it when nothing is waiting.
ReadAgain(w) ==
  /\ run[w].step = "rereading"
  /\ IF \E p \in Proposals : Waiting(mark[p])
     THEN Done(w, Command[run[w].errand].after) ELSE Step(w, "closing")
  /\ UNCHANGED <<mark, closed, site, expired, draft>>

CloseFamily(w) ==
  /\ run[w].step = "closing"
  /\ closed' = TRUE
  /\ Done(w, Command[run[w].errand].after)
  /\ UNCHANGED <<mark, site, expired, draft>>
------------------------------------------------------------------------------
(* The build run, which is an agent following its prompt.                  *)

\* The draft takes the title, which is unique.  A refused title changes
\* nothing; the agent then stops, or goes on with the empty draft it is told
\* about.
CreateDraft(w) ==
  /\ run[w].step = "building"
  /\ draft[run[w].job] = "none"
  /\ draft' = [draft EXCEPT ![run[w].job] = "empty"]
  /\ UNCHANGED <<mark, closed, site, expired, run>>

Fill(w) ==
  /\ run[w].step = "building"
  /\ draft[run[w].job] = "empty"
  /\ draft' = [draft EXCEPT ![run[w].job] = "filled"]
  /\ UNCHANGED <<mark, closed, site, expired, run>>

\* It ticks its own table, or settles the line without one.
AgentSettles(w) ==
  /\ run[w].step = "building"
  /\ \/ draft[run[w].job] = "filled" /\ Errand(w, "tick")
     \/ Errand(w, "skip")
  /\ UNCHANGED <<mark, closed, site, expired, draft>>

EndBuild(w) ==
  /\ run[w].step = "building"
  /\ Step(w, "ended")
  /\ UNCHANGED <<mark, closed, site, expired, draft>>
------------------------------------------------------------------------------
(* What the campaign makes of it.                                          *)

\* Mutant: a table number in the transcript is a built table.
AnyDraft(state) == state # "none"

\* The site is asked whether the draft holds values.
IsTable(state) == state = "filled"

\* No table number in the transcript: the claim is left to age out.
NoTable(w) ==
  /\ run[w].step = "ended"
  /\ Leave(w)
  /\ UNCHANGED <<mark, closed, site, expired, draft>>

\* DELETE /api/claim names the proposal and nobody.
ForgetRow(p) ==
  /\ site' = [site EXCEPT ![p] = Nobody]
  /\ expired' = expired \ {p}

\* A draft nobody filled: the proposal goes back, first on the site.
GiveBack(w) ==
  /\ run[w].step = "ended"
  /\ draft[run[w].job] # "none"
  /\ ~IsTable(draft[run[w].job])
  /\ ForgetRow(run[w].job)
  /\ RowWritten(w, run[w].job, "release")
  /\ UNCHANGED <<mark, closed, draft>>

Finish(w) ==
  /\ run[w].step = "ended"
  /\ IsTable(draft[run[w].job])
  /\ Errand(w, "finish")
  /\ UNCHANGED <<mark, closed, site, expired, draft>>

\* At any point the process may die, gh may fail, or the build run may; its
\* supervisor starts it again under the same name.
Abandon(w) ==
  /\ run[w].step # "idle"
  /\ Leave(w)
  /\ UNCHANGED <<mark, closed, site, expired, draft>>
------------------------------------------------------------------------------
(* Ninety minutes.                                                         *)

\* Past the claim w made of p: its row, if that is still there, and its hold.
Age(w, p) ==
  /\ \/ site[p] = w /\ p \notin expired
     \/ AtWork(w, p) /\ ~run[w].late
  /\ AtWork(w, p) => Overrun
  /\ expired' = expired \union {q \in {p} : site[q] = w}
  /\ run' = [run EXCEPT ![w].late = AtWork(w, p) \/ @]
  /\ UNCHANGED <<mark, closed, site, draft>>

\* Past the time written on the line, in the body and in the copies of it.
AgeMark(p) ==
  /\ mark[p] = "claimed"
  /\ Overrun \/ \A w \in Workers : ~AtWork(w, p)
  /\ mark' = [mark EXCEPT ![p] = "stale"]
  /\ run' = [w \in Workers |->
               IF run[w].job = p /\ run[w].errand = "claim" THEN run[w]
               ELSE [run[w] EXCEPT !.copy[p] =
                       IF @ = "claimed" THEN "stale" ELSE @]]
  /\ UNCHANGED <<closed, site, expired, draft>>
------------------------------------------------------------------------------
ClaimStep(w) ==
  \/ Next_table(w) \/ Insert(w) \/ InsertRefused(w) \/ AskHolder(w)
  \/ TakeOver(w) \/ TooLate(w)

ListStep(w) ==
  ReadBody(w) \/ NoSuchLine(w) \/ PatchBody(w) \/ ReadAgain(w) \/ CloseFamily(w)

BuildStep(w) ==
  \/ CreateDraft(w) \/ Fill(w) \/ AgentSettles(w) \/ EndBuild(w)
  \/ NoTable(w) \/ GiveBack(w) \/ Finish(w) \/ Abandon(w)

Next ==
  \/ \E w \in Workers : ClaimStep(w) \/ ListStep(w) \/ BuildStep(w)
  \/ \E w \in Workers, p \in Proposals : Age(w, p)
  \/ \E p \in Proposals : AgeMark(p)

Spec == Init /\ [][Next]_vars

\* Time passes.  Nothing is assumed of the workers.
FairSpec ==
  /\ Spec
  /\ \A w \in Workers, p \in Proposals : WF_vars(Age(w, p))
  /\ \A p \in Proposals : WF_vars(AgeMark(p))
------------------------------------------------------------------------------
(* Properties.                                                             *)

\* Two workers never both work on a proposal under claims that have not aged
\* out: whatever races on the insert, on taking over an expired claim and on
\* giving one back (claim in api.py, take and give_back in queue.py).
OneHolder ==
  \A p \in Proposals : \A v, w \in Workers :
    AtWork(v, p) /\ AtWork(w, p) /\ ~run[v].late /\ ~run[w].late => v = w

\* A line is ticked only when the table of that title holds values, however
\* the copies of the body overwrite one another: a draft that was claimed and
\* never filled is given back (campaign.sh after a build).
TickedIsFilled ==
  \A p \in Proposals : mark[p] = "built" => draft[p] = "filled"

\* While the family is open, a proposal its worker left behind is settled or
\* offered again in the end, to every worker: neither the row nor the mark of
\* a dead worker holds it for ever (stale_claim, and expiry in claim).
LeftBehindComesBack ==
  \A p \in Proposals :
    []<>(\/ closed
         \/ mark[p] \in Settled
         \/ \E w \in Workers : AtWork(w, p)
         \/ \A w \in Workers : Offered(w, p))

\* The builder of a proposal is the worker of its row, while it is at work.
BuilderOf(p) ==
  IF site[p] # Nobody /\ AtWork(site[p], p) THEN site[p] ELSE Nobody

Builds == INSTANCE OneBuilder
            WITH builder <- [p \in Proposals |-> BuilderOf(p)], draft <- draft

\* Through the row, the mark, the copies of the body, expiry and deaths, each
\* proposal is built by one worker at a time, who took it when it was free;
\* and a draft moves on only in its hands (claim in api.py, campaign.sh).
BuildsOneAtATime == Builds!Spec
==============================================================================
