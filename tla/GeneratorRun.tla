---- MODULE GeneratorRun ----
(***************************************************************************)
(* A generator of the Python client filling one table: a session imports   *)
(* the generator's code and publishes, perhaps several times; a run reads  *)
(* what the table holds, computes value after value into a cache on the    *)
(* disk, compares each with what it read, sends what differs in batches,   *)
(* and at the end attaches the files.  The process may die anywhere, also  *)
(* in the middle of a line of the cache; requests are refused as busy, get *)
(* lost, or are done while their answer is lost; and people edit the table *)
(* and the code meanwhile.                                                 *)
(*                                                                         *)
(* A value is what _compare reads off it: the number it claims, how many   *)
(* digits, and which spelling of those; two claims meet when they are      *)
(* equal, and of some pairs, expressions mostly, compare makes nothing.    *)
(* Code is its version, and the cache of a generator that has a file is    *)
(* that of its version, because the digest is of the very bytes            *)
(* (generator, digits and bounds are those of one publish line).  Left     *)
(* out: runs given only=, which do not read the cache, and generators that *)
(* produce everything at once.  What the server does with a batch beside   *)
(* other writers is TableCommit.                                           *)
(***************************************************************************)
EXTENDS Integers, Sequences, FiniteSets

CONSTANTS
    Ids,          \* identities of entries
    Values,       \* records with claim, digits and text
    Unreadable,   \* pairs of values compare declines to judge
    Unfit,        \* values a run stops at whatever is stored: without a bound of
                  \* their own under proven, or of no form an entry can have
    Short,        \* values with fewer digits than were asked for
    Cuts,         \* values that a torn document can read as
    Versions,     \* versions of the generator's files
    Enumerates,   \* [Versions -> Seq(Ids)]: what each version enumerates
    Computes,     \* [Versions -> [Ids -> Values]]: what each version computes
    Calls,        \* the flags publish may be called with
    OtherValues,  \* what people write into the table themselves
    None,         \* no entry, no version
    Batch,        \* BATCH_ENTRIES
    Attempts,     \* of _with_retry
    HasFile,      \* is the generator in a file, and not in a notebook?
    LiveEdits,    \* are files edited while a session has them imported?
    MaxEdits, MaxOthers, MaxTears   \* bounds

Flags == {"overwrite", "correcting", "lowering", "removing", "restating"}

ASSUME RunConstants ==
    /\ Values \subseteq [claim : Int, digits : Nat, text : Nat]
    /\ None \notin Values /\ None \notin Versions
    /\ Unreadable \subseteq Values \X Values
    /\ Unfit \subseteq Values /\ Short \subseteq Values /\ Cuts \subseteq Values
    /\ Enumerates \in [Versions -> Seq(Ids)]
    /\ Computes \in [Versions -> [Ids -> Values]]
    /\ Calls \subseteq [Flags -> BOOLEAN]
    /\ OtherValues \subseteq Values \cup {None}
    /\ Batch \in Nat \ {0} /\ Attempts \in Nat \ {0}
    /\ HasFile \in BOOLEAN /\ LiveEdits \in BOOLEAN
    /\ MaxEdits \in Nat /\ MaxOthers \in Nat /\ MaxTears \in Nat

\* removing= deletes what a run did not produce, and a run without overwrite=
\* produces nothing that the table has: asked for both, it empties the table of
\* what was to be left untouched.
RemovalsOverwrite ==
    \A call \in Calls : call["removing"] => call["overwrite"]

VARIABLES
    disk,      \* the version of the files on the disk
    cache,     \* [Versions -> sequence of documents]: the file of each fingerprint
    stored,    \* the table's entries
    attached,  \* the version of the files beside them
    run,       \* the session, and the run in it
    touched,   \* history: entries other people changed since the run began
    others, edits, tears   \* counters

vars == <<disk, cache, stored, attached, run, touched, others, edits, tears>>

Entries == [Ids -> Values \cup {None}]
Nothing == [id \in Ids |-> None]

\* What is left where a process died while it appended "---" and a document: a
\* text that ends with a line; within a line, where the next document, running
\* into it, makes it nonsense or only overrides its keys; or within the rule.
Tears == {"line", "word", "key", "rule"}

\* What a document reads as, which is what was written unless it is torn.
Document == [id : Ids, value : Values \cup {None}, torn : Tears \cup {"no"}]

\* Mutant: reading stops at the first document that will not parse.
ReadableToTear(file, k) == \A j \in 1..k : file[j].torn = "no"

\* _read_document over the chunks of the file.  A line cut short runs into the
\* rule that follows: a word takes the next document along, a key is overridden
\* by it, and at the end of the file both may read as something.  A torn rule is
\* no rule, and joins both neighbours to one text that will not parse.
Readable(file, k) ==
    /\ file[k].torn # "rule"
    /\ file[k].torn \in {"word", "key"} => k = Len(file)
    /\ k > 1 => file[k - 1].torn \notin {"word", "rule"}
    /\ k < Len(file) => file[k + 1].torn # "rule"

\* The document the cache is read by for an entry: the last one of it.
Latest(file, id, k) ==
    /\ file[k].id = id /\ Readable(file, k)
    /\ \A j \in DOMAIN file : j > k /\ file[j].id = id => ~Readable(file, j)

\* RunCache.known
Known(file) ==
    [id \in Ids |->
        IF \E k \in DOMAIN file : Latest(file, id, k)
        THEN file[CHOOSE k \in DOMAIN file : Latest(file, id, k)].value
        ELSE None]

----
(* Comparing, _compare.compare and _judge.                                 *)

Same(old, new) == old = new
Comparable(old, new) == <<old, new>> \notin Unreadable
Contradicts(old, new) == Comparable(old, new) /\ old.claim # new.claim
Coarsens(old, new) == /\ Comparable(old, new) /\ old.claim = new.claim
                      /\ new.digits < old.digits
Agrees(old, new) == /\ Comparable(old, new) /\ old.claim = new.claim
                    /\ old.digits = new.digits /\ old # new

\* Mutant: precision is compared, digits by digits, before the claims.
RefusedCoarser(call, old, new) ==
    \/ new \in Unfit
    \/ new \in Short /\ ~call["lowering"]
    \/ old # None /\ new.digits < old.digits /\ ~call["lowering"]

\* _check_rigour and _check_precision look at the value alone, _judge at the one
\* it would replace; the run stops.
Refused(call, old, new) ==
    \/ new \in Unfit
    \/ new \in Short /\ ~call["lowering"]
    \/ /\ old # None
       /\ \/ Contradicts(old, new) /\ ~call["correcting"]
          \/ Coarsens(old, new) /\ ~call["lowering"]

\* Mutant: only what refines an entry is sent.
SendsRefinements(call, old, new) == old = None \/ new.digits > old.digits

\* Is there anything to say about this entry?
Sends(call, old, new) ==
    \/ old = None
    \/ ~Same(old, new) /\ (Agrees(old, new) => call["restating"])

----
(* The session and its run.                                                *)

Ended(code) ==
    [at |-> "idle", code |-> code, files |-> None,
     call |-> [flag \in Flags |-> FALSE],
     read |-> Nothing, known |-> Nothing, todo |-> <<>>, seen |-> {},
     pending |-> Nothing, attempts |-> 0, added |-> FALSE]

Gone == [Ended(None) EXCEPT !.at = "none"]

\* outcome.left_alone: what the table held and the run did not produce.
LeftAlone == {id \in Ids : run.read[id] # None} \ run.seen

\* A replacement is due once everything is computed.
MustReplace == run.todo = <<>> /\ run.call["removing"] /\ LeftAlone # {}

Pending == {id \in Ids : run.pending[id] # None}

Submitting == run.at \in {"sending", "replacing"}

\* The table after the submission: replaced, or merged by identity.
Submitted ==
    [id \in Ids |->
        CASE run.at = "replacing" /\ id \in run.seen -> run.known[id]
          [] run.at = "replacing" /\ id \notin run.seen -> None
          [] run.at # "replacing" /\ id \in Pending -> run.pending[id]
          [] OTHER -> stored[id]]

\* Everything is sent; the files are next.
Sent ==
    \/ run.at = "attaching"
    \/ /\ run.at = "running" /\ run.todo = <<>>
       /\ Pending = {} /\ ~MustReplace

Init ==
    /\ disk \in Versions
    /\ cache = [version \in Versions |-> <<>>]
    /\ stored = Nothing
    /\ attached = None
    /\ run = Gone
    /\ touched = {}
    /\ others = 0 /\ edits = 0 /\ tears = 0

----
(* The session.                                                            *)

\* Somebody edits the generator.
EditCode ==
    /\ LiveEdits \/ run.at = "none"
    /\ edits < MaxEdits
    /\ disk' \in Versions \ {disk}
    /\ edits' = edits + 1
    /\ UNCHANGED <<cache, stored, attached, run, touched, others, tears>>

\* A process starts and imports it.
Import ==
    /\ run.at = "none"
    /\ run' = Ended(disk)
    /\ UNCHANGED <<disk, cache, stored, attached, touched, others, edits, tears>>

\* Mutant: one cache for the generator, whatever its bytes.
FingerprintOfName(files) == CHOOSE version \in Versions : TRUE

\* fingerprint_of(_digest(files)): which file of the cache belongs to these bytes.
\* The digest of no files is the same for any code.
Fingerprint(files) ==
    IF HasFile THEN files ELSE CHOOSE version \in Versions : TRUE

\* _publish up to its loop: the files are read, the table, and the cache.  A
\* refusal by check_writable leaves everything as it is.
Start(call) ==
    /\ run.at = "idle"
    /\ run' = [Ended(run.code) EXCEPT
                 !.at = "running", !.files = disk, !.call = call,
                 !.read = stored, !.known = Known(cache[Fingerprint(disk)]),
                 !.todo = Enumerates[run.code]]
    /\ touched' = {}
    /\ UNCHANGED <<disk, cache, stored, attached, others, edits, tears>>

Working == run.at = "running" /\ run.todo # <<>>

\* overwrite=False: an entry the table has is not even computed.  A full batch
\* was flushed before.
Skip ==
    /\ Working /\ Cardinality(Pending) < Batch
    /\ ~run.call["overwrite"] /\ run.read[Head(run.todo)] # None
    /\ run' = [run EXCEPT !.todo = Tail(@), !.added = FALSE]
    /\ UNCHANGED <<disk, cache, stored, attached, touched, others, edits, tears>>

\* RunCache.put
Put(id, value, torn) ==
    cache' = [cache EXCEPT ![Fingerprint(run.files)] =
                 Append(@, [id |-> id, value |-> value, torn |-> torn])]

\* One entry: from the cache or computed and cached, judged, and added to the
\* batch if it says something.  Here too a full batch was flushed before.
Produce ==
    /\ Working /\ Cardinality(Pending) < Batch
    /\ LET id == Head(run.todo)
           old == run.read[id]
           value == IF run.known[id] # None THEN run.known[id]
                                            ELSE Computes[run.code][id]
           send == Sends(run.call, old, value)
       IN /\ run.call["overwrite"] \/ old = None
          /\ IF run.known[id] # None THEN UNCHANGED cache ELSE Put(id, value, "no")
          /\ run' = IF Refused(run.call, old, value) THEN Ended(run.code)
                    ELSE [run EXCEPT !.todo = Tail(@),
                                     !.seen = @ \cup {id},
                                     !.known[id] = value,
                                     !.pending[id] = IF send THEN value ELSE @,
                                     !.added = send]
    /\ UNCHANGED <<disk, stored, attached, touched, others, edits, tears>>

\* The last document is cut within a line.
CutShort(file) == file # <<>> /\ file[Len(file)].torn \in {"word", "key"}

\* <<id, value>>: what may be read of a torn document.  Nothing, a part or the
\* whole of the value; an identity cut short may be another's, with no value; and
\* behind a key, either identity may come with either value.
TornReadings(file, id, value) ==
    LET ahead == file[Len(file)]
    IN  ({id} \X (Cuts \cup {None, value})) \cup (Ids \X {None})
            \cup IF CutShort(file) /\ ahead.torn = "key"
                 THEN {id, ahead.id} \X (Cuts \cup {ahead.value}) ELSE {}

\* The process dies in the middle of put.  (A rule torn behind a line cut short
\* only makes that line longer: a document torn like it.)
Tear(torn) ==
    /\ Working /\ Cardinality(Pending) < Batch /\ tears < MaxTears
    /\ LET id == Head(run.todo)
           file == cache[Fingerprint(run.files)]
       IN /\ run.call["overwrite"] \/ run.read[id] = None
          /\ run.known[id] = None
          /\ torn = "rule" => ~CutShort(file)
          /\ \E reads \in TornReadings(file, id, Computes[run.code][id]) :
                Put(reads[1], reads[2], torn)
    /\ run' = Gone /\ tears' = tears + 1
    /\ UNCHANGED <<disk, stored, attached, touched, others, edits>>

\* The process dies elsewhere.
Crash ==
    /\ run.at # "none"
    /\ run' = Gone
    /\ UNCHANGED <<disk, cache, stored, attached, touched, others, edits, tears>>

----
(* Submissions, _with_retry(submit_entries).                               *)

\* _Sender.add after an entry was added, by count or because time has passed;
\* or what is left at the end.
Flush ==
    /\ run.at = "running" /\ Pending # {}
    /\ run.added \/ (run.todo = <<>> /\ ~MustReplace)
    /\ run' = [run EXCEPT !.at = "sending"]
    /\ UNCHANGED <<disk, cache, stored, attached, touched, others, edits, tears>>

\* _Sender.replace_with: what was produced, and nothing else.
Replace ==
    /\ run.at = "running" /\ MustReplace /\ Cardinality(Pending) < Batch
    /\ run' = [run EXCEPT !.at = "replacing"]
    /\ UNCHANGED <<disk, cache, stored, attached, touched, others, edits, tears>>

Delivered ==
    /\ Submitting
    /\ stored' = Submitted
    /\ run' = [run EXCEPT !.pending = Nothing, !.attempts = 0, !.added = FALSE,
                          !.at = IF @ = "replacing" THEN "attaching"
                                                    ELSE "running"]
    /\ UNCHANGED <<disk, cache, attached, touched, others, edits, tears>>

\* It is done, and the answer does not arrive: TransportError ends the run.
AnswerLost ==
    /\ Submitting
    /\ stored' = Submitted
    /\ run' = Ended(run.code)
    /\ UNCHANGED <<disk, cache, attached, touched, others, edits, tears>>

\* It does not arrive, or is refused for what it is.
Undelivered ==
    /\ Submitting
    /\ run' = Ended(run.code)
    /\ UNCHANGED <<disk, cache, stored, attached, touched, others, edits, tears>>

\* Mutant: a busy table is waited for without counting.
BusyForEver ==
    /\ Submitting
    /\ run' = [run EXCEPT !.attempts = (@ + 1) % Attempts]
    /\ UNCHANGED <<disk, cache, stored, attached, touched, others, edits, tears>>

\* Mutant: one attempt more than there are.
BusyOnceMore ==
    /\ Submitting
    /\ run' = IF run.attempts < Attempts
              THEN [run EXCEPT !.attempts = @ + 1] ELSE Ended(run.code)
    /\ UNCHANGED <<disk, cache, stored, attached, touched, others, edits, tears>>

\* ConflictError or RateLimitError: wait and try again, four times in all.
Busy ==
    /\ Submitting
    /\ run' = IF run.attempts + 1 < Attempts
              THEN [run EXCEPT !.attempts = @ + 1] ELSE Ended(run.code)
    /\ UNCHANGED <<disk, cache, stored, attached, touched, others, edits, tears>>

\* _attach, best effort: the run has applied its values either way.
Attach ==
    /\ Sent
    /\ attached' \in {attached} \cup (IF HasFile THEN {run.files} ELSE {})
    /\ run' = Ended(run.code)
    /\ UNCHANGED <<disk, cache, stored, touched, others, edits, tears>>

\* Somebody else writes or deletes an entry.
OtherEdit(id) ==
    /\ others < MaxOthers
    /\ \E value \in OtherValues :
          stored' = [stored EXCEPT ![id] = value]
    /\ touched' = touched \cup {id}
    /\ others' = others + 1
    /\ UNCHANGED <<disk, cache, attached, run, edits, tears>>

RunSteps ==
    \/ Skip \/ Produce \/ Flush \/ Replace
    \/ Delivered \/ AnswerLost \/ Undelivered \/ Busy \/ Attach

Next ==
    \/ EditCode \/ Import
    \/ \E call \in Calls : Start(call)
    \/ RunSteps
    \/ Crash \/ \E torn \in Tears : Tear(torn)
    \/ \E id \in Ids : OtherEdit(id)

Spec == Init /\ [][Next]_vars

\* A process that runs goes on; nothing is assumed of who starts it.
FairSpec == Spec /\ WF_vars(RunSteps)

----
(* Properties.                                                             *)

AtWork == {"running", "sending", "replacing", "attaching"}

RunRecord ==
    [at : {"none", "idle", "running", "sending", "replacing", "attaching"},
     code : Versions \cup {None}, files : Versions \cup {None},
     call : [Flags -> BOOLEAN], read : Entries, known : Entries,
     todo : Seq(Ids), seen : SUBSET Ids, pending : Entries,
     attempts : 0..(Attempts - 1), added : BOOLEAN]

\* Every variable has the values its code can give it; a session has code, a
\* run has files, and nothing waits to be sent beyond one batch.
TypeOK ==
    /\ disk \in Versions
    /\ cache \in [Versions -> Seq(Document)]
    /\ stored \in Entries
    /\ attached \in Versions \cup {None}
    /\ run \in RunRecord
    /\ run.at # "none" => run.code \in Versions
    /\ run.at \in AtWork => run.files \in Versions
    /\ touched \subseteq Ids
    /\ others \in 0..MaxOthers /\ edits \in 0..MaxEdits /\ tears \in 0..MaxTears

\* Is the step one of the run, and not of the people around it?
ByTheRun == others' = others

\* What the torn documents of a file read as, of one entry.
TornValues(file, id) ==
    {file[k].value : k \in {j \in DOMAIN file : file[j].torn # "no" /\ file[j].id = id}}

\* "A cached value can never outlive the code that made it": whatever a run
\* stores was computed by the files it fingerprinted and will attach, through
\* any number of crashes, resumptions, and edits between sessions; or it is what
\* a document of that entry reads as that a crash tore in the cache of those
\* very files (RunCache.known keeps every chunk that parses).
StoredByItsFiles ==
    [][\A id \in Ids :
          ByTheRun /\ stored'[id] # stored[id] =>
              stored'[id] \in {None, Computes[run.files][id]}
                                \cup TornValues(cache[Fingerprint(run.files)], id)]_vars

\* What publish is not asked to do it does not do: an entry it read, and nobody
\* changed since, is replaced by a contradicting value only with correcting,
\* by a coarser one only with lowering, by another spelling only with restating
\* (or as part of a replacement), not at all without overwrite; and it is
\* deleted only with removing, if the generator does not enumerate it.  Where
\* compare cannot read the two, overwrite alone is asked for (_generate.py:715).
ReplacesOnlyAsAsked ==
    [][\A id \in Ids :
          LET old == run.read[id]
              new == stored'[id]
          IN (ByTheRun /\ stored[id] = old /\ old # None /\ new # old) =>
              IF new = None
              THEN /\ run.call["removing"]
                   /\ \A k \in DOMAIN Enumerates[run.code] :
                          Enumerates[run.code][k] # id
              ELSE /\ run.call["overwrite"]
                   /\ Contradicts(old, new) => run.call["correcting"]
                   /\ Coarsens(old, new) => run.call["lowering"]
                   /\ Agrees(old, new) =>
                          run.call["restating"] \/ run.call["removing"]]_vars

\* A run that reports itself applied has its values in the table: everything it
\* produced is there, or the same claim to the same digits, unless somebody
\* else changed that entry while it ran.
AppliedIsStored ==
    Sent => \A id \in run.seen \ touched :
                /\ stored[id] # None
                /\ Same(stored[id], run.known[id]) \/ Agrees(stored[id], run.known[id])

\* Tears took the document j from who read the file before k was written: just
\* before it, or in the rule behind it, or by a stump that names the same entry.
LostToTears(file, j, k) ==
    \/ j > 1 /\ file[j - 1].torn \in {"word", "rule"}
    \/ j < Len(file) /\ file[j + 1].torn = "rule"
    \/ \E i \in j + 1 .. k - 1 :
           file[i].torn # "no" /\ file[i].id = file[j].id /\ file[i].value = None

\* A value is paid for once: however often the run dies and is started again,
\* no cache holds two whole documents of an entry, unless a torn one took the
\* first from whoever reads the file (RunCache.put, RunCache.known).
PaidOnce ==
    \A version \in Versions :
        LET file == cache[version]
        IN \A j, k \in DOMAIN file :
               /\ j < k /\ file[j].id = file[k].id
               /\ file[j].torn = "no" /\ file[k].torn = "no"
               => LostToTears(file, j, k)

\* A run ends, however busy the table is: it applies, or gives up and says so.
RunEnds == run.at \in AtWork ~> run.at \in {"none", "idle"}

\* A run at work has something to do, whatever the batch, the table and the
\* answers left it with: a step of RunSteps, by the guards of its actions.
RunGoesOn ==
    run.at \in AtWork =>
        \/ Submitting \/ Sent
        \/ Working /\ Cardinality(Pending) < Batch
        \/ run.at = "running" /\ MustReplace /\ Cardinality(Pending) < Batch
        \/ /\ run.at = "running" /\ Pending # {}
           /\ run.added \/ (run.todo = <<>> /\ ~MustReplace)

\* At most so many steps are left of a run: for an entry, its computation and
\* the attempts to send the batch it fills; at the end the last batch or the
\* replacement, and the files.
StepsLeft ==
    LET Each == Attempts + 3
        Ahead == Len(run.todo) * Each
    IN  CASE run.at = "running" ->
                 Ahead + Each + (IF Pending = {} THEN 0 ELSE Attempts + 2)
          [] run.at = "sending" -> Ahead + Each + Attempts + 1 - run.attempts
          [] run.at = "replacing" -> Attempts + 2 - run.attempts
          [] run.at = "attaching" -> 1
          [] OTHER -> 0

\* A run is as long as what it enumerates and no longer: each of its steps
\* leaves it fewer, nothing beside it adds any, and it starts with a number
\* known beforehand, however often the table is busy (_generate.py _with_retry).
RunIsShort ==
    [][/\ RunSteps => StepsLeft' < StepsLeft
       /\ run.at \in AtWork => StepsLeft' <= StepsLeft
       /\ run.at = "idle" =>
              StepsLeft' <= (Len(Enumerates[run.code]) + 1) * (Attempts + 3)]_vars
====
