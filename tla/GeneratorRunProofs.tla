---- MODULE GeneratorRunProofs ----
(***************************************************************************)
(* Theorems about GeneratorRun, for any entries, versions of the code and  *)
(* calls, any number of crashes, edits and torn writes.                    *)
(***************************************************************************)
EXTENDS GeneratorRun, FiniteSetTheorems, WellFoundedInduction, TLAPS

USE DEF AtWork

----
(* Type correctness.                                                       *)

\* What a session without a run looks like.
LEMMA EndedType ==
    ASSUME NEW code \in Versions \cup {None}
    PROVE  /\ Ended(code) \in RunRecord
           /\ Ended(code).at = "idle" /\ Ended(code).code = code
  <1>1. Nothing \in Entries
    BY DEF Nothing, Entries
  <1>2. [flag \in Flags |-> FALSE] \in [Flags -> BOOLEAN]
    OBVIOUS
  <1>3. 0 \in 0..(Attempts - 1)
    BY RunConstants
  <1>4. <<>> \in Seq(Ids)
    OBVIOUS
  <1> QED
    BY <1>1, <1>2, <1>3, <1>4 DEF Ended, RunRecord

LEMMA GoneType == Gone \in RunRecord /\ Gone.at = "none"
  BY EndedType DEF Gone, RunRecord

\* What is read from the cache is a value for some of the entries.
LEMMA KnownType ==
    ASSUME NEW file \in Seq(Document)
    PROVE  Known(file) \in Entries
  <1> SUFFICES ASSUME NEW id \in Ids
               PROVE  Known(file)[id] \in Values \cup {None}
    BY DEF Known, Entries
  <1>1. CASE \E k \in DOMAIN file : Latest(file, id, k)
    <2> DEFINE k == CHOOSE k \in DOMAIN file : Latest(file, id, k)
    <2>1. k \in DOMAIN file
      BY <1>1
    <2>2. file[k] \in Document
      BY <2>1
    <2>3. file[k].value \in Values \cup {None}
      BY <2>2 DEF Document
    <2> QED
      BY <1>1, <2>3 DEF Known
  <1>2. CASE ~ \E k \in DOMAIN file : Latest(file, id, k)
    BY <1>2 DEF Known
  <1> QED
    BY <1>1, <1>2

\* Some version's cache belongs to any files.
LEMMA FingerprintType ==
    ASSUME NEW files \in Versions
    PROVE  Fingerprint(files) \in Versions
  BY DEF Fingerprint

\* One more document is one more document.
LEMMA PutType ==
    ASSUME TypeOK, run.files \in Versions,
           NEW id \in Ids, NEW value \in Values \cup {None},
           NEW torn \in Tears \cup {"no"},
           Put(id, value, torn)
    PROVE  cache' \in [Versions -> Seq(Document)]
  <1>1. [id |-> id, value |-> value, torn |-> torn] \in Document
    BY DEF Document
  <1>2. Fingerprint(run.files) \in Versions
    BY FingerprintType
  <1> HIDE DEF Fingerprint
  <1> QED
    BY <1>1, <1>2 DEF TypeOK, Put

\* A torn document reads as an identity and a value, or no value.
LEMMA TornReadingsType ==
    ASSUME NEW file \in Seq(Document), NEW id \in Ids, NEW value \in Values,
           NEW reads \in TornReadings(file, id, value)
    PROVE  reads[1] \in Ids /\ reads[2] \in Values \cup {None}
  <1>1. CutShort(file) => file[Len(file)] \in Document
    BY DEF CutShort
  <1>2. CutShort(file) =>
           /\ file[Len(file)].id \in Ids
           /\ file[Len(file)].value \in Values \cup {None}
    BY <1>1 DEF Document
  <1> QED
    BY <1>2, RunConstants DEF TornReadings

\* The entry in hand is an entry, and so is its value.
LEMMA HeadType ==
    ASSUME TypeOK, Working
    PROVE  /\ Head(run.todo) \in Ids
           /\ Tail(run.todo) \in Seq(Ids)
           /\ Computes[run.code][Head(run.todo)] \in Values
           /\ run.code \in Versions /\ run.files \in Versions
  <1>1. run.todo \in Seq(Ids) /\ run.todo # <<>>
    BY DEF TypeOK, RunRecord, Working
  <1>2. run.code \in Versions /\ run.files \in Versions
    BY DEF TypeOK, Working
  <1> QED
    BY <1>1, <1>2, RunConstants

\* The table after a submission holds entries.
LEMMA SubmittedType == TypeOK => Submitted \in Entries
  <1> SUFFICES ASSUME TypeOK PROVE Submitted \in Entries
    OBVIOUS
  <1>1. run.known \in Entries /\ run.pending \in Entries /\ stored \in Entries
    BY DEF TypeOK, RunRecord
  <1> QED
    BY <1>1 DEF Submitted, Entries, Pending

LEMMA TypeInit == Init => TypeOK
  <1> SUFFICES ASSUME Init PROVE TypeOK
    OBVIOUS
  <1>1. cache \in [Versions -> Seq(Document)]
    BY DEF Init
  <1>2. stored \in Entries
    BY DEF Init, Nothing, Entries
  <1> QED
    BY <1>1, <1>2, GoneType, RunConstants DEF Init, TypeOK

\* Every step keeps the types.
LEMMA TypeNext == TypeOK /\ [Next]_vars => TypeOK'
  <1> SUFFICES ASSUME TypeOK, [Next]_vars PROVE TypeOK'
    OBVIOUS
  <1>0. run \in RunRecord
    BY DEF TypeOK
  <1>1. CASE EditCode
    BY <1>1, RunConstants DEF EditCode, TypeOK
  <1>2. CASE Import
    BY <1>2, EndedType DEF Import, TypeOK
  <1>3. ASSUME NEW call \in Calls, Start(call) PROVE TypeOK'
    <2>1. /\ Ended(run.code) \in RunRecord /\ Ended(run.code).code = run.code
          /\ run.code \in Versions
      BY <1>0, <1>3, EndedType DEF Start, TypeOK, RunRecord
    <2>2. Known(cache[Fingerprint(disk)]) \in Entries
      BY KnownType, FingerprintType DEF TypeOK
    <2>3. call \in [Flags -> BOOLEAN]
      BY RunConstants
    <2>4. Enumerates[run.code] \in Seq(Ids)
      BY <2>1, RunConstants
    <2>5. /\ run'.at = "running" /\ run'.code = run.code /\ run'.files = disk
          /\ run' \in RunRecord
      BY <1>3, <2>1, <2>2, <2>3, <2>4 DEF Start, TypeOK, RunRecord
    <2> QED
      BY <1>3, <2>1, <2>5 DEF Start, TypeOK
  <1>4. CASE Skip
    <2>1. Tail(run.todo) \in Seq(Ids)
      BY <1>4, HeadType DEF Skip
    <2>2. /\ run' \in RunRecord
          /\ run'.at = run.at /\ run'.code = run.code /\ run'.files = run.files
      BY <1>0, <1>4, <2>1 DEF Skip, RunRecord
    <2> QED
      BY <1>4, <2>2 DEF Skip, TypeOK
  <1>5. CASE Produce
    <2> DEFINE id == Head(run.todo)
               value == IF run.known[id] # None THEN run.known[id]
                                                ELSE Computes[run.code][id]
               send == Sends(run.call, run.read[id], value)
    <2>1. /\ id \in Ids /\ Tail(run.todo) \in Seq(Ids)
          /\ Computes[run.code][id] \in Values
          /\ run.code \in Versions /\ run.files \in Versions
      BY <1>5, HeadType DEF Produce
    <2>2. value \in Values
      BY <1>0, <2>1 DEF RunRecord, Entries
    <2>3. cache' \in [Versions -> Seq(Document)]
      <3>1. CASE run.known[id] # None
        BY <1>5, <3>1 DEF Produce, TypeOK
      <3>2. CASE run.known[id] = None
        <4>1. Put(id, value, "no")
          BY <1>5, <3>2 DEF Produce
        <4> HIDE DEF id, value
        <4> QED
          BY <2>1, <2>2, <4>1, PutType
      <3> QED
        BY <3>1, <3>2
    <2>4. /\ run' \in RunRecord
          /\ run'.at # "none" => run'.code \in Versions
          /\ run'.at \in AtWork => run'.files \in Versions
      <3>1. CASE Refused(run.call, run.read[id], value)
        <4>1. run' = Ended(run.code)
          BY <1>5, <3>1 DEF Produce
        <4> QED
          BY <2>1, <4>1, EndedType
      <3>2. CASE ~Refused(run.call, run.read[id], value)
        <4>1. run' = [run EXCEPT !.todo = Tail(@), !.seen = @ \cup {id},
                         !.known[id] = value,
                         !.pending[id] = IF send THEN value ELSE @,
                         !.added = send]
          BY <1>5, <3>2 DEF Produce
        <4>2. send \in BOOLEAN
          BY <1>0 DEF Sends, Same, Agrees, RunRecord, Flags
        <4> HIDE DEF id, value, send
        <4>3. [run.known EXCEPT ![id] = value] \in Entries
          BY <1>0, <2>1, <2>2 DEF RunRecord, Entries
        <4>4. [run.pending EXCEPT ![id] = IF send THEN value ELSE @] \in Entries
          BY <1>0, <2>1, <2>2 DEF RunRecord, Entries
        <4>5. /\ run'.at = run.at /\ run'.code = run.code
              /\ run'.files = run.files
          BY <1>0, <4>1 DEF RunRecord
        <4>6. run' = [run EXCEPT !.todo = Tail(run.todo),
                         !.seen = run.seen \cup {id},
                         !.known = [run.known EXCEPT ![id] = value],
                         !.pending = [run.pending EXCEPT
                                        ![id] = IF send THEN value ELSE @],
                         !.added = send]
          BY <1>0, <4>1 DEF RunRecord
        <4>7. run' \in RunRecord
          BY <1>0, <2>1, <4>2, <4>3, <4>4, <4>6 DEF RunRecord
        <4> QED
          BY <2>1, <4>5, <4>7
      <3> QED
        BY <3>1, <3>2
    <2> QED
      BY <1>5, <2>3, <2>4 DEF Produce, TypeOK
  <1>6. ASSUME NEW torn \in Tears, Tear(torn) PROVE TypeOK'
    <2> DEFINE id == Head(run.todo)
    <2>1. /\ id \in Ids /\ Computes[run.code][id] \in Values
          /\ run.files \in Versions
      BY <1>6, HeadType DEF Tear
    <2>2. PICK reads \in TornReadings(cache[Fingerprint(run.files)], id,
                                      Computes[run.code][id]) :
             Put(reads[1], reads[2], torn)
      BY <1>6 DEF Tear
    <2>f. cache[Fingerprint(run.files)] \in Seq(Document)
      BY <2>1, FingerprintType DEF TypeOK
    <2>r. reads[1] \in Ids /\ reads[2] \in Values \cup {None}
      BY <2>1, <2>f, TornReadingsType
    <2>3. cache' \in [Versions -> Seq(Document)]
      BY <2>1, <2>2, <2>r, PutType
    <2>4. tears' \in 0..MaxTears
      BY <1>6, RunConstants DEF Tear, TypeOK
    <2> QED
      BY <1>6, <2>3, <2>4, GoneType DEF Tear, TypeOK
  <1>7. CASE Crash
    BY <1>7, GoneType DEF Crash, TypeOK
  <1>8. CASE Delivered
    <2>1. stored' \in Entries
      BY <1>8, SubmittedType DEF Delivered
    <2>2. Nothing \in Entries
      BY DEF Nothing, Entries
    <2>3. run.at \in AtWork
      BY <1>8 DEF Delivered, Submitting
    <2>4. 0 \in 0..(Attempts - 1)
      BY RunConstants
    <2>5. PICK at \in {"running", "attaching"} :
             run' = [run EXCEPT !.pending = Nothing, !.attempts = 0,
                                !.added = FALSE, !.at = at]
      BY <1>8 DEF Delivered
    <2>6. /\ run' \in RunRecord
          /\ run'.code = run.code /\ run'.files = run.files
      BY <1>0, <2>2, <2>4, <2>5 DEF RunRecord
    <2> QED
      BY <1>8, <2>1, <2>3, <2>6 DEF Delivered, TypeOK
  <1>9. CASE AnswerLost
    BY <1>0, <1>9, SubmittedType, EndedType
       DEF AnswerLost, TypeOK, RunRecord, Submitting
  <1>10. CASE Undelivered
    BY <1>0, <1>10, EndedType
       DEF Undelivered, TypeOK, RunRecord, Submitting
  <1>11. CASE Busy
    <2>1. run.code \in Versions /\ run.files \in Versions
      BY <1>11 DEF Busy, TypeOK, Submitting
    <2>2. CASE run.attempts + 1 < Attempts
      <3>1. run.attempts + 1 \in 0..(Attempts - 1)
        BY <1>0, <2>2, RunConstants DEF RunRecord
      <3>2. run' = [run EXCEPT !.attempts = run.attempts + 1]
        BY <1>11, <2>2 DEF Busy
      <3>3. /\ run' \in RunRecord /\ run'.code = run.code
            /\ run'.files = run.files /\ run'.at = run.at
        BY <1>0, <3>1, <3>2 DEF RunRecord
      <3> QED
        BY <1>11, <2>1, <3>3 DEF Busy, TypeOK
    <2>3. CASE ~(run.attempts + 1 < Attempts)
      BY <1>11, <2>1, <2>3, EndedType DEF Busy, TypeOK
    <2> QED
      BY <2>2, <2>3
  <1>12. CASE Attach
    <2>1. run.code \in Versions /\ run.files \in Versions
      BY <1>12 DEF Attach, TypeOK, Sent
    <2> QED
      BY <1>12, <2>1, EndedType DEF Attach, TypeOK
  <1>13. ASSUME NEW id \in Ids, OtherEdit(id) PROVE TypeOK'
    <2>1. stored' \in Entries
      BY <1>13, RunConstants DEF OtherEdit, TypeOK, Entries
    <2>2. others' \in 0..MaxOthers
      BY <1>13, RunConstants DEF OtherEdit, TypeOK
    <2> QED
      BY <1>13, <2>1, <2>2 DEF OtherEdit, TypeOK
  <1>14. ASSUME NEW at \in AtWork, run.at \in AtWork,
                run' = [run EXCEPT !.at = at],
                UNCHANGED <<disk, cache, stored, attached, touched, others,
                            edits, tears>>
         PROVE  TypeOK'
    <2>1. /\ run' \in RunRecord
          /\ run'.code = run.code /\ run'.files = run.files
      BY <1>0, <1>14 DEF RunRecord
    <2>2. run.code \in Versions /\ run.files \in Versions
      BY <1>14 DEF TypeOK
    <2> QED
      BY <1>14, <2>1, <2>2 DEF TypeOK
  <1>15. CASE Flush \/ Replace
    BY <1>14, <1>15 DEF Flush, Replace
  <1>16. CASE UNCHANGED vars
    BY <1>16 DEF vars, TypeOK
  <1> QED
    BY <1>1, <1>2, <1>3, <1>4, <1>5, <1>6, <1>7, <1>8, <1>9, <1>10, <1>11,
       <1>12, <1>13, <1>15, <1>16 DEF Next, RunSteps

\* The state of a run, the cache and the table keep their types: in particular
\* no request of it is repeated more often than _with_retry allows.
THEOREM RunTypeCorrect == Spec => []TypeOK
  BY TypeInit, TypeNext, PTL DEF Spec

\* A run with entries still to compute or to send.
Live == {"running", "sending", "replacing"}

USE DEF Live

----
(* Values come from the files they are stored with.                        *)

\* What the cache and the run hold for the code of a session that nobody edits.
CacheHonest ==
    \A version \in Versions : \A k \in DOMAIN cache[version] :
        cache[version][k].torn = "no" =>
            cache[version][k].value = Computes[version][cache[version][k].id]

SessionCurrent ==
    /\ run.at # "none" => run.code = disk
    /\ run.at \in AtWork => run.files = run.code

\* What the code computes of an entry, or a torn document reads as.
MayBe(files, file, id) == {None, Computes[files][id]} \cup TornValues(file, id)

\* The run r holds nothing else.
HoldsHonest(r, file) ==
    \A id \in Ids : /\ r.known[id] \in MayBe(r.files, file, id)
                    /\ r.pending[id] \in MayBe(r.files, file, id)

HeldHonest == run.at \in Live => HoldsHonest(run, cache[run.files])

CodeInv == TypeOK /\ CacheHonest /\ SessionCurrent /\ HeldHonest

\* An honest file is remembered honestly.
LEMMA KnownHonest ==
    ASSUME CodeInv, NEW version \in Versions, NEW id \in Ids
    PROVE  Known(cache[version])[id] \in MayBe(version, cache[version], id)
  <1> DEFINE file == cache[version]
  <1>1. CASE \E k \in DOMAIN file : Latest(file, id, k)
    <2> DEFINE k == CHOOSE k \in DOMAIN file : Latest(file, id, k)
    <2>1. k \in DOMAIN file /\ Latest(file, id, k)
      BY <1>1
    <2>2. /\ file[k].id = id
          /\ file[k].torn = "no" => file[k].value = Computes[version][id]
      BY <2>1 DEF Latest, CodeInv, CacheHonest
    <2>3. Known(file)[id] = file[k].value
      BY <1>1 DEF Known
    <2>4. file[k].torn # "no" => file[k].value \in TornValues(file, id)
      BY <2>1, <2>2 DEF TornValues
    <2> QED
      BY <2>2, <2>3, <2>4 DEF MayBe
  <1>2. CASE ~ \E k \in DOMAIN file : Latest(file, id, k)
    BY <1>2 DEF Known, MayBe
  <1> QED
    BY <1>1, <1>2

\* A document more leaves what the others read as.
LEMMA AppendTorn ==
    ASSUME NEW file \in Seq(Document), NEW new \in Document, NEW id \in Ids
    PROVE  TornValues(file, id) \subseteq TornValues(Append(file, new), id)
  <1> SUFFICES ASSUME NEW k \in DOMAIN file, file[k].torn # "no", file[k].id = id
               PROVE  file[k].value \in TornValues(Append(file, new), id)
    BY DEF TornValues
  <1>1. k \in DOMAIN Append(file, new) /\ Append(file, new)[k] = file[k]
    OBVIOUS
  <1> QED
    BY <1>1 DEF TornValues

\* Caching what the fingerprinted code computes, or a torn document of whatever
\* it may read as, keeps the cache honest and what a run holds of it.
LEMMA PutHonest ==
    ASSUME HasFile, CodeInv, run.files \in Versions,
           NEW id \in Ids, NEW value \in Values \cup {None},
           NEW torn \in Tears \cup {"no"},
           torn = "no" => value = Computes[run.files][id],
           Put(id, value, torn)
    PROVE  /\ CacheHonest'
           /\ \A i \in Ids : MayBe(run.files, cache[run.files], i)
                               \subseteq MayBe(run.files, cache'[run.files], i)
  <1> DEFINE new == [id |-> id, value |-> value, torn |-> torn]
  <1>1. cache' = [cache EXCEPT ![run.files] = Append(cache[run.files], new)]
    BY DEF Put, Fingerprint
  <1>2. cache \in [Versions -> Seq(Document)]
    BY DEF CodeInv, TypeOK
  <1>3. new \in Document
    BY DEF Document
  <1>4. CacheHonest'
    <2> SUFFICES ASSUME NEW version \in Versions, NEW k \in DOMAIN cache'[version],
                        cache'[version][k].torn = "no"
                 PROVE  cache'[version][k].value
                            = Computes[version][cache'[version][k].id]
      BY DEF CacheHonest
    <2>3. CASE version # run.files
      <3>1. cache'[version] = cache[version]
        BY <1>1, <1>2, <2>3
      <3> QED
        BY <3>1 DEF CodeInv, CacheHonest
    <2>4. CASE version = run.files
      <3>1. cache'[version] = Append(cache[version], new)
        BY <1>1, <1>2, <2>4
      <3>2. cache[version] \in Seq(Document) /\ Len(cache[version]) \in Nat
        BY <1>2
      <3>3. CASE k = Len(cache[version]) + 1
        <4>1. cache'[version][k] = new
          BY <3>1, <3>2, <3>3
        <4> QED
          BY <2>4, <4>1
      <3>4. CASE k # Len(cache[version]) + 1
        <4>1. k \in DOMAIN cache[version] /\ cache'[version][k] = cache[version][k]
          BY <3>1, <3>2, <3>4
        <4> QED
          BY <4>1 DEF CodeInv, CacheHonest
      <3> QED
        BY <3>3, <3>4
    <2> QED
      BY <2>3, <2>4
  <1>5. ASSUME NEW i \in Ids
        PROVE  MayBe(run.files, cache[run.files], i)
                   \subseteq MayBe(run.files, cache'[run.files], i)
    <2>1. cache'[run.files] = Append(cache[run.files], new)
      BY <1>1, <1>2
    <2>2. cache[run.files] \in Seq(Document)
      BY <1>2
    <2> HIDE DEF new
    <2>3. TornValues(cache[run.files], i) \subseteq TornValues(cache'[run.files], i)
      BY <1>3, <2>1, <2>2, AppendTorn
    <2> QED
      BY <2>3 DEF MayBe
  <1> QED
    BY <1>4, <1>5

LEMMA CodeInit == Init => CodeInv
  BY TypeInit, GoneType
     DEF Init, CodeInv, CacheHonest, SessionCurrent, HeldHonest

\* Without edits under a living session, every step keeps the values honest.
LEMMA CodeNext ==
    ASSUME ~LiveEdits, HasFile
    PROVE  CodeInv /\ [Next]_vars => CodeInv'
  <1> SUFFICES ASSUME CodeInv, [Next]_vars
               PROVE  CacheHonest' /\ SessionCurrent' /\ HeldHonest'
    BY TypeNext DEF CodeInv
  <1> USE DEF CodeInv
  <1>0. run \in RunRecord
    BY DEF TypeOK
  <1>1. CASE EditCode
    BY <1>1 DEF EditCode, CacheHonest, SessionCurrent, HeldHonest, HoldsHonest, TypeOK
  <1>2. CASE Import
    BY <1>2, EndedType DEF Import, TypeOK, CacheHonest, SessionCurrent, HeldHonest, HoldsHonest
  <1>3. ASSUME NEW call \in Calls, Start(call)
        PROVE  CacheHonest' /\ SessionCurrent' /\ HeldHonest'
    <2>1. /\ run'.at = "running" /\ run'.code = run.code /\ run'.files = disk
          /\ run'.known = Known(cache[disk]) /\ run'.pending = Nothing
      BY <1>3 DEF Start, Ended, Fingerprint
    <2>2. /\ run.code = disk /\ disk \in Versions
          /\ disk' = disk /\ cache' = cache
      BY <1>3 DEF Start, SessionCurrent, TypeOK
    <2>3. HoldsHonest(run', cache[disk])
      BY <2>1, <2>2, KnownHonest DEF Nothing, HoldsHonest, MayBe
    <2> QED
      BY <2>1, <2>2, <2>3 DEF CacheHonest, SessionCurrent, HeldHonest, HoldsHonest
  <1>4. CASE Skip
    <2>1. /\ run'.at = run.at /\ run'.code = run.code /\ run'.files = run.files
          /\ run'.known = run.known /\ run'.pending = run.pending
          /\ disk' = disk /\ cache' = cache
      BY <1>0, <1>4 DEF Skip, RunRecord
    <2> QED
      BY <2>1 DEF CacheHonest, SessionCurrent, HeldHonest, HoldsHonest
  <1>5. CASE Produce
    <2> DEFINE id == Head(run.todo)
               value == IF run.known[id] # None THEN run.known[id]
                                                ELSE Computes[run.code][id]
               send == Sends(run.call, run.read[id], value)
    <2>1. /\ id \in Ids /\ run.code \in Versions /\ run.files \in Versions
          /\ run.at = "running" /\ run.files = run.code /\ run.code = disk
          /\ disk' = disk
      BY <1>5, HeadType DEF Produce, Working, SessionCurrent
    <2>h. HoldsHonest(run, cache[run.files])
      BY <2>1 DEF HeldHonest
    <2>2. value \in MayBe(run.files, cache[run.files], id)
      BY <2>1, <2>h DEF HoldsHonest, MayBe
    <2>3. /\ CacheHonest'
          /\ \A i \in Ids : MayBe(run.files, cache[run.files], i)
                             \subseteq MayBe(run.files, cache'[run.files], i)
      <3>1. CASE run.known[id] # None
        BY <1>5, <3>1 DEF Produce, CacheHonest
      <3>2. CASE run.known[id] = None
        <4>1. Put(id, value, "no")
          BY <1>5, <3>2 DEF Produce
        <4>2. value = Computes[run.files][id] /\ value \in Values
          BY <2>1, <3>2, RunConstants
        <4> HIDE DEF id, value
        <4> QED
          BY <2>1, <4>1, <4>2, PutHonest
      <3> QED
        BY <3>1, <3>2
    <2>4. SessionCurrent' /\ HeldHonest'
      <3>1. CASE Refused(run.call, run.read[id], value)
        <4>1. run' = Ended(run.code)
          BY <1>5, <3>1 DEF Produce
        <4> QED
          BY <2>1, <4>1, EndedType DEF SessionCurrent, HeldHonest, HoldsHonest
      <3>2. CASE ~Refused(run.call, run.read[id], value)
        <4>1. run' = [run EXCEPT !.todo = Tail(@), !.seen = @ \cup {id},
                         !.known[id] = value,
                         !.pending[id] = IF send THEN value ELSE @,
                         !.added = send]
          BY <1>5, <3>2 DEF Produce
        <4> HIDE DEF id, value, send
        <4>2. /\ run'.at = run.at /\ run'.code = run.code
              /\ run'.files = run.files
              /\ run'.known = [run.known EXCEPT ![id] = value]
              /\ run'.pending = [run.pending EXCEPT
                                   ![id] = IF send THEN value ELSE @]
          BY <1>0, <4>1 DEF RunRecord
        <4>3. run.known \in Entries /\ run.pending \in Entries
          BY <1>0 DEF RunRecord
        <4>4. HoldsHonest(run', cache'[run.files])
          <5> SUFFICES ASSUME NEW i \in Ids
                       PROVE  /\ run'.known[i]
                                    \in MayBe(run.files, cache'[run.files], i)
                              /\ run'.pending[i]
                                    \in MayBe(run.files, cache'[run.files], i)
            BY <4>2 DEF HoldsHonest
          <5>1. /\ run.known[i] \in MayBe(run.files, cache'[run.files], i)
                /\ run.pending[i] \in MayBe(run.files, cache'[run.files], i)
            BY <2>3, <2>h DEF HoldsHonest
          <5>2. i = id => value \in MayBe(run.files, cache'[run.files], i)
            BY <2>2, <2>3
          <5>3. /\ run'.known[i] = IF i = id THEN value ELSE run.known[i]
                /\ run'.pending[i] = IF i = id /\ send THEN value ELSE run.pending[i]
            BY <4>2, <4>3 DEF Entries
          <5> QED
            BY <5>1, <5>2, <5>3
        <4> QED
          BY <2>1, <4>2, <4>4 DEF SessionCurrent, HeldHonest
      <3> QED
        BY <3>1, <3>2
    <2> QED
      BY <2>3, <2>4
  <1>6. ASSUME NEW torn \in Tears, Tear(torn)
        PROVE  CacheHonest' /\ SessionCurrent' /\ HeldHonest'
    <2> DEFINE id == Head(run.todo)
    <2>1. /\ id \in Ids /\ run.files \in Versions /\ run.files = run.code
      BY <1>6, HeadType DEF Tear, Working, SessionCurrent
    <2>2. PICK reads \in TornReadings(cache[Fingerprint(run.files)], id,
                                      Computes[run.code][id]) :
             Put(reads[1], reads[2], torn)
      BY <1>6 DEF Tear
    <2>c. /\ cache[Fingerprint(run.files)] \in Seq(Document)
          /\ Computes[run.code][id] \in Values
      BY <1>6, <2>1, HeadType, FingerprintType DEF TypeOK, Tear
    <2>r. reads[1] \in Ids /\ reads[2] \in Values \cup {None}
      BY <2>1, <2>c, TornReadingsType
    <2>t. torn \in Tears \cup {"no"} /\ torn # "no"
      BY DEF Tears
    <2>3. CacheHonest'
      BY <2>1, <2>2, <2>r, <2>t, PutHonest
    <2> QED
      BY <1>6, <2>3, GoneType DEF Tear, SessionCurrent, HeldHonest, HoldsHonest
  <1>7. CASE Crash
    BY <1>7, GoneType DEF Crash, CacheHonest, SessionCurrent, HeldHonest, HoldsHonest
  <1>8. CASE Delivered
    <2>1. run.at \in Live
      BY <1>8 DEF Delivered, Submitting
    <2>2. /\ run'.code = run.code /\ run'.files = run.files
          /\ run'.at \in AtWork
          /\ run'.known = run.known /\ run'.pending = Nothing
          /\ disk' = disk /\ cache' = cache
      BY <1>0, <1>8, <2>1 DEF Delivered, RunRecord
    <2> QED
      BY <2>1, <2>2 DEF CacheHonest, SessionCurrent, HeldHonest, HoldsHonest, MayBe, Nothing
  <1>9. ASSUME run' = Ended(run.code), run.at # "none",
               disk' = disk, cache' = cache
        PROVE  CacheHonest' /\ SessionCurrent' /\ HeldHonest'
    BY <1>0, <1>9, EndedType
       DEF CacheHonest, SessionCurrent, HeldHonest, RunRecord
  <1>10. CASE AnswerLost \/ Undelivered
    BY <1>9, <1>10 DEF AnswerLost, Undelivered, Submitting
  <1>11. CASE Busy
    <2>1. run.at \in Live /\ disk' = disk /\ cache' = cache
      BY <1>11 DEF Busy, Submitting
    <2>2. CASE run.attempts + 1 < Attempts
      <3>1. run' = [run EXCEPT !.attempts = run.attempts + 1]
        BY <1>11, <2>2 DEF Busy
      <3>2. /\ run'.at = run.at /\ run'.code = run.code
            /\ run'.files = run.files
            /\ run'.known = run.known /\ run'.pending = run.pending
        BY <1>0, <3>1 DEF RunRecord
      <3> QED
        BY <2>1, <3>2 DEF CacheHonest, SessionCurrent, HeldHonest, HoldsHonest
    <2>3. CASE ~(run.attempts + 1 < Attempts)
      BY <1>9, <1>11, <2>1, <2>3 DEF Busy
    <2> QED
      BY <2>2, <2>3
  <1>12. CASE Attach
    BY <1>9, <1>12 DEF Attach, Sent
  <1>13. ASSUME NEW id \in Ids, OtherEdit(id)
         PROVE  CacheHonest' /\ SessionCurrent' /\ HeldHonest'
    BY <1>13 DEF OtherEdit, CacheHonest, SessionCurrent, HeldHonest, HoldsHonest
  <1>14. CASE Flush \/ Replace
    <2>1. /\ run.at = "running" /\ run'.at \in Live
          /\ run'.code = run.code /\ run'.files = run.files
          /\ run'.known = run.known /\ run'.pending = run.pending
          /\ disk' = disk /\ cache' = cache
      BY <1>0, <1>14 DEF Flush, Replace, RunRecord
    <2> QED
      BY <2>1 DEF CacheHonest, SessionCurrent, HeldHonest, HoldsHonest
  <1>15. CASE UNCHANGED vars
    BY <1>15 DEF vars, CacheHonest, SessionCurrent, HeldHonest, HoldsHonest
  <1> QED
    BY <1>1, <1>2, <1>3, <1>4, <1>5, <1>6, <1>7, <1>8, <1>10, <1>11,
       <1>12, <1>13, <1>14, <1>15 DEF Next, RunSteps

\* The steps that change the table, other people's edits apart.
LEMMA OnlySubmissionsStore ==
    ASSUME TypeOK, [Next]_vars, ByTheRun, stored' # stored
    PROVE  Submitting /\ stored' = Submitted
  <1>1. ASSUME NEW id \in Ids, OtherEdit(id) PROVE FALSE
    BY <1>1 DEF OtherEdit, ByTheRun, TypeOK
  <1> QED
    BY <1>1 DEF Next, RunSteps, vars, EditCode, Import, Start, Skip, Produce,
       Tear, Crash, Flush, Replace, Delivered, AnswerLost, Undelivered, Busy,
       Attach

\* While files are edited only between sessions, and the generator is in one,
\* every value a run stores was computed by the files it attaches, resumed from
\* the cache or not, or is what a torn document of theirs reads as.
THEOREM RunStoresItsFiles ==
    ASSUME ~LiveEdits, HasFile
    PROVE  Spec => StoredByItsFiles
  <1>1. CodeInv /\ [Next]_vars =>
           [\A id \in Ids : ByTheRun /\ stored'[id] # stored[id] =>
               stored'[id] \in {None, Computes[run.files][id]}
                     \cup TornValues(cache[Fingerprint(run.files)], id)]_vars
    <2> SUFFICES ASSUME CodeInv, [Next]_vars, NEW id \in Ids, ByTheRun,
                        stored'[id] # stored[id]
                 PROVE  stored'[id] \in MayBe(run.files, cache[run.files], id)
      BY DEF MayBe, Fingerprint
    <2>1. Submitting /\ stored' = Submitted
      BY OnlySubmissionsStore DEF CodeInv
    <2>2. run.at \in Live
      BY <2>1 DEF Submitting
    <2>3. /\ run.known[id] \in MayBe(run.files, cache[run.files], id)
          /\ run.pending[id] \in MayBe(run.files, cache[run.files], id)
          /\ None \in MayBe(run.files, cache[run.files], id)
      BY <2>2 DEF CodeInv, HeldHonest, HoldsHonest, MayBe
    <2> QED
      BY <2>1, <2>3 DEF Submitted, Pending
  <1> QED
    BY CodeInit, CodeNext, <1>1, PTL DEF Spec, StoredByItsFiles

----
(* What a run was not asked to do it does not do.                          *)

\* What was produced was judged against what the run read, what waits to be
\* sent is what was produced, and what is neither produced nor still to come
\* is not enumerated.
Judged(r) ==
    /\ r.call \in Calls
    /\ \A id \in r.seen :
          /\ r.known[id] # None /\ ~Refused(r.call, r.read[id], r.known[id])
          /\ r.call["overwrite"] \/ r.read[id] = None
    /\ \A id \in Ids : r.pending[id] # None =>
          /\ id \in r.seen /\ r.pending[id] = r.known[id]
          /\ Sends(r.call, r.read[id], r.pending[id])
    /\ r.call["overwrite"] =>
          \A k \in DOMAIN Enumerates[r.code] :
              \/ Enumerates[r.code][k] \in r.seen
              \/ \E j \in DOMAIN r.todo : r.todo[j] = Enumerates[r.code][k]
    /\ r.at = "replacing" => r.call["removing"] /\ r.todo = <<>>

JudgeInv == TypeOK /\ (run.at \in Live => Judged(run))

\* The entry in hand, and those after it, are those that were left.
LEMMA TailKeeps ==
    ASSUME NEW S, NEW s \in Seq(S), s # <<>>, NEW j \in DOMAIN s
    PROVE  s[j] = Head(s) \/ \E i \in DOMAIN Tail(s) : Tail(s)[i] = s[j]
  <1>1. CASE j = 1
    BY <1>1
  <1>2. CASE j # 1
    <2>1. j - 1 \in DOMAIN Tail(s) /\ Tail(s)[j - 1] = s[j]
      BY <1>2
    <2> QED
      BY <2>1
  <1> QED
    BY <1>1, <1>2

LEMMA JudgeInit == Init => JudgeInv
  BY TypeInit, GoneType DEF Init, JudgeInv

LEMMA JudgeNext == JudgeInv /\ [Next]_vars => JudgeInv'
  <1> SUFFICES ASSUME JudgeInv, [Next]_vars, run'.at \in Live
               PROVE  Judged(run')
    BY TypeNext DEF JudgeInv
  <1> USE DEF JudgeInv
  <1>0. run \in RunRecord
    BY DEF TypeOK
  <1>1. CASE EditCode \/ Import \/ Crash
    BY <1>1, EndedType, GoneType DEF EditCode, Import, Crash, TypeOK
  <1>2. ASSUME NEW call \in Calls, Start(call) PROVE Judged(run')
    <2>1. /\ run'.call = call /\ run'.seen = {} /\ run'.pending = Nothing
          /\ run'.code = run.code /\ run'.todo = Enumerates[run.code]
          /\ run'.at = "running"
      BY <1>2 DEF Start, Ended
    <2> QED
      BY <2>1 DEF Judged, Nothing
  <1>3. CASE Skip
    <2>1. /\ run.at = "running" /\ ~run.call["overwrite"]
      BY <1>3 DEF Skip, Working
    <2>2. /\ run'.call = run.call /\ run'.seen = run.seen
          /\ run'.read = run.read /\ run'.at = run.at
          /\ run'.known = run.known /\ run'.pending = run.pending
      BY <1>0, <1>3 DEF Skip, RunRecord
    <2> QED
      BY <2>1, <2>2 DEF Judged
  <1>4. CASE Produce
    <2> DEFINE id == Head(run.todo)
               value == IF run.known[id] # None THEN run.known[id]
                                                ELSE Computes[run.code][id]
               send == Sends(run.call, run.read[id], value)
    <2>1. /\ id \in Ids /\ run.at = "running"
          /\ run.todo \in Seq(Ids) /\ run.todo # <<>>
          /\ Computes[run.code][id] \in Values
      BY <1>0, <1>4, HeadType DEF Produce, Working, RunRecord
    <2>2. value # None
      BY <2>1, RunConstants
    <2>3. ~Refused(run.call, run.read[id], value)
      <3> SUFFICES ASSUME Refused(run.call, run.read[id], value) PROVE FALSE
        OBVIOUS
      <3>1. run' = Ended(run.code)
        BY <1>4 DEF Produce
      <3>2. run.code \in Versions
        BY <2>1 DEF TypeOK
      <3> QED
        BY <3>1, <3>2, EndedType
    <2>4. run' = [run EXCEPT !.todo = Tail(@), !.seen = @ \cup {id},
                     !.known[id] = value,
                     !.pending[id] = IF send THEN value ELSE @,
                     !.added = send]
      BY <1>4, <2>3 DEF Produce
    <2>5. run.call["overwrite"] \/ run.read[id] = None
      BY <1>4 DEF Produce
    <2>6. id \in run.seen => value = run.known[id]
      BY <2>1 DEF Judged
    <2>7. Judged(run)
      BY <2>1
    <2>8. \A k \in DOMAIN run.todo :
              \/ run.todo[k] = id
              \/ \E i \in DOMAIN Tail(run.todo) : Tail(run.todo)[i] = run.todo[k]
      BY <2>1, TailKeeps
    <2>s. send => Sends(run.call, run.read[id], value)
      OBVIOUS
    <2> HIDE DEF id, value, send
    <2>9. /\ run'.call = run.call /\ run'.read = run.read
          /\ run'.code = run.code /\ run'.at = run.at
          /\ run'.seen = run.seen \cup {id} /\ run'.todo = Tail(run.todo)
          /\ run'.known = [run.known EXCEPT ![id] = value]
          /\ run'.pending = [run.pending EXCEPT ![id] = IF send THEN value ELSE @]
      BY <1>0, <2>4 DEF RunRecord
    <2>10. run.known \in Entries /\ run.pending \in Entries /\ run.seen \subseteq Ids
      BY <1>0 DEF RunRecord
    <2>11. \A i \in run'.seen :
              /\ run'.known[i] # None
              /\ ~Refused(run'.call, run'.read[i], run'.known[i])
              /\ run'.call["overwrite"] \/ run'.read[i] = None
      <3> SUFFICES ASSUME NEW i \in run'.seen
                   PROVE  /\ run'.known[i] # None
                          /\ ~Refused(run'.call, run'.read[i], run'.known[i])
                          /\ run'.call["overwrite"] \/ run'.read[i] = None
        OBVIOUS
      <3>1. CASE i = id
        BY <2>1, <2>2, <2>3, <2>5, <2>9, <2>10, <3>1 DEF Entries
      <3>2. CASE i # id
        <4>1. i \in run.seen /\ run'.known[i] = run.known[i]
          BY <2>9, <2>10, <3>2 DEF Entries
        <4> QED
          BY <2>7, <2>9, <4>1 DEF Judged
      <3> QED
        BY <3>1, <3>2
    <2>12. ASSUME NEW i \in Ids, run'.pending[i] # None
           PROVE  /\ i \in run'.seen /\ run'.pending[i] = run'.known[i]
                  /\ Sends(run'.call, run'.read[i], run'.pending[i])
      <3>1. CASE i = id /\ send
        BY <2>1, <2>s, <2>9, <2>10, <3>1 DEF Entries
      <3>2. CASE i = id /\ ~send
        <4>1. /\ run'.pending[i] = run.pending[i] /\ run'.known[i] = value
              /\ run.pending[i] # None
          BY <2>1, <2>9, <2>10, <2>12, <3>2 DEF Entries
        <4>2. /\ i \in run.seen /\ run.pending[i] = run.known[i]
              /\ Sends(run.call, run.read[i], run.pending[i])
          BY <2>7, <4>1 DEF Judged
        <4> QED
          BY <2>6, <2>9, <3>2, <4>1, <4>2
      <3>3. CASE i # id
        <4>1. /\ run'.pending[i] = run.pending[i] /\ run'.known[i] = run.known[i]
          BY <2>9, <2>10, <3>3 DEF Entries
        <4> QED
          BY <2>7, <2>9, <2>12, <4>1 DEF Judged
      <3> QED
        BY <3>1, <3>2, <3>3
    <2>13. ASSUME run'.call["overwrite"], NEW k \in DOMAIN Enumerates[run'.code]
           PROVE  \/ Enumerates[run'.code][k] \in run'.seen
                  \/ \E j \in DOMAIN run'.todo :
                         run'.todo[j] = Enumerates[run'.code][k]
      BY <2>7, <2>8, <2>9, <2>13 DEF Judged
    <2> QED
      BY <2>1, <2>7, <2>9, <2>11, <2>12, <2>13 DEF Judged
  <1>5. CASE Delivered
    <2>1. Judged(run) /\ run'.at = "running"
      BY <1>0, <1>5 DEF Delivered, Submitting, RunRecord
    <2>2. /\ run'.call = run.call /\ run'.seen = run.seen
          /\ run'.read = run.read /\ run'.known = run.known
          /\ run'.pending = Nothing
          /\ run'.code = run.code /\ run'.todo = run.todo
      BY <1>0, <1>5 DEF Delivered, RunRecord
    <2> QED
      BY <2>1, <2>2 DEF Judged, Nothing
  <1>6. CASE Busy
    <2>1. Judged(run)
      BY <1>6 DEF Busy, Submitting
    <2>2. run' = [run EXCEPT !.attempts = run.attempts + 1]
      BY <1>6, EndedType DEF Busy, TypeOK, RunRecord
    <2>3. /\ run'.call = run.call /\ run'.seen = run.seen
          /\ run'.read = run.read /\ run'.known = run.known
          /\ run'.pending = run.pending /\ run'.at = run.at
          /\ run'.code = run.code /\ run'.todo = run.todo
      BY <1>0, <2>2 DEF RunRecord
    <2> QED
      BY <2>1, <2>3 DEF Judged
  <1>7. CASE AnswerLost \/ Undelivered \/ Attach
    BY <1>0, <1>7, EndedType DEF AnswerLost, Undelivered, Attach, RunRecord
  <1>8. ASSUME NEW torn \in Tears, Tear(torn) PROVE Judged(run')
    BY <1>8, GoneType DEF Tear
  <1>9. ASSUME NEW id \in Ids, OtherEdit(id) PROVE Judged(run')
    BY <1>9 DEF OtherEdit
  <1>10. CASE Flush \/ Replace
    <2>1. run.at = "running" /\ Judged(run)
      BY <1>10 DEF Flush, Replace
    <2>2. /\ run'.call = run.call /\ run'.seen = run.seen
          /\ run'.read = run.read /\ run'.known = run.known
          /\ run'.pending = run.pending
          /\ run'.code = run.code /\ run'.todo = run.todo
      BY <1>0, <1>10 DEF Flush, Replace, RunRecord
    <2>3. run'.at = "replacing" => run.call["removing"] /\ run.todo = <<>>
      BY <1>0, <1>10 DEF Flush, Replace, MustReplace, RunRecord
    <2> QED
      BY <2>1, <2>2, <2>3 DEF Judged
  <1>11. CASE UNCHANGED vars
    BY <1>11 DEF vars
  <1> QED
    BY <1>1, <1>2, <1>3, <1>4, <1>5, <1>6, <1>7, <1>8, <1>9, <1>10, <1>11
       DEF Next, RunSteps

\* An entry a run read, and nobody else changed since, it replaces or deletes
\* only as its flags say, provided nobody asks for removing without overwrite.
THEOREM RunReplacesAsAsked ==
    ASSUME RemovalsOverwrite
    PROVE  Spec => ReplacesOnlyAsAsked
  <1> DEFINE Asked(id) ==
               LET old == run.read[id]
                   new == stored'[id]
               IN (ByTheRun /\ stored[id] = old /\ old # None /\ new # old) =>
                   IF new = None
                   THEN /\ run.call["removing"]
                        /\ \A k \in DOMAIN Enumerates[run.code] :
                               Enumerates[run.code][k] # id
                   ELSE /\ run.call["overwrite"]
                        /\ Contradicts(old, new) => run.call["correcting"]
                        /\ Coarsens(old, new) => run.call["lowering"]
                        /\ Agrees(old, new) =>
                               run.call["restating"] \/ run.call["removing"]
  <1>1. JudgeInv /\ [Next]_vars => [\A id \in Ids : Asked(id)]_vars
    <2> SUFFICES ASSUME JudgeInv, [Next]_vars, NEW id \in Ids, ByTheRun,
                        stored[id] = run.read[id], run.read[id] # None,
                        stored'[id] # run.read[id]
                 PROVE  Asked(id)
      OBVIOUS
    <2>1. Submitting /\ stored' = Submitted
      BY OnlySubmissionsStore DEF JudgeInv
    <2>2. run.at \in Live
      BY <2>1 DEF Submitting
    <2>3. Judged(run)
      BY <2>2 DEF JudgeInv
    <2>4. CASE run.at = "replacing" /\ id \in run.seen
      <3>1. stored'[id] = run.known[id]
        BY <2>1, <2>4 DEF Submitted
      <3>2. run.call["removing"]
        BY <2>3, <2>4 DEF Judged
      <3>3. run.known[id] # None /\ ~Refused(run.call, run.read[id], run.known[id])
        BY <2>3, <2>4 DEF Judged
      <3>4. run.call["overwrite"]
        BY <2>3, <2>4 DEF Judged
      <3> QED
        BY <3>1, <3>2, <3>3, <3>4 DEF Refused
    <2>5. CASE run.at = "replacing" /\ id \notin run.seen
      <3>1. stored'[id] = None
        BY <2>1, <2>5 DEF Submitted
      <3>2. run.call["removing"] /\ run.todo = <<>>
        BY <2>3, <2>5 DEF Judged
      <3>3. run.call["overwrite"]
        BY <2>3, <3>2 DEF Judged, RemovalsOverwrite
      <3>4. \A k \in DOMAIN Enumerates[run.code] : Enumerates[run.code][k] # id
        BY <2>3, <2>5, <3>2, <3>3 DEF Judged
      <3> QED
        BY <3>1, <3>2, <3>4
    <2>6. CASE run.at # "replacing" /\ id \in Pending
      <3>1. stored'[id] = run.pending[id] /\ run.pending[id] # None
        BY <2>1, <2>6 DEF Submitted, Pending
      <3>2. /\ id \in run.seen /\ run.pending[id] = run.known[id]
            /\ Sends(run.call, run.read[id], run.pending[id])
        BY <2>3, <3>1 DEF Judged
      <3>3. /\ ~Refused(run.call, run.read[id], run.known[id])
            /\ run.call["overwrite"]
        BY <2>3, <3>2 DEF Judged
      <3> QED
        BY <3>1, <3>2, <3>3 DEF Refused, Sends
    <2>7. CASE run.at # "replacing" /\ id \notin Pending
      BY <2>1, <2>7 DEF Submitted
    <2> QED
      BY <2>4, <2>5, <2>6, <2>7
  <1> QED
    BY JudgeInit, JudgeNext, <1>1, PTL DEF Spec, ReplacesOnlyAsAsked

----
(* What a run reports as applied is in the table.                          *)

\* The table has what the run produced.
StoredAs(id, r, table) ==
    /\ table[id] # None
    /\ Same(table[id], r.known[id]) \/ Agrees(table[id], r.known[id])

\* Of the entries nobody else touched: what was produced is stored or waits to
\* be sent, and the rest is as the run read it.
Kept(r, table, changed) ==
    \A id \in Ids \ changed :
        IF id \in r.seen
        THEN r.pending[id] = r.known[id] \/ StoredAs(id, r, table)
        ELSE table[id] = r.read[id]

TableInv ==
    /\ JudgeInv
    /\ run.at \in Live => Kept(run, stored, touched)
    /\ run.at = "attaching" =>
           \A id \in run.seen \ touched : StoredAs(id, run, stored)

LEMMA TableInit == Init => TableInv
  BY JudgeInit, GoneType DEF Init, TableInv

LEMMA TableNext == TableInv /\ [Next]_vars => TableInv'
  <1> DEFINE Goal == /\ run'.at \in Live => Kept(run', stored', touched')
                     /\ run'.at = "attaching" =>
                          \A id \in run'.seen \ touched' :
                              StoredAs(id, run', stored')
  <1> SUFFICES ASSUME TableInv, [Next]_vars PROVE Goal
    BY JudgeNext DEF TableInv
  <1> USE DEF TableInv, JudgeInv
  <1>0. run \in RunRecord /\ stored \in Entries
    BY DEF TypeOK
  <1>1. ASSUME run'.at \in {"none", "idle"} PROVE Goal
    BY <1>1
  <1>2. CASE EditCode
    BY <1>2 DEF EditCode
  <1>3. CASE Import \/ Crash
    BY <1>1, <1>3, EndedType, GoneType DEF Import, Crash, TypeOK
  <1>4. ASSUME NEW call \in Calls, Start(call) PROVE Goal
    <2>1. /\ run'.at = "running" /\ run'.seen = {} /\ run'.read = stored
          /\ stored' = stored
      BY <1>4 DEF Start, Ended
    <2> QED
      BY <2>1 DEF Kept
  <1>5. CASE Skip
    <2>1. /\ run'.at = run.at /\ run'.seen = run.seen /\ run'.read = run.read
          /\ run'.known = run.known /\ run'.pending = run.pending
          /\ stored' = stored /\ touched' = touched
      BY <1>0, <1>5 DEF Skip, RunRecord
    <2> QED
      BY <2>1 DEF Kept, StoredAs
  <1>6. CASE Produce
    <2> DEFINE id == Head(run.todo)
               value == IF run.known[id] # None THEN run.known[id]
                                                ELSE Computes[run.code][id]
               send == Sends(run.call, run.read[id], value)
    <2>1. /\ id \in Ids /\ run.at = "running" /\ run.code \in Versions
          /\ Kept(run, stored, touched) /\ Judged(run)
          /\ stored' = stored /\ touched' = touched
      BY <1>6, HeadType DEF Produce, Working
    <2>2. CASE Refused(run.call, run.read[id], value)
      <3>1. run' = Ended(run.code)
        BY <1>6, <2>2 DEF Produce
      <3> QED
        BY <1>1, <2>1, <3>1, EndedType
    <2>3. CASE ~Refused(run.call, run.read[id], value)
      <3>1. run' = [run EXCEPT !.todo = Tail(@), !.seen = @ \cup {id},
                       !.known[id] = value,
                       !.pending[id] = IF send THEN value ELSE @,
                       !.added = send]
        BY <1>6, <2>3 DEF Produce
      <3>2. id \in run.seen => value = run.known[id]
        BY <2>1 DEF Judged
      <3>3. ~send => /\ run.read[id] # None
                     /\ Same(run.read[id], value) \/ Agrees(run.read[id], value)
        BY DEF Sends
      <3> HIDE DEF id, value, send
      <3>4. /\ run'.at = run.at /\ run'.read = run.read
            /\ run'.seen = run.seen \cup {id}
            /\ run'.known = [run.known EXCEPT ![id] = value]
            /\ run'.pending = [run.pending EXCEPT ![id] = IF send THEN value ELSE @]
        BY <1>0, <3>1 DEF RunRecord
      <3>5. run.known \in Entries /\ run.pending \in Entries
        BY <1>0 DEF RunRecord
      <3>6. ASSUME NEW i \in Ids \ touched
            PROVE  IF i \in run'.seen
                   THEN run'.pending[i] = run'.known[i] \/ StoredAs(i, run', stored)
                   ELSE stored[i] = run'.read[i]
        <4>1. CASE i = id /\ send
          BY <2>1, <3>4, <3>5, <4>1 DEF Entries
        <4>2. CASE i = id /\ ~send
          <5>1. /\ i \in run'.seen /\ run'.known[i] = value
                /\ run'.pending[i] = run.pending[i]
            BY <2>1, <3>4, <3>5, <4>2 DEF Entries
          <5>2. CASE i \in run.seen
            <6>1. run.pending[i] = run.known[i] \/ StoredAs(i, run, stored)
              BY <2>1, <3>6, <5>2 DEF Kept
            <6> QED
              BY <3>2, <4>2, <5>1, <5>2, <6>1 DEF StoredAs
          <5>3. CASE i \notin run.seen
            <6>1. stored[i] = run.read[i]
              BY <2>1, <3>6, <5>3 DEF Kept
            <6> QED
              BY <3>3, <4>2, <5>1, <6>1 DEF StoredAs
          <5> QED
            BY <5>2, <5>3
        <4>3. CASE i # id
          <5>1. /\ run'.known[i] = run.known[i] /\ run'.pending[i] = run.pending[i]
                /\ i \in run'.seen <=> i \in run.seen
            BY <3>4, <3>5, <4>3 DEF Entries
          <5> QED
            BY <2>1, <3>4, <3>6, <5>1 DEF Kept, StoredAs
        <4> QED
          BY <4>1, <4>2, <4>3
      <3>7. Kept(run', stored', touched')
        BY <2>1, <3>6 DEF Kept
      <3> QED
        BY <2>1, <3>4, <3>7
    <2> QED
      BY <2>2, <2>3
  <1>7. ASSUME NEW torn \in Tears, Tear(torn) PROVE Goal
    BY <1>1, <1>7, GoneType DEF Tear
  <1>8. CASE Delivered
    <2>1. /\ run.at \in {"sending", "replacing"}
          /\ Kept(run, stored, touched) /\ Judged(run)
          /\ stored' = Submitted /\ touched' = touched
      BY <1>8 DEF Delivered, Submitting
    <2>2. /\ run'.seen = run.seen /\ run'.read = run.read
          /\ run'.known = run.known /\ run'.pending = Nothing
      BY <1>0, <1>8 DEF Delivered, RunRecord
    <2>3. run'.at = IF run.at = "replacing" THEN "attaching" ELSE "running"
      BY <1>0, <1>8, <2>1 DEF Delivered, RunRecord
    <2>4. run.at = "replacing" => run'.at = "attaching"
      BY <2>3
    <2>5. \A id \in run.seen : run.known[id] # None
      BY <2>1 DEF Judged
    <2>6. run.seen \subseteq Ids
      BY <1>0 DEF RunRecord
    <2>7. ASSUME NEW id \in run.seen \ touched
          PROVE  StoredAs(id, run', stored')
      <3>1. CASE run.at = "replacing" \/ id \in Pending
        <4>1. stored'[id] = run.known[id]
          BY <2>1, <2>6, <2>7, <3>1 DEF Submitted, Pending, Judged
        <4> QED
          BY <2>2, <2>5, <2>7, <4>1 DEF StoredAs, Same
      <3>2. CASE run.at # "replacing" /\ id \notin Pending
        <4>1. stored'[id] = stored[id] /\ run.pending[id] = None
          BY <2>1, <2>6, <2>7, <3>2 DEF Submitted, Pending
        <4>2. StoredAs(id, run, stored)
          BY <2>1, <2>5, <2>6, <2>7, <4>1 DEF Kept
        <4> QED
          BY <2>2, <4>1, <4>2 DEF StoredAs
      <3> QED
        BY <3>1, <3>2
    <2>8. ASSUME NEW id \in Ids \ touched, id \notin run.seen, run.at # "replacing"
          PROVE  stored'[id] = run.read[id]
      <3>1. id \notin Pending
        BY <2>1, <2>8 DEF Pending, Judged
      <3> QED
        BY <2>1, <2>8, <3>1 DEF Submitted, Kept
    <2> QED
      BY <2>1, <2>2, <2>3, <2>4, <2>7, <2>8 DEF Kept
  <1>9. ASSUME run' = Ended(run.code) PROVE Goal
    BY <1>0, <1>1, <1>9, EndedType DEF RunRecord
  <1>10. CASE AnswerLost \/ Undelivered \/ Attach
    BY <1>9, <1>10 DEF AnswerLost, Undelivered, Attach
  <1>11. CASE Busy
    <2>1. CASE run.attempts + 1 < Attempts
      <3>1. run' = [run EXCEPT !.attempts = run.attempts + 1]
        BY <1>11, <2>1 DEF Busy
      <3>2. /\ run'.at = run.at /\ run'.seen = run.seen /\ run'.read = run.read
            /\ run'.known = run.known /\ run'.pending = run.pending
            /\ stored' = stored /\ touched' = touched
        BY <1>0, <1>11, <3>1 DEF Busy, RunRecord
      <3> QED
        BY <3>2 DEF Kept, StoredAs
    <2>2. CASE ~(run.attempts + 1 < Attempts)
      BY <1>9, <1>11, <2>2 DEF Busy
    <2> QED
      BY <2>1, <2>2
  <1>12. ASSUME NEW i \in Ids, OtherEdit(i) PROVE Goal
    <2>1. PICK value \in OtherValues : stored' = [stored EXCEPT ![i] = value]
      BY <1>12 DEF OtherEdit
    <2>2. run' = run /\ touched' = touched \cup {i}
      BY <1>12 DEF OtherEdit
    <2>3. \A id \in Ids \ touched' : id \notin touched /\ stored'[id] = stored[id]
      BY <1>0, <2>1, <2>2 DEF Entries
    <2>4. run.seen \subseteq Ids
      BY <1>0 DEF RunRecord
    <2> QED
      BY <2>2, <2>3, <2>4 DEF Kept, StoredAs
  <1>13. CASE Flush \/ Replace
    <2>1. /\ run.at = "running" /\ run'.at \in {"sending", "replacing"}
          /\ run'.seen = run.seen /\ run'.read = run.read
          /\ run'.known = run.known /\ run'.pending = run.pending
          /\ stored' = stored /\ touched' = touched
      BY <1>0, <1>13 DEF Flush, Replace, RunRecord
    <2> QED
      BY <2>1 DEF Kept, StoredAs
  <1>14. CASE UNCHANGED vars
    BY <1>14 DEF vars
  <1> QED
    BY <1>2, <1>3, <1>4, <1>5, <1>6, <1>7, <1>8, <1>10, <1>11, <1>12, <1>13,
       <1>14
       DEF Next, RunSteps

\* When a run reports itself applied, the table has every entry it produced, or
\* another spelling of it, except those somebody else changed meanwhile.
THEOREM RunAppliedIsStored == Spec => []AppliedIsStored
  <1>1. TableInv => AppliedIsStored
    <2> SUFFICES ASSUME TableInv, Sent, NEW id \in run.seen \ touched
                 PROVE  StoredAs(id, run, stored)
      BY DEF AppliedIsStored, StoredAs
    <2>1. CASE run.at = "attaching"
      BY <2>1 DEF TableInv
    <2>2. CASE run.at = "running" /\ Pending = {}
      <3>1. id \in Ids /\ run.pending[id] = None
        BY <2>2 DEF TableInv, JudgeInv, TypeOK, RunRecord, Pending
      <3>2. run.known[id] # None
        BY <2>2 DEF TableInv, JudgeInv, Judged
      <3> QED
        BY <2>2, <3>1, <3>2 DEF TableInv, Kept
    <2> QED
      BY <2>1, <2>2 DEF Sent
  <1> QED
    BY TableInit, TableNext, <1>1, PTL DEF Spec

----
(* A value is paid for once.                                               *)

\* A file holds what was paid for, each once, and what is whole has a value.
PaidIn(file) ==
    \A j, k \in DOMAIN file :
        /\ j < k /\ file[j].id = file[k].id
        /\ file[j].torn = "no" /\ file[k].torn = "no"
        => LostToTears(file, j, k)

WholeIn(file) == \A k \in DOMAIN file : file[k].torn = "no" => file[k].value # None

CacheOnce == \A version \in Versions : PaidIn(cache[version]) /\ WholeIn(cache[version])

\* What the run r does not know, though the file has it, was lost to tears.
KnowsTheRest(r, file) ==
    \A j \in DOMAIN file :
        file[j].torn = "no" /\ r.known[file[j].id] = None
            => LostToTears(file, j, Len(file) + 1)

OnceInv ==
    /\ TypeOK
    /\ CacheOnce
    /\ run.at \in Live => KnowsTheRest(run, cache[Fingerprint(run.files)])

\* A non-empty set of positions has a last one.
LEMMA LastPosition ==
    ASSUME NEW n \in Nat, NEW S \in SUBSET (1..n), S # {}
    PROVE  \E i \in S : \A j \in S : j <= i
  <1> DEFINE T == {n - i : i \in S}
  <1>1. T \subseteq Nat /\ T # {}
    <2>1. \A i \in S : n - i \in Nat
      OBVIOUS
    <2>2. PICK i \in S : TRUE
      OBVIOUS
    <2>3. n - i \in T
      OBVIOUS
    <2> QED
      BY <2>1, <2>3
  <1>2. PICK x \in T : \A y \in T : ~ (<<y, x>> \in OpToRel(<, Nat))
    BY <1>1, NatLessThanWellFounded, WFMin
  <1>3. \A y \in T : ~ (y < x)
    BY <1>1, <1>2 DEF OpToRel
  <1>4. PICK i \in S : x = n - i
    OBVIOUS
  <1>5. ASSUME NEW j \in S PROVE j <= i
    <2>1. n - j \in T
      OBVIOUS
    <2>2. ~ (n - j < n - i)
      BY <2>1, <1>3, <1>4
    <2> QED
      BY <2>2
  <1> QED
    BY <1>5

\* A document whose entry the cache does not give was lost to tears.
LEMMA KnownNone ==
    ASSUME NEW file \in Seq(Document), WholeIn(file),
           NEW j \in DOMAIN file, file[j].torn = "no",
           Known(file)[file[j].id] = None
    PROVE  LostToTears(file, j, Len(file) + 1)
  <1> DEFINE id == file[j].id
             S == {k \in DOMAIN file : file[k].id = id /\ Readable(file, k)}
  <1>0. Len(file) \in Nat /\ DOMAIN file = 1..Len(file) /\ file[j] \in Document
    OBVIOUS
  <1>1. id \in Ids
    BY <1>0 DEF Document
  <1>2. CASE Readable(file, j)
    <2>1. S \in SUBSET (1..Len(file)) /\ j \in S
      BY <1>0, <1>2
    <2> HIDE DEF S
    <2>2. PICK last \in S : \A k \in S : k <= last
      BY <1>0, <2>1, LastPosition
    <2>3. last \in DOMAIN file /\ Latest(file, id, last)
      <3>1. last \in DOMAIN file /\ file[last].id = id /\ Readable(file, last)
        BY DEF S
      <3>2. ASSUME NEW k \in DOMAIN file, k > last, file[k].id = id
            PROVE  ~Readable(file, k)
        BY <1>0, <2>1, <2>2, <3>1, <3>2 DEF S
      <3> QED
        BY <3>1, <3>2 DEF Latest
    <2> DEFINE c == CHOOSE k \in DOMAIN file : Latest(file, id, k)
    <2>4. c \in DOMAIN file /\ Latest(file, id, c)
      BY <2>3
    <2>5. file[c].value = None
      BY <1>1, <2>3 DEF Known
    <2> HIDE DEF c
    <2>6. file[c].torn # "no" /\ file[c].id = id
      BY <2>4, <2>5 DEF WholeIn, Latest
    <2>7. ~ (j > c)
      BY <1>2, <2>4 DEF Latest
    <2>8. c \in j + 1 .. (Len(file) + 1) - 1
      BY <1>0, <2>4, <2>6, <2>7
    <2> QED
      BY <2>5, <2>6, <2>8 DEF LostToTears
  <1>3. CASE ~Readable(file, j)
    BY <1>3 DEF Readable, LostToTears
  <1> QED
    BY <1>2, <1>3

\* What is lost stays lost, whatever is written behind it.
LEMMA AppendLost ==
    ASSUME NEW file \in Seq(Document), NEW new \in Document,
           NEW j \in DOMAIN file, NEW k \in 1 .. Len(file) + 1,
           NEW m \in k .. Len(file) + 2,
           LostToTears(file, j, k)
    PROVE  LostToTears(Append(file, new), j, m)
  <1> DEFINE longer == Append(file, new)
  <1>1. /\ Len(file) \in Nat /\ DOMAIN file = 1 .. Len(file)
        /\ Len(longer) = Len(file) + 1
        /\ \A i \in DOMAIN file : longer[i] = file[i]
    OBVIOUS
  <1> HIDE DEF longer
  <1>2. CASE j > 1 /\ file[j - 1].torn \in {"word", "rule"}
    <2>1. j - 1 \in DOMAIN file
      BY <1>1, <1>2
    <2> QED
      BY <1>1, <1>2, <2>1 DEF LostToTears, longer
  <1>3. CASE j < Len(file) /\ file[j + 1].torn = "rule"
    <2>1. j + 1 \in DOMAIN file /\ j < Len(longer)
      BY <1>1, <1>3
    <2> QED
      BY <1>1, <1>3, <2>1 DEF LostToTears, longer
  <1>4. ASSUME NEW i \in j + 1 .. k - 1, file[i].torn # "no",
               file[i].id = file[j].id, file[i].value = None
        PROVE  LostToTears(longer, j, m)
    <2>1. i \in DOMAIN file /\ i \in j + 1 .. m - 1
      BY <1>1, <1>4
    <2>2. longer[i] = file[i] /\ longer[j] = file[j]
      BY <1>1, <2>1
    <2> QED
      BY <1>4, <2>1, <2>2 DEF LostToTears
  <1> QED
    BY <1>2, <1>3, <1>4 DEF LostToTears, longer

\* A torn document more, or one that was lost before, leaves each paid for once.
LEMMA AppendPaid ==
    ASSUME NEW file \in Seq(Document), PaidIn(file), WholeIn(file),
           NEW new \in Document,
           new.torn = "no" =>
               /\ new.value # None
               /\ \A j \in DOMAIN file :
                      file[j].torn = "no" /\ file[j].id = new.id
                          => LostToTears(file, j, Len(file) + 1)
    PROVE  PaidIn(Append(file, new)) /\ WholeIn(Append(file, new))
  <1> DEFINE longer == Append(file, new)
  <1>1. /\ Len(file) \in Nat /\ DOMAIN file = 1 .. Len(file)
        /\ DOMAIN longer = 1 .. Len(file) + 1
        /\ \A i \in DOMAIN file : longer[i] = file[i]
        /\ longer[Len(file) + 1] = new
    OBVIOUS
  <1> HIDE DEF longer
  <1>2. WholeIn(longer)
    BY <1>1 DEF WholeIn
  <1>3. ASSUME NEW j \in DOMAIN longer, NEW k \in DOMAIN longer, j < k,
               longer[j].id = longer[k].id,
               longer[j].torn = "no", longer[k].torn = "no"
        PROVE  LostToTears(longer, j, k)
    <2>1. j \in DOMAIN file /\ longer[j] = file[j] /\ k \in 1 .. Len(file) + 1
      BY <1>1, <1>3
    <2>2. LostToTears(file, j, k)
      <3>1. CASE k \in DOMAIN file
        BY <1>1, <1>3, <2>1, <3>1 DEF PaidIn
      <3>2. CASE k \notin DOMAIN file
        BY <1>1, <1>3, <2>1, <3>2
      <3> QED
        BY <3>1, <3>2
    <2>3. k \in k .. Len(file) + 2
      BY <1>1, <2>1
    <2> QED
      BY <2>1, <2>2, <2>3, AppendLost DEF longer
  <1>4. PaidIn(longer)
    BY <1>3 DEF PaidIn
  <1> QED
    BY <1>2, <1>4 DEF longer

\* A run that writes what it computed knows the rest as it did.
LEMMA AppendKnows ==
    ASSUME NEW file \in Seq(Document), NEW new \in Document, NEW r, NEW after,
           KnowsTheRest(r, file),
           \A i \in Ids : after.known[i] = None => i # new.id /\ r.known[i] = None
    PROVE  KnowsTheRest(after, Append(file, new))
  <1> DEFINE longer == Append(file, new)
  <1>1. /\ Len(file) \in Nat /\ DOMAIN file = 1 .. Len(file)
        /\ DOMAIN longer = 1 .. Len(file) + 1 /\ Len(longer) = Len(file) + 1
        /\ \A i \in DOMAIN file : longer[i] = file[i] /\ file[i] \in Document
        /\ longer[Len(file) + 1] = new
    OBVIOUS
  <1> HIDE DEF longer
  <1>2. ASSUME NEW j \in DOMAIN longer, longer[j].torn = "no",
               after.known[longer[j].id] = None
        PROVE  LostToTears(longer, j, Len(longer) + 1)
    <2>1. longer[j].id \in Ids
      BY <1>1 DEF Document
    <2>2. j \in DOMAIN file /\ longer[j] = file[j]
      BY <1>1, <1>2, <2>1
    <2>3. LostToTears(file, j, Len(file) + 1)
      BY <1>2, <2>1, <2>2 DEF KnowsTheRest
    <2>4. /\ Len(file) + 1 \in 1 .. Len(file) + 1
          /\ Len(longer) + 1 \in Len(file) + 1 .. Len(file) + 2
      BY <1>1
    <2> QED
      BY <2>2, <2>3, <2>4, AppendLost DEF longer
  <1> QED
    BY <1>2 DEF KnowsTheRest, longer

\* Put writes one document into one file.
LEMMA PutOnce ==
    ASSUME TypeOK, CacheOnce, run.files \in Versions,
           NEW id \in Ids, NEW value \in Values \cup {None},
           NEW torn \in Tears \cup {"no"},
           Put(id, value, torn),
           torn = "no" =>
               value # None /\ run.known[id] = None
               /\ KnowsTheRest(run, cache[Fingerprint(run.files)])
    PROVE  /\ CacheOnce'
           /\ [id |-> id, value |-> value, torn |-> torn] \in Document
           /\ cache[Fingerprint(run.files)] \in Seq(Document)
           /\ cache'[Fingerprint(run.files)] =
                  Append(cache[Fingerprint(run.files)],
                         [id |-> id, value |-> value, torn |-> torn])
  <1> DEFINE new == [id |-> id, value |-> value, torn |-> torn]
             own == Fingerprint(run.files)
             file == cache[own]
  <1>1. own \in Versions
    BY FingerprintType
  <1>2. new \in Document /\ new.id = id /\ new.torn = torn /\ new.value = value
    BY DEF Document
  <1>3. cache' = [cache EXCEPT ![own] = Append(file, new)]
    BY DEF Put
  <1>4. cache \in [Versions -> Seq(Document)]
    BY DEF TypeOK
  <1> HIDE DEF own, new
  <1>5. /\ file \in Seq(Document)
        /\ cache'[own] = Append(file, new)
        /\ \A version \in Versions \ {own} : cache'[version] = cache[version]
    BY <1>1, <1>3, <1>4
  <1>6. PaidIn(file) /\ WholeIn(file)
    BY <1>1 DEF CacheOnce
  <1>7. new.torn = "no" =>
            /\ new.value # None
            /\ \A j \in DOMAIN file :
                   file[j].torn = "no" /\ file[j].id = new.id
                       => LostToTears(file, j, Len(file) + 1)
    BY <1>2 DEF KnowsTheRest, own
  <1> HIDE DEF file
  <1>8. PaidIn(Append(file, new)) /\ WholeIn(Append(file, new))
    BY <1>2, <1>5, <1>6, <1>7, AppendPaid
  <1>9. CacheOnce'
    BY <1>5, <1>8 DEF CacheOnce
  <1> QED
    BY <1>2, <1>5, <1>9 DEF own, new, file

LEMMA OnceInit == Init => OnceInv
  BY TypeInit, GoneType DEF Init, OnceInv, CacheOnce, PaidIn, WholeIn

\* Every step computes only what was lost.
LEMMA OnceNext == OnceInv /\ [Next]_vars => OnceInv'
  <1> DEFINE Goal == /\ CacheOnce'
                     /\ run'.at \in Live =>
                            KnowsTheRest(run', cache'[Fingerprint(run'.files)])
  <1> SUFFICES ASSUME OnceInv, [Next]_vars PROVE Goal
    BY TypeNext DEF OnceInv, Fingerprint
  <1> USE DEF OnceInv
  <1>0. run \in RunRecord
    BY DEF TypeOK
  <1>1. ASSUME cache' = cache, run'.at \in {"none", "idle", "attaching"}
        PROVE  Goal
    BY <1>1 DEF CacheOnce
  <1>2. ASSUME cache' = cache, run.at \in Live, run'.files = run.files,
               run'.known = run.known
        PROVE  Goal
    BY <1>2 DEF CacheOnce, KnowsTheRest
  <1>3. CASE EditCode \/ UNCHANGED vars
    <2>1. cache' = cache /\ run' = run
      BY <1>3 DEF EditCode, vars
    <2> QED
      BY <1>1, <1>2, <2>1 DEF CacheOnce, KnowsTheRest
  <1>4. CASE Import \/ Crash
    BY <1>1, <1>4, EndedType, GoneType DEF Import, Crash, TypeOK
  <1>5. ASSUME NEW call \in Calls, Start(call) PROVE Goal
    <2>1. /\ run'.files = disk /\ cache' = cache
          /\ run'.known = Known(cache[Fingerprint(disk)])
      BY <1>5 DEF Start, Ended
    <2>2. Fingerprint(disk) \in Versions
      BY FingerprintType DEF TypeOK
    <2>3. /\ cache[Fingerprint(disk)] \in Seq(Document)
          /\ WholeIn(cache[Fingerprint(disk)])
      BY <2>2 DEF TypeOK, CacheOnce
    <2>4. KnowsTheRest(run', cache[Fingerprint(disk)])
      BY <2>1, <2>3, KnownNone DEF KnowsTheRest
    <2> QED
      BY <2>1, <2>4 DEF CacheOnce
  <1>6. CASE Skip
    <2>1. /\ run'.files = run.files /\ run'.known = run.known
          /\ cache' = cache /\ run.at \in Live
      BY <1>0, <1>6 DEF Skip, Working, RunRecord
    <2> QED
      BY <1>2, <2>1
  <1>7. CASE Produce
    <2> DEFINE id == Head(run.todo)
               value == IF run.known[id] # None THEN run.known[id]
                                                ELSE Computes[run.code][id]
               send == Sends(run.call, run.read[id], value)
               own == Fingerprint(run.files)
               new == [id |-> id, value |-> value, torn |-> "no"]
    <2>1. /\ run.at \in Live /\ id \in Ids /\ run.files \in Versions
          /\ Computes[run.code][id] \in Values /\ run.code \in Versions
          /\ KnowsTheRest(run, cache[own])
      BY <1>7, HeadType DEF Produce, Working
    <2>2. run.known \in Entries /\ value \in Values
      BY <1>0, <2>1 DEF RunRecord, Entries
    <2>3. run.known[id] = None => Put(id, value, "no")
      BY <1>7 DEF Produce
    <2>4. run.known[id] # None => cache' = cache
      BY <1>7 DEF Produce
    <2>5. Refused(run.call, run.read[id], value) => run' = Ended(run.code)
      BY <1>7 DEF Produce
    <2>6. ~Refused(run.call, run.read[id], value) =>
             run' = [run EXCEPT !.todo = Tail(@), !.seen = @ \cup {id},
                       !.known[id] = value,
                       !.pending[id] = IF send THEN value ELSE @,
                       !.added = send]
      BY <1>7 DEF Produce
    <2> HIDE DEF id, value, send, own
    <2>7. run.known[id] = None =>
            /\ CacheOnce'
            /\ new \in Document /\ cache[own] \in Seq(Document)
            /\ cache'[own] = Append(cache[own], new)
      <3> SUFFICES ASSUME run.known[id] = None
                   PROVE  /\ CacheOnce'
                          /\ new \in Document /\ cache[own] \in Seq(Document)
                          /\ cache'[own] = Append(cache[own], new)
        OBVIOUS
      <3>1. value # None /\ value \in Values \cup {None} /\ "no" \in Tears \cup {"no"}
        BY <2>2, RunConstants
      <3> QED
        BY <2>1, <2>3, <3>1, PutOnce DEF own
    <2>8. CacheOnce'
      BY <2>4, <2>7 DEF CacheOnce
    <2>9. CASE Refused(run.call, run.read[id], value)
      BY <2>1, <2>5, <2>8, <2>9, EndedType
    <2>10. CASE ~Refused(run.call, run.read[id], value)
      <3>1. /\ run'.files = run.files
            /\ run'.known = [run.known EXCEPT ![id] = value]
        BY <1>0, <2>6, <2>10 DEF RunRecord
      <3>2. \A i \in Ids : run'.known[i] = None =>
                i # id /\ run.known[i] = None
        BY <2>1, <2>2, <3>1, RunConstants DEF Entries
      <3>3. KnowsTheRest(run', cache'[own])
        <4>1. CASE run.known[id] = None
          <5>1. new.id = id
            OBVIOUS
          <5> HIDE DEF new
          <5> QED
            BY <2>1, <2>7, <3>2, <4>1, <5>1, AppendKnows
        <4>2. CASE run.known[id] # None
          <5>1. cache[own] \in Seq(Document)
            BY <2>1, FingerprintType DEF TypeOK, own
          <5>2. ASSUME NEW j \in DOMAIN cache[own]
                PROVE  cache[own][j].id \in Ids
            <6>1. cache[own][j] \in Document
              BY <5>1
            <6> QED
              BY <6>1 DEF Document
          <5> QED
            BY <2>1, <2>4, <3>2, <4>2, <5>2 DEF KnowsTheRest
        <4> QED
          BY <4>1, <4>2
      <3> QED
        BY <2>8, <3>1, <3>3 DEF own
    <2> QED
      BY <2>9, <2>10
  <1>8. ASSUME NEW torn \in Tears, Tear(torn) PROVE Goal
    <2> DEFINE id == Head(run.todo)
    <2>1. /\ id \in Ids /\ run.files \in Versions
          /\ Computes[run.code][id] \in Values
      BY <1>8, HeadType DEF Tear
    <2>2. PICK reads \in TornReadings(cache[Fingerprint(run.files)], id,
                                      Computes[run.code][id]) :
             Put(reads[1], reads[2], torn)
      BY <1>8 DEF Tear
    <2>3. cache[Fingerprint(run.files)] \in Seq(Document)
      BY <2>1, FingerprintType DEF TypeOK
    <2>4. reads[1] \in Ids /\ reads[2] \in Values \cup {None}
      BY <2>1, <2>3, TornReadingsType
    <2>5. torn \in Tears \cup {"no"} /\ torn # "no"
      BY DEF Tears
    <2>6. CacheOnce'
      BY <2>1, <2>2, <2>4, <2>5, PutOnce
    <2> QED
      BY <1>8, <2>6, GoneType DEF Tear
  <1>9. CASE Delivered
    <2>1. /\ run.at \in Live /\ cache' = cache
          /\ run'.files = run.files /\ run'.known = run.known
      BY <1>0, <1>9 DEF Delivered, Submitting, RunRecord
    <2> QED
      BY <1>2, <2>1
  <1>10. ASSUME run' = Ended(run.code), cache' = cache PROVE Goal
    BY <1>0, <1>1, <1>10, EndedType DEF RunRecord
  <1>11. CASE AnswerLost \/ Undelivered \/ Attach
    BY <1>10, <1>11 DEF AnswerLost, Undelivered, Attach
  <1>12. CASE Busy
    <2>1. CASE run.attempts + 1 < Attempts
      <3>1. run' = [run EXCEPT !.attempts = run.attempts + 1]
        BY <1>12, <2>1 DEF Busy
      <3>2. /\ run.at \in Live /\ cache' = cache
            /\ run'.files = run.files /\ run'.known = run.known
        BY <1>0, <1>12, <3>1 DEF Busy, Submitting, RunRecord
      <3> QED
        BY <1>2, <3>2
    <2>2. CASE ~(run.attempts + 1 < Attempts)
      BY <1>10, <1>12, <2>2 DEF Busy
    <2> QED
      BY <2>1, <2>2
  <1>13. ASSUME NEW id \in Ids, OtherEdit(id) PROVE Goal
    <2>1. cache' = cache /\ run' = run
      BY <1>13 DEF OtherEdit
    <2> QED
      BY <2>1 DEF CacheOnce, KnowsTheRest
  <1>14. CASE Flush \/ Replace
    <2>1. /\ run.at \in Live /\ cache' = cache
          /\ run'.files = run.files /\ run'.known = run.known
      BY <1>0, <1>14 DEF Flush, Replace, RunRecord
    <2> QED
      BY <1>2, <2>1
  <1> QED
    BY <1>3, <1>4, <1>5, <1>6, <1>7, <1>8, <1>9, <1>11, <1>12, <1>13, <1>14
       DEF Next, RunSteps

\* Over any number of runs, refusals, crashes, torn writes and edits, no cache
\* holds two whole documents of an entry unless a torn one took the first from
\* its readers (RunCache, _publish).
THEOREM RunPaysOnce == Spec => []PaidOnce
  <1>1. OnceInv => PaidOnce
    BY DEF OnceInv, CacheOnce, PaidIn, PaidOnce
  <1> QED
    BY OnceInit, OnceNext, <1>1, PTL DEF Spec

----
(* A run goes on and ends: the steps themselves, without fairness.         *)

\* The ids that wait in a batch.
Held(batch) == {id \in Ids : batch[id] # None}

\* A batch has room for the next entry, or was filled by the last one.
BatchInv ==
    /\ TypeOK
    /\ IsFiniteSet(Held(run.pending)) /\ Cardinality(Held(run.pending)) <= Batch
    /\ run.at = "running" =>
           /\ run.attempts = 0
           /\ Cardinality(Held(run.pending)) = Batch => run.added

LEMMA NothingHeld == Held(Nothing) = {} /\ IsFiniteSet({}) /\ Cardinality({}) = 0
  BY FS_EmptySet DEF Held, Nothing

\* A session without a run holds nothing.
LEMMA RestHeld ==
    /\ \A code : /\ Ended(code).pending = Nothing /\ Ended(code).attempts = 0
                 /\ Ended(code).todo = <<>> /\ Ended(code).at = "idle"
    /\ Gone.pending = Nothing /\ Gone.at = "none"
  BY DEF Ended, Gone

LEMMA BatchInit == Init => BatchInv
  <1> SUFFICES ASSUME Init PROVE BatchInv
    OBVIOUS
  <1>1. TypeOK /\ run.pending = Nothing /\ run.at = "none"
    BY TypeInit, RestHeld DEF Init
  <1> QED
    BY <1>1, NothingHeld, RunConstants DEF BatchInv

LEMMA BatchNext == BatchInv /\ [Next]_vars => BatchInv'
  <1> SUFFICES ASSUME BatchInv, [Next]_vars PROVE BatchInv'
    OBVIOUS
  <1>0. /\ TypeOK /\ TypeOK' /\ run \in RunRecord
        /\ Batch \in Nat \ {0}
    BY TypeNext, RunConstants DEF BatchInv, TypeOK
  <1>1. ASSUME run'.pending = Nothing, run'.attempts = 0 PROVE BatchInv'
    BY <1>0, <1>1, NothingHeld DEF BatchInv
  <1>2. ASSUME run' = run PROVE BatchInv'
    BY <1>0, <1>2 DEF BatchInv
  <1>3. CASE UNCHANGED vars \/ EditCode \/ \E id \in Ids : OtherEdit(id)
    BY <1>2, <1>3 DEF vars, EditCode, OtherEdit
  <1>4. CASE Import \/ Crash \/ AnswerLost \/ Undelivered \/ Attach
              \/ \E torn \in Tears : Tear(torn)
    BY <1>1, <1>4, RestHeld
       DEF Import, Crash, AnswerLost, Undelivered, Attach, Tear, Gone, Ended
  <1>5. CASE \E call \in Calls : Start(call)
    BY <1>1, <1>5 DEF Start, Ended
  <1>6. CASE Delivered
    BY <1>0, <1>1, <1>6 DEF Delivered, RunRecord
  <1>7. CASE Busy
    <2>1. CASE run.attempts + 1 < Attempts
      <3>1. run'.pending = run.pending /\ run'.at # "running"
        BY <1>0, <1>7, <2>1 DEF Busy, Submitting, RunRecord
      <3> QED
        BY <1>0, <3>1 DEF BatchInv
    <2>2. CASE ~(run.attempts + 1 < Attempts)
      BY <1>1, <1>7, <2>2, RestHeld DEF Busy
    <2> QED
      BY <2>1, <2>2
  <1>8. CASE Flush \/ Replace
    <2>1. run'.pending = run.pending /\ run'.at # "running"
      BY <1>0, <1>8 DEF Flush, Replace, RunRecord
    <2> QED
      BY <1>0, <2>1 DEF BatchInv
  <1>9. CASE Skip
    <2>1. /\ run'.pending = run.pending /\ run'.attempts = run.attempts
          /\ run.at = "running" /\ Cardinality(Held(run.pending)) < Batch
      BY <1>0, <1>9 DEF Skip, Working, RunRecord, Pending, Held
    <2> QED
      BY <1>0, <2>1, FS_CardinalityType DEF BatchInv
  <1>10. CASE Produce
    <2> DEFINE id == Head(run.todo)
               value == IF run.known[id] # None THEN run.known[id]
                                                ELSE Computes[run.code][id]
               send == Sends(run.call, run.read[id], value)
    <2>0. /\ run.at = "running" /\ Cardinality(Held(run.pending)) < Batch
          /\ id \in Ids /\ run.pending \in [Ids -> Values \cup {None}]
      BY <1>0, <1>10, HeadType
         DEF Produce, Working, Pending, Held, RunRecord, Entries
    <2>1. CASE Refused(run.call, run.read[id], value)
      BY <1>1, <1>10, <2>1, RestHeld DEF Produce
    <2>2. CASE ~Refused(run.call, run.read[id], value)
      <3>1. run' = [run EXCEPT !.todo = Tail(@), !.seen = @ \cup {id},
                       !.known[id] = value,
                       !.pending[id] = IF send THEN value ELSE @,
                       !.added = send]
        BY <1>10, <2>2 DEF Produce
      <3> HIDE DEF id, value, send
      <3>2. /\ run'.pending = [run.pending EXCEPT ![id] = IF send THEN value ELSE @]
            /\ run'.added = send
            /\ run'.at = run.at /\ run'.attempts = run.attempts
        BY <1>0, <3>1 DEF RunRecord
      <3>3. CASE ~send
        <4>1. Held(run'.pending) = Held(run.pending)
          BY <2>0, <3>2, <3>3 DEF Held
        <4>2. Cardinality(Held(run'.pending)) # Batch
          BY <1>0, <2>0, <4>1, FS_CardinalityType DEF BatchInv
        <4> QED
          BY <1>0, <2>0, <3>2, <4>1, <4>2 DEF BatchInv
      <3>4. CASE send
        <4> DEFINE old == Held(run.pending)
                   new == Held(run'.pending)
        <4>1. new \subseteq old \cup {id}
          BY <2>0, <3>2 DEF Held
        <4>2. IsFiniteSet(old) /\ Cardinality(old) \in Nat
          BY FS_CardinalityType DEF BatchInv
        <4>3. /\ IsFiniteSet(old \cup {id})
              /\ Cardinality(old \cup {id}) <= Cardinality(old) + 1
              /\ Cardinality(old \cup {id}) \in Nat
          <5> HIDE DEF old
          <5>1. /\ IsFiniteSet(old \cup {id})
                /\ \/ Cardinality(old \cup {id}) = Cardinality(old)
                   \/ Cardinality(old \cup {id}) = Cardinality(old) + 1
            BY <4>2, FS_AddElement
          <5> QED
            BY <4>2, <5>1
        <4>4. /\ IsFiniteSet(new) /\ Cardinality(new) \in Nat
              /\ Cardinality(new) <= Cardinality(old \cup {id})
          BY <4>1, <4>3, FS_Subset, FS_CardinalityType
        <4>5. Cardinality(new) <= Batch
          BY <1>0, <2>0, <4>2, <4>3, <4>4
        <4> QED
          BY <1>0, <2>0, <3>2, <3>4, <4>4, <4>5 DEF BatchInv
      <3> QED
        BY <3>3, <3>4
    <2> QED
      BY <2>1, <2>2
  <1> QED
    BY <1>3, <1>4, <1>5, <1>6, <1>7, <1>8, <1>9, <1>10 DEF Next, RunSteps

\* A run at work never stands still: an entry can be taken, a batch that is
\* full can be sent, and at the end the rest, the replacement or the files.
THEOREM RunNeverStuck == Spec => []RunGoesOn
  <1>1. BatchInv => RunGoesOn
    <2> SUFFICES ASSUME BatchInv, run.at \in AtWork PROVE RunGoesOn
      BY DEF RunGoesOn
    <2>1. /\ Pending = Held(run.pending) /\ Batch \in Nat \ {0}
          /\ Cardinality(Pending) \in Nat /\ Cardinality(Pending) <= Batch
      BY FS_CardinalityType, RunConstants DEF BatchInv, Pending, Held
    <2>2. CASE run.at # "running"
      BY <2>2 DEF RunGoesOn, Submitting, Sent
    <2>3. CASE run.at = "running" /\ Cardinality(Pending) = Batch
      <3>1. run.added /\ Pending # {}
        BY <2>1, <2>3, FS_EmptySet DEF BatchInv
      <3> QED
        BY <2>3, <3>1 DEF RunGoesOn
    <2>4. CASE run.at = "running" /\ Cardinality(Pending) # Batch
      BY <2>1, <2>4 DEF RunGoesOn, Working, Sent
    <2> QED
      BY <2>2, <2>3, <2>4
  <1> QED
    BY <1>1, BatchInit, BatchNext, PTL DEF Spec

\* What StepsLeft counts for the state of a run, n steps ahead of it.
Left(at, n, batch, attempts) ==
    LET Each == Attempts + 3
    IN  CASE at = "running" ->
                 n * Each + Each + (IF Held(batch) = {} THEN 0 ELSE Attempts + 2)
          [] at = "sending" -> n * Each + Each + Attempts + 1 - attempts
          [] at = "replacing" -> Attempts + 2 - attempts
          [] at = "attaching" -> 1
          [] OTHER -> 0

LeftOf(r) == Left(r.at, Len(r.todo), r.pending, r.attempts)

LEMMA StepsAreLeft == StepsLeft = LeftOf(run) /\ StepsLeft' = LeftOf(run')
  BY DEF StepsLeft, LeftOf, Left, Pending, Held

\* One entry more or less is so many steps.
LEMMA OneEntryMore ==
    ASSUME NEW n \in Nat
    PROVE  /\ n * (Attempts + 3) \in Nat
           /\ (n + 1) * (Attempts + 3) = n * (Attempts + 3) + Attempts + 3
  BY RunConstants

\* No step is left of a session at rest, and some are of a run at work.
LEMMA LeftAtWork ==
    ASSUME NEW r \in RunRecord
    PROVE  /\ LeftOf(r) \in Nat
           /\ r.at \in AtWork <=> LeftOf(r) # 0
  <1>1. /\ Len(r.todo) \in Nat /\ r.attempts \in 0..(Attempts - 1)
        /\ Attempts \in Nat \ {0}
        /\ r.at \in {"none", "idle", "running", "sending", "replacing",
                     "attaching"}
    BY RunConstants DEF RunRecord
  <1> DEFINE ahead == Len(r.todo) * (Attempts + 3)
             waits == IF Held(r.pending) = {} THEN 0 ELSE Attempts + 2
  <1>2. ahead \in Nat /\ waits \in Nat
    <2>1. ahead \in Nat
      BY <1>1, OneEntryMore
    <2>2. waits \in Nat
      BY <1>1
    <2> QED
      BY <2>1, <2>2
  <1>3. LeftOf(r) = CASE r.at = "running" -> ahead + (Attempts + 3) + waits
                      [] r.at = "sending" ->
                           ahead + (Attempts + 3) + Attempts + 1 - r.attempts
                      [] r.at = "replacing" -> Attempts + 2 - r.attempts
                      [] r.at = "attaching" -> 1
                      [] OTHER -> 0
    BY DEF LeftOf, Left
  <1> HIDE DEF ahead, waits
  <1>4. CASE r.at = "running"
    BY <1>1, <1>2, <1>3, <1>4
  <1>5. CASE r.at = "sending"
    BY <1>1, <1>2, <1>3, <1>5
  <1>6. CASE r.at \notin {"running", "sending"}
    BY <1>1, <1>3, <1>6
  <1> QED
    BY <1>4, <1>5, <1>6

\* A session at rest has nothing left.
LEMMA RestLeft == (\A code : LeftOf(Ended(code)) = 0) /\ LeftOf(Gone) = 0
  BY RestHeld DEF LeftOf, Left

\* An entry less in hand pays for the batch it may leave waiting.
LEMMA EntryTaken ==
    ASSUME BatchInv, BatchInv', run.at = "running", run'.at = "running",
           run.todo # <<>>, run'.todo = Tail(run.todo)
    PROVE  LeftOf(run') < LeftOf(run)
  <1>1. /\ run.todo \in Seq(Ids) /\ Attempts \in Nat \ {0}
    BY RunConstants DEF BatchInv, TypeOK, RunRecord
  <1>2. /\ Len(run'.todo) \in Nat /\ Len(run.todo) = Len(run'.todo) + 1
    BY <1>1
  <1>3. Len(run.todo) * (Attempts + 3)
        = Len(run'.todo) * (Attempts + 3) + Attempts + 3
    BY <1>2, OneEntryMore
  <1>4. Len(run'.todo) * (Attempts + 3) \in Nat
    BY <1>2, OneEntryMore
  <1> DEFINE ahead == Len(run'.todo) * (Attempts + 3)
             before == Len(run.todo) * (Attempts + 3)
             waits(batch) == IF Held(batch) = {} THEN 0 ELSE Attempts + 2
  <1>5. /\ LeftOf(run') = ahead + (Attempts + 3) + waits(run'.pending)
        /\ LeftOf(run) = before + (Attempts + 3) + waits(run.pending)
    BY DEF LeftOf, Left
  <1>6. /\ waits(run'.pending) <= Attempts + 2 /\ 0 <= waits(run.pending)
        /\ waits(run'.pending) \in Nat /\ waits(run.pending) \in Nat
    BY <1>1
  <1> HIDE DEF ahead, before, waits
  <1>7. before = ahead + Attempts + 3 /\ ahead \in Nat
    BY <1>3, <1>4 DEF ahead, before
  <1> QED
    BY <1>1, <1>5, <1>6, <1>7

\* Every step of a run leaves it fewer.
LEMMA StepTaken ==
    ASSUME BatchInv, BatchInv', RunSteps
    PROVE  LeftOf(run') < LeftOf(run)
  <1>1. /\ run \in RunRecord /\ run' \in RunRecord /\ Attempts \in Nat \ {0}
        /\ LeftOf(run) \in Nat /\ (run.at \in AtWork => LeftOf(run) # 0)
    BY LeftAtWork, RunConstants DEF BatchInv, TypeOK
  <1>2. run.attempts \in 0..(Attempts - 1)
    BY <1>1 DEF RunRecord
  <1>3. ASSUME run.at \in AtWork, LeftOf(run') = 0
        PROVE  LeftOf(run') < LeftOf(run)
    BY <1>1, <1>3
  <1> DEFINE ahead == Len(run.todo) * (Attempts + 3)
  <1>4. ahead \in Nat
    BY <1>1, OneEntryMore DEF RunRecord
  <1>5. /\ run.at = "running" =>
              LeftOf(run) = ahead + (Attempts + 3)
                              + (IF Held(run.pending) = {} THEN 0
                                                           ELSE Attempts + 2)
        /\ run.at = "sending" =>
              LeftOf(run) = ahead + (Attempts + 3) + (Attempts + 1) - run.attempts
        /\ run.at = "replacing" => LeftOf(run) = Attempts + 2 - run.attempts
    BY <1>1, <1>2, <1>4 DEF LeftOf, Left
  <1>6. CASE Skip
    <2>1. run'.todo = Tail(run.todo) /\ run'.at = run.at
      BY <1>1, <1>6 DEF Skip, RunRecord
    <2> QED
      BY <1>6, <2>1, EntryTaken DEF Skip, Working
  <1>7. CASE Produce
    <2> DEFINE id == Head(run.todo)
               value == IF run.known[id] # None THEN run.known[id]
                                                ELSE Computes[run.code][id]
    <2>0. run.at = "running" /\ run.todo # <<>>
      BY <1>7 DEF Produce, Working
    <2>1. CASE Refused(run.call, run.read[id], value)
      BY <1>3, <1>7, <2>0, <2>1, RestLeft DEF Produce
    <2>2. CASE ~Refused(run.call, run.read[id], value)
      <3>1. run'.todo = Tail(run.todo) /\ run'.at = run.at
        BY <1>1, <1>7, <2>2 DEF Produce, RunRecord
      <3> QED
        BY <2>0, <3>1, EntryTaken
    <2> QED
      BY <2>1, <2>2
  <1>8. CASE Flush
    <2>1. /\ run'.at = "sending" /\ run'.todo = run.todo
          /\ run'.attempts = 0 /\ run.at = "running"
          /\ Held(run.pending) # {}
      BY <1>1, <1>8 DEF Flush, RunRecord, BatchInv, Pending, Held
    <2>2. /\ LeftOf(run) = ahead + (Attempts + 3) + (Attempts + 2)
          /\ LeftOf(run') = ahead + (Attempts + 3) + Attempts + 1 - 0
      BY <1>5, <2>1 DEF LeftOf, Left
    <2> HIDE DEF ahead
    <2> QED
      BY <1>1, <1>4, <2>2
  <1>9. CASE Replace
    <2>1. /\ run'.at = "replacing" /\ run'.attempts = 0 /\ run.at = "running"
      BY <1>1, <1>9 DEF Replace, RunRecord, BatchInv
    <2>2. LeftOf(run') = Attempts + 2 - 0
      BY <2>1 DEF LeftOf, Left
    <2> HIDE DEF ahead
    <2> QED
      BY <1>1, <1>4, <1>5, <2>1, <2>2
  <1>10. CASE Delivered
    <2>1. /\ run'.pending = Nothing /\ run'.todo = run.todo
          /\ \/ run.at = "sending" /\ run'.at = "running"
             \/ run.at = "replacing" /\ run'.at = "attaching"
      BY <1>1, <1>10 DEF Delivered, Submitting, RunRecord
    <2>2. CASE run.at = "sending"
      <3>1. LeftOf(run') = ahead + (Attempts + 3) + 0
        BY <2>1, <2>2, NothingHeld DEF LeftOf, Left
      <3> HIDE DEF ahead
      <3> QED
        BY <1>1, <1>2, <1>4, <1>5, <2>2, <3>1
    <2>3. CASE run.at = "replacing"
      <3>1. LeftOf(run') = 1
        BY <2>1, <2>3 DEF LeftOf, Left
      <3> QED
        BY <1>1, <1>2, <1>5, <2>3, <3>1
    <2> QED
      BY <2>1, <2>2, <2>3
  <1>11. CASE AnswerLost \/ Undelivered \/ Attach
    <2>1. run.at \in AtWork /\ LeftOf(run') = 0
      BY <1>11, RestLeft DEF AnswerLost, Undelivered, Attach, Submitting, Sent
    <2> QED
      BY <1>3, <2>1
  <1>12. CASE Busy
    <2>1. CASE run.attempts + 1 < Attempts
      <3>1. /\ run'.at = run.at /\ run'.todo = run.todo
            /\ run'.attempts = run.attempts + 1
            /\ run.at \in {"sending", "replacing"}
        BY <1>1, <1>12, <2>1 DEF Busy, Submitting, RunRecord
      <3>2. CASE run.at = "sending"
        <4>1. LeftOf(run') = ahead + (Attempts + 3) + Attempts + 1
                               - (run.attempts + 1)
          BY <3>1, <3>2 DEF LeftOf, Left
        <4> HIDE DEF ahead
        <4> QED
          BY <1>1, <1>2, <1>4, <1>5, <3>2, <4>1
      <3>3. CASE run.at = "replacing"
        <4>1. LeftOf(run') = Attempts + 2 - (run.attempts + 1)
          BY <3>1, <3>3 DEF LeftOf, Left
        <4> QED
          BY <1>1, <1>2, <1>5, <3>3, <4>1
      <3> QED
        BY <3>1, <3>2, <3>3
    <2>2. CASE ~(run.attempts + 1 < Attempts)
      BY <1>3, <1>12, <2>2, RestLeft DEF Busy, Submitting
    <2> QED
      BY <2>1, <2>2
  <1> QED
    BY <1>6, <1>7, <1>8, <1>9, <1>10, <1>11, <1>12 DEF RunSteps

\* However busy the table is and whoever edits beside it, a run takes fewer
\* steps than (entries + 1) * (attempts + 3): as it is never stuck, a process
\* that goes on ends it.
THEOREM RunEndsInTime == Spec => RunIsShort
  <1>1. BatchInv /\ BatchInv' /\ [Next]_vars =>
          [/\ RunSteps => StepsLeft' < StepsLeft
           /\ run.at \in AtWork => StepsLeft' <= StepsLeft
           /\ run.at = "idle" =>
                StepsLeft' <= (Len(Enumerates[run.code]) + 1) * (Attempts + 3)
          ]_vars
    <2> SUFFICES ASSUME BatchInv, BatchInv', Next
                 PROVE  /\ RunSteps => LeftOf(run') < LeftOf(run)
                        /\ run.at \in AtWork => LeftOf(run') <= LeftOf(run)
                        /\ run.at = "idle" =>
                             LeftOf(run') <= (Len(Enumerates[run.code]) + 1)
                                               * (Attempts + 3)
      BY StepsAreLeft
    <2>1. /\ LeftOf(run) \in Nat /\ LeftOf(run') \in Nat
          /\ run.at \notin AtWork => LeftOf(run) = 0
      BY LeftAtWork DEF BatchInv, TypeOK
    <2>2. RunSteps => LeftOf(run') < LeftOf(run)
      BY StepTaken
    <2>3. run.at \in AtWork => LeftOf(run') <= LeftOf(run)
      <3>1. CASE RunSteps
        BY <2>1, <2>2, <3>1
      <3>2. CASE Crash \/ \E torn \in Tears : Tear(torn)
        BY <2>1, <3>2, RestLeft DEF Crash, Tear
      <3>3. CASE EditCode \/ \E id \in Ids : OtherEdit(id)
        BY <2>1, <3>3 DEF EditCode, OtherEdit
      <3> QED
        BY <3>1, <3>2, <3>3 DEF Next, Import, Start
    <2>4. ASSUME run.at = "idle"
          PROVE  LeftOf(run') <= (Len(Enumerates[run.code]) + 1)
                                   * (Attempts + 3)
      <3>1. /\ run.code \in Versions /\ Enumerates[run.code] \in Seq(Ids)
            /\ LeftOf(run) = 0
        BY <2>1, <2>4, RunConstants DEF BatchInv, TypeOK
      <3> DEFINE all == Len(Enumerates[run.code]) * (Attempts + 3)
                 bound == (Len(Enumerates[run.code]) + 1) * (Attempts + 3)
      <3>2. Len(Enumerates[run.code]) \in Nat
        BY <3>1
      <3>3. bound = all + Attempts + 3
        BY <3>2, OneEntryMore
      <3>4. all \in Nat /\ Attempts \in Nat
        BY <3>2, OneEntryMore, RunConstants
      <3>5. CASE \E call \in Calls : Start(call)
        <4>1. /\ run'.at = "running" /\ run'.pending = Nothing
              /\ run'.todo = Enumerates[run.code]
          BY <3>5 DEF Start, Ended
        <4>2. LeftOf(run') = all + (Attempts + 3) + 0
          BY <4>1, NothingHeld DEF LeftOf, Left
        <4>3. LeftOf(run') <= bound
          <5> HIDE DEF all, bound
          <5> QED
            BY <3>3, <3>4, <4>2
        <4> QED
          BY <4>3
      <3>6. CASE ~ \E call \in Calls : Start(call)
        <4>1. LeftOf(run') = 0
          <5>1. ~RunSteps
            BY <2>1, <2>2, <3>1
          <5> QED
            BY <2>4, <3>1, <3>6, <5>1, RestLeft
               DEF Next, EditCode, Import, Crash, Tear, Working, OtherEdit
        <4>2. LeftOf(run') <= bound
          <5> HIDE DEF all, bound
          <5> QED
            BY <3>3, <3>4, <4>1
        <4> QED
          BY <4>2
      <3> QED
        BY <3>5, <3>6
    <2> QED
      BY <2>2, <2>3, <2>4
  <1> QED
    BY <1>1, BatchInit, BatchNext, PTL DEF Spec, RunIsShort
====
