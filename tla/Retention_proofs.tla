-------------------------- MODULE Retention_proofs --------------------------
(***************************************************************************)
(* Theorems about the retention sweep beside the attempt pipeline, for     *)
(* every set of handlers, sweeps, sessions and items, every retention and  *)
(* batch size and every bound.  The pipeline's steps are those of module   *)
(* Attempts, so its type invariant is taken from Attempts_proofs.          *)
(***************************************************************************)
EXTENDS Retention, Attempts_proofs

USE DEF Steps, Drafting, Stored

(***************************************************************************)
(* Rows and drafts.  An id belongs to one attempt; a recording is in the   *)
(* bucket before its row is inserted, under an id no row has yet.  The     *)
(* rows themselves change under the sweep, so the pipeline's own StoreInv, *)
(* where a handler's draft is the row it inserted, does not hold here.     *)
(***************************************************************************)
Inserting == {"put", "create"}

RowsInv ==
    /\ \A a \in attempts : a.id < nextId
    /\ \A a, b \in attempts : a.id = b.id => a = b
    /\ \A h \in Handlers :
        /\ pc[h] \in Drafting => draft[h].id < nextId /\ draft[h].audio
        /\ pc[h] \in Inserting => \A a \in attempts : a.id # draft[h].id
        /\ pc[h] = "create" => draft[h].id \in objects
    /\ \A g, h \in Handlers :
        g # h /\ pc[g] \in Drafting /\ pc[h] \in Drafting => draft[g].id # draft[h].id

(***************************************************************************)
(* The batch of a sweep.  It is read from the table once and worked off    *)
(* call by call, while rows are inserted, other sweeps run and the clock   *)
(* goes on: its ids stay ids of expired attempts.                          *)
(***************************************************************************)
SweepTypes ==
    /\ sweepPc \in [Sweepers -> {"off", "fetch", "remove", "clear"}]
    /\ todo \in [Sweepers -> SUBSET Nat]
    /\ inHand \in [Sweepers -> Nat \cup {NoRowInHand}]

BatchOK(v) ==
    /\ sweepPc[v] \in {"off", "fetch"} <=> todo[v] = {}
    /\ sweepPc[v] = "clear" => inHand[v] \in todo[v] /\ inHand[v] \notin objects
    /\ sweepPc[v] # "clear" => inHand[v] = NoRowInHand
    /\ \A id \in todo[v] : \E a \in attempts : a.id = id /\ Expired(a)

SweepInv == SweepTypes /\ \A v \in Sweepers : BatchOK(v)

RecordingsInv == TypeInv /\ RowsInv /\ SweepInv /\ RecordingsMatchRows

LEMMA RecordingsInit == SweepInit => RecordingsInv
<1> SUFFICES ASSUME SweepInit PROVE RecordingsInv
  OBVIOUS
<1>1. TypeInv /\ Init
  BY TypeInit DEF SweepInit
<1>4. RowsInv
  BY <1>1 DEF Init, RowsInv, Inserting
<1>2. SweepInv
  BY DEF SweepInit, SweepInv, SweepTypes, BatchOK
<1>3. RecordingsMatchRows
  BY DEF SweepInit, Init, RecordingsMatchRows, KeptUntilExpiry, ClearedMeansGone
<1> QED BY <1>1, <1>2, <1>3, <1>4 DEF RecordingsInv

LEMMA RecordingsMean == RecordingsInv => RetentionTypeOK /\ RecordingsMatchRows
<1> SUFFICES ASSUME RecordingsInv PROVE RetentionTypeOK
  BY DEF RecordingsInv
<1>1. TypeOK
  BY DEF RecordingsInv, TypeInv, TypeOK, TableTypes, HandlerTypes, OtherTypes
<1>2. SweepTypes /\ \A v \in Sweepers : BatchOK(v)
  BY DEF RecordingsInv, SweepInv
<1>3. \A v \in Sweepers : sweepPc[v] = "clear" <=> inHand[v] \in todo[v]
  BY <1>2 DEF SweepTypes, BatchOK, NoRowInHand
<1> QED BY <1>1, <1>2, <1>3 DEF RetentionTypeOK, SweepTypes, BatchOK

(***************************************************************************)
(* The steps of the pipeline, as far as recordings are concerned: a draft  *)
(* is made, its recording stored, its row inserted, or none of these.      *)
(***************************************************************************)
\* Tables and drafts stay; a handler may be done with its draft.
Keeps ==
    /\ UNCHANGED <<attempts, objects, nextId>>
    /\ \A g \in Handlers :
        /\ pc'[g] \in Drafting => pc[g] \in Drafting /\ draft'[g] = draft[g]
        /\ pc'[g] \in Inserting => pc'[g] = pc[g]

Inserts(h) ==
    /\ pc[h] = "create" /\ pc'[h] \notin Inserting
    /\ attempts' = attempts \cup {draft[h]}
    /\ UNCHANGED <<objects, nextId, draft>>
    /\ \A g \in Handlers \ {h} : pc'[g] = pc[g]

LEMMA KeepsOrInserts ==
    ASSUME TypeInv, NEW h \in Handlers, Receive(h) \/ RecordAttempt(h) \/ Fault(h)
    PROVE  /\ now' = now
           /\ ScoreAudio(h) \/ PutAudio(h) \/ Inserts(h) \/ Keeps
<1>1. HandlerTypes
  BY DEF TypeInv
<1>2. ASSUME Advance(h), UNCHANGED <<attempts, objects, nextId>> PROVE Keeps
  BY <1>1, <1>2 DEF Advance, Goto, HandlerTypes, Keeps, Inserting
<1>3. ASSUME NEW step \in Steps \ Inserting, Goto(h, step),
             step \in Drafting => pc[h] \in Drafting,
             UNCHANGED <<attempts, objects, nextId, draft>>
      PROVE  Keeps
  BY <1>1, <1>3 DEF Goto, HandlerTypes, Keeps, Inserting
<1> USE DEF Inserting
<1>4. CASE Receive(h)
  BY <1>3, <1>4 DEF Receive, tables
<1>5. CASE FindExisting(h)
  BY <1>2, <1>3, <1>5 DEF FindExisting, AnswerWith, AnswerError, tables
<1>6. CASE CreateAttempt(h) \/ CreateAttemptError(h)
  <2>1. CASE Goto(h, "winner") /\ UNCHANGED attempts
    BY <1>3, <1>6, <2>1 DEF CreateAttempt, CreateAttemptError
  <2>2. CASE attempts' = attempts \cup {draft[h]}
    <3>1. /\ pc[h] = "create" /\ pc'[h] \in {"readMastery", "winner"}
          /\ \A g \in Handlers \ {h} : pc'[g] = pc[g]
          /\ UNCHANGED <<objects, nextId, draft, now>>
      BY <1>1, <1>6, <2>2 DEF CreateAttempt, CreateAttemptError, Goto, HandlerTypes
    <3> QED BY <2>2, <3>1 DEF Inserts
  <2> QED BY <1>6, <2>1, <2>2 DEF CreateAttempt, CreateAttemptError
<1>7. CASE FindWinner(h) \/ Reply(h) \/ CallFails(h)
  BY <1>2, <1>7 DEF FindWinner, Reply, CallFails, AnswerWith, AnswerError, tables
<1>8. CASE ReadMastery(h) \/ ReadWeakPhoneme(h)
  BY <1>3, <1>8 DEF ReadMastery, ReadWeakPhoneme, tables
<1>9. CASE WriteMastery(h)
  <2>1. CASE AnswerError(h)
    BY <1>2, <1>9, <2>1 DEF WriteMastery, AnswerError
  <2>2. CASE UNCHANGED draft /\ \E step \in {"readWeak", "reply"} : Goto(h, step)
    BY <1>3, <1>9, <2>2 DEF WriteMastery
  <2> QED BY <1>9, <2>1, <2>2 DEF WriteMastery
<1>10. CASE WriteWeakPhoneme(h)
  <2>1. CASE AnswerError(h)
    BY <1>2, <1>10, <2>1 DEF WriteWeakPhoneme, AnswerError
  <2>2. CASE UNCHANGED draft /\ Goto(h, "reply")
    BY <1>3, <1>10, <2>2 DEF WriteWeakPhoneme
  <2> QED BY <1>10, <2>1, <2>2 DEF WriteWeakPhoneme
<1>11. CASE ScoreAudio(h) \/ PutAudio(h)
  BY <1>11 DEF ScoreAudio, PutAudio
<1> QED BY <1>4, <1>5, <1>6, <1>7, <1>8, <1>9, <1>10, <1>11 DEF RecordAttempt, Fault

LEMMA KeepsRows == TypeInv /\ RowsInv /\ Keeps => RowsInv'
BY DEF RowsInv, Keeps, Inserting

LEMMA InsertsRows ==
    ASSUME TypeInv, RowsInv, NEW h \in Handlers, ScoreAudio(h) \/ PutAudio(h) \/ Inserts(h)
    PROVE  RowsInv'
<1> USE DEF Inserting
<1>1. HandlerTypes /\ nextId \in Nat /\ attempts \subseteq Attempt
  BY DEF TypeInv, OtherTypes, TableTypes
<1>2. \A g \in Handlers : pc[g] \in Drafting => draft[g].id \in Nat
  BY DEF TypeInv, HandlerOK, Attempt
<1>3. \A a \in attempts : a.id \in Nat
  BY <1>1 DEF Attempt
<1>4. CASE ScoreAudio(h)
  <2>1. /\ draft'[h].id = nextId /\ draft'[h].audio /\ nextId' = nextId + 1
        /\ \A g \in Handlers \ {h} : draft'[g] = draft[g] /\ pc'[g] = pc[g]
        /\ pc'[h] = "put" /\ UNCHANGED <<attempts, objects>>
    BY <1>1, <1>4 DEF ScoreAudio, Goto, tables, HandlerTypes
  <2> QED BY <1>1, <1>2, <1>3, <2>1 DEF RowsInv
<1>5. CASE PutAudio(h)
  <2>1. /\ objects' = objects \cup {draft[h].id} /\ pc[h] = "put" /\ pc'[h] = "create"
        /\ \A g \in Handlers \ {h} : pc'[g] = pc[g]
        /\ UNCHANGED <<attempts, draft, nextId>>
    BY <1>1, <1>5 DEF PutAudio, Goto, HandlerTypes
  <2> QED BY <2>1 DEF RowsInv
<1>6. CASE Inserts(h)
  BY <1>6 DEF RowsInv, Inserts
<1> QED BY <1>4, <1>5, <1>6

(***************************************************************************)
(* What a step of the pipeline adds for the sweeps: rows with their        *)
(* recordings, and recordings that no row has yet.                         *)
(***************************************************************************)
Adds ==
    /\ attempts \subseteq attempts' /\ objects \subseteq objects'
    /\ \A a \in attempts' \ attempts : a.audio /\ a.id \in objects'
    /\ \A id \in objects' \ objects : \A a \in attempts' : a.id # id
    /\ now' \in Nat /\ now <= now'

LEMMA PipelineAdds ==
    ASSUME TypeInv, RowsInv, now' \in Nat, now <= now', NEW h \in Handlers,
           ScoreAudio(h) \/ PutAudio(h) \/ Inserts(h) \/ Keeps
    PROVE  Adds
<1>1. CASE ScoreAudio(h) \/ Keeps
  BY <1>1 DEF ScoreAudio, Keeps, Adds, tables
<1>2. CASE PutAudio(h)
  BY <1>2 DEF PutAudio, RowsInv, Inserting, Adds
<1>3. CASE Inserts(h)
  BY <1>3 DEF Inserts, RowsInv, Adds
<1> QED BY <1>1, <1>2, <1>3

\* Expiry is for good.
LEMMA ExpiredStays ==
    ASSUME TypeInv, now' \in Nat, now <= now', NEW a \in attempts, Expired(a)
    PROVE  Expired(a)'
<1>1. a.at \in Nat /\ now \in Nat
  BY DEF TypeInv, TableTypes, OtherTypes, Attempt
<1> QED BY <1>1, RetentionAssumption DEF Expired, RetainUntil

LEMMA AddsRecordings ==
    ASSUME TypeInv, RecordingsMatchRows, Adds
    PROVE  RecordingsMatchRows'
<1>1. KeptUntilExpiry'
  BY ExpiredStays DEF Adds, RecordingsMatchRows, KeptUntilExpiry
<1>2. ClearedMeansGone'
  BY DEF Adds, RecordingsMatchRows, ClearedMeansGone
<1> QED BY <1>1, <1>2 DEF RecordingsMatchRows

LEMMA AddsSweep ==
    ASSUME TypeInv, SweepInv, Adds, UNCHANGED sweepVars
    PROVE  SweepInv'
<1>1. SweepTypes'
  BY DEF SweepInv, SweepTypes, sweepVars
<1>2. ASSUME NEW v \in Sweepers PROVE BatchOK(v)'
  <2>1. BatchOK(v) /\ UNCHANGED <<sweepPc, todo, inHand>>
    BY DEF SweepInv, sweepVars
  <2>2. \A id \in todo[v] : \E a \in attempts' : a.id = id /\ Expired(a)'
    BY <2>1, ExpiredStays DEF BatchOK, Adds
  <2>3. sweepPc[v] = "clear" => inHand[v] \notin objects'
    BY <2>1 DEF BatchOK, Adds
  <2> QED BY <2>1, <2>2, <2>3 DEF BatchOK
<1> QED BY <1>1, <1>2 DEF SweepInv

LEMMA PipelineStep == RecordingsInv /\ Pipeline => RecordingsInv'
<1> SUFFICES ASSUME RecordingsInv, Pipeline PROVE RecordingsInv'
  OBVIOUS
<1>1. TypeInv /\ RowsInv /\ SweepInv /\ RecordingsMatchRows /\ UNCHANGED sweepVars
  BY DEF RecordingsInv, Pipeline
<1>2. TypeInv'
  <2>1. Next
    BY DEF Pipeline, Next
  <2> QED BY <1>1, <2>1, TypeStep
<1>3. now \in Nat /\ now' \in Nat
  BY <1>1, <1>2 DEF TypeInv, OtherTypes
<1>4. ASSUME Adds, RowsInv' PROVE RecordingsInv'
  BY <1>1, <1>2, <1>4, AddsRecordings, AddsSweep DEF RecordingsInv
<1>5. ASSUME NEW h \in Handlers, Receive(h) \/ RecordAttempt(h) \/ Fault(h)
      PROVE  RecordingsInv'
  <2>1. now <= now' /\ (ScoreAudio(h) \/ PutAudio(h) \/ Inserts(h) \/ Keeps)
    BY <1>1, <1>3, <1>5, KeepsOrInserts
  <2> QED BY <1>1, <1>3, <1>4, <2>1, KeepsRows, InsertsRows, PipelineAdds
<1>6. CASE Tick
  <2>1. UNCHANGED <<attempts, objects, nextId, pc, draft>> /\ now <= now'
    BY <1>3, <1>6 DEF Tick, tables, handlerVars
  <2> QED BY <1>1, <1>3, <1>4, <2>1, KeepsRows DEF Keeps, Adds
<1> QED BY <1>5, <1>6 DEF Pipeline

(***************************************************************************)
(* The steps of a sweep.                                                   *)
(***************************************************************************)
\* One sweep's step leaves the batches of the others alone.
OwnStep(v) ==
    /\ SweepTypes'
    /\ \A u \in Sweepers \ {v} : /\ sweepPc'[u] = sweepPc[u]
                                 /\ todo'[u] = todo[u] /\ inHand'[u] = inHand[u]

\* What a sweep does to the tables takes no batch of another one apart: the
\* rows keep their ids and times, and no recording is added.
LEMMA OthersBatch ==
    ASSUME SweepInv, NEW v \in Sweepers, OwnStep(v), BatchOK(v)', objects' \subseteq objects,
           \A id \in Nat : (\E a \in attempts : a.id = id /\ Expired(a)) =>
                              \E a \in attempts' : a.id = id /\ Expired(a)'
    PROVE  SweepInv'
<1>1. ASSUME NEW u \in Sweepers, u # v PROVE BatchOK(u)'
  <2>1. BatchOK(u) /\ todo[u] \subseteq Nat
    BY DEF SweepInv, SweepTypes
  <2> QED BY <1>1, <2>1 DEF OwnStep, BatchOK
<1> QED BY <1>1 DEF SweepInv, OwnStep

\* Steps that leave the pipeline and its tables alone.
LEMMA IdleSweep ==
    ASSUME RecordingsInv, NEW v \in Sweepers,
           UNCHANGED <<now, tables, handlerVars, replies, nextId, received>>, faults' \in Nat,
           OwnStep(v), BatchOK(v)'
    PROVE  RecordingsInv'
<1> USE DEF RecordingsInv, tables, handlerVars
<1>1. TypeInv'
  BY DEF TypeInv, TableTypes, HandlerTypes, OtherTypes, HandlerOK
<1>2. RowsInv'
  BY DEF RowsInv
<1>3. SweepInv'
  BY OthersBatch DEF Expired
<1>4. RecordingsMatchRows'
  BY DEF RecordingsMatchRows, KeptUntilExpiry, ClearedMeansGone, Expired
<1> QED BY <1>1, <1>2, <1>3, <1>4

LEMMA IdleSweepStep ==
    ASSUME RecordingsInv, NEW v \in Sweepers, StartSweep(v) \/ FetchBatch(v) \/ SweepFails(v)
    PROVE  RecordingsInv'
<1>1. /\ SweepTypes /\ BatchOK(v) /\ faults \in Nat
      /\ attempts \subseteq Attempt /\ \A a \in attempts : a.id \in Nat
  BY DEF RecordingsInv, SweepInv, TypeInv, TableTypes, OtherTypes, Attempt
<1>2. CASE StartSweep(v)
  <2>1. OwnStep(v) /\ BatchOK(v)'
    BY <1>1, <1>2 DEF StartSweep, OwnStep, SweepTypes, BatchOK, vars, tables, Expired
  <2> QED BY <1>1, <1>2, <2>1, IdleSweep DEF StartSweep, vars, tables, handlerVars
<1>3. CASE SweepFails(v)
  <2>1. OwnStep(v) /\ BatchOK(v)' /\ faults' \in Nat
    BY <1>1, <1>3 DEF SweepFails, OwnStep, SweepTypes, BatchOK
  <2> QED BY <1>3, <2>1, IdleSweep DEF SweepFails
<1>4. CASE FetchBatch(v)
  <2>1. CASE sweepPc' = [sweepPc EXCEPT ![v] = "off"] /\ UNCHANGED todo
    <3>1. OwnStep(v) /\ BatchOK(v)'
      BY <1>1, <1>4, <2>1 DEF FetchBatch, OwnStep, SweepTypes, BatchOK
    <3> QED BY <1>1, <1>4, <3>1, IdleSweep DEF FetchBatch, vars, tables, handlerVars
  <2>2. ASSUME NEW rows \in SUBSET ExpiredAudio, Cardinality(rows) \in 1..SweepBatchSize,
               todo' = [todo EXCEPT ![v] = {a.id : a \in rows}],
               sweepPc' = [sweepPc EXCEPT ![v] = "remove"]
        PROVE  RecordingsInv'
    <3>1. rows # {}
      BY <2>2, FS_EmptySet, RetentionAssumption
    <3>2. \A a \in rows : a \in attempts /\ Expired(a)
      BY DEF ExpiredAudio
    <3> DEFINE ids == {a.id : a \in rows}
    <3>3. ids \in SUBSET Nat /\ ids # {} /\ \A id \in ids : \E a \in attempts : a.id = id /\ Expired(a)
      BY <1>1, <3>1, <3>2
    <3> HIDE DEF ids
    <3>4. /\ todo' = [todo EXCEPT ![v] = ids] /\ sweepPc[v] = "fetch"
          /\ UNCHANGED <<now, attempts, objects, inHand, faults>>
      BY <1>4, <2>2 DEF FetchBatch, ids, vars, tables
    <3>5. OwnStep(v)
      BY <1>1, <2>2, <3>3, <3>4 DEF OwnStep, SweepTypes
    <3>6. BatchOK(v)'
      BY <1>1, <2>2, <3>3, <3>4 DEF BatchOK, SweepTypes, Expired
    <3> QED BY <1>1, <1>4, <3>5, <3>6, IdleSweep DEF FetchBatch, vars, tables, handlerVars
  <2> QED BY <1>4, <2>1, <2>2 DEF FetchBatch
<1> QED BY <1>2, <1>3, <1>4

LEMMA RemoveStep ==
    ASSUME RecordingsInv, NEW v \in Sweepers, RemoveObject(v)
    PROVE  RecordingsInv'
<1> USE DEF RecordingsInv
<1>1. PICK id \in todo[v] : /\ inHand' = [inHand EXCEPT ![v] = id]
                            /\ objects' = objects \ {id}
  BY DEF RemoveObject
<1>2. SweepTypes /\ BatchOK(v) /\ id \in Nat
  BY DEF SweepInv, SweepTypes
<1>3. /\ sweepPc[v] = "remove" /\ sweepPc' = [sweepPc EXCEPT ![v] = "clear"]
      /\ UNCHANGED <<todo, now, attempts, mastery, weak, handlerVars, replies, nextId,
                     received, faults>>
  BY DEF RemoveObject
<1>4. \A a \in attempts : a.id = id => Expired(a)
  BY <1>2 DEF BatchOK, RowsInv
<1>5. \E a \in attempts : a.id = id
  BY <1>2 DEF BatchOK
<1>6. TypeInv'
  BY <1>1, <1>3 DEF TypeInv, TableTypes, HandlerTypes, OtherTypes, HandlerOK, handlerVars
<1>7. RowsInv'
  BY <1>1, <1>3, <1>5 DEF RowsInv, Inserting, handlerVars
<1>8. SweepInv'
  <2>1. OwnStep(v) /\ BatchOK(v)'
    BY <1>1, <1>2, <1>3 DEF OwnStep, SweepTypes, BatchOK, Expired
  <2> QED BY <1>1, <1>3, <2>1, OthersBatch DEF Expired
<1>9. RecordingsMatchRows'
  BY <1>1, <1>3, <1>4 DEF RecordingsMatchRows, KeptUntilExpiry, ClearedMeansGone, Expired
<1> QED BY <1>6, <1>7, <1>8, <1>9

\* Clearing the reference of one id: the same rows, without that recording.
LEMMA Cleared ==
    ASSUME attempts \subseteq Attempt, NEW id,
           attempts' = {IF a.id = id THEN [a EXCEPT !.audio = FALSE] ELSE a : a \in attempts}
    PROVE  /\ attempts' \subseteq Attempt
           /\ \A b \in attempts' : \E a \in attempts :
                /\ b.id = a.id /\ b.at = a.at
                /\ IF a.id = id THEN b = [a EXCEPT !.audio = FALSE] ELSE b = a
           /\ \A a \in attempts : \E b \in attempts' : b.id = a.id /\ b.at = a.at
<1>1. ASSUME NEW a \in attempts
      PROVE  LET b == IF a.id = id THEN [a EXCEPT !.audio = FALSE] ELSE a
             IN  b \in Attempt /\ b.id = a.id /\ b.at = a.at
  BY DEF Attempt
<1> QED BY <1>1

LEMMA ClearStep ==
    ASSUME RecordingsInv, NEW v \in Sweepers, ClearAudioRef(v)
    PROVE  RecordingsInv'
<1> USE DEF RecordingsInv
<1>1. PICK id \in Nat : id = inHand[v] /\ id \in todo[v] /\ id \notin objects
  BY DEF ClearAudioRef, SweepInv, SweepTypes, BatchOK
<1>2. /\ sweepPc[v] = "clear"
      /\ attempts' = {IF a.id = id THEN [a EXCEPT !.audio = FALSE] ELSE a : a \in attempts}
      /\ todo' = [todo EXCEPT ![v] = todo[v] \ {id}]
      /\ inHand' = [inHand EXCEPT ![v] = NoRowInHand]
      /\ sweepPc' = [sweepPc EXCEPT ![v] = IF todo[v] = {id} THEN "fetch" ELSE "remove"]
      /\ UNCHANGED <<now, mastery, weak, objects, handlerVars, replies, nextId, received, faults>>
  BY <1>1 DEF ClearAudioRef, RowDone
<1>3. attempts \subseteq Attempt /\ SweepTypes /\ BatchOK(v)
  BY DEF TypeInv, TableTypes, SweepInv
<1>4. /\ attempts' \subseteq Attempt
      /\ \A b \in attempts' : \E a \in attempts :
                /\ b.id = a.id /\ b.at = a.at
                /\ IF a.id = id THEN b = [a EXCEPT !.audio = FALSE] ELSE b = a
      /\ \A a \in attempts : \E b \in attempts' : b.id = a.id /\ b.at = a.at
  BY <1>2, <1>3, Cleared
<1>5. TypeInv'
  BY <1>2, <1>4 DEF TypeInv, TableTypes, HandlerTypes, OtherTypes, HandlerOK, handlerVars
<1>6. RowsInv'
  <2>1. \A a \in attempts' : a.id < nextId
    BY <1>4 DEF RowsInv
  <2>2. ASSUME NEW b \in attempts', NEW c \in attempts', b.id = c.id PROVE b = c
    <3>1. PICK a \in attempts :
                /\ b.id = a.id
                /\ IF a.id = id THEN b = [a EXCEPT !.audio = FALSE] ELSE b = a
      BY <1>4
    <3>2. PICK d \in attempts :
                /\ c.id = d.id
                /\ IF d.id = id THEN c = [d EXCEPT !.audio = FALSE] ELSE c = d
      BY <1>4
    <3>3. a = d
      BY <2>2, <3>1, <3>2 DEF RowsInv
    <3>4. CASE a.id = id
      BY <3>1, <3>2, <3>3, <3>4
    <3>5. CASE a.id # id
      BY <3>1, <3>2, <3>3, <3>5
    <3> QED BY <3>4, <3>5
  <2>3. ASSUME NEW h \in Handlers, pc[h] \in Inserting, NEW b \in attempts'
        PROVE  b.id # draft[h].id
    BY <1>4, <2>3 DEF RowsInv
  <2>4. UNCHANGED <<pc, draft, objects, nextId>>
    BY <1>2 DEF handlerVars
  <2> HIDE DEF RecordingsInv
  <2>5. /\ \A h \in Handlers :
            /\ pc[h] \in Drafting => draft[h].id < nextId /\ draft[h].audio
            /\ pc[h] = "create" => draft[h].id \in objects
        /\ \A g, h \in Handlers :
            g # h /\ pc[g] \in Drafting /\ pc[h] \in Drafting => draft[g].id # draft[h].id
    BY DEF RowsInv, RecordingsInv
  <2> QED BY <2>1, <2>2, <2>3, <2>4, <2>5 DEF RowsInv
<1>7. SweepInv'
  <2>1. OwnStep(v)
    BY <1>2, <1>3 DEF OwnStep, SweepTypes
  <2>2. ASSUME NEW a \in attempts, Expired(a)
        PROVE  \E b \in attempts' : b.id = a.id /\ Expired(b)'
    <3>1. PICK b \in attempts' : b.id = a.id /\ b.at = a.at
      BY <1>4
    <3> QED BY <1>2, <2>2, <3>1 DEF Expired, RetainUntil
  <2>3. \A n \in Nat : (\E a \in attempts : a.id = n /\ Expired(a)) =>
                          \E a \in attempts' : a.id = n /\ Expired(a)'
    BY <2>2
  <2>4. todo[v] \subseteq Nat /\ todo'[v] = todo[v] \ {id} /\ inHand'[v] = NoRowInHand
    BY <1>2, <1>3 DEF SweepTypes
  <2>5. sweepPc'[v] = IF todo'[v] = {} THEN "fetch" ELSE "remove"
    BY <1>1, <1>2, <1>3, <2>4 DEF SweepTypes
  <2>6. \A n \in todo'[v] : \E b \in attempts' : b.id = n /\ Expired(b)'
    BY <1>3, <2>3, <2>4 DEF BatchOK
  <2>7. BatchOK(v)'
    BY <2>4, <2>5, <2>6 DEF BatchOK
  <2> QED BY <1>2, <2>1, <2>3, <2>7, OthersBatch
<1>8. KeptUntilExpiry'
  <2>1. ASSUME NEW b \in attempts', ~Expired(b)' PROVE b.audio /\ b.id \in objects
    <3>1. PICK a \in attempts : /\ b.id = a.id /\ b.at = a.at
                                /\ IF a.id = id THEN b = [a EXCEPT !.audio = FALSE] ELSE b = a
      BY <1>4
    <3>2. ~Expired(a)
      BY <1>2, <2>1, <3>1 DEF Expired, RetainUntil
    <3>3. a.id \in objects /\ a.audio
      BY <3>2 DEF RecordingsMatchRows, KeptUntilExpiry
    <3> QED BY <1>1, <3>1, <3>3
  <2> QED BY <1>2, <2>1 DEF KeptUntilExpiry
<1>9. ClearedMeansGone'
  BY <1>1, <1>2, <1>4 DEF RecordingsMatchRows, ClearedMeansGone
<1> QED BY <1>5, <1>6, <1>7, <1>8, <1>9 DEF RecordingsMatchRows

LEMMA CrashStep == RecordingsInv /\ ProcessCrash => RecordingsInv'
<1> SUFFICES ASSUME RecordingsInv, ProcessCrash PROVE RecordingsInv'
  OBVIOUS
<1> USE DEF RecordingsInv, ProcessCrash
<1>1. TypeInv'
  BY TypeStep DEF Next
<1>2. UNCHANGED <<attempts, objects, nextId, now>> /\ \A h \in Handlers : pc'[h] = "idle"
  BY DEF Crash, tables
<1>3. RowsInv'
  BY <1>2 DEF RowsInv, Inserting
<1>4. SweepInv'
  BY DEF SweepInv, SweepTypes, BatchOK
<1>5. RecordingsMatchRows'
  BY <1>2 DEF RecordingsMatchRows, KeptUntilExpiry, ClearedMeansGone, Expired
<1> QED BY <1>1, <1>3, <1>4, <1>5

LEMMA StutterStep == RecordingsInv /\ UNCHANGED retentionVars => RecordingsInv'
BY DEF RecordingsInv, retentionVars, vars, tables, handlerVars, sweepVars, TypeInv, TableTypes,
       HandlerTypes, OtherTypes, HandlerOK, RowsInv, SweepInv, SweepTypes, BatchOK,
       RecordingsMatchRows, KeptUntilExpiry, ClearedMeansGone, Expired

LEMMA RecordingsStep == RecordingsInv /\ [RetentionNext]_retentionVars => RecordingsInv'
BY PipelineStep, IdleSweepStep, RemoveStep, ClearStep, CrashStep, StutterStep
   DEF RetentionNext, Sweep

\* The sweeps and the pipeline beside them keep their types, and a sweep has
\* rows left exactly while it works on a batch: worker.go 30.
THEOREM RetentionTypeCorrect == RetentionSpec => []RetentionTypeOK
BY RecordingsInit, RecordingsStep, RecordingsMean, PTL DEF RetentionSpec

\* No sweep, crash or failed call removes a recording before its time, and a
\* reference is cleared only when its recording is gone (repository.go 196).
THEOREM RecordingsAreKept == RetentionSpec => []RecordingsMatchRows
BY RecordingsInit, RecordingsStep, RecordingsMean, PTL DEF RetentionSpec
=============================================================================
