----------------------------- MODULE Retention ------------------------------
(***************************************************************************)
(* The audio retention sweep (learning/worker.go) beside the attempt       *)
(* pipeline whose recordings it deletes.  River starts a sweep when the    *)
(* process starts and periodically, and again when one returned an error;  *)
(* nothing keeps two sweeps from running at the same time.                 *)
(***************************************************************************)
EXTENDS Attempts

CONSTANTS
    Sweepers,           \* River workers that may run a sweep
    AudioRetention,     \* how long a recording is kept
    SweepBatchSize      \* rows one query of the sweep returns at most

ASSUME RetentionAssumption ==
    /\ AudioRetention \in Nat
    /\ SweepBatchSize \in Nat \ {0}

VARIABLES
    sweepPc,    \* the call each sweep makes next
    todo,       \* ids of the rows of its batch it still has to process
    inHand      \* the row it is processing

sweepVars == <<sweepPc, todo, inHand>>
retentionVars == <<vars, sweepVars>>

NoRowInHand == -1

\* retain_until < now
RetainUntil(a) == a.at + AudioRetention
Expired(a) == RetainUntil(a) < now

SweepInit ==
    /\ Init
    /\ sweepPc = [v \in Sweepers |-> "off"]
    /\ todo = [v \in Sweepers |-> {}]
    /\ inHand = [v \in Sweepers |-> NoRowInHand]

-----------------------------------------------------------------------------

\* The job runs: on start, every 12 hours, or as the retry of a failed one.
StartSweep(v) ==
    /\ sweepPc[v] = "off"
    /\ sweepPc' = [sweepPc EXCEPT ![v] = "fetch"]
    /\ UNCHANGED <<vars, todo, inHand>>

\* Faulty: a recording goes at retain_until, not after it.
ExpiredAudioEarly == {a \in attempts : RetainUntil(a) <= now /\ a.audio}

\* Rows past retain_until that still refer to a recording.
ExpiredAudio == {a \in attempts : Expired(a) /\ a.audio}

\* The next batch, or the end of the sweep when there is none.
FetchBatch(v) ==
    /\ sweepPc[v] = "fetch"
    /\ \/ /\ ExpiredAudio = {}
          /\ sweepPc' = [sweepPc EXCEPT ![v] = "off"]
          /\ UNCHANGED todo
       \/ \E rows \in SUBSET ExpiredAudio :
            /\ Cardinality(rows) \in 1..SweepBatchSize
            /\ Cardinality(rows) = SweepBatchSize \/ rows = ExpiredAudio
            /\ todo' = [todo EXCEPT ![v] = {a.id : a \in rows}]
            /\ sweepPc' = [sweepPc EXCEPT ![v] = "remove"]
    /\ UNCHANGED <<vars, inHand>>

\* Faulty: the reference goes and the recording stays.
DropReferenceOnly(v) ==
    /\ sweepPc[v] = "remove"
    /\ \E id \in todo[v] :
        /\ inHand' = [inHand EXCEPT ![v] = id]
        /\ attempts' = {IF a.id = id THEN [a EXCEPT !.audio = FALSE] ELSE a : a \in attempts}
    /\ sweepPc' = [sweepPc EXCEPT ![v] = "clear"]
    /\ UNCHANGED <<todo, now, objects, mastery, weak, handlerVars, replies, nextId,
                   received, faults>>

\* Audio.Remove; an object that is gone already is no error.
RemoveObject(v) ==
    /\ sweepPc[v] = "remove"
    /\ \E id \in todo[v] :
        /\ inHand' = [inHand EXCEPT ![v] = id]
        /\ objects' = objects \ {id}
    /\ sweepPc' = [sweepPc EXCEPT ![v] = "clear"]
    /\ UNCHANGED <<todo, now, attempts, mastery, weak, handlerVars, replies, nextId,
                   received, faults>>

\* Faulty: the row stays on the list.
RowDoneKept(v) ==
    /\ todo' = todo
    /\ inHand' = [inHand EXCEPT ![v] = NoRowInHand]
    /\ sweepPc' = [sweepPc EXCEPT ![v] = IF todo[v] = {inHand[v]} THEN "fetch" ELSE "remove"]

\* The row is done: the sweep takes the next one, or the next batch.
RowDone(v) ==
    /\ todo' = [todo EXCEPT ![v] = @ \ {inHand[v]}]
    /\ inHand' = [inHand EXCEPT ![v] = NoRowInHand]
    /\ sweepPc' = [sweepPc EXCEPT ![v] = IF todo[v] = {inHand[v]} THEN "fetch" ELSE "remove"]

\* Faulty: the object is gone but its row keeps the reference.
ClearAudioRefForgotten(v) ==
    /\ sweepPc[v] = "clear"
    /\ RowDone(v)
    /\ UNCHANGED vars

\* The row loses its reference and keeps its score.
ClearAudioRef(v) ==
    /\ sweepPc[v] = "clear"
    /\ attempts' = {IF a.id = inHand[v] THEN [a EXCEPT !.audio = FALSE] ELSE a : a \in attempts}
    /\ RowDone(v)
    /\ UNCHANGED <<now, mastery, weak, objects, handlerVars, replies, nextId, received, faults>>

\* A call of the sweep returns an error, and the job with it.
SweepFails(v) ==
    /\ sweepPc[v] # "off"
    /\ faults < MaxFaults
    /\ faults' = faults + 1
    /\ sweepPc' = [sweepPc EXCEPT ![v] = "off"]
    /\ todo' = [todo EXCEPT ![v] = {}]
    /\ inHand' = [inHand EXCEPT ![v] = NoRowInHand]
    /\ UNCHANGED <<now, tables, handlerVars, replies, nextId, received>>

\* The process dies with its handlers and its sweeps.
ProcessCrash ==
    /\ Crash
    /\ sweepPc' = [v \in Sweepers |-> "off"]
    /\ todo' = [v \in Sweepers |-> {}]
    /\ inHand' = [v \in Sweepers |-> NoRowInHand]

-----------------------------------------------------------------------------

Sweep(v) == FetchBatch(v) \/ RemoveObject(v) \/ ClearAudioRef(v)

\* What the pipeline does on its own.
Pipeline ==
    /\ \/ \E h \in Handlers : Receive(h) \/ RecordAttempt(h) \/ Fault(h)
       \/ Tick
    /\ UNCHANGED sweepVars

RetentionNext ==
    \/ Pipeline
    \/ \E v \in Sweepers : StartSweep(v) \/ Sweep(v) \/ SweepFails(v)
    \/ ProcessCrash

\* Time passes, running handlers and sweeps get on, and River keeps starting
\* sweeps: the period, the retry of a failed job and the run at start.
RetentionFairness ==
    /\ WF_retentionVars(Tick /\ UNCHANGED sweepVars)
    /\ \A h \in Handlers : WF_retentionVars(RecordAttempt(h) /\ UNCHANGED sweepVars)
    /\ \A v \in Sweepers : WF_retentionVars(StartSweep(v) \/ Sweep(v))

RetentionSpec == SweepInit /\ [][RetentionNext]_retentionVars /\ RetentionFairness

-----------------------------------------------------------------------------
(***************************************************************************)
(* Properties                                                              *)
(***************************************************************************)

\* Type invariant of the sweep and of the pipeline it runs beside: a sweep has
\* rows left exactly while it works on a batch, and the one in hand is of them.
RetentionTypeOK ==
    /\ TypeOK
    /\ sweepPc \in [Sweepers -> {"off", "fetch", "remove", "clear"}]
    /\ todo \in [Sweepers -> SUBSET Nat]
    /\ inHand \in [Sweepers -> Nat \cup {NoRowInHand}]
    /\ \A v \in Sweepers : /\ sweepPc[v] \in {"off", "fetch"} <=> todo[v] = {}
                           /\ sweepPc[v] = "clear" <=> inHand[v] \in todo[v]

\* Until retain_until passes an attempt has its recording and refers to it:
\* no sweep, working from a batch read earlier, reaches a younger one.
KeptUntilExpiry ==
    \A a \in attempts : ~Expired(a) => a.audio /\ a.id \in objects

\* "nulls the object reference after the object is deleted" (repository.go
\* 196): no crash, failed call or second sweep leaves a recording that no row
\* refers to any more.
ClearedMeansGone ==
    \A a \in attempts : ~a.audio => a.id \notin objects

\* The bucket and the rows tell the same of the recordings of stored attempts.
RecordingsMatchRows == KeptUntilExpiry /\ ClearedMeansGone

\* Every recording of a stored attempt that has expired is removed and its
\* reference cleared in the end, whatever sweeps fail on the way.
ExpiredIsRemoved ==
    \A id \in 0..MaxItems :
        (\E a \in attempts : a.id = id /\ Expired(a)) ~>
            (id \notin objects /\ \A a \in attempts : a.id = id => ~a.audio)

\* "the recording itself is removed once retain_until passes" (worker.go 19):
\* the sweep finds recordings through the rows that refer to them, so every
\* recording in the bucket must have one, or a handler about to store it.
RecordingsAreSwept ==
    \A id \in objects :
        \/ \E a \in attempts : a.id = id /\ a.audio
        \/ \E h \in Handlers : pc[h] \in {"create", "winner"} /\ draft[h].id = id
=============================================================================
