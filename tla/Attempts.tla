------------------------------ MODULE Attempts ------------------------------
(***************************************************************************)
(* The speech-attempt pipeline of the learning module:                     *)
(* Service.RecordAttempt and Service.SyncAttempts with the repository      *)
(* calls they make, one action per call, run by concurrent request         *)
(* handlers against one database and one audio bucket.                     *)
(*                                                                         *)
(* A handler works through a batch: a live attempt is a batch of one item, *)
(* an offline sync a batch of several.  Every call may fail, and the       *)
(* process may crash between any two calls; clients resend an item under   *)
(* the same client_key whenever they like, to the same or to another       *)
(* handler.  Scores are percentages.  A transaction of the repository is   *)
(* its SELECT and its committing write (READ COMMITTED), two actions.      *)
(***************************************************************************)
EXTENDS Integers, Sequences, FiniteSets

CONSTANTS
    Handlers,           \* request handlers running at the same time
    Children, Sessions, Keys, Words, Phonemes,
    SessionChild,       \* the child each session belongs to
    LessonWords,        \* the word ids of the lesson of each session
    LessonSound,        \* the sound of that lesson, or NoSound
    NoSound,
    Items,              \* what clients submit
    Scores,             \* what the scorer may answer
    MasteryThreshold, WeakThreshold,
    MaxBatch,           \* bound: items in one sync request
    MaxItems,           \* bound: items received in a behaviour
    MaxFaults,          \* bound: failed calls and crashes
    MaxTime,            \* bound: the clock
    NoDraft

Item == [session: Sessions, key: Keys, word: Words, audio: BOOLEAN]

ASSUME ConstantsAssumption ==
    /\ SessionChild \in [Sessions -> Children]
    /\ LessonWords \in [Sessions -> SUBSET Words]
    /\ LessonSound \in [Sessions -> Phonemes \cup {NoSound}]
    /\ Items \subseteq Item
    /\ Scores \subseteq Nat
    /\ MasteryThreshold \in Nat
    /\ WeakThreshold \in Nat
    /\ {MaxBatch, MaxItems, MaxFaults, MaxTime} \subseteq Nat

VARIABLES
    now,        \* the server's clock
    attempts,   \* table speech_attempts
    mastery,    \* table mastery_words, UNIQUE (child_id, word_id)
    weak,       \* table weak_phonemes: miss_count, 0 where there is no row
    objects,    \* the audio bucket: ids of the attempts whose recording it has
    pc,         \* the call each handler makes next
    batch,      \* the items each handler still has to process
    draft,      \* the attempt a handler is recording
    seen,       \* the mastery row a handler's transaction read
    seenMiss,   \* the miss_count a handler's transaction read
    replies,    \* history: the results answered with success
    nextId,     \* the next attempt id (uuid.New)
    received,   \* bookkeeping for MaxItems
    faults      \* bookkeeping for MaxFaults

tables == <<attempts, mastery, weak, objects>>
handlerVars == <<pc, batch, draft, seen, seenMiss>>
vars == <<now, tables, handlerVars, replies, nextId, received, faults>>

Never == -1     \* first_mastered_at IS NULL

\* at is the clock reading that retain_until and first_mastered_at come from;
\* audio says that audio_object_key is not null.
Attempt == [id: Nat, session: Sessions, key: Keys, word: Words,
            score: Scores, at: Nat, audio: BOOLEAN]

\* avg_score is kept as its numerator, sum.  count = 0 stands for no row.
MasteryRow == [count: Nat, sum: Nat, first: Nat \cup {Never}]
NoRow == [count |-> 0, sum |-> 0, first |-> Never]

Steps == {"idle", "find", "score", "put", "create", "winner",
          "readMastery", "writeMastery", "readWeak", "writeWeak", "reply"}

\* A handler has an attempt in hand, and its row is stored by itself.
Drafting == Steps \ {"idle", "find", "score"}
Stored == {"readMastery", "writeMastery", "readWeak", "writeWeak", "reply"}

Current(h) == Head(batch[h])
ChildOf(r) == SessionChild[r.session]

\* The stored attempts of one (session, client_key): at most one.
WithKey(s, k) == {a \in attempts : a.session = s /\ a.key = k}

Init ==
    /\ now = 0
    /\ attempts = {}
    /\ mastery = [c \in Children |-> [w \in Words |-> NoRow]]
    /\ weak = [c \in Children |-> [p \in Phonemes |-> 0]]
    /\ objects = {}
    /\ pc = [h \in Handlers |-> "idle"]
    /\ batch = [h \in Handlers |-> <<>>]
    /\ draft = [h \in Handlers |-> NoDraft]
    /\ seen = [h \in Handlers |-> NoRow]
    /\ seenMiss = [h \in Handlers |-> 0]
    /\ replies = {}
    /\ nextId = 0
    /\ received = 0
    /\ faults = 0

-----------------------------------------------------------------------------
(***************************************************************************)
(* The handler's control                                                   *)
(***************************************************************************)

Goto(h, step) == pc' = [pc EXCEPT ![h] = step]

\* A request arrives: one live attempt, or a sync batch.
Receive(h) ==
    /\ pc[h] = "idle"
    /\ \E n \in 1..MaxBatch : \E items \in [1..n -> Items] :
        /\ received + n <= MaxItems
        /\ batch' = [batch EXCEPT ![h] = items]
        /\ received' = received + n
    /\ Goto(h, "find")
    /\ UNCHANGED <<now, tables, draft, seen, seenMiss, replies, nextId, faults>>

\* The current item is done, with a result or with an error: the batch goes
\* on with its next item ("one bad item never blocks the rest").
Advance(h) ==
    /\ batch' = [batch EXCEPT ![h] = Tail(@)]
    /\ Goto(h, IF Len(batch[h]) > 1 THEN "find" ELSE "idle")
    /\ draft' = [draft EXCEPT ![h] = NoDraft]
    /\ seen' = [seen EXCEPT ![h] = NoRow]
    /\ seenMiss' = [seenMiss EXCEPT ![h] = 0]

AnswerWith(h, a) ==
    /\ replies' = replies \cup {a}
    /\ Advance(h)

AnswerError(h) ==
    /\ Advance(h)
    /\ UNCHANGED replies

-----------------------------------------------------------------------------
(***************************************************************************)
(* RecordAttempt, call by call                                             *)
(***************************************************************************)

\* A stored result for this client_key answers the item; otherwise the item
\* needs audio and a word of the session's lesson to go on to scoring.
FindExisting(h) ==
    /\ pc[h] = "find"
    /\ LET item == Current(h)
           found == WithKey(item.session, item.key)
       IN  \/ /\ found # {}
              /\ \E a \in found : AnswerWith(h, a)
           \/ /\ found = {}
              /\ ~item.audio \/ item.word \notin LessonWords[item.session]
              /\ AnswerError(h)
           \/ /\ found = {}
              /\ item.audio
              /\ item.word \in LessonWords[item.session]
              /\ Goto(h, "score")
              /\ UNCHANGED <<batch, draft, seen, seenMiss, replies>>
    /\ UNCHANGED <<now, tables, nextId, received, faults>>

\* The scorer answers; the attempt gets its id and its clock reading.
ScoreAudio(h) ==
    /\ pc[h] = "score"
    /\ \E s \in Scores :
        draft' = [draft EXCEPT ![h] =
                    [id |-> nextId, session |-> Current(h).session,
                     key |-> Current(h).key, word |-> Current(h).word,
                     score |-> s, at |-> now, audio |-> TRUE]]
    /\ nextId' = nextId + 1
    /\ Goto(h, "put")
    /\ UNCHANGED <<now, tables, batch, seen, seenMiss, replies, received, faults>>

PutAudio(h) ==
    /\ pc[h] = "put"
    /\ objects' = objects \cup {draft[h].id}
    /\ Goto(h, "create")
    /\ UNCHANGED <<now, attempts, mastery, weak, batch, draft, seen, seenMiss,
                   replies, nextId, received, faults>>

\* UNIQUE (session_id, client_key) lets one of two racing inserts in.
CreateAttempt(h) ==
    /\ pc[h] = "create"
    /\ IF WithKey(draft[h].session, draft[h].key) = {}
       THEN attempts' = attempts \cup {draft[h]} /\ Goto(h, "readMastery")
       ELSE UNCHANGED attempts /\ Goto(h, "winner")
    /\ UNCHANGED <<now, mastery, weak, objects, batch, draft, seen, seenMiss,
                   replies, nextId, received, faults>>

\* Faulty: the loser of the race answers with the result it computed itself.
FindWinnerOwnResult(h) ==
    /\ pc[h] = "winner"
    /\ AnswerWith(h, draft[h])
    /\ UNCHANGED <<now, tables, nextId, received, faults>>

\* Faulty: the loser of the race folds its score in as well.
FindWinnerFolds(h) ==
    /\ pc[h] = "winner"
    /\ Goto(h, "readMastery")
    /\ UNCHANGED <<now, tables, batch, draft, seen, seenMiss, replies, nextId, received, faults>>

\* CreateAttempt returned an error: whatever is stored now is the answer.
FindWinner(h) ==
    /\ pc[h] = "winner"
    /\ LET found == WithKey(draft[h].session, draft[h].key)
       IN  \/ found # {} /\ \E a \in found : AnswerWith(h, a)
           \/ found = {} /\ AnswerError(h)
    /\ UNCHANGED <<now, tables, nextId, received, faults>>

ReadMastery(h) ==
    /\ pc[h] = "readMastery"
    /\ seen' = [seen EXCEPT ![h] = mastery[ChildOf(draft[h])][draft[h].word]]
    /\ Goto(h, "writeMastery")
    /\ UNCHANGED <<now, tables, batch, draft, seenMiss, replies, nextId, received, faults>>

\* Faulty: the update saves the whole row it read, first_mastered_at included.
FoldedWholeRow(old, current, a) ==
    [count |-> old.count + 1,
     sum   |-> old.sum + a.score,
     first |-> IF old.first = Never /\ a.score >= MasteryThreshold
               THEN a.at ELSE old.first]

\* Faulty: any attempt at a word not mastered yet masters it.
FoldedAnyScore(old, current, a) ==
    [count |-> old.count + 1,
     sum   |-> old.sum + a.score,
     first |-> IF old.first = Never THEN a.at ELSE current.first]

\* The row an UPDATE leaves: count and average come from the row read, and
\* first_mastered_at is written only when that row had none.
Folded(old, current, a) ==
    [count |-> old.count + 1,
     sum   |-> old.sum + a.score,
     first |-> IF old.first = Never /\ a.score >= MasteryThreshold
               THEN a.at ELSE current.first]

\* Faulty: every attempt in a lesson with a sound counts as a miss.
NeedsBumpAlways(a) == LessonSound[a.session] # NoSound

NeedsBump(a) == a.score < WeakThreshold /\ LessonSound[a.session] # NoSound

\* Faulty: the transaction is never committed.
WriteMasteryUncommitted(h) ==
    /\ pc[h] = "writeMastery"
    /\ Goto(h, IF NeedsBump(draft[h]) THEN "readWeak" ELSE "reply")
    /\ UNCHANGED <<now, tables, batch, draft, seen, seenMiss, replies, nextId, received, faults>>

\* INSERT when the transaction saw no row (a unique violation when another
\* one inserted meanwhile), UPDATE of the row it saw otherwise.
WriteMastery(h) ==
    /\ pc[h] = "writeMastery"
    /\ LET a == draft[h]
           current == mastery[ChildOf(a)][a.word]
       IN  IF seen[h].count = 0 /\ current.count # 0
           THEN AnswerError(h) /\ UNCHANGED mastery
           ELSE /\ mastery' = [mastery EXCEPT ![ChildOf(a)][a.word] =
                                                Folded(seen[h], current, a)]
                /\ Goto(h, IF NeedsBump(a) THEN "readWeak" ELSE "reply")
                /\ UNCHANGED <<batch, draft, seen, seenMiss, replies>>
    /\ UNCHANGED <<now, attempts, weak, objects, nextId, received, faults>>

ReadWeakPhoneme(h) ==
    /\ pc[h] = "readWeak"
    /\ seenMiss' = [seenMiss EXCEPT
                        ![h] = weak[ChildOf(draft[h])][LessonSound[draft[h].session]]]
    /\ Goto(h, "writeWeak")
    /\ UNCHANGED <<now, tables, batch, draft, seen, replies, nextId, received, faults>>

WriteWeakPhoneme(h) ==
    /\ pc[h] = "writeWeak"
    /\ LET c == ChildOf(draft[h])
           p == LessonSound[draft[h].session]
       IN  IF seenMiss[h] = 0 /\ weak[c][p] # 0
           THEN AnswerError(h) /\ UNCHANGED weak
           ELSE /\ weak' = [weak EXCEPT ![c][p] = seenMiss[h] + 1]
                /\ Goto(h, "reply")
                /\ UNCHANGED <<batch, draft, seen, seenMiss, replies>>
    /\ UNCHANGED <<now, attempts, mastery, objects, nextId, received, faults>>

\* Faulty: the answer is taken from the attempt after it was cleared.
ReplyCleared(h) ==
    /\ pc[h] = "reply"
    /\ AnswerWith(h, NoDraft)
    /\ UNCHANGED <<now, tables, nextId, received, faults>>

Reply(h) ==
    /\ pc[h] = "reply"
    /\ AnswerWith(h, draft[h])
    /\ UNCHANGED <<now, tables, nextId, received, faults>>

-----------------------------------------------------------------------------
(***************************************************************************)
(* Faults, and the clock                                                   *)
(***************************************************************************)

\* A call returns an error: the item is answered with it.  CreateAttempt is
\* the one call whose error is not the answer (CreateAttemptError).
CallFails(h) ==
    /\ pc[h] \notin {"idle", "create"}
    /\ faults < MaxFaults
    /\ faults' = faults + 1
    /\ AnswerError(h)
    /\ UNCHANGED <<now, tables, nextId, received>>

\* The INSERT reports an error, the row having been committed or not.
CreateAttemptError(h) ==
    /\ pc[h] = "create"
    /\ faults < MaxFaults
    /\ faults' = faults + 1
    /\ \/ UNCHANGED attempts
       \/ /\ WithKey(draft[h].session, draft[h].key) = {}
          /\ attempts' = attempts \cup {draft[h]}
    /\ Goto(h, "winner")
    /\ UNCHANGED <<now, mastery, weak, objects, batch, draft, seen, seenMiss,
                   replies, nextId, received>>

\* The server process dies: every request in flight is gone.
Crash ==
    /\ faults < MaxFaults
    /\ faults' = faults + 1
    /\ pc' = [h \in Handlers |-> "idle"]
    /\ batch' = [h \in Handlers |-> <<>>]
    /\ draft' = [h \in Handlers |-> NoDraft]
    /\ seen' = [h \in Handlers |-> NoRow]
    /\ seenMiss' = [h \in Handlers |-> 0]
    /\ UNCHANGED <<now, tables, replies, nextId, received>>

Tick ==
    /\ now < MaxTime
    /\ now' = now + 1
    /\ UNCHANGED <<tables, handlerVars, replies, nextId, received, faults>>

Quiet == \A h \in Handlers : pc[h] = "idle"

\* No more requests come: the server stays up with nothing to do.
Rest ==
    /\ Quiet
    /\ UNCHANGED vars

-----------------------------------------------------------------------------

RecordAttempt(h) ==
    \/ FindExisting(h) \/ ScoreAudio(h) \/ PutAudio(h)
    \/ CreateAttempt(h) \/ FindWinner(h)
    \/ ReadMastery(h) \/ WriteMastery(h)
    \/ ReadWeakPhoneme(h) \/ WriteWeakPhoneme(h)
    \/ Reply(h)

Fault(h) == CallFails(h) \/ CreateAttemptError(h)

Next ==
    \/ \E h \in Handlers : Receive(h) \/ RecordAttempt(h) \/ Fault(h)
    \/ Crash
    \/ Tick
    \/ Rest

Spec == Init /\ [][Next]_vars

-----------------------------------------------------------------------------
(***************************************************************************)
(* Properties                                                              *)
(***************************************************************************)

\* Type invariant of every variable.
TypeOK ==
    /\ now \in Nat
    /\ attempts \subseteq Attempt
    /\ mastery \in [Children -> [Words -> MasteryRow]]
    /\ weak \in [Children -> [Phonemes -> Nat]]
    /\ objects \subseteq Nat
    /\ pc \in [Handlers -> Steps]
    /\ batch \in [Handlers -> Seq(Items)]
    /\ draft \in [Handlers -> Attempt \cup {NoDraft}]
    /\ seen \in [Handlers -> MasteryRow]
    /\ seenMiss \in [Handlers -> Nat]
    /\ replies \subseteq Attempt
    /\ nextId \in Nat
    /\ received \in Nat
    /\ faults \in Nat

SameKey(a, b) == a.session = b.session /\ a.key = b.key

SameResult(a, b) == a.id = b.id /\ a.word = b.word /\ a.score = b.score

\* Every success the server ever answers for one (session, client_key) is the
\* same stored result, whichever of the racing or repeated requests it answers:
\* RecordAttempt never re-scores a retry, and the loser of the insert race
\* answers with the winner's score, never with its own.
RepliesAgree ==
    \A a, b \in replies : SameKey(a, b) => SameResult(a, b)

\* A success is answered only when the result is in the table: no reply can
\* be lost by a crash after it was sent.
RepliesStored ==
    \A r \in replies : \E a \in attempts : SameKey(a, r) /\ SameResult(a, r)

\* The stored attempts of a child at a word.
Of(c, w) == {a \in attempts : ChildOf(a) = c /\ a.word = w}

\* No double counting: the attempt_count of a word never exceeds the attempts
\* of it that are stored, whatever is retried, lost or run at the same time.
CountBacked ==
    \A c \in Children, w \in Words : mastery[c][w].count <= Cardinality(Of(c, w))

\* A word is mastered only if a stored attempt of that child at that word
\* reached the threshold, at the moment the row says.
MasteredIsEarned ==
    \A c \in Children, w \in Words :
        mastery[c][w].first # Never =>
            \E a \in Of(c, w) : /\ a.score >= MasteryThreshold
                                /\ a.at = mastery[c][w].first

\* miss_count never exceeds the low-scoring attempts stored in lessons with
\* that sound.
MissesBacked ==
    \A c \in Children, p \in Phonemes :
        weak[c][p] <= Cardinality({a \in attempts :
            /\ ChildOf(a) = c
            /\ LessonSound[a.session] = p
            /\ a.score < WeakThreshold})

\* Both counters are backed by stored attempts.
FoldsBacked == CountBacked /\ MissesBacked

\* Mastery is one-way: no transaction, however stale the row it read, takes a
\* mastered word back (UpsertMastery updates only the columns it means to).
MasteredStays ==
    [][\A c \in Children, w \in Words :
        mastery[c][w].first # Never => mastery'[c][w].first # Never]_vars

\* With no fault, the only attempt of a word is counted once, with its score,
\* and masters the word exactly when it reaches the threshold: no interleaving
\* with attempts of other words, retries of it or races for its client_key
\* disturbs the fold.
LoneAttemptExact ==
    Quiet /\ faults = 0 =>
        \A c \in Children, w \in Words : \A a \in Of(c, w) :
            Of(c, w) = {a} =>
                mastery[c][w] = Folded(NoRow, NoRow, a)

\* The abstract ledger this module implements.
ResultOf(a) == [session |-> a.session, key |-> a.key, word |-> a.word, score |-> a.score]
Results == {ResultOf(a) : a \in attempts}
MasteredPairs == {cw \in Children \X Words : mastery[cw[1]][cw[2]].first # Never}

Ledger == INSTANCE AttemptLedger WITH stored <- Results, mastered <- MasteredPairs

\* Every step of the pipeline is a step of the ledger or changes nothing there.
ImplementsLedger == Ledger!LedgerSpec

\* "RecordAttempt scores one utterance and folds it into the mastery graph"
\* (service.go 134): once the server is quiet, every utterance it answered with
\* success is counted in the mastery row of its word.
AnsweredIsCounted ==
    Quiet => \A c \in Children, w \in Words :
        mastery[c][w].count >=
            Cardinality({<<r.session, r.key>> : r \in {r \in replies :
                                            ChildOf(r) = c /\ r.word = w}})
=============================================================================
