----------------------------- MODULE Completion -----------------------------
(***************************************************************************)
(* Sessions and their completion for one child: StartSession and           *)
(* CompleteSession of the learning module, with the companion module they  *)
(* drive (Select, RecordMastery) and the two jobs they enqueue.            *)
(*                                                                         *)
(* Handlers run one action per database call.  Attempts are recorded all   *)
(* the while, before and after a session is completed; what they do here   *)
(* is what AttemptLedger promises: words become mastered (Master), each    *)
(* with a clock reading taken some time before its fold is committed.      *)
(* A session is named by its client_key, UNIQUE per child.                 *)
(***************************************************************************)
EXTENDS Integers, Sequences, FiniteSets

CONSTANTS
    Handlers, Words, Keys, NoKey, Species,
    Lessons,        \* the curriculum in journey order, a sequence of word sets
    StageAt,        \* words needed for each growth stage, "egg" first
    Requests,       \* what clients ask for
    MaxTime,        \* bound: the clock
    MaxRequests,    \* bound: requests received
    MaxFaults       \* bound: failed calls and crashes

NoLesson == 0   \* a lesson id the catalog does not have
NoSpecies == "none"

Request == [op: {"start", "complete", "select"}, key: Keys, lesson: 0..Len(Lessons),
            species: Species \cup {NoSpecies}]

ASSUME CompletionAssumption ==
    /\ IsFiniteSet(Words)
    /\ Lessons \in Seq(SUBSET Words)
    /\ StageAt \in Seq(Nat) /\ Len(StageAt) > 0 /\ StageAt[1] = 0
    /\ \A s \in 2..Len(StageAt) : StageAt[s - 1] < StageAt[s]
    /\ Requests \subseteq Request
    /\ {MaxTime, MaxRequests, MaxFaults} \subseteq Nat

VARIABLES
    now,        \* the server's clock
    first,      \* mastery_words.first_mastered_at of each word
    sessions,   \* table lesson_sessions, by client_key
    companion,  \* the child's row of table companions
    generation, \* lesson.generation.requested jobs enqueued
    updates,    \* mastery.updated jobs enqueued
    pc,         \* the call each handler makes next
    req,        \* the request it works on
    row,        \* the session row it has loaded
    clock,      \* the time at its latest call
    summary,    \* the summary it is filling in
    hatched,    \* the growth stage it has read
    answers,    \* history: the summaries answered with success
    received, faults

tables == <<first, sessions, companion, generation, updates>>
handlerVars == <<pc, req, row, clock, summary, hatched>>
vars == <<now, tables, handlerVars, answers, received, faults>>

Never == -1

SessionRow == [status: {"none", "active", "completed"}, lesson: 0..Len(Lessons),
               started: Nat, completed: Nat \cup {Never}]
NoSession == [status |-> "none", lesson |-> NoLesson, started |-> 0, completed |-> Never]

CompanionRow == [species: Species \cup {NoSpecies}, words: Nat, stage: 1..Len(StageAt)]

\* key, completed and total are what the answer was computed from.
Summary == [key: Keys \cup {NoKey}, completed: Nat \cup {Never}, mastered: BOOLEAN,
            delta: Nat, next: 0..Len(Lessons), total: Nat, grew: BOOLEAN]
NoSummary == [key |-> NoKey, completed |-> Never, mastered |-> FALSE, delta |-> 0,
              next |-> NoLesson, total |-> 0, grew |-> FALSE]

\* Faulty: a stage is reached one word early.
StageForEarly(words) ==
    CHOOSE s \in 1..Len(StageAt) :
        /\ words + 1 >= StageAt[s]
        /\ \A t \in 1..Len(StageAt) : words + 1 >= StageAt[t] => t <= s

\* The last stage whose threshold is reached.
StageFor(words) ==
    CHOOSE s \in 1..Len(StageAt) :
        /\ words >= StageAt[s]
        /\ \A t \in 1..Len(StageAt) : words >= StageAt[t] => t <= s

MasteredWords == {w \in Words : first[w] # Never}

\* Faulty: a lesson counts as mastered from its first mastered word on.
AnyMastered(lesson) == Lessons[lesson] \cap MasteredWords # {}

\* mastered == len(lesson.WordIDs)
AllMastered(lesson) == Lessons[lesson] \subseteq MasteredWords

MasteredInWindow(lesson, from, to) == {w \in Lessons[lesson] : first[w] \in from..to}

NoRequest == [op |-> "none", key |-> NoKey, lesson |-> NoLesson, species |-> NoSpecies]

Init ==
    /\ now = 0
    /\ first = [w \in Words |-> Never]
    /\ sessions = [k \in Keys |-> NoSession]
    /\ companion = [species |-> NoSpecies, words |-> 0, stage |-> 1]
    /\ generation = 0
    /\ updates = 0
    /\ pc = [h \in Handlers |-> "idle"]
    /\ req = [h \in Handlers |-> NoRequest]
    /\ row = [h \in Handlers |-> NoSession]
    /\ clock = [h \in Handlers |-> 0]
    /\ summary = [h \in Handlers |-> NoSummary]
    /\ hatched = [h \in Handlers |-> 1]
    /\ answers = {}
    /\ received = 0
    /\ faults = 0

-----------------------------------------------------------------------------
(***************************************************************************)
(* The handler's control                                                   *)
(***************************************************************************)

Goto(h, step) == pc' = [pc EXCEPT ![h] = step]

\* The request is over, with an answer or an error.
Done(h) ==
    /\ Goto(h, "idle")
    /\ req' = [req EXCEPT ![h] = NoRequest]
    /\ row' = [row EXCEPT ![h] = NoSession]
    /\ clock' = [clock EXCEPT ![h] = 0]
    /\ summary' = [summary EXCEPT ![h] = NoSummary]
    /\ hatched' = [hatched EXCEPT ![h] = 1]

Receive(h) ==
    /\ pc[h] = "idle"
    /\ received < MaxRequests
    /\ received' = received + 1
    /\ \E r \in Requests :
        /\ req' = [req EXCEPT ![h] = r]
        /\ Goto(h, CASE r.op = "start" -> "findSession"
                     [] r.op = "complete" -> "load"
                     [] r.op = "select" -> "findCompanion")
    /\ UNCHANGED <<now, tables, row, clock, summary, hatched, answers, faults>>

\* A clock reading taken between two calls of the handler.
Reading(h) == clock[h]..now

-----------------------------------------------------------------------------
(***************************************************************************)
(* StartSession                                                            *)
(***************************************************************************)

\* The session of this client_key is the answer, whatever lesson it is of;
\* a lesson the catalog does not have is an error.
FindSession(h) ==
    /\ pc[h] = "findSession"
    /\ \/ /\ sessions[req[h].key] # NoSession \/ req[h].lesson = NoLesson
          /\ Done(h)
       \/ /\ sessions[req[h].key] = NoSession
          /\ req[h].lesson # NoLesson
          /\ clock' = [clock EXCEPT ![h] = now]
          /\ Goto(h, "createSession")
          /\ UNCHANGED <<req, row, summary, hatched>>
    /\ UNCHANGED <<now, tables, answers, received, faults>>

\* UNIQUE (child_id, client_key): the loser of a race gets an error.
CreateSession(h) ==
    /\ pc[h] = "createSession"
    /\ \/ /\ sessions[req[h].key] # NoSession
          /\ UNCHANGED sessions
       \/ /\ sessions[req[h].key] = NoSession
          /\ \E t \in Reading(h) :
                sessions' = [sessions EXCEPT ![req[h].key] =
                    [status |-> "active", lesson |-> req[h].lesson,
                     started |-> t, completed |-> Never]]
    /\ Done(h)
    /\ UNCHANGED <<now, first, companion, generation, updates, answers, received, faults>>

-----------------------------------------------------------------------------
(***************************************************************************)
(* CompleteSession, with the companion's RecordMastery                     *)
(***************************************************************************)

\* The middleware loads the session before the handler runs.
LoadSession(h) ==
    /\ pc[h] = "load"
    /\ \/ /\ sessions[req[h].key] = NoSession
          /\ Done(h)
       \/ /\ sessions[req[h].key] # NoSession
          /\ row' = [row EXCEPT ![h] = sessions[req[h].key]]
          /\ clock' = [clock EXCEPT ![h] = now]
          /\ Goto(h, IF row'[h].status = "active" THEN "mark" ELSE "countLesson")
          /\ UNCHANGED <<req, summary, hatched>>
    /\ UNCHANGED <<now, tables, answers, received, faults>>

\* Faulty: the update trusts the status loaded before, WHERE id = ? only.
MarkTrusting(h) ==
    /\ pc[h] = "mark"
    /\ \E t \in Reading(h) :
        sessions' = [sessions EXCEPT ![req[h].key].status = "completed",
                                     ![req[h].key].completed = t]
    /\ Goto(h, "reload")
    /\ UNCHANGED <<now, first, companion, generation, updates, req, row, clock, summary,
                   hatched, answers, received, faults>>

\* WHERE id = ? AND status = 'active': no row is no error.
MarkSessionCompleted(h) ==
    /\ pc[h] = "mark"
    /\ \/ /\ sessions[req[h].key].status = "active"
          /\ \E t \in Reading(h) :
                sessions' = [sessions EXCEPT ![req[h].key].status = "completed",
                                             ![req[h].key].completed = t]
       \/ /\ sessions[req[h].key].status # "active"
          /\ UNCHANGED sessions
    /\ Goto(h, "reload")
    /\ UNCHANGED <<now, first, companion, generation, updates, req, row, clock, summary,
                   hatched, answers, received, faults>>

\* Faulty: the handler goes on with its own timestamp.
ReloadSkipped(h) ==
    /\ pc[h] = "reload"
    /\ row' = [row EXCEPT ![h].status = "completed", ![h].completed = clock[h]]
    /\ Goto(h, "countLesson")
    /\ UNCHANGED <<now, tables, req, clock, summary, hatched, answers, received, faults>>

\* "a concurrent retry may have completed it first with an earlier timestamp"
Reload(h) ==
    /\ pc[h] = "reload"
    /\ row' = [row EXCEPT ![h] = sessions[req[h].key]]
    /\ Goto(h, "countLesson")
    /\ UNCHANGED <<now, tables, req, clock, summary, hatched, answers, received, faults>>

CountLesson(h) ==
    /\ pc[h] = "countLesson"
    /\ summary' = [summary EXCEPT ![h].key = req[h].key,
                                  ![h].completed = row[h].completed,
                                  ![h].mastered = AllMastered(row[h].lesson)]
    /\ Goto(h, "countWindow")
    /\ UNCHANGED <<now, tables, req, row, clock, hatched, answers, received, faults>>

CountWindow(h) ==
    /\ pc[h] = "countWindow"
    /\ summary' = [summary EXCEPT ![h].delta = Cardinality(
            MasteredInWindow(row[h].lesson, row[h].started, row[h].completed))]
    /\ Goto(h, IF summary[h].mastered THEN "findNext" ELSE "countTotal")
    /\ UNCHANGED <<now, tables, req, row, clock, hatched, answers, received, faults>>

\* Faulty: the next lesson is taken to be there.
FindNextUnchecked(h) ==
    /\ pc[h] = "findNext"
    /\ summary' = [summary EXCEPT ![h].next = row[h].lesson + 1]
    /\ Goto(h, "countTotal")
    /\ UNCHANGED <<now, tables, req, row, clock, hatched, answers, received, faults>>

\* LessonAfter; at the end of the curriculum a generation job is enqueued.
FindNext(h) ==
    /\ pc[h] = "findNext"
    /\ IF row[h].lesson < Len(Lessons)
       THEN /\ summary' = [summary EXCEPT ![h].next = row[h].lesson + 1]
            /\ UNCHANGED generation
       ELSE /\ generation' = generation + 1
            /\ UNCHANGED summary
    /\ Goto(h, "countTotal")
    /\ UNCHANGED <<now, first, sessions, companion, updates, req, row, clock, hatched,
                   answers, received, faults>>

CountTotal(h) ==
    /\ pc[h] = "countTotal"
    /\ summary' = [summary EXCEPT ![h].total = Cardinality(MasteredWords)]
    /\ Goto(h, "readCompanion")
    /\ UNCHANGED <<now, tables, req, row, clock, hatched, answers, received, faults>>

\* RecordMastery reads the companion; without one growth waits.
ReadCompanion(h) ==
    /\ pc[h] = "readCompanion"
    /\ IF companion.species = NoSpecies
       THEN Goto(h, "publish") /\ UNCHANGED hatched
       ELSE /\ hatched' = [hatched EXCEPT ![h] = companion.stage]
            /\ Goto(h, "writeCompanion")
    /\ UNCHANGED <<now, tables, req, row, clock, summary, answers, received, faults>>

\* Faulty: grew compares with the stage after the update.
WriteCompanionFirst(h) ==
    /\ pc[h] = "writeCompanion"
    /\ companion' = [companion EXCEPT !.words = summary[h].total,
                                      !.stage = StageFor(summary[h].total)]
    /\ summary' = [summary EXCEPT ![h].grew = StageFor(summary[h].total) > companion'.stage]
    /\ Goto(h, "publish")
    /\ UNCHANGED <<now, first, sessions, generation, updates, req, row, clock, hatched,
                   answers, received, faults>>

\* The total this handler counted replaces whatever another one wrote since.
WriteCompanion(h) ==
    /\ pc[h] = "writeCompanion"
    /\ companion' = [companion EXCEPT !.words = summary[h].total,
                                      !.stage = StageFor(summary[h].total)]
    /\ summary' = [summary EXCEPT ![h].grew = StageFor(summary[h].total) > hatched[h]]
    /\ Goto(h, "publish")
    /\ UNCHANGED <<now, first, sessions, generation, updates, req, row, clock, hatched,
                   answers, received, faults>>

\* The mastery.updated job.
MasteryUpdated(h) ==
    /\ pc[h] = "publish"
    /\ updates' = updates + 1
    /\ Goto(h, "answer")
    /\ UNCHANGED <<now, first, sessions, companion, generation, req, row, clock, summary,
                   hatched, answers, received, faults>>

Answer(h) ==
    /\ pc[h] = "answer"
    /\ answers' = answers \cup {summary[h]}
    /\ Done(h)
    /\ UNCHANGED <<now, tables, received, faults>>

-----------------------------------------------------------------------------
(***************************************************************************)
(* Select                                                                  *)
(***************************************************************************)

\* A companion there is already is the answer, or a conflict.
FindCompanion(h) ==
    /\ pc[h] = "findCompanion"
    /\ IF companion.species # NoSpecies
       THEN Done(h)
       ELSE /\ Goto(h, "createCompanion")
            /\ UNCHANGED <<req, row, clock, summary, hatched>>
    /\ UNCHANGED <<now, tables, answers, received, faults>>

\* Faulty: the insert overwrites on conflict.
CreateCompanionUpsert(h) ==
    /\ pc[h] = "createCompanion"
    /\ companion' = [species |-> req[h].species, words |-> 0, stage |-> 1]
    /\ Done(h)
    /\ UNCHANGED <<now, first, sessions, generation, updates, answers, received, faults>>

\* UNIQUE (child_id): the loser of a race gets an error.
CreateCompanion(h) ==
    /\ pc[h] = "createCompanion"
    /\ \/ /\ companion.species = NoSpecies
          /\ companion' = [species |-> req[h].species, words |-> 0, stage |-> 1]
       \/ /\ companion.species # NoSpecies
          /\ UNCHANGED companion
    /\ Done(h)
    /\ UNCHANGED <<now, first, sessions, generation, updates, answers, received, faults>>

-----------------------------------------------------------------------------
(***************************************************************************)
(* Attempts, faults and the clock                                          *)
(***************************************************************************)

\* An attempt's fold is committed: its word is mastered since the moment the
\* attempt was scored, which may precede this one by any time, and a racing
\* fold that read the word unmastered may set that moment again.
Master(w) ==
    /\ \E t \in 0..now : first' = [first EXCEPT ![w] = t]
    /\ UNCHANGED <<now, sessions, companion, generation, updates, handlerVars, answers,
                   received, faults>>

\* A call returns an error, or the client is gone when the answer is written.
CallFails(h) ==
    /\ pc[h] # "idle"
    /\ faults < MaxFaults
    /\ faults' = faults + 1
    /\ Done(h)
    /\ UNCHANGED <<now, tables, answers, received>>

\* The server process dies: every request in flight is gone.
Crash ==
    /\ faults < MaxFaults
    /\ faults' = faults + 1
    /\ pc' = [h \in Handlers |-> "idle"]
    /\ req' = [h \in Handlers |-> NoRequest]
    /\ row' = [h \in Handlers |-> NoSession]
    /\ clock' = [h \in Handlers |-> 0]
    /\ summary' = [h \in Handlers |-> NoSummary]
    /\ hatched' = [h \in Handlers |-> 1]
    /\ UNCHANGED <<now, tables, answers, received>>

Tick ==
    /\ now < MaxTime
    /\ now' = now + 1
    /\ UNCHANGED <<tables, handlerVars, answers, received, faults>>

Quiet == \A h \in Handlers : pc[h] = "idle"

Complete(h) ==
    \/ LoadSession(h) \/ MarkSessionCompleted(h) \/ Reload(h)
    \/ CountLesson(h) \/ CountWindow(h) \/ FindNext(h) \/ CountTotal(h)
    \/ ReadCompanion(h) \/ WriteCompanion(h) \/ MasteryUpdated(h) \/ Answer(h)

Start(h) == FindSession(h) \/ CreateSession(h)

Select(h) == FindCompanion(h) \/ CreateCompanion(h)

Next ==
    \/ \E h \in Handlers :
        Receive(h) \/ Start(h) \/ Complete(h) \/ Select(h) \/ CallFails(h)
    \/ \E w \in Words : Master(w)
    \/ Crash
    \/ Tick

Spec == Init /\ [][Next]_vars

-----------------------------------------------------------------------------
(***************************************************************************)
(* Properties                                                              *)
(***************************************************************************)

Steps == {"idle", "findSession", "createSession", "load", "mark", "reload",
          "countLesson", "countWindow", "findNext", "countTotal", "readCompanion",
          "writeCompanion", "publish", "answer", "findCompanion", "createCompanion"}

\* Type invariant of every variable.
CompletionTypeOK ==
    /\ now \in Nat
    /\ first \in [Words -> Nat \cup {Never}]
    /\ sessions \in [Keys -> SessionRow]
    /\ companion \in CompanionRow
    /\ generation \in Nat
    /\ updates \in Nat
    /\ pc \in [Handlers -> Steps]
    /\ req \in [Handlers -> Request \cup {NoRequest}]
    /\ row \in [Handlers -> SessionRow]
    /\ clock \in [Handlers -> Nat]
    /\ summary \in [Handlers -> Summary]
    /\ hatched \in [Handlers -> 1..Len(StageAt)]
    /\ answers \subseteq Summary
    /\ received \in Nat
    /\ faults \in Nat

\* "the first call freezes completed_at" (service.go 206): whatever completions
\* and starts are repeated or raced, a session keeps its lesson and its start,
\* and once completed its row never changes again.
SessionFrozen ==
    [][\A k \in Keys : sessions[k] # NoSession =>
        /\ sessions'[k].lesson = sessions[k].lesson
        /\ sessions'[k].started = sessions[k].started
        /\ sessions[k].status = "completed" => sessions'[k] = sessions[k]]_vars

\* Every summary is computed from the one completed_at that is stored, also
\* the one of a completion that lost the race to another (service.go 213), and
\* no completion is answered for a session that is not completed.
AnswersUseStoredWindow ==
    \A a \in answers : /\ sessions[a.key].status = "completed"
                       /\ sessions[a.key].completed = a.completed
                       /\ sessions[a.key].started <= a.completed

\* What a summary promised stays true while attempts and other completions go
\* on: a lesson is called mastered, and the next one unlocked, only when all of
\* its words are; the delta counts none but words of it; and at the end of the
\* curriculum a generation job has been enqueued.
SummaryHolds ==
    \A a \in answers :
        LET lesson == sessions[a.key].lesson
        IN  /\ a.mastered => Lessons[lesson] \subseteq MasteredWords
            /\ a.mastered /\ lesson < Len(Lessons) => a.next = lesson + 1
            /\ a.mastered /\ lesson = Len(Lessons) => generation > 0
            /\ ~a.mastered => a.next = NoLesson
            /\ a.delta <= Cardinality(Lessons[lesson] \cap MasteredWords)

\* The companion is never ahead of the child: stale as the count it was given
\* may be, the words and the stage it shows are backed by mastered words.
GrowthBacked ==
    /\ companion.words <= Cardinality(MasteredWords)
    /\ StageAt[companion.stage] <= companion.words
    /\ companion.stage < Len(StageAt) => companion.words < StageAt[companion.stage + 1]

\* A chosen companion is never replaced by another one, whichever requests race.
SpeciesFixed ==
    [][companion.species # NoSpecies => companion'.species = companion.species]_vars

\* What the first of several racing requests wrote stays: the session and its
\* window, and the species.
RowsFrozen == SessionFrozen /\ SpeciesFixed

\* The stage the companion shows has been reported as growth by some answer.
GrowthIsReported ==
    Quiet /\ companion.stage > 1 =>
        \E a \in answers : a.grew /\ StageFor(a.total) >= companion.stage

\* As long as no call fails, no interleaving of completions, not even one that
\* overwrites a newer stage with a stale one, loses a celebration.
GrowthReportedUnlessFault == faults = 0 => GrowthIsReported

\* "deterministic on recompute so completion stays idempotent" (repository.go
\* 116): the completions of one session all answer the same delta.
DeltaIsDeterministic ==
    \A a, b \in answers : a.key = b.key => a.delta = b.delta
=============================================================================
