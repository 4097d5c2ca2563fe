------------------------------ MODULE Journey -------------------------------
(***************************************************************************)
(* The pure part of the client: what a content pack holds, what a child's  *)
(* progress is, and everything the screens read from the two (src/Bolo,    *)
(* content/ and the derived values of ProgressContext).                    *)
(*                                                                         *)
(* A pack is a sequence of lessons in journey order; a lesson has an id,   *)
(* its word ids in order and possibly a sound drill.  Word indices are the *)
(* code's, from 0.  A day is a number, so yesterday is the day before.     *)
(***************************************************************************)
EXTENDS Integers, Sequences, FiniteSets, SequencesExt

CONSTANTS
    Packs,      \* the packs by revision; revision 1 is bundled with the app
    StageAt,    \* words needed for each growth stage
    Milestones  \* the milestones, records [metric, goal]

Revisions == 1..Len(Packs)
Bundled == 1

WordsOf(pack) == UNION {Range(pack[i].words) : i \in DOMAIN pack}
LessonIds(pack) == {pack[i].id : i \in DOMAIN pack}

AllWords == UNION {WordsOf(Packs[r]) : r \in Revisions}
AllIds == UNION {LessonIds(Packs[r]) : r \in Revisions}
LessonRecord == [id : AllIds, words : Seq(AllWords) \ {<<>>}, sound : BOOLEAN]

\* A pack has lessons, a lesson has words, and ids are unique (pack.go, Validate).
ASSUME JourneyAssumption ==
    /\ Packs \in Seq(Seq(LessonRecord) \ {<<>>}) \ {<<>>}
    /\ \A r \in Revisions : \A i, j \in DOMAIN Packs[r] :
        /\ Packs[r][i].id = Packs[r][j].id => i = j
        /\ \A k \in DOMAIN Packs[r][i].words, l \in DOMAIN Packs[r][j].words :
            Packs[r][i].words[k] = Packs[r][j].words[l] => i = j /\ k = l
    /\ StageAt \in Seq(Nat) /\ Len(StageAt) > 0 /\ StageAt[1] = 0
    /\ Milestones \subseteq [metric : {"words", "lessons", "streak"}, goal : Nat]

-----------------------------------------------------------------------------
(* Packs.                                                                  *)

Position(pack, id) == CHOOSE i \in DOMAIN pack : pack[i].id = id

\* An id the pack does not have opens its first lesson.
GetLesson(pack, id) ==
    IF id \in LessonIds(pack) THEN pack[Position(pack, id)] ELSE pack[1]

\* The word at an index, clamped to the lesson as it is now.
WordAt(pack, id, index) ==
    LET lesson == GetLesson(pack, id)
    IN  lesson.words[Min({index + 1, Len(lesson.words)})]

\* Faulty: one word early.
IsLastWordEarly(pack, id, index) == index >= Len(GetLesson(pack, id).words) - 2
IsLastWord(pack, id, index) == index >= Len(GetLesson(pack, id).words) - 1

HasDrill(pack, id, index) ==
    LET lesson == GetLesson(pack, id)
    IN  lesson.sound /\ index = Len(lesson.words) \div 2

\* The journal: the learned words the pack still has, in whatever order.
JournalEntries(pack, learned) == Range(learned) \cap WordsOf(pack)

-----------------------------------------------------------------------------
(* Progress: the persisted part, and the reducer's cases.                  *)

Nothing == [learned |-> <<>>, completed |-> {}, days |-> {}]

\* Faulty: without the test.
PushAlways(list, item) == Append(list, item)
PushUnique(list, item) == IF item \in Range(list) THEN list ELSE Append(list, item)

\* Faulty: the day replaces the others.
LearnWordToday(p, word, day) ==
    [p EXCEPT !.learned = PushUnique(@, word), !.days = {day}]

LearnWord(p, word, day) ==
    [p EXCEPT !.learned = PushUnique(@, word), !.days = @ \cup {day}]

CompleteLesson(p, id, day) ==
    [p EXCEPT !.completed = @ \cup {id}, !.days = @ \cup {day}]

\* Destructures the first three lessons: with fewer it throws.
CanSeed(pack) == Len(pack) >= 3

DemoSeed(pack, today) ==
    [learned |-> pack[1].words \o pack[2].words \o <<pack[3].words[1]>>,
     completed |-> {pack[1].id, pack[2].id},
     days |-> (today - 6)..(today - 1)]

-----------------------------------------------------------------------------
(* What the screens read.                                                  *)

\* Faulty: no grace.
StreakToday(days, today) ==
    Max({n \in 0..Cardinality(days) : (today - n + 1)..today \subseteq days})

\* Days practised in a row, ending today or, as grace, yesterday.
Streak(days, today) ==
    LET end == IF today \in days THEN today ELSE today - 1
    IN  Max({n \in 0..Cardinality(days) : (end - n + 1)..end \subseteq days})

ActiveLesson(pack, completed) ==
    LET open == {i \in DOMAIN pack : pack[i].id \notin completed}
    IN  pack[IF open = {} THEN Len(pack) ELSE Min(open)].id

\* Faulty: nothing is locked.
LessonStatusUnlocked(id, completed, active) == IF id \in completed THEN "done" ELSE "active"

LessonStatus(id, completed, active) ==
    IF id \in completed THEN "done" ELSE IF id = active THEN "active" ELSE "locked"

\* The first word of the lesson not learned yet; from the start when there is
\* none, or when the pack does not have the lesson.
ResumeIndex(pack, id, learned) ==
    LET words == IF id \in LessonIds(pack) THEN GetLesson(pack, id).words ELSE <<>>
        new == {i \in DOMAIN words : words[i] \notin Range(learned)}
    IN  IF new = {} THEN 0 ELSE Min(new) - 1

\* The growth stage reached, from 1.
StageIndex(words) == Max({i \in DOMAIN StageAt : words >= StageAt[i]})

Metric(p, streak, metric) ==
    CASE metric = "words" -> Len(p.learned)
      [] metric = "lessons" -> Cardinality(p.completed)
      [] metric = "streak" -> streak

EarnedMilestones(p, streak) ==
    {m \in Milestones : Metric(p, streak, m.metric) >= m.goal}
=============================================================================
