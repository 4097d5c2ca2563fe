------------------------------ MODULE Content ------------------------------
(***************************************************************************)
(* What the app ships with: the bundled lessons (content/lessons.ts), the  *)
(* growth stages and the milestones (content/progression.ts), and the      *)
(* facts about them, and about the pure part of the client over them, that *)
(* the screens rely on.  A word's id is its lesson's and a name: a pair.   *)
(***************************************************************************)
EXTENDS Integers, Sequences, FiniteSets, SequencesExt

BundledLesson(id, names) ==
    [id |-> id, words |-> [k \in DOMAIN names |-> <<id, names[k]>>], sound |-> TRUE]

FirstLessons ==
    << BundledLesson("greetings", <<"hello", "bye", "thankyou", "please", "goodmorning">>),
       BundledLesson("colors", <<"red", "blue", "yellow", "green", "purple">>),
       BundledLesson("food", <<"apple", "bread", "egg", "water", "mango">>),
       BundledLesson("animals", <<"cat", "dog", "bird", "fish", "lion">>),
       BundledLesson("family", <<"mama", "papa", "sister", "brother", "baby">>),
       BundledLesson("numbers", <<"one", "two", "three", "four", "five">>),
       BundledLesson("body", <<"eyes", "nose", "ears", "hands", "feet">>) >>

MiddleLessons ==
    << BundledLesson("clothes", <<"shirt", "shoes", "hat", "socks", "dress">>),
       BundledLesson("weather", <<"sun", "rain", "cloud", "wind", "snow">>),
       BundledLesson("home", <<"bed", "door", "chair", "window", "lamp">>),
       BundledLesson("school", <<"book", "pencil", "bag", "teacher", "friend">>),
       BundledLesson("feelings", <<"happy", "sad", "angry", "sleepy", "excited">>) >>

LaterLessons ==
    << BundledLesson("playtime", <<"ball", "doll", "kite", "blocks", "slide">>),
       BundledLesson("fruits", <<"banana", "carrot", "orange", "peas", "tomato">>),
       BundledLesson("vehicles", <<"car", "bus", "train", "plane", "boat">>),
       BundledLesson("nature", <<"tree", "flower", "star", "moon", "river">>) >>

ContentPack == FirstLessons \o MiddleLessons \o LaterLessons

\* Words spoken to reach each growth stage.
Stages == <<0, 50, 120, 220, 350>>

Goals ==
    [words |-> {10, 50, 100}, lessons |-> {1, 5}, streak |-> {7}]

BundledMilestones ==
    UNION {{[metric |-> m, goal |-> g] : g \in Goals[m]} : m \in DOMAIN Goals}

Client == INSTANCE Journey
            WITH Packs <- <<ContentPack>>, StageAt <- Stages, Milestones <- BundledMilestones

-----------------------------------------------------------------------------
(* Facts, evaluated once by every run of a module that extends this one.   *)

AllWords == FlattenSeq([i \in DOMAIN ContentPack |-> ContentPack[i].words])

\* No two lessons and no two words share an id, which is what the maps of
\* content/index.ts and the stored progress are keyed by.
ASSUME IdsAreUnique ==
    IsInjective([i \in DOMAIN ContentPack |-> ContentPack[i].id]) /\ IsInjective(AllWords)

\* Every bundled lesson plays its drill at exactly one of its words, and that
\* is not the last (soundStepIndex, MicroConversationScreen).
ASSUME OneDrillEach ==
    \A i \in DOMAIN ContentPack :
        LET id == ContentPack[i].id
            at == {k \in 0..Len(ContentPack[i].words) - 1 : Client!HasDrill(ContentPack, id, k)}
        IN  Cardinality(at) = 1 /\ \A k \in at : ~Client!IsLastWord(ContentPack, id, k)

Today == 7

\* What a child has who says the first n words of the pack in order, and
\* completes each lesson on reaching its last word.
Spoken(n) ==
    FoldLeft(LAMBDA p, k :
                LET word == AllWords[k]
                    q == Client!LearnWord(p, word, Today)
                    last == Last(Client!GetLesson(ContentPack, word[1]).words)
                IN  IF word = last THEN Client!CompleteLesson(q, word[1], Today) ELSE q,
             Client!Nothing, [k \in 1..n |-> k])

\* The demo seed of buildDemoSeed is a state that speaking reaches, but for
\* its days: two lessons in full and a third to be resumed at its second word.
ASSUME SeedIsReachable ==
    LET seed == Client!DemoSeed(ContentPack, Today)
        active == Client!ActiveLesson(ContentPack, seed.completed)
    IN  /\ Client!CanSeed(ContentPack)
        /\ [seed EXCEPT !.days = {Today}] = Spoken(Len(seed.learned))
        /\ active = ContentPack[3].id
        /\ Client!ResumeIndex(ContentPack, active, seed.learned) = 1

\* The journey never sticks or skips: after any number of words said in order
\* the active lesson holds the next word, and resuming shows that word.
ASSUME ResumeShowsNextWord ==
    \A n \in 0..Len(AllWords) - 1 :
        LET p == Spoken(n)
            active == Client!ActiveLesson(ContentPack, p.completed)
            index == Client!ResumeIndex(ContentPack, active, p.learned)
        IN  Client!WordAt(ContentPack, active, index) = AllWords[n + 1]

\* Speaking the whole pack completes it, and reaches the milestones and growth
\* stages of at most 80 words: the second stage, and not words-100.
ASSUME WholePackReaches ==
    LET p == Spoken(Len(AllWords))
    IN  /\ p.completed = Client!LessonIds(ContentPack)
        /\ Client!StageIndex(Len(p.learned)) = 2
        /\ BundledMilestones \ Client!EarnedMilestones(p, 7) = {[metric |-> "words", goal |-> 100]}

\* calcStreak's loop: the days in a row that end at d.
Back(days) == LET back[d \in -1..Today] == IF d \in days THEN 1 + back[d - 1] ELSE 0 IN back

\* The streak read off the set of days is what the loop of calcStreak counts,
\* for every set of days of a week.
ASSUME StreakIsTheLoop ==
    \A days \in SUBSET (0..Today) :
        Client!Streak(days, Today) = Back(days)[IF Today \in days THEN Today ELSE Today - 1]
=============================================================================
