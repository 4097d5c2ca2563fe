-------------------------------- MODULE App ---------------------------------
(***************************************************************************)
(* The Bolo app on one device: the progress store (ProgressContext), the   *)
(* storage it is saved to, the content pack below it (PackCache) and the   *)
(* screens, from onboarding through the speaking session to the parent     *)
(* area.                                                                   *)
(*                                                                         *)
(* The root stack is a sequence of mounted screens; the last one is shown. *)
(* A screen keeps the revision it was last rendered with: its handlers     *)
(* and its word are that render's, while applyContentPack changes the      *)
(* lessons under it.  A dispatch renders every reader of the progress      *)
(* context again, mounted below or not, and their effects run before the   *)
(* next event, so a dispatch and its effects are one step (Commit).        *)
(* Navigation is React Navigation 7: navigate pushes unless the screen     *)
(* shown has that name, and mounted screens are not frozen.                *)
(***************************************************************************)
EXTENDS Journey, PackCache

CONSTANTS
    FirstDay,      \* the day of the first launch
    MaxDepth,      \* bound: screens on the root stack
    MaxPending,    \* bound: saves under way
    MaxMishaps     \* bound: midnights, relaunches, failed storage calls, backs

ASSUME AppAssumption ==
    /\ Newest = Len(Packs)
    /\ {FirstDay, MaxDepth, MaxPending, MaxMishaps} \subseteq Nat /\ MaxDepth > 0
    /\ CanSeed(Packs[Bundled])

VARIABLES
    day,        \* today
    progress,   \* the reducer's state, without the flag hydrated
    load,       \* the hydration: reading, done (hydrated), or dead
    memo,       \* the context value's memo: active lesson, streak, and its day
    disk,       \* bolo.progress.v1 in AsyncStorage: NoSave or <<a state>>
    pending,    \* saves not finished, oldest first
    stack,      \* the root stack
    said,       \* history: words, not of a seed, shown when the microphone was pressed
    marks,      \* history: what went wrong so far
    mishaps     \* midnights, relaunches, failed storage calls and backs so far

storeVars == <<progress, load, memo, disk, pending>>
vars == <<packVars, day, storeVars, stack, said, marks, mishaps>>

NoSave == <<>>
Marks == {"drift", "early", "uncached", "unread", "unwritten", "short"}

ActivePack == Packs[active]

Mishap == mishaps < MaxMishaps /\ mishaps' = mishaps + 1

\* Words any demo seed may have given.
SeedWords == UNION {Range(DemoSeed(Packs[r], FirstDay).learned) :
                        r \in {q \in Revisions : CanSeed(Packs[q])}}

-----------------------------------------------------------------------------
(* Screens.                                                                *)

Plain(name) == [screen |-> name]
Main == [screen |-> "Main", tab |-> "TalkTab", talk |-> <<"CompanionHub">>, rev |-> active]
Session(name, id, index) == [screen |-> name, lesson |-> id, index |-> index, rev |-> active]

SessionScreens == {"SayTheWord", "MicroConversation", "SoundPractice", "Feedback"}
ReadsProgress == {"Main", "Feedback", "GrowthCelebration"}

Top == Last(stack)
Shown(name) == booted /\ Top.screen = name

\* The word a session screen shows, as it was last rendered.
ShownWord(s) == WordAt(Packs[s.rev], s.lesson, s.index)

\* navigate: the screen shown takes the new parameters if it has the name.
Navigate(st, screen) ==
    IF Last(st).screen = screen.screen
    THEN [st EXCEPT ![Len(st)] = screen] ELSE Append(st, screen)

Fits(st) == Len(st) <= MaxDepth

Show(screen) ==
    /\ stack' = Navigate(stack, screen)
    /\ Fits(stack')

\* Only the screens change.
Moves == UNCHANGED <<packVars, day, storeVars, said, marks, mishaps>>

-----------------------------------------------------------------------------
(* The progress store.                                                     *)

Memo(p) == [lesson |-> ActiveLesson(ActivePack, p.completed),
            streak |-> Streak(p.days, day), day |-> day]

\* Feedback's effect runs when its word is new to it: on mount, and then
\* wherever the render this causes shows another word, of another pack.
EffectWord(s) == WordAt(ActivePack, s.lesson, s.index)
Drifted(s) == s.screen = "Feedback" /\ EffectWord(s) # ShownWord(s)

\* What the effects make of the state p, screen by screen; the top screen may
\* have just been mounted.
Effects(p, st, mounted) ==
    LET learned[i \in 0..Len(st)] ==
            IF i = 0 THEN IF mounted THEN LearnWord(p, EffectWord(Last(st)), day) ELSE p
            ELSE IF Drifted(st[i]) THEN LearnWord(learned[i - 1], EffectWord(st[i]), day)
            ELSE learned[i - 1]
    IN  learned

Learned(p, st, mounted) == Effects(p, st, mounted)[Len(st)]

Rerendered(st) ==
    [i \in DOMAIN st |-> IF st[i].screen \in ReadsProgress
                         THEN [st[i] EXCEPT !.rev = active] ELSE st[i]]

\* Faulty: saves the state from before the effects.
CommitStale(p, st, mounted) ==
    LET q == Learned(p, st, mounted)
    IN  /\ progress' = q /\ memo' = Memo(q)
        /\ stack' = Rerendered(st) /\ Fits(stack')
        /\ IF load' = "done"
           THEN Len(pending) < MaxPending /\ pending' = Append(pending, p)
           ELSE UNCHANGED pending

\* Faulty: saves before hydration too.
CommitUnhydrated(p, st, mounted) ==
    LET q == Learned(p, st, mounted)
    IN  /\ progress' = q /\ memo' = Memo(q)
        /\ stack' = Rerendered(st) /\ Fits(stack')
        /\ Len(pending) < MaxPending /\ pending' = Append(pending, q)

\* A dispatch that makes the state p while the stack is st, the effects of
\* the render it causes, and the save of the result.
Commit(p, st, mounted) ==
    LET q == Learned(p, st, mounted)
    IN  /\ progress' = q
        /\ memo' = Memo(q)
        /\ stack' = Rerendered(st)
        /\ Fits(stack')
        /\ IF load' = "done"
           THEN Len(pending) < MaxPending /\ pending' = Append(pending, q)
           ELSE UNCHANGED pending

StoreInit ==
    /\ progress = Nothing
    /\ load = "reading"
    /\ memo = [lesson |-> ActiveLesson(Packs[Bundled], {}), streak |-> 0, day |-> day]
    /\ pending = <<>>

InSession == \E i \in DOMAIN stack : stack[i].screen \in SessionScreens

\* The saved progress, or the seed, replaces whatever was dispatched before.
Hydrate(payload) ==
    /\ load' = "done"
    /\ Commit(payload, stack, FALSE)

\* The seed of a pack too short throws in the effect: nothing is dispatched.
SeedProgress ==
    IF CanSeed(ActivePack)
    THEN Hydrate(DemoSeed(ActivePack, day))
    ELSE load' = "dead" /\ UNCHANGED <<progress, memo, pending, stack>>

ReadProgress ==
    /\ load = "reading"
    /\ IF disk = NoSave THEN SeedProgress ELSE Hydrate(Head(disk))
    /\ marks' = marks \cup (IF InSession THEN {"early"} ELSE {})
    /\ UNCHANGED <<packVars, day, disk, said, mishaps>>

\* AsyncStorage throws, the fallback map is empty: as if nothing was saved.
ReadProgressFails ==
    /\ load = "reading" /\ Mishap
    /\ SeedProgress
    /\ marks' = marks \cup (IF disk = NoSave THEN {} ELSE {"unread"})
                      \cup (IF InSession THEN {"early"} ELSE {})
    /\ UNCHANGED <<packVars, day, disk, said>>

SaveDone ==
    /\ pending # <<>>
    /\ disk' = <<Head(pending)>>
    /\ pending' = Tail(pending)
    /\ UNCHANGED <<packVars, day, progress, load, memo, stack, said, marks, mishaps>>

\* The value stays in the fallback map, where no later launch finds it.
SaveFails ==
    /\ pending # <<>> /\ Mishap
    /\ pending' = Tail(pending)
    /\ marks' = marks \cup {"unwritten"}
    /\ UNCHANGED <<packVars, day, progress, load, memo, disk, stack, said>>

-----------------------------------------------------------------------------
(* Onboarding.                                                             *)

GetStarted == Shown("Welcome") /\ Show(Plain("CreateProfile")) /\ Moves
SignIn == Shown("Welcome") /\ Show(Plain("SignIn")) /\ Moves
SignedIn == Shown("SignIn") /\ Show(Plain("CreateProfile")) /\ Moves
Continue == Shown("CreateProfile") /\ Show(Plain("PickCompanion")) /\ Moves

\* Which friend is chosen changes only what is drawn.
OnChoose == Shown("PickCompanion") /\ Show(Plain("Hatching")) /\ Moves
Wake == Shown("Hatching") /\ Show(Main) /\ Moves

-----------------------------------------------------------------------------
(* The tabs and the talk stack inside Main.                                *)

TalkTop(name) == Shown("Main") /\ Top.tab = "TalkTab" /\ Last(Top.talk) = name

OpenTalk(name) ==
    /\ stack' = [stack EXCEPT ![Len(stack)] = [Top EXCEPT !.talk = Append(@, name), !.rev = active]]
    /\ Moves

OpenLessonMap == TalkTop("CompanionHub") /\ OpenTalk("LessonMap")

\* The flame chip of the hub, shown for a streak, or the word chip of the map.
OpenStreak ==
    /\ \/ TalkTop("CompanionHub") /\ memo.streak > 0
       \/ TalkTop("LessonMap")
    /\ OpenTalk("Streak")

\* Pressing the focused Talk tab pops its stack to the hub.
PressTab(tab) ==
    /\ Shown("Main")
    /\ stack' = [stack EXCEPT ![Len(stack)] =
                    IF Top.tab # tab THEN [@ EXCEPT !.tab = tab]
                    ELSE IF tab = "TalkTab" THEN [@ EXCEPT !.talk = <<"CompanionHub">>] ELSE @]
    /\ Moves

-----------------------------------------------------------------------------
(* The speaking session.                                                   *)

StartAt(id, index) == Show(Session("SayTheWord", id, index)) /\ Moves
Resume(id) == StartAt(id, ResumeIndex(ActivePack, id, progress.learned))

\* Let's Talk on the hub, and the empty journal's button.
StartSession ==
    /\ \/ TalkTop("CompanionHub")
       \/ /\ Shown("Main") /\ Top.tab = "JournalTab"
          /\ JournalEntries(ActivePack, progress.learned) = {}
    /\ Resume(memo.lesson)

\* The nodes of the map as last rendered.  A finished lesson starts over, a
\* locked one only shakes.
StatusOnMap(id) == LessonStatus(id, progress.completed, memo.lesson)

PressMapNode ==
    /\ TalkTop("LessonMap")
    /\ \E id \in LessonIds(Packs[Top.rev]) : StatusOnMap(id) = "done" /\ StartAt(id, 0)

PressActiveNode ==
    /\ TalkTop("LessonMap")
    /\ \E id \in LessonIds(Packs[Top.rev]) : StatusOnMap(id) = "active" /\ Resume(id)

Says(word) ==
    /\ said' = said \cup ({word} \ SeedWords)
    /\ UNCHANGED <<packVars, day, disk, marks, mishaps>>

SayTheWord ==
    /\ Shown("SayTheWord")
    /\ Show(Session("MicroConversation", Top.lesson, Top.index))
    /\ Says(ShownWord(Top))
    /\ UNCHANGED <<progress, load, memo, pending>>

\* Faulty: passes the next index on.
PraiseNext(below) ==
    LET st == Append(below, Session("Feedback", Top.lesson, Top.index + 1))
    IN  UNCHANGED load /\ Commit(progress, st, TRUE)

\* Feedback is mounted on the stack below and records its word.
Praise(below) ==
    LET st == Append(below, Session("Feedback", Top.lesson, Top.index))
    IN  UNCHANGED load /\ Commit(progress, st, TRUE)

\* The drill of the lesson comes once, before the praise of its middle word; if
\* the pack just lost it, its screen gives way to the praise when mounted.
TalkBack ==
    /\ Shown("MicroConversation")
    /\ IF /\ HasDrill(Packs[Top.rev], Top.lesson, Top.index)
          /\ GetLesson(ActivePack, Top.lesson).sound
       THEN /\ Show(Session("SoundPractice", Top.lesson, Top.index))
            /\ UNCHANGED <<progress, load, memo, pending>>
       ELSE Praise(stack)
    /\ Says(ShownWord(Top))

\* Faulty: navigate instead of replace.
GoToFeedbackOverDrill ==
    /\ Shown("SoundPractice")
    /\ Praise(stack)
    /\ UNCHANGED <<packVars, day, disk, said, marks, mishaps>>

\* replace: the drill is not under the praise.
GoToFeedback ==
    /\ Shown("SoundPractice")
    /\ Praise(Front(stack))
    /\ UNCHANGED <<packVars, day, disk, said, marks, mishaps>>

NextWord ==
    /\ Shown("Feedback")
    /\ ~IsLastWord(Packs[Top.rev], Top.lesson, Top.index)
    /\ StartAt(Top.lesson, Top.index + 1)

\* The celebration completes the lesson when it is mounted.
FinishLesson ==
    /\ Shown("Feedback")
    /\ IsLastWord(Packs[Top.rev], Top.lesson, Top.index)
    /\ UNCHANGED load
    /\ LET p == CompleteLesson(progress, Top.lesson, day)
           growth == [screen |-> "GrowthCelebration", lesson |-> Top.lesson, rev |-> active]
       IN  /\ Commit(p, Append(stack, growth), FALSE)
           /\ marks' = marks \cup
                (IF Range(GetLesson(ActivePack, Top.lesson).words) \subseteq Range(progress'.learned)
                 THEN {} ELSE {"short"})
    /\ UNCHANGED <<packVars, day, disk, said, mishaps>>

KeepGoing == Shown("GrowthCelebration") /\ Show(Main) /\ Moves

-----------------------------------------------------------------------------
(* The parent area.  Its gate opens on the check key, whatever was typed,  *)
(* so the digits are left out.                                             *)

OpenGate == TalkTop("CompanionHub") /\ Show(Plain("ParentGate")) /\ Moves

PressCheck ==
    /\ Shown("ParentGate")
    /\ Show([screen |-> "ParentArea", tab |-> "Progress"])
    /\ Moves

PressParentTab(tab) ==
    /\ Shown("ParentArea") /\ Top.tab # tab
    /\ stack' = [stack EXCEPT ![Len(stack)].tab = tab]
    /\ Moves

-----------------------------------------------------------------------------
(* Back: the innermost navigator that can go back does.                    *)

FirstTab(s) == IF s.screen = "Main" THEN "TalkTab" ELSE "Progress"

GoBack ==
    /\ booted
    /\ Mishap
    /\ \/ /\ Top.screen = "Main" /\ Top.tab = "TalkTab" /\ Len(Top.talk) > 1
          /\ stack' = [stack EXCEPT ![Len(stack)].talk = Front(@)]
       \/ /\ Top.screen \in {"Main", "ParentArea"} /\ Top.tab # FirstTab(Top)
          /\ stack' = [stack EXCEPT ![Len(stack)].tab = FirstTab(Top)]
       \/ /\ Top.screen = "Main" => Top.tab = "TalkTab" /\ Len(Top.talk) = 1
          /\ Top.screen = "ParentArea" => Top.tab = "Progress"
          /\ Len(stack) > 1
          /\ stack' = Front(stack)
    /\ UNCHANGED <<packVars, day, storeVars, said, marks>>

-----------------------------------------------------------------------------
(* Packs, days and launches.                                               *)

Boot ==
    /\ BootFromCache
    /\ UNCHANGED <<day, storeVars, stack, said, marks, mishaps>>

BootFails ==
    /\ BootWithoutCache /\ Mishap
    /\ marks' = marks \cup (IF cached = 0 THEN {} ELSE {"uncached"})
    /\ UNCHANGED <<day, storeVars, stack, said>>

StorePack ==
    /\ \E r \in Revisions : CachePack(r)
    /\ UNCHANGED <<day, storeVars, stack, said, marks, mishaps>>

\* Nothing renders: what is mounted keeps the pack it was rendered with.
ApplyContentPack ==
    /\ \E r \in Revisions :
        /\ SwapPack(r)
        /\ IF cached = r THEN UNCHANGED mishaps ELSE Mishap
        /\ marks' = marks
            \cup (IF cached # r THEN {"uncached"} ELSE {})
            \cup (IF InSession THEN {"drift"} ELSE {})
    /\ UNCHANGED <<day, storeVars, stack, said>>

NextDay ==
    /\ Mishap
    /\ day' = day + 1
    /\ UNCHANGED <<packVars, storeVars, stack, said, marks>>

\* The process ends, with the saves under way, and the app is opened again.
Relaunched ==
    /\ Mishap
    /\ Relaunch
    /\ progress' = Nothing
    /\ load' = "reading"
    /\ memo' = [lesson |-> ActiveLesson(Packs[Bundled], {}), streak |-> 0, day |-> day]
    /\ pending' = <<>>
    /\ stack' = <<Plain("Welcome")>>
    /\ UNCHANGED <<day, disk, said, marks>>

-----------------------------------------------------------------------------
Init ==
    /\ PackCacheInit
    /\ day = FirstDay
    /\ StoreInit
    /\ disk = NoSave
    /\ stack = <<Plain("Welcome")>>
    /\ said = {}
    /\ marks = {}
    /\ mishaps = 0

Store == ReadProgress \/ ReadProgressFails \/ SaveDone \/ SaveFails
Onboarding == GetStarted \/ SignIn \/ SignedIn \/ Continue \/ OnChoose \/ Wake
Tabs == OpenLessonMap \/ OpenStreak \/ \E tab \in {"TalkTab", "JournalTab", "RoomTab"} : PressTab(tab)
Speaking ==
    \/ StartSession \/ PressMapNode \/ PressActiveNode \/ SayTheWord \/ TalkBack \/ GoToFeedback
    \/ NextWord \/ FinishLesson \/ KeepGoing
Parents == OpenGate \/ PressCheck
           \/ \E tab \in {"Progress", "Account", "Plan"} : PressParentTab(tab)
Device == Boot \/ BootFails \/ StorePack \/ ApplyContentPack \/ NextDay \/ Relaunched

Next == Store \/ Onboarding \/ Tabs \/ Speaking \/ Parents \/ GoBack \/ Device

Spec == Init /\ [][Next]_vars
-----------------------------------------------------------------------------
(* Correctness.                                                            *)

IsProgress(p) ==
    /\ IsInjective(p.learned)
    /\ Range(p.learned) \subseteq AllWords
    /\ p.completed \subseteq AllIds
    /\ p.days \subseteq FirstDay - 6 .. day

\* The types of the variables.  No word is learned twice, and no day
\* practised lies ahead.
AppTypeOK ==
    /\ PackCacheTypeOK
    /\ IsProgress(progress)
    /\ load \in {"reading", "done", "dead"}
    /\ memo.streak \in Nat /\ memo.day <= day
    /\ Len(disk) <= 1 /\ \A p \in Range(disk) \cup Range(pending) : IsProgress(p)
    /\ stack # <<>> /\ Fits(stack) /\ stack[1] = Plain("Welcome")
    /\ marks \subseteq Marks

\* A word enters the journal because the child pressed the microphone while it
\* was shown, or it came with the demo seed (FeedbackScreen: saying the word is
\* what earns it).  Only a pack that arrives during a session breaks this.
EarnedWasSaid == "drift" \in marks \/ Range(progress.learned) \subseteq said \cup SeedWords

\* A lesson is completed when every word it has is in the journal, whatever
\* the child skipped by resuming (resumeIndex, FeedbackScreen.next).  A pack
\* that arrives during a session breaks this, and so does a hydration that
\* comes so late that it replaces the words of a session under way.
CompletedInFull == "short" \in marks => {"drift", "early"} \cap marks # {}

\* While the bundled pack is the only one, lessons are completed in journey
\* order, although the map's locks come from a value computed at the last
\* dispatch (lessonStatus, the memo of ProgressContext); but for a hydration
\* during a session, which may take back the lesson before.
JourneyInOrder ==
    active = Bundled /\ cached = 0 /\ {"uncached", "early"} \cap marks = {} =>
        \A j \in DOMAIN ActivePack : ActivePack[j].id \in progress.completed =>
            \A i \in 1..j : ActivePack[i].id \in progress.completed

\* What the progress holds was earned: every word, every lesson, in order.
ProgressIsEarned == EarnedWasSaid /\ CompletedInFull /\ JourneyInOrder

\* Once hydrated, with no save under way, what is stored is what is shown (the
\* persist effect of ProgressContext), unless a write failed.
QuietMeansSaved ==
    load = "done" /\ pending = <<>> /\ "unwritten" \notin marks => disk = <<progress>>

Holds(p, q) ==
    /\ IsPrefix(p.learned, q.learned)
    /\ p.completed \subseteq q.completed
    /\ p.days \subseteq q.days

\* A save never takes away what an earlier save held, across crashes, failed
\* writes and relaunches, so long as no read failed: a failed read puts the
\* demo seed over the child's progress (ProgressContext:147-161).
SavedNeverShrinks ==
    [][ disk # NoSave /\ "unread" \notin marks =>
            disk' # NoSave /\ Holds(Head(disk), Head(disk')) ]_disk

\* A newer pack has the words of the older ones.  Nothing checks this of a
\* publisher (pack.go validates each pack by itself).
PacksKeepWords ==
    \A r, s \in Revisions : r <= s => WordsOf(Packs[r]) \subseteq WordsOf(Packs[s])

\* The journal shows every word learned: the lessons that hold the words are in
\* the active pack whenever a screen is shown (VocabularyJournalScreen: the
\* words live here forever), if packs keep their words and unless the pack
\* they came from was lost from the cache.
JournalShowsAll ==
    booted /\ PacksKeepWords /\ "uncached" \notin marks =>
        JournalEntries(ActivePack, progress.learned) = Range(progress.learned)

\* The screen a screen of the session was opened from.
OpenedFrom(s, below) ==
    CASE s.screen = "MicroConversation" ->
            below.screen = "SayTheWord" /\ below.lesson = s.lesson /\ below.index = s.index
      [] s.screen \in {"SoundPractice", "Feedback"} ->
            below.screen = "MicroConversation" /\ below.lesson = s.lesson /\ below.index = s.index
      [] s.screen = "SayTheWord" ->
            \/ below.screen = "Main"
            \/ below.screen = "Feedback" /\ below.lesson = s.lesson /\ below.index + 1 = s.index
      [] s.screen = "GrowthCelebration" ->
            below.screen = "Feedback" /\ below.lesson = s.lesson
      [] OTHER -> TRUE

\* Going back from any screen of a session retraces it: the trail under it is
\* the same lesson's words one by one, with no drill or praise left in between
\* (navigate, replace and goBack on the root stack).
TrailCoherent == \A i \in 2..Len(stack) : OpenedFrom(stack[i], stack[i - 1])

\* The streak is computed at a dispatch and shown until the next.  The morning
\* after a day of practice it is still right, by the grace of calcStreak.
NightKeepsStreak ==
    day = memo.day + 1 /\ memo.day \in progress.days => memo.streak = Streak(progress.days, day)

\* What the screens show is what the child has: the journal, and the streak.
ShownIsTrue == JournalShowsAll /\ NightKeepsStreak

\* A milestone once shown as earned stays earned until the app is launched
\* again, except a streak after a day without practice, and the friend never
\* shrinks (StreakScreen and stageFor compute them from the current values).
EarnedUntilDaySkipped ==
    [][ load = "done" /\ load' = "done" =>
            /\ StageIndex(Len(progress'.learned)) >= StageIndex(Len(progress.learned))
            /\ \A m \in EarnedMilestones(progress, memo.streak) :
                \/ m \in EarnedMilestones(progress', memo'.streak)
                \/ m.metric = "streak" /\ day - 1 \notin progress.days ]_<<progress, memo, load>>
=============================================================================
