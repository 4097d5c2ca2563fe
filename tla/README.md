# Bolo: specifications, model checks and proofs

Bolo is a speech-practice app for children: a React Native client (`src/Bolo`)
and a Go server (`src/server`) whose modules share one PostgreSQL database, one
object store and a job queue (River).  This directory holds TLA+ modules of both,
the TLC configurations that check them, and proofs that TLAPS checks.  `PROJECT.json` lists the runs, the source
lines of every definition, the mutants, the hazards and the theorems.

    tlc -workers 2 -config Attempts.cfg MCAttempts.tla
    tlapm Attempts_proofs.tla

Every invariant and action property that a run checks is also proved, for every
value of the constants; section 4 says how.  Liveness is model-checked only.

## 1. Inventory

| Component | State it keeps | Operations | What makes it correct |
|---|---|---|---|
| learning: attempts (`learning/service.go`, `repository.go`) | `speech_attempts`, `mastery_words`, `weak_phonemes`, the audio bucket | RecordAttempt, SyncAttempts; UpsertMastery, BumpWeakPhoneme | one result per (session, client_key); no attempt counted twice; mastery earned and one-way |
| learning: retention (`worker.go`) | the same rows and bucket | RetentionSweep, started at process start, every 12 h and as a retry | nothing removed early, everything removed in the end, no reference dropped before its recording |
| learning: sessions (`service.go`) | `lesson_sessions` | StartSession, CompleteSession | a session is created once and frozen once; every answer is of the frozen window; what a summary promised stays true |
| companion (`companion/`) | `companions`, one row per child | Select, RecordMastery | a species is chosen once; the stage is never ahead of the child; growth is reported |
| reporting | `progress_snapshots` | RefreshSnapshot (job), WeeklyDigest (read) | the snapshot catches up with the mastery graph |
| contentgen | `generation_jobs` | Run (job), a long model call between check and store | one unplayed lesson per child; nothing unreviewed becomes active; every job row ends |
| content: authoring, review | `lessons` | StoreGenerated, SetStatus (command line) | reviewed transitions only |
| content: publishing | `lessons`, `content_packs`, the public bucket | Publish (command line) | a published revision never changes, the pointer names an object that is there, the newest when nobody raced |
| content: catalog, overlay | reads | Lesson, LessonAfter, ForChild | an overlay is of one moment: its revision and its lessons fit |
| identity: accounts, tokens | `parent_accounts`, `refresh_tokens` | Register, Login, Refresh | a refresh token is exchanged once; what a client holds works |
| identity: children | `child_profiles` | AddChild, ConfirmCategory | every age has a category |
| speech | none | Score, FeedbackFor | - |
| app: API client (`services/api`) | the token pair in memory and in storage | request, refresh (single flight), timeouts | a live session is not lost; a sign-out is final; every request ends |
| app: progress (`context/ProgressContext.tsx`) | learned words, completed lessons, days practised, in memory and in storage | hydrate, learnWord, completeLesson, the saves | nothing is earned that was not said, nothing saved is forgotten, what is stored is what is shown |
| app: content packs (`content/`) | the active pack and its cache | hydrateContentPack, refreshContentPack, applyContentPack | a child never gets an older pack; what was learned stays visible |
| app: screens (`screens/`, `navigation/`) | the root stack, the tabs, the talk stack | onboarding, the hub, the map, the speaking session, the parent area, back | going back retraces the session; lessons open in order |
| platform | - | queue, bucket, database, configuration | - |

How they interact.  The client talks to the server over HTTP and resends after
a timeout, live or later in a sync batch, under the same client-generated key.
Handlers of one process run concurrently and call the database one statement or
one transaction at a time, at READ COMMITTED; no lock and no transaction spans
two calls of a service.  CompleteSession calls into companion through a port and
enqueues two kinds of River jobs, `mastery.updated` (worked by reporting, ten at
a time) and `lesson.generation.requested` (worked by a separate process, two at a
time).  River delivers at least once and retries a job that returned an error.
The sweep shares rows and objects with the pipeline.  Publishing and
generation write the lessons the catalog reads.

The client as it is keeps a child's progress on the device and does not call the
server's learning API: no screen imports `services/api`.  What reaches it from the
server is the content pack, over the public bucket.  In the client nothing runs in
parallel, but every `await` (storage, fetch), every effect and every press is a
step of its own: the refresh of the pack goes on under the mounted screens, saves
are not awaited, and screens below the one shown stay mounted and render again.

What is hard: handlers that race for one unique key; read-modify-write across
transactions; a failure between two commits of one request; answers that are
lost after the commit; retries of what was half done; jobs that overlap; values
read before a slow call and used after it; on the device a pack that changes
under a running session, storage that fails, a process that ends anywhere,
midnight.  `PROJECT.json` lists each place under "hazards" with the property that
watches it, or with the reason why none does.

## 2. What is modelled

### AttemptLedger and Attempts

`AttemptLedger` is the promise: an utterance is stored at most once under its
(session, client_key), stored results never change, and a word is mastered only
because a stored utterance of it by that child reached the threshold.

`Attempts` is the code: RecordAttempt and SyncAttempts with one action per call.

| Action | Code |
|---|---|
| `Receive` | a live attempt or a sync batch arrives at an idle handler |
| `FindExisting` | the lookup by key; the checks of the audio and of the word |
| `ScoreAudio` | the scorer, the new id, the clock reading |
| `PutAudio`, `CreateAttempt`, `FindWinner` | the recording, the INSERT under its UNIQUE constraint, the second lookup of the loser |
| `ReadMastery`, `WriteMastery` | the SELECT and the committing write of UpsertMastery |
| `ReadWeakPhoneme`, `WriteWeakPhoneme` | the same for BumpWeakPhoneme |
| `Reply` | the answer |
| `CallFails`, `CreateAttemptError`, `Crash` | any call returns an error; the INSERT's error arrives though it may have been committed; the process dies |

A write that was committed although its call reported an error is also covered:
it is the write followed by a failure of the next call.
Scores are percentages, the average is kept as its sum.  `recorded_at`, the
feedback code and the response's layout decide nothing here and are left out, as
is the ownership check, which only refuses requests.  The session's status is
left out because the code never reads it: attempts count after completion too.

### Retention

Extends `Attempts` with the sweep: `StartSweep`, `FetchBatch` (the `retain_until`
query with its limit), `RemoveObject`, `ClearAudioRef`, `SweepFails`,
`ProcessCrash`.  Nothing keeps two sweeps apart (a retry and a periodic job, or
two processes), so several may run.  An object is named by the id of its
attempt, as its key is.

### Completion

Sessions and completions of one child, with the companion: `FindSession`,
`CreateSession`; `LoadSession` (the ownership middleware, whose row goes stale),
`MarkSessionCompleted`, `Reload`, `CountLesson`, `CountWindow`, `FindNext`,
`CountTotal`, `ReadCompanion`, `WriteCompanion`, `MasteryUpdated`, `Answer`;
`FindCompanion`, `CreateCompanion`; `CallFails`, `Crash`.  Attempts appear as
`Master`, which is what `AttemptLedger` allows them to do, with the one detail
that matters here: `first_mastered_at` is a clock reading from before the commit,
and a racing fold may write it again.  Clock readings between two calls are any
value between the clock at the call before and now.  A lesson's words, the order of the lessons and
the child's category are constants: publishing is `Packs`.

### Generation

The contentgen agent for the children of one category, with the authoring API
and the review commands.  A trigger is in River's hands (`queue`) until a
worker takes it (`Work`) and again after an error (`Retry`) or a crash.

| Action | Code |
|---|---|
| `LessonGenerationRequested`, `Work`, `Complete` | a completion enqueues; a worker takes the trigger; River records success |
| `CheckPending` | the idempotency check |
| `MasteredWordIDs`, `ExistingWordIDs`, `LastOrderIndex` | buildContext, query by query |
| `CreateJob`, `Generate`, `StoreGenerated`, `FinishJob` | the audit row, the model call with the verdict on its answer, the insert, the last update |
| `GenerateFails`, `CallFails`, `InsertError`, `FinishJobFails`, `Crash` | no usable lesson; a call returns an error; an insert is committed and returns one; the last update is lost; the process dies |
| `Master`, `Approve`, `Reject` | the child learns; the review commands, which take a lesson in any status |

The generator is external and answers with any of `Drafts`.  A draft is what
validation can tell about it: whether it has the client's schema, its ids, the
tokens of its text, whether it is unsafe or too long; `Validate` is the order of
the checks.  The only reason a trigger has in the code is `curriculum_exhausted`,
so the smaller size of remedial lessons is left out, as are the weak
phonemes and the species, which only word the prompt.  The fields `job`, `seen` and
`review` of a lesson are history.

### PackCache and Packs

`PackCache` is what the content source promises the screens: a launch starts with
the bundled revision, takes the cached one if that can be read and is newer, and
then the active revision only grows until the process ends.  `App` is built on
it, `Packs` implements it (`CachePromise`).

`Packs` follows a pack from the command line to a device, for one category.

| Action | Code |
|---|---|
| `Publish`, `CommitPack`, `PutPack`, `PutLatest`, `PublishFails` | the check of the last revision, outside the transaction; the transaction (lessons and record); the two uploads; any error or stop between them |
| `OverlayRevision`, `OverlayLessons`, `OverlayDone` | the two reads of an overlay request, with publishers between them |
| `HydrateContentPack`, `HydrateFails` | the boot: the cached pack if it is newer; storage that throws |
| `FetchLatest`, `FetchPack`, `FetchFails` | the pointer and the object, offline or timed out |
| `StorePack`, `StoreFails`, `ApplyContentPack` | the write to the cache, that falls back to memory; the swap |
| `Relaunch` | the process ends at any of these |

A publisher's transaction is one step: the rows of one category and the unique
(category, revision) make two of them serial.  A pack is a name, a revision and the
ids of its lessons; two packs may claim one revision.

### Journey and App

`Journey` is the pure part of the client: packs, progress, the reducer, and what
the screens derive (streak, active lesson, status on the map, resume index,
journal, growth stage, milestones).  `Content` holds the bundled pack, the stages and the
milestones as they are in the source, and assumptions about them that TLC
evaluates: ids are unique, every lesson has one drill before its last word, the
demo seed is a state that speaking reaches, resuming always shows the next word,
the streak of `Journey` is the loop of calcStreak on every set of days.
`Algorithms` does the same for the server's streakDays, ageInMonths and
suggestCategory: server and device agree on the streak of any past days.

`App` is the device as the child sees it.

| Action | Code |
|---|---|
| `ReadProgress`, `ReadProgressFails` | the hydration effect of ProgressProvider, with the demo seed when nothing is stored or storage throws |
| `SaveDone`, `SaveFails` | the saves under way, in order |
| `GetStarted`, `SignIn`, `SignedIn`, `Continue`, `OnChoose`, `Wake` | the onboarding screens |
| `OpenLessonMap`, `OpenStreak`, `PressTab` | the talk stack and the tab bar |
| `StartSession`, `PressMapNode`, `PressActiveNode` | the three ways into a lesson |
| `SayTheWord`, `TalkBack`, `GoToFeedback`, `NextWord`, `FinishLesson`, `KeepGoing` | the speaking session, with the effects that record a word and complete a lesson |
| `OpenGate`, `PressCheck`, `PressParentTab` | the parent area; its gate opens whatever was typed |
| `GoBack` | the hardware key and the back buttons, innermost navigator first |
| `Boot`, `BootFails`, `StorePack`, `ApplyContentPack` | the steps of PackCache, with the screens mounted over them |
| `NextDay`, `Relaunched` | midnight; the process ends with the saves under way |

The central definition is `Commit`: a dispatch makes a new state, every mounted
reader of the context renders again with the pack of that moment, the effects of
that render run (`Effects`: Feedback's once more wherever its word changed), and the
result is queued for storage if hydration is over.  A screen keeps `rev`, the pack it was
last rendered with, because applyContentPack renders nothing: a press acts on what
was drawn, the next render shows something else.  `marks` remembers the mishaps a
property may name: a pack that arrived during a session (`drift`), a hydration
that came during one (`early`), a cached pack that was lost (`uncached`), a read or a
write of the progress that failed (`unread`, `unwritten`).  `short`, a lesson finished
with words not learned, is no mishap: `CompletedInFull` says when it happens.

### Tokens

The API client and the server's refresh tokens, for one parent.  A pair of tokens
is a number.  `Send`, `Answer`, `RequestFails` are request with its one retry;
`RefreshAnswered`, `RefreshAborted`, `Write`, `WriteFails` the refresh and the
storage it awaits; `SelectToken`, `RevokeToken`, `IssueTokens`, `CallFails` the three
queries of Service.Refresh, which go on when the client has given up;
`SignIn`, `SignOut`, `LoadTokens`, `LoadFails`, `AccessExpires`, `RefreshTokenExpires`,
`Relaunch` the rest.  `marks` remembers what went wrong, so that each property
can name the failures that excuse it, and no others do.

## 3. The runs

| Run | Checks | Bounds, and why they are enough |
|---|---|---|
| `attempts` | the type invariant, `RepliesAgree`, `FoldsBacked`, `MasteredIsEarned`, `LoneAttemptExact`, `ImplementsLedger` (which makes stored results final and mastery one-way) | two handlers, three items of five kinds (two may come in one batch), one fault, two clock readings, a miss and a score exactly at the threshold.  Every race in the code is between two handlers; a third item retries what the race left |
| `attempts_lost_fold` | `AnsweredIsCounted`, violated | one handler, two items, one fault |
| `retention` | `RetentionTypeOK`, `RecordingsMatchRows` (`KeptUntilExpiry`, `ClearedMeansGone`), `ExpiredIsRemoved` | two attempts, two sweeps, batches of two, two faults; a recording made at 0 expires at 2, a later one does not, so a sweep meets both kinds |
| `retention_orphan` | `RecordingsAreSwept`, violated | one utterance sent twice, no fault |
| `completion` | `CompletionTypeOK`, `RowsFrozen` (`SessionFrozen`, `SpeciesFixed`), `AnswersUseStoredWindow`, `SummaryHolds`, `GrowthBacked`, `GrowthReportedUnlessFault` | two handlers, four requests to one key, two words, two lessons and three stages, one fault; four requests are a session, a companion and two completions of it |
| `completion_growth` | `GrowthIsReported`, violated | as above with fewer kinds of requests |
| `completion_delta` | `DeltaIsDeterministic`, violated | one session completed twice, no fault |
| `generation` | `GenerationTypeOK`, `ServedIsVetted`, `BuiltOnWhatWasThere`, `StackBounded`, `AuditHolds` (`RowsTruthful`, `CompletedForAReason`) | two workers as in cmd/contentgen, two triggers of one child, one shared lesson, a clean, a borderline and an unsafe draft (a draft collides with a stored copy of itself), two review commands, one fault.  A fault gives a third run, so that three lessons could pile up if the check did not count |
| `generation_stack` | `NoStacking`, violated | two triggers, no fault, no review |
| `app` | `AppTypeOK`, `ProgressIsEarned` (`EarnedWasSaid`, `CompletedInFull`, `JourneyInOrder`), `ShownIsTrue` (`JournalShowsAll`, `NightKeepsStreak`), `QuietMeansSaved`, `TrailCoherent`, `SavedNeverShrinks`, `EarnedUntilDaySkipped` | two packs of three lessons; the demo seed leaves the third lesson to speak, which has a drill and gets a word in its middle with the second pack; the drill, the resume, the last word and the celebration all come up.  Two mishaps (midnights, relaunches, failed storage calls, uncached swaps, backs), ten screens on the stack, two saves under way |
| `packs` | `PacksTypeOK`, `PublicSound` (`ObjectsRecorded`, `PointerServes`), `OverlayFresh`, `CaughtUp`, `NeverOlder`, `RevisionsImmutable`, `RefreshEnds`, `CachePromise` | two publishers, two commands, packs of revisions 1 to 3 of which two claim revision 2 and the third reorders and drops a lesson; one relaunch, two faults.  Every race is between two publishers, or one and a reader |
| `tokens` | `TokensTypeOK`, `SessionSurvives` (`HeldTokenWorks`, `SessionKept`), `SessionIsWanted`, `SpentOnce`, `RequestsSettle` | two requests, two sign-ins, two refresh calls, two faults: two requests meet one expiry, a sign-in meets a refresh, a call given up on runs beside its successor |

Besides its properties, `packs` evaluates the assumptions of
`Content` and `Algorithms`, over the whole bundled pack, every set of days of a week,
every age up to 160 months.

Deadlock is checked in every run but `app` and `tokens`, where the bounds (screens,
mishaps, sign-ins, calls) end every behaviour; the app itself always has a key to
press.  `Rest` (Attempts) and `Quiet` (Generation)
stutter when nothing is left to do, so a state with a request or a trigger that
no one can carry on would be found; in Retention a sweep can always start and
in Completion words can always be mastered again.  In `generation` every other
action is bounded or moves a run on, so with no deadlock every trigger comes to
its end if its worker's calls return.
The handlers, the workers and the triggers of one child are interchangeable,
which is the symmetry of `attempts`, `completion` and `generation`; `retention`
checks a liveness property and uses none.

Fairness is stated where a property needs it.  In `Packs` the boot and the refresh
get on: storage calls return, and the abort timer ends a fetch that would hang.
In `Tokens` a request sent is answered or aborted, the server runs a call it
has received, the refresh's fetch ends by an answer or by the abort timer, storage does
its writes.  Presses, publishers, sign-ins, relaunches and faults are not fair.
In `RetentionSpec`: the clock moves; a handler whose call can
return takes its step; a sweep that runs gets on, and River starts one again
(the 12-hour period, RunOnStart and the retry of failed jobs).  Faults are not
fair, and there are finitely many: a bucket that fails for ever keeps its
recordings.

### What the violations show

* `attempts_lost_fold`: the attempt is stored (service.go:177) and folded in
  (186) by separate transactions.  A failure in between makes the client retry;
  the retry is answered with the stored row (139), and no one ever folds it in:
  the child has a score over the threshold and the word is not mastered.
* `retention_orphan`: both handlers of a raced key store a recording (172), each
  under its own attempt id; the loser's has no row and the sweep never finds it.
* `completion_growth`: a failure after RecordMastery (271) and before the answer.
  The retry finds the companion grown and answers that it did not grow: at most
  once, where the comment (264-266) says at least once.
* `completion_delta`: an attempt scored before a completion and folded in after
  it.  The completion's retry counts it, in the window that was to be
  deterministic (repository.go:115-117).
* `generation_stack`: both workers check (contentgen/service.go:48) before either
  stores (81, 88), and nothing in the table stops the second lesson.
  `StackBounded` is what remains: one lesson for each worker.

`GrowthReportedUnlessFault` is the other half of `completion_growth`: without a fault no
interleaving loses a celebration, though a stale count may shrink the companion
for a while and a second completion celebrate again.

Further places where the code does not do what it says, seen while modelling, and
stated in the models as the exception a property names:

* client.ts:147 stores what a refresh returns, also when the parent signed out or
  in meanwhile (the mark `race` in `SessionIsWanted`).
* identity/service.go:69 answers any database error as an invalid token, and the
  client then clears its session (`failed` in `SessionKept`).
* content/index.ts says an update "can't corrupt anything the child has already
  earned": a pack that arrives during a session makes Feedback record a word nobody
  said, and a lesson end short (`drift` in `EarnedWasSaid` and `CompletedInFull`).
* The hydration replaces whatever was dispatched before it (ProgressContext:57-60).
  No screen waits for it, so one that comes when a session has begun takes back the
  words of that session and the lesson it started from: the lesson ends short, or
  the one before it is open again (`early` in `CompletedInFull` and `JourneyInOrder`).
* The journal says a word "will live here forever"; that holds while every newer pack
  has the words of the older ones (`PacksKeepWords`), which nothing checks.
* A storage read that throws at launch looks like a first launch, and the demo
  seed is saved over the child's progress (`unread` in `SavedNeverShrinks`).
* upsertLesson (content/service.go:98) keeps rows "in sync with the published
  pack", and leaves the lessons a pack dropped active.
* The bundled pack has 80 words: the milestone words-100 and the stages from 120
  words on are out of reach (`WholePackReaches` in `Content`).
* An attempt dated after the server's day makes its streak 0; the device skips
  such a day (`FutureDayEndsStreak` in `Algorithms`).

## 4. What is proved

Every theorem below holds for all values of the constants, under the named
assumption of its module, which TLC also evaluates in the runs.  The assumptions
give the constants their types and otherwise say only what the code guarantees:
the growth stages start at 0 words and increase (companion.go, StageFor), the
curriculum's lessons belong to no child, a pack lists a lesson once
(`IsInjective` in Packs), lesson ids and word ids of a pack are unique (pack.go,
Validate), and the bundled pack has the three lessons the demo seed takes apart.

No invariant worth stating is inductive by itself.  Each proof first proves a type
invariant, then layers on it further invariants, each inductive relative to those
before, until the property follows.  Where the actions are many, a lemma reduces
them to the few *events* a layer tells apart (`NextEvents` in `App_proofs`), so
that a later invariant is shown for those events only.

### Attempts

| Theorem | States |
|---|---|
| `TypeCorrect` | `Spec => []TypeOK` |
| `RetriesAgree`, `AnswersAreStored` | `RepliesAgree`, `RepliesStored` |
| `NoDoubleCounting`, `MissesAreBacked`, `FoldsAreBacked` | `CountBacked`, `MissesBacked` and both, `FoldsBacked` |
| `MasteryIsEarned`, `MasteryIsOneWay` | `MasteredIsEarned`, `MasteredStays` |
| `LoneAttemptsCount` | `LoneAttemptExact` |
| `PipelineImplementsLedger` | `ImplementsLedger` |

1. `TypeInv`: `TypeOK` is not inductive, since a handler takes the head of its
   batch and the fields of its draft; `HandlerOK` says that it has them, and that
   one past the mastery fold of a miss does need its bump.
2. `StoreInv`: at most one row per key, ids are unique and below `nextId`, a handler
   past its INSERT has its draft in the table, two handlers never hold the same
   draft, and every reply is a row.  `RetriesAgree` and `AnswersAreStored` follow.
3. `CountInv`: an attempt is *settled* when it is stored and no handler has
   yet to fold it in; what was folded of a word is settled and the count never
   exceeds the settled attempts, nor the count a handler has read.  Settled
   attempts only grow, so a stale write, which may lower the count, keeps it.  A
   count bounded by the stored attempts alone is not inductive: nothing would
   say that the attempt being folded in has not been counted already.
4. `MissInv`: the same for `miss_count`.
5. `MasteredIsEarned` is inductive with 1 and 2: an UPDATE writes
   `first_mastered_at` only from the draft in hand, whose row is stored.
   One-wayness is a property of `Folded`.
6. `LoneInv`: without a fault, a word nobody attempted has no mastery row, and the
   only attempt of a word is in its row or in the hands of one handler that has
   yet to fold it and that read no row.  `FoldsWait` says that no other handler is
   about to write that row.
7. Refinement: an INSERT is a `Store` step, a fold that masters a word is a
   `Master` step or leaves the pairs alone, everything else is a stutter.

### Retention

| Theorem | States |
|---|---|
| `RetentionTypeCorrect` | `RetentionTypeOK` |
| `RecordingsAreKept` | `RecordingsMatchRows`: `KeptUntilExpiry`, `ClearedMeansGone` |

The pipeline's steps are those of `Attempts`, so `TypeInv` is taken from there.
`RowsInv`: ids are unique across rows and drafts, and a handler about to insert has
put its recording.  `SweepInv`: every id in a batch is of a row that has expired
(`BatchOK`; the clock does not go back), and a sweep about to clear a reference
found the object gone.  No key is put twice, so what one sweep removed stays
removed for the other.

### Completion

| Theorem | States |
|---|---|
| `CompletionTypeCorrect` | `CompletionTypeOK` |
| `RowsAreFrozen` | `RowsFrozen`: `SessionFrozen`, `SpeciesFixed` |
| `AnswersAreOfTheWindow` | `AnswersUseStoredWindow` |
| `SummariesHold` | `SummaryHolds` |
| `GrowthIsBacked` | `GrowthBacked` |
| `GrowthIsCelebrated` | `GrowthReportedUnlessFault` |

1. `TypeInv`: which steps hold a session and a species (`SessionsOK`, `HandlerOK`).
2. Frozen rows are an action property: the guarded UPDATE and the INSERT of one
   row are the only writers.
3. `WindowInv`: a handler that has counted did so in the window that is stored, the
   loser of a race after its reload too.
4. `SummaryInv`: what a handler has counted so far is still mastered (mastering is
   one-way) and what it looked up is still the next lesson, at every step between.
5. `GrowthInv`: a total in a handler's hands is at most the words mastered now.
   `GrowthBacked` alone is not inductive: a stale total is written later.
6. `ReportInv`: without a fault, the stage shown was announced by an answer or by a
   handler on its way to one.

### Generation

| Theorem | States |
|---|---|
| `GenerationTypeCorrect` | `GenerationTypeOK` |
| `LessonsAreVetted` | `ServedIsVetted` |
| `LessonsBuildOn` | `BuiltOnWhatWasThere` |
| `StacksAreBounded` | `StackBounded` |
| `AuditsHold` | `AuditHolds`: `RowsTruthful`, `CompletedForAReason` |

1. `TypeInv`: who runs which trigger, which row a run has opened (`HeldOK`), and
   that a stored lesson belongs to its run (`StoredOK`).
2. `ServedInv`: the words a run was told of are still mastered, and what is about to
   be stored was not rejected.
3. `BuiltInv`: every lesson a run saw is among the ids and words it was told of, and
   its order index is below the next.
4. `StackInv`: unplayed lessons *and* runs past their check together are at most
   as many as the workers.  A run passes the check only where no lesson waits, so the
   ones past it are other workers; the bound on the lessons alone is not inductive.
5. `AuditInv`: a row is running only while its run is (without a fault), its output
   is a lesson of that run, and a trigger is completed for a reason that lasts.

### Packs

| Theorem | States |
|---|---|
| `PacksTypeCorrect` | `PacksTypeOK` |
| `PublicIsRecorded`, `PointerAlwaysServes`, `PublicIsSound` | `ObjectsRecorded`, `PointerServes` and both, `PublicSound` |
| `PublishedNeverChanges` | `RevisionsImmutable` |
| `PacksNeverGoBack`, `RefreshesCatchUp`, `OverlaysAreFresh` | `NeverOlder`, `CaughtUp`, `OverlayFresh` |
| `DeviceImplementsCache` | `CachePromise`, the refinement of `PackCache` |

1. `PacksInv`.  Its server half says that records have distinct
   revisions (`RecordsUnique`), that a publisher past its transaction holds a recorded
   pack and past its upload finds it in the bucket (`PublishersOK`), and that an
   object is recorded under its own revision (`ObjectsOK`).  Two publishers with one
   revision cannot both be past the transaction with different packs, so an upload
   either writes a free key or the same pack again.  Its device half (`DeviceOK`) says
   that a refresh past its comparison goes for a revision above the active one, which
   nothing but the refresh itself changes while the app runs: that makes the swap a
   step of `PackCache`.
2. `BestInv`: the best pack so far is active or in the cache, unless a cached one
   was lost.
3. `TurnInv` and `SeenInv`: while publishers do not overlap, the one uploading has
   the newest record, and when none is, the pointer names the newest; what a refresh
   has in hand is no older than what was published when it began.
4. `RowsInv` and `OverlayInv`: while publishers do not overlap, the rows of a
   recorded pack come from it or from a newer one, and an overlay that answered
   read them so.

### Tokens

| Theorem | States |
|---|---|
| `TokensTypeCorrect` | `TokensTypeOK` |
| `TokensSpentOnce` | `SpentOnce` |
| `SessionsAreWanted` | `SessionIsWanted` |
| `SessionsSurvive` | `SessionSurvives`: `HeldTokenWorks`, `SessionKept` |

1. `TypeInv`: a request that waits waits for the one refresh, a refresh that waits
   for storage has its write in the queue, nothing runs before the tokens are loaded.
2. `SpentInv`: a pair that was exchanged is dead, only the call of the refresh in
   flight still runs, and between its queries nobody has exchanged its token.
3. `StorageInv`: what storage will hold when its writes are done is what memory
   holds.
4. `WantedInv`: the pair in memory, in storage and in flight are of the sign-in last
   asked for, and `PassedOn`: an exchange passes the sign-in on.
5. `SurvivalInv`: outside a refresh the held token works, and during one it is the
   token presented, or the answer on its way, that does.

`TokensTypeOK` contains `RefreshWrites`, which step 1 needs.

### App

| Theorem | States |
|---|---|
| `TypesHold` | `AppTypeOK` |
| `TrailRetraced` | `TrailCoherent` |
| `QuietIsSaved`, `SavesGrow` | `QuietMeansSaved`, `SavedNeverShrinks` |
| `StreakSurvivesNight`, `JournalIsComplete`, `ScreensAreTrue` | `NightKeepsStreak`, `JournalShowsAll` and both, `ShownIsTrue` |
| `MilestonesStay` | `EarnedUntilDaySkipped` |
| `WhatIsHeldWasEarned` | `ProgressIsEarned`: `EarnedWasSaid`, `CompletedInFull`, `JourneyInOrder` |

1. `EffectsAre` and `LearnedGrows`: the recursive function `Effects` exists and what it
   computes has grown by words of those effects only.  The library's induction
   cannot be used; the least screen at which it would fail gives the contradiction
   (`SmallestOf` in `Extrema`).
2. `TypeInv`: the fields of every kind of screen, of the progress, of the saves.
   `NextEvents`: a step is a move between screens, a praise, a finished lesson, a
   hydration, a save, a change of pack, a midnight or a relaunch.
3. `TrailCoherent` is inductive: a screen is pushed on the one it opens from,
   and what a render or a press changes in place keeps a screen's lesson and index
   (`Alike`).
4. `SavedInv`: the newest save under way is the state shown; `ChainInv`: each save
   under way holds what the one before, and the stored one, held.
5. `StreakInv`: the streak shown is that of the memo's day, and no day practised is
   later.  `StreakGrows`: more days and a next day make no shorter streak.
6. `BootInv` (before the boot only the welcome is mounted) and `RevInv`: without
   `drift`, a session shows the active pack.
7. `SaidInv`: the words held, stored or being saved, and those of the screens past
   the microphone, were said or seeded.
8. `LearnedInv`: without `drift` and `early`, the words of a session's lesson before
   the one shown are learned; so the last word finishes the lesson in full.
9. `OrderInv`: while the bundled pack is the only one, the lessons completed, stored
   or being saved are its first ones, the memo has the first open one, and a session
   is in a lesson whose predecessors are completed.
10. `JournalInv`: the words held or stored are in the pack shown, or in the one the
    next boot will show.

`Extrema` proves what the others need of `Max` and `Min`.

### Only model-checked

Liveness under fairness (`ExpiredIsRemoved`, `RefreshEnds`, `RequestsSettle`) is out of
the prover's reach and stays with TLC.  So do the assumptions of `Content` and
`Algorithms`, which evaluate definitions on the bundled pack and on bounded inputs:
the recursive ones (calcStreak's loop) cannot be proved about for every input.
That deadlock is absent is checked by TLC in the runs that ask for it.

## 5. What is left

Worth adding next: a module for reporting's snapshot over the counts that
`Completion` leaves; the unlock cut of the overlay and the pack validators against
reference definitions.  Worth proving next: that the pure operators of `Journey`
meet reference definitions for every pack (the resume index is the first word not
learned; the status on the map opens one lesson at most); an abstract
specification of a session's completion that `Completion` implements.

## 6. Not modelled, and why

Styles, animation, fonts and icons hold no shared state.  The local state of a
screen (profile fields, the gate's digits, the journal's filter, the wardrobe of the
companion's room, the chosen friend) dies with the screen or changes only what is
drawn.  The branch of the hydration for a pack with fewer than three lessons is in
`App` (`SeedProgress`) and not met by its instance.  Reporting is one upsert of counts
that other modules keep, and reads.  The children of a family are single-row writes
of one parent; their category is `SuggestCategory`.  HTTP
parsing, logging and configuration are I/O around the handlers.  Password
hashing and token signing are used as black boxes.  The scorer and the language
model are external: the models choose any answer of theirs.  Of PostgreSQL
the models use what the code relies on: atomic statements, READ COMMITTED
transactions and unique constraints.
