----------------------------- MODULE Generation -----------------------------
(***************************************************************************)
(* The lesson-generation agent (contentgen), the authoring API through     *)
(* which it writes lessons, and the review commands, for the children of   *)
(* one category.                                                           *)
(*                                                                         *)
(* River hands every trigger to one of the workers of the contentgen       *)
(* process at least once: again after an error, and again after a crash.   *)
(* A run is a list of calls with a long model call in the middle, and no   *)
(* transaction spans two of them.  Ids are compared without case, so an id *)
(* stands for all its spellings.                                           *)
(***************************************************************************)
EXTENDS Integers, Sequences, FiniteSets, FiniteSetsExt

CONSTANTS
    Workers,            \* the River workers of the queue
    Triggers, NoTrigger,\* lesson.generation.requested jobs
    Children, Shared,   \* Shared stands for child_id NULL
    TriggerChild,       \* the child each trigger is for
    LessonIds, WordIds,
    Tokens,             \* words of the language other than function words
    Drafts, NoDraft,    \* lessons the generator may answer with
    Curriculum,         \* the shared lessons, in the order of their rows
    MinNewWords, MaxNewWords,
    MaxReviews,         \* bound: review commands
    MaxFaults           \* bound: failed calls and crashes

\* What validation can tell about a candidate lesson: whether it has the
\* client's schema, its ids, the tokens of its text, those of its labels and
\* title, a banned word or a personal question, an overlong sentence.
Draft == [wellFormed: BOOLEAN, id: LessonIds, words: SUBSET WordIds,
          uses: SUBSET Tokens, brings: SUBSET Tokens, unsafe: BOOLEAN, long: BOOLEAN]

LessonStatus == {"active", "pending_review", "retired"}

\* A row of table lessons.  job is the run that wrote it, seen the rows that
\* run was told about, review what people did to it: these are history.
LessonRecord == [child: Children \cup {Shared}, draft: Draft, order: Nat,
                 status: LessonStatus, job: Nat, seen: SUBSET Nat,
                 review: {"none", "reviewed", "revived"}]

\* A row of table generation_jobs; output is a row of lessons or none.
NoLesson == 0
GenerationJob == [trigger: Triggers, status: {"running", "completed", "needs_review", "failed"},
                  output: Nat, error: {"none", "generator", "rejected"}]

ASSUME GenerationAssumption ==
    /\ IsFiniteSet(Workers)
    /\ Shared \notin Children
    /\ NoTrigger \notin Triggers
    /\ TriggerChild \in [Triggers -> Children]
    /\ Drafts \subseteq Draft /\ NoDraft \notin Draft
    /\ Curriculum \in Seq(LessonRecord)
    /\ \A i \in DOMAIN Curriculum : Curriculum[i].child = Shared /\ Curriculum[i].job = 0
    /\ {MinNewWords, MaxNewWords, MaxReviews, MaxFaults} \subseteq Nat

VARIABLES
    known,          \* tokens of the words each child has mastered
    queue,          \* what River knows of each trigger
    lessons,        \* table lessons, row by row
    generationJobs, \* table generation_jobs, row by row
    pc,             \* the call each worker makes next
    trigger,        \* the trigger it works on
    gc,             \* the context it has gathered
    job,            \* its row of generation_jobs
    draft,          \* the generator's answer
    reviews, faults

tables == <<lessons, generationJobs>>
workerVars == <<pc, trigger, gc, job, draft>>
vars == <<known, queue, tables, workerVars, reviews, faults>>

GenContext == [known: SUBSET Tokens, words: SUBSET WordIds, ids: SUBSET LessonIds,
               next: Nat, seen: SUBSET Nat]
NoContext == [known |-> {}, words |-> {}, ids |-> {}, next |-> 0, seen |-> {}]

Init ==
    /\ known = [c \in Children |-> {}]
    /\ queue = [t \in Triggers |-> "none"]
    /\ lessons = Curriculum
    /\ generationJobs = <<>>
    /\ pc = [w \in Workers |-> "idle"]
    /\ trigger = [w \in Workers |-> NoTrigger]
    /\ gc = [w \in Workers |-> NoContext]
    /\ job = [w \in Workers |-> 0]
    /\ draft = [w \in Workers |-> NoDraft]
    /\ reviews = 0
    /\ faults = 0

-----------------------------------------------------------------------------
(***************************************************************************)
(* The queue and the worker's control                                      *)
(***************************************************************************)

Goto(w, step) == pc' = [pc EXCEPT ![w] = step]
Child(w) == TriggerChild[trigger[w]]

\* A completion finds the curriculum exhausted.
LessonGenerationRequested(t) ==
    /\ queue[t] = "none"
    /\ queue' = [queue EXCEPT ![t] = "available"]
    /\ UNCHANGED <<known, tables, workerVars, reviews, faults>>

Work(w) ==
    /\ pc[w] = "idle"
    /\ \E t \in Triggers :
        /\ queue[t] = "available"
        /\ queue' = [queue EXCEPT ![t] = "running"]
        /\ trigger' = [trigger EXCEPT ![w] = t]
    /\ Goto(w, "check")
    /\ UNCHANGED <<known, tables, gc, job, draft, reviews, faults>>

\* Run's variables are gone.
Forget(w) ==
    /\ gc' = [gc EXCEPT ![w] = NoContext]
    /\ job' = [job EXCEPT ![w] = 0]
    /\ draft' = [draft EXCEPT ![w] = NoDraft]

\* Run returns an error, and River makes the trigger available again.
Retry(w) ==
    /\ queue' = [queue EXCEPT ![trigger[w]] = "available"]
    /\ trigger' = [trigger EXCEPT ![w] = NoTrigger]
    /\ Goto(w, "idle")
    /\ Forget(w)

\* All that is left is to note the outcome in the row of generation_jobs.
FinishAs(w, outcome) ==
    /\ Goto(w, outcome)
    /\ gc' = [gc EXCEPT ![w] = NoContext]
    /\ draft' = [draft EXCEPT ![w] = NoDraft]

\* Run returns nil, which River still has to record.
Return(w) ==
    /\ Goto(w, "return")
    /\ Forget(w)
    /\ UNCHANGED <<queue, trigger>>

Complete(w) ==
    /\ pc[w] = "return"
    /\ queue' = [queue EXCEPT ![trigger[w]] = "completed"]
    /\ trigger' = [trigger EXCEPT ![w] = NoTrigger]
    /\ Goto(w, "idle")
    /\ UNCHANGED <<known, tables, gc, job, draft, reviews, faults>>

-----------------------------------------------------------------------------
(***************************************************************************)
(* Run                                                                     *)
(***************************************************************************)

Unretired == {i \in DOMAIN lessons : lessons[i].status # "retired"}

\* Faulty: a lesson that waits for review does not count.
ActiveAILessonExists(c) ==
    \E i \in DOMAIN lessons : lessons[i].child = c /\ lessons[i].status = "active"

PendingAILessonExists(c) ==
    \E i \in DOMAIN lessons :
        lessons[i].child = c /\ lessons[i].status \in {"active", "pending_review"}

CheckPending(w) ==
    /\ pc[w] = "check"
    /\ Goto(w, IF PendingAILessonExists(Child(w)) THEN "return" ELSE "known")
    /\ UNCHANGED <<known, queue, tables, trigger, gc, job, draft, reviews, faults>>

\* buildContext, query by query.
MasteredWordIDs(w) ==
    /\ pc[w] = "known"
    /\ gc' = [gc EXCEPT ![w].known = known[Child(w)]]
    /\ Goto(w, "existing")
    /\ UNCHANGED <<known, queue, tables, trigger, job, draft, reviews, faults>>

\* Faulty: the ids of a lesson that waits for review are free.
ExistingActive(w) ==
    /\ pc[w] = "existing"
    /\ LET rows == {i \in DOMAIN lessons : lessons[i].status = "active"}
       IN gc' = [gc EXCEPT ![w].words = UNION {lessons[i].draft.words : i \in rows},
                           ![w].ids = {lessons[i].draft.id : i \in rows},
                           ![w].seen = Unretired]
    /\ Goto(w, "lastIndex")
    /\ UNCHANGED <<known, queue, tables, trigger, job, draft, reviews, faults>>

\* The ids in use in the category, those of retired lessons excepted.
ExistingWordIDs(w) ==
    /\ pc[w] = "existing"
    /\ gc' = [gc EXCEPT ![w].words = UNION {lessons[i].draft.words : i \in Unretired},
                        ![w].ids = {lessons[i].draft.id : i \in Unretired},
                        ![w].seen = Unretired]
    /\ Goto(w, "lastIndex")
    /\ UNCHANGED <<known, queue, tables, trigger, job, draft, reviews, faults>>

\* One more than MAX(order_index), which is -1 for a category with no row.
LastOrderIndex(w) ==
    /\ pc[w] = "lastIndex"
    /\ gc' = [gc EXCEPT ![w].next = 1 + Max({-1} \cup {lessons[i].order : i \in DOMAIN lessons})]
    /\ Goto(w, "createJob")
    /\ UNCHANGED <<known, queue, tables, trigger, job, draft, reviews, faults>>

NewJob(w) ==
    generationJobs' = Append(generationJobs, [trigger |-> trigger[w], status |-> "running",
                                              output |-> NoLesson, error |-> "none"])

CreateJob(w) ==
    /\ pc[w] = "createJob"
    /\ NewJob(w)
    /\ job' = [job EXCEPT ![w] = Len(generationJobs) + 1]
    /\ Goto(w, "generate")
    /\ UNCHANGED <<known, queue, lessons, trigger, gc, draft, reviews, faults>>

OutOfScope(d, c) == d.uses \ (c.known \cup d.brings) # {}

\* Faulty: the reasons of the last check replace those of the one before.
ValidateLastReasons(d, c) ==
    IF \/ ~d.wellFormed \/ d.unsafe
       \/ d.id \in c.ids \/ d.words \cap c.words # {}
       \/ Cardinality(d.words) \notin MinNewWords..MaxNewWords
    THEN "reject"
    ELSE IF d.long THEN "needs_review" ELSE "approve"

\* The four checks: hard violations reject, heuristic ones ask for a review.
Validate(d, c) ==
    IF \/ ~d.wellFormed \/ d.unsafe
       \/ d.id \in c.ids \/ d.words \cap c.words # {}
       \/ Cardinality(d.words) \notin MinNewWords..MaxNewWords
    THEN "reject"
    ELSE IF OutOfScope(d, c) \/ d.long THEN "needs_review" ELSE "approve"

\* The generator answers with any lesson it likes; what becomes of it is
\* decided at once.
Generate(w) ==
    /\ pc[w] = "generate"
    /\ \E d \in Drafts :
        \/ /\ Validate(d, gc[w]) = "reject"
           /\ FinishAs(w, "rejected")
        \/ /\ Validate(d, gc[w]) # "reject"
           /\ draft' = [draft EXCEPT ![w] = d]
           /\ Goto(w, "store")
           /\ UNCHANGED gc
    /\ UNCHANGED <<known, queue, tables, trigger, job, reviews, faults>>

Approved(w) == Validate(draft[w], gc[w]) = "approve"

NewLesson(w) ==
    lessons' = Append(lessons,
        [child |-> Child(w), draft |-> draft[w], order |-> gc[w].next,
         status |-> IF Approved(w) THEN "active" ELSE "pending_review",
         job |-> job[w], seen |-> gc[w].seen, review |-> "none"])

\* No constraint of the table stands in the way.
StoreGenerated(w) ==
    /\ pc[w] = "store"
    /\ NewLesson(w)
    /\ FinishAs(w, IF Approved(w) THEN "completed" ELSE "needs_review")
    /\ UNCHANGED <<known, queue, generationJobs, trigger, job, reviews, faults>>

\* The row this worker's run has written.
Stored(w) == CHOOSE i \in DOMAIN lessons : lessons[i].job = job[w]

Update(w, status, output, error) ==
    generationJobs' = [generationJobs EXCEPT ![job[w]].status = status, ![job[w]].output = output,
                                             ![job[w]].error = error]

UpdateRow(w) ==
    \/ pc[w] = "failed" /\ Update(w, "failed", NoLesson, "generator")
    \/ pc[w] = "rejected" /\ Update(w, "failed", NoLesson, "rejected")
    \/ pc[w] \in {"completed", "needs_review"} /\ Update(w, pc[w], Stored(w), "none")

\* Faulty: the generator's error is noted and not returned.
EndOfRunSwallowing(w) ==
    /\ pc[w] \in {"failed", "rejected", "completed", "needs_review"}
    /\ Return(w)

\* After a generator's error that error is returned, otherwise nil.
EndOfRun(w) ==
    \/ pc[w] = "failed" /\ Retry(w)
    \/ pc[w] \in {"rejected", "completed", "needs_review"} /\ Return(w)

FinishJob(w) ==
    /\ UpdateRow(w)
    /\ EndOfRun(w)
    /\ UNCHANGED <<known, lessons, reviews, faults>>

Run(w) ==
    \/ CheckPending(w) \/ MasteredWordIDs(w) \/ ExistingWordIDs(w) \/ LastOrderIndex(w)
    \/ CreateJob(w) \/ Generate(w) \/ StoreGenerated(w) \/ FinishJob(w)

-----------------------------------------------------------------------------
(***************************************************************************)
(* What fails                                                              *)
(***************************************************************************)

Fault == faults < MaxFaults /\ faults' = faults + 1

\* No lesson, or none that can be parsed: the row is to say so.
GenerateFails(w) ==
    /\ pc[w] = "generate"
    /\ Fault
    /\ FinishAs(w, "failed")
    /\ UNCHANGED <<known, queue, tables, trigger, job, reviews>>

\* Faulty: River never hears of the error.
CallFailsUnreported(w) ==
    /\ pc[w] \in {"check", "known", "existing", "lastIndex", "createJob", "store"}
    /\ Fault
    /\ trigger' = [trigger EXCEPT ![w] = NoTrigger]
    /\ Goto(w, "idle")
    /\ Forget(w)
    /\ UNCHANGED <<known, queue, tables, reviews>>

\* A query or an insert returns an error, and so does Run.
CallFails(w) ==
    /\ pc[w] \in {"check", "known", "existing", "lastIndex", "createJob", "store"}
    /\ Fault
    /\ Retry(w)
    /\ UNCHANGED <<known, tables, reviews>>

\* Faulty: a failed insert is also noted in the audit row.
InsertErrorNoted(w) ==
    /\ \/ /\ pc[w] = "createJob" /\ NewJob(w) /\ UNCHANGED lessons
       \/ /\ pc[w] = "store" /\ NewLesson(w)
          /\ generationJobs' = [generationJobs EXCEPT ![job[w]].status = "failed"]
    /\ Fault
    /\ Retry(w)
    /\ UNCHANGED <<known, reviews>>

\* An insert is committed and an error arrives all the same.
InsertError(w) ==
    /\ \/ pc[w] = "createJob" /\ NewJob(w) /\ UNCHANGED lessons
       \/ pc[w] = "store" /\ NewLesson(w) /\ UNCHANGED generationJobs
    /\ Fault
    /\ Retry(w)
    /\ UNCHANGED <<known, reviews>>

\* The error of the last update is logged and forgotten.
FinishJobFails(w) ==
    /\ EndOfRun(w)
    /\ Fault
    /\ UNCHANGED <<known, tables, reviews>>

\* The process dies; River gives its triggers to the next one.
Crash ==
    /\ \E w \in Workers : pc[w] # "idle"
    /\ Fault
    /\ queue' = [t \in Triggers |-> IF queue[t] = "running" THEN "available" ELSE queue[t]]
    /\ pc' = [w \in Workers |-> "idle"]
    /\ trigger' = [w \in Workers |-> NoTrigger]
    /\ gc' = [w \in Workers |-> NoContext]
    /\ job' = [w \in Workers |-> 0]
    /\ draft' = [w \in Workers |-> NoDraft]
    /\ UNCHANGED <<known, tables, reviews>>

Failure(w) ==
    GenerateFails(w) \/ CallFails(w) \/ InsertError(w) \/ FinishJobFails(w)

-----------------------------------------------------------------------------
(***************************************************************************)
(* Everyone else                                                           *)
(***************************************************************************)

\* The child masters a word, for good.
Master(c) ==
    /\ \E token \in Tokens \ known[c] : known' = [known EXCEPT ![c] = @ \cup {token}]
    /\ UNCHANGED <<queue, tables, workerVars, reviews, faults>>

\* approve and reject take any lesson, whatever its status; a command that
\* changes nothing is left out.
SetStatus(i, status, review) ==
    /\ reviews < MaxReviews
    /\ lessons[i].status # status
    /\ reviews' = reviews + 1
    /\ lessons' = [lessons EXCEPT ![i].status = status, ![i].review = review]
    /\ UNCHANGED <<known, queue, generationJobs, workerVars, faults>>

Approve(i) ==
    SetStatus(i, "active", IF lessons[i].status = "retired" \/ lessons[i].review = "revived"
                           THEN "revived" ELSE "reviewed")
Reject(i) ==
    SetStatus(i, "retired", IF lessons[i].review = "revived" THEN "revived" ELSE "reviewed")

-----------------------------------------------------------------------------

Quiet ==
    /\ \A t \in Triggers : queue[t] = "completed"
    /\ UNCHANGED vars

Next ==
    \/ \E t \in Triggers : LessonGenerationRequested(t)
    \/ \E w \in Workers : Work(w) \/ Run(w) \/ Complete(w) \/ Failure(w)
    \/ Crash
    \/ \E c \in Children : Master(c)
    \/ \E i \in DOMAIN lessons : Approve(i) \/ Reject(i)
    \/ Quiet

GenerationSpec == Init /\ [][Next]_vars

-----------------------------------------------------------------------------
(***************************************************************************)
(* Properties                                                              *)
(***************************************************************************)

Generated == {i \in DOMAIN lessons : lessons[i].child # Shared}

\* Type invariant, with what a worker holds at each of its calls: River has a
\* trigger running exactly while one worker holds it, and a worker has a row
\* of its own from createJob to the end of the run.
GenerationTypeOK ==
    /\ known \in [Children -> SUBSET Tokens]
    /\ queue \in [Triggers -> {"none", "available", "running", "completed"}]
    /\ lessons \in Seq(LessonRecord)
    /\ generationJobs \in Seq(GenerationJob)
    /\ pc \in [Workers -> {"idle", "check", "known", "existing", "lastIndex", "createJob",
                           "generate", "store", "failed", "rejected", "completed", "needs_review", "return"}]
    /\ trigger \in [Workers -> Triggers \cup {NoTrigger}]
    /\ gc \in [Workers -> GenContext]
    /\ job \in [Workers -> 0..Len(generationJobs)]
    /\ draft \in [Workers -> Drafts \cup {NoDraft}]
    /\ {reviews, faults} \subseteq Nat
    /\ \A t \in Triggers : queue[t] = "running" <=> \E w \in Workers : trigger[w] = t
    /\ \A v, w \in Workers : v # w /\ trigger[v] # NoTrigger => trigger[v] # trigger[w]
    /\ \A w \in Workers :
        /\ pc[w] = "idle" <=> trigger[w] = NoTrigger
        /\ pc[w] \in {"generate", "store", "failed", "rejected", "completed", "needs_review"}
              <=> job[w] # 0
        /\ pc[w] = "store" <=> draft[w] # NoDraft

\* "a child never sees unreviewed content" (authoring.go 96, server/README.md
\* 41): every generated lesson is free of banned words, and one that became
\* active without a review is in the scope of what its child knows by now,
\* though it was validated against a vocabulary read before the model call.
ServedIsVetted ==
    \A i \in Generated : LET d == lessons[i].draft IN
        /\ d.wellFormed /\ ~d.unsafe
        /\ lessons[i].status = "active" /\ lessons[i].review = "none"
              => ~d.long /\ d.uses \subseteq known[lessons[i].child] \cup d.brings

\* "word ids are never reused" (authoring.go 38) and "a new lesson always
\* appends to the journey" (23): a generated lesson repeats no id of a lesson
\* that was in use when its run asked, whoever's it was, and comes after it,
\* whatever was stored, approved and retired during the model call.
BuiltOnWhatWasThere ==
    \A i \in Generated : \A k \in lessons[i].seen :
        /\ lessons[i].draft.id # lessons[k].draft.id
        /\ lessons[i].draft.words \cap lessons[k].draft.words = {}
        /\ lessons[k].order < lessons[i].order

Waiting(c) ==
    {i \in DOMAIN lessons : /\ lessons[i].child = c
                            /\ lessons[i].status # "retired"
                            /\ lessons[i].review # "revived"}

\* Lessons pile up only as far as runs that were under way at the same time
\* can take them: one for each worker, however many triggers, retries, crashes
\* and rejections there are.  (A lesson a person took back from retirement is
\* theirs to answer for.)
StackBounded == \A c \in Children : Cardinality(Waiting(c)) <= Cardinality(Workers)

\* The audit says what happened: a row that names a lesson names the one its
\* run stored for its child, "failed" means that nothing was stored, no lesson
\* has two rows, and without a fault no row is left "running" by its run.
RowsTruthful ==
    /\ \A j \in DOMAIN generationJobs : LET r == generationJobs[j] IN
        /\ r.status \in {"completed", "needs_review"} <=> r.output # NoLesson
        /\ r.output # NoLesson => /\ lessons[r.output].job = j
                                 /\ lessons[r.output].child = TriggerChild[r.trigger]
        /\ r.status = "failed" => \A i \in Generated : lessons[i].job # j
        /\ r.status = "running" /\ faults = 0 => \E w \in Workers : job[w] = j
    /\ \A i, k \in Generated : lessons[i].job = lessons[k].job => i = k

\* A trigger is through only for a reason: its child has, or had, a generated
\* lesson, or a lesson made for it was rejected; a row a fault left "running"
\* may hide the latter.  A failing generator is no reason ("River retries",
\* contentgen/service.go 69).
CompletedForAReason ==
    \A t \in Triggers : queue[t] = "completed" =>
        \/ \E i \in Generated : lessons[i].child = TriggerChild[t]
        \/ \E j \in DOMAIN generationJobs :
              /\ generationJobs[j].trigger = t
              /\ generationJobs[j].status = "running" \/ generationJobs[j].error = "rejected"

\* The audit rows and River's verdict on a trigger both say what happened.
AuditHolds == RowsTruthful /\ CompletedForAReason

\* "duplicate triggers ... must not stack up lessons the child hasn't even
\* seen yet" (contentgen/service.go 46): violated by two workers that both
\* check before either has stored.
NoStacking == \A c \in Children : Cardinality(Waiting(c)) <= 1
=============================================================================
